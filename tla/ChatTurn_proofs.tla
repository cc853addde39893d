-------------------------- MODULE ChatTurn_proofs ---------------------------
(***************************************************************************)
(* Proofs about ChatTurn, for any number of messages, stop requests and    *)
(* rounds.                                                                 *)
(***************************************************************************)
EXTENDS ChatTurn, SequenceTheorems, TLAPS

USE TurnAssumption

LEMMA TypeInit == Init => TypeOK
<1>1. <<>> \in Seq(Senders) /\ 0 \in 0..MaxRounds
  OBVIOUS
<1>2. EmptyFrame \in Frame
  BY <1>1 DEF EmptyFrame, Frame
<1>3. Init => frame \in [Senders -> Frame]
  BY <1>2 DEF Init
<1>4. Init => pc \in [Senders -> SenderPC]
  BY DEF Init, SenderPC
<1>5. Init => queued \in Seq(Senders) /\ history \in Seq(Senders) /\ arrived \in Seq(Senders)
  BY DEF Init
<1>6. Init => stopper \in [Stoppers -> {"new", "stored", "done"}] /\ lost \in SUBSET Senders
  BY DEF Init
<1>7. Init => running \in BOOLEAN /\ stop \in BOOLEAN /\ stopped \in BOOLEAN
  BY DEF Init
<1>8. Init => seen \in Nat
  BY DEF Init
<1>. QED
  BY <1>3, <1>4, <1>5, <1>6, <1>7, <1>8 DEF TypeOK

LEMMA TypeStep == TypeOK /\ [Next]_vars => TypeOK'
<1> SUFFICES ASSUME TypeOK, [Next]_vars PROVE TypeOK'
  OBVIOUS
<1>. USE DEF TypeOK, SenderPC, OwnerPC, sharedVars
<1>1. ASSUME NEW s \in Senders, Enqueue(s) PROVE TypeOK'
  BY <1>1 DEF Enqueue, Goto
<1>2. ASSUME NEW s \in Senders, BeginTurn(s) PROVE TypeOK'
  <2>. DEFINE f == [frame[s] EXCEPT !.texts = <<s>>]
  <2>1. frame[s] \in Frame
    OBVIOUS
  <2>0. <<s>> \in Seq(Senders)
    OBVIOUS
  <2>2. f \in Frame
    BY <2>0, <2>1 DEF Frame
  <2>3. frame' = [frame EXCEPT ![s] = f]
    BY <1>2 DEF BeginTurn
  <2>4. frame' \in [Senders -> Frame]
    BY <2>2, <2>3
  <2>5. arrived' = Append(arrived, s) /\ arrived' \in Seq(Senders)
    BY <1>2 DEF BeginTurn
  <2>. QED
    BY <1>2, <2>4, <2>5 DEF BeginTurn, Goto
<1>3. ASSUME NEW s \in Senders, RecordPrompt(s) PROVE TypeOK'
  BY <1>3 DEF RecordPrompt, Goto
<1>4. ASSUME NEW s \in Senders, BuildContext(s) PROVE TypeOK'
  BY <1>4 DEF BuildContext, Goto
<1>5. ASSUME NEW s \in Senders, PushText(s) PROVE TypeOK'
  <2>. DEFINE f == [frame[s] EXCEPT !.texts = Tail(frame[s].texts)]
  <2>1. frame[s] \in Frame
    OBVIOUS
  <2>0. Tail(frame[s].texts) \in Seq(Senders)
    <3>1. frame[s].texts \in Seq(Senders) /\ frame[s].texts # <<>>
      BY <1>5, <2>1 DEF PushText, Frame
    <3>. QED  BY <3>1
  <2>2. f \in Frame
    BY <2>0, <2>1 DEF Frame
  <2>3. frame' = [frame EXCEPT ![s] = f]
    BY <1>5 DEF PushText
  <2>4. frame' \in [Senders -> Frame]
    BY <2>2, <2>3
  <2>5. history' \in Seq(Senders)
    <3>1. frame[s].texts \in Seq(Senders) /\ frame[s].texts # <<>>
      BY <1>5, <2>1 DEF PushText, Frame
    <3>2. Head(frame[s].texts) \in Senders
      BY <3>1
    <3>. QED  BY <1>5, <3>2 DEF PushText
  <2>. QED
    BY <1>5, <2>4, <2>5 DEF PushText
<1>6. ASSUME NEW s \in Senders, StartRounds(s) PROVE TypeOK'
  <2>. DEFINE f == [frame[s] EXCEPT !.round = 1, !.injected = FALSE]
  <2>1. frame[s] \in Frame
    OBVIOUS
  <2>0. 1 \in 0..MaxRounds
    OBVIOUS
  <2>2. f \in Frame
    BY <2>0, <2>1 DEF Frame
  <2>3. frame' = [frame EXCEPT ![s] = f]
    BY <1>6 DEF StartRounds
  <2>4. frame' \in [Senders -> Frame]
    BY <2>2, <2>3
  <2>. QED
    BY <1>6, <2>4 DEF StartRounds, Goto
<1>7. ASSUME NEW s \in Senders, EndTurn(s) PROVE TypeOK'
  BY <1>7 DEF EndTurn, Goto
<1>8. ASSUME NEW s \in Senders, FollowUpTurn(s) PROVE TypeOK'
  <2>. DEFINE f == [frame[s] EXCEPT !.texts = queued]
  <2>1. frame[s] \in Frame
    OBVIOUS
  <2>2. f \in Frame
    BY <2>1 DEF Frame
  <2>3. frame' = [frame EXCEPT ![s] = f]
    BY <1>8 DEF FollowUpTurn
  <2>4. frame' \in [Senders -> Frame]
    BY <2>2, <2>3
  <2>5. queued' \in Seq(Senders)
    BY <1>8 DEF FollowUpTurn
  <2>. QED
    BY <1>8, <2>4, <2>5 DEF FollowUpTurn, Goto
<1>9. ASSUME NEW s \in Senders, DropOwner(s) PROVE TypeOK'
  <2>. DEFINE f == [frame[s] EXCEPT !.texts = <<>>]
  <2>1. frame[s] \in Frame
    OBVIOUS
  <2>0. <<>> \in Seq(Senders)
    OBVIOUS
  <2>2. f \in Frame
    BY <2>0, <2>1 DEF Frame
  <2>3. frame' = [frame EXCEPT ![s] = f]
    BY <1>9 DEF DropOwner
  <2>4. frame' \in [Senders -> Frame]
    BY <2>2, <2>3
  <2>5. lost' \in SUBSET Senders
    <3>1. frame[s].texts \in Seq(Senders)
      BY <2>1 DEF Frame
    <3>2. \A i \in DOMAIN frame[s].texts : frame[s].texts[i] \in Senders
      BY <3>1
    <3>. QED  BY <1>9, <3>2 DEF DropOwner
  <2>. QED
    BY <1>9, <2>4, <2>5 DEF DropOwner
<1>10. ASSUME NEW s \in Senders, StopBetweenRounds(s) PROVE TypeOK'
  <2>. DEFINE f == [frame[s] EXCEPT !.unanswered = FALSE]
  <2>1. frame[s] \in Frame
    OBVIOUS
  <2>2. f \in Frame
    BY <2>1 DEF Frame
  <2>3. frame' = [frame EXCEPT ![s] = f]
    BY <1>10 DEF StopBetweenRounds, Return
  <2>4. frame' \in [Senders -> Frame]
    BY <2>2, <2>3
  <2>. QED
    BY <1>10, <2>4 DEF StopBetweenRounds, Return, Goto
<1>11. ASSUME NEW s \in Senders, NoStopBetweenRounds(s) PROVE TypeOK'
  BY <1>11 DEF NoStopBetweenRounds, Goto
<1>12. ASSUME NEW s \in Senders, TakeQueue(s) PROVE TypeOK'
  <2>. DEFINE f == [frame[s] EXCEPT !.texts = queued, !.injected = queued # <<>>]
  <2>1. frame[s] \in Frame
    OBVIOUS
  <2>2. f \in Frame
    BY <2>1 DEF Frame
  <2>3. frame' = [frame EXCEPT ![s] = f]
    BY <1>12 DEF TakeQueue
  <2>4. frame' \in [Senders -> Frame]
    BY <2>2, <2>3
  <2>. QED
    BY <1>12, <2>4 DEF TakeQueue, Goto
<1>13. ASSUME NEW s \in Senders, Injected(s) PROVE TypeOK'
  BY <1>13 DEF Injected, Goto
<1>14. ASSUME NEW s \in Senders, NextRound(s) PROVE TypeOK'
  <2>. DEFINE f == [frame[s] EXCEPT !.round = frame[s].round + 1, !.injected = FALSE]
  <2>1. frame[s] \in Frame
    OBVIOUS
  <2>0. frame[s].round + 1 \in 0..MaxRounds
    <3>1. frame[s].round \in 0..MaxRounds /\ frame[s].round < MaxRounds
      BY <1>14, <2>1 DEF NextRound, Frame
    <3>. QED  BY <3>1
  <2>2. f \in Frame
    BY <2>0, <2>1 DEF Frame
  <2>3. frame' = [frame EXCEPT ![s] = f]
    BY <1>14 DEF NextRound
  <2>4. frame' \in [Senders -> Frame]
    BY <2>2, <2>3
  <2>. QED
    BY <1>14, <2>4 DEF NextRound, Goto
<1>15. ASSUME NEW s \in Senders, LastRound(s) PROVE TypeOK'
  <2>. DEFINE f == [frame[s] EXCEPT !.unanswered = FALSE]
  <2>1. frame[s] \in Frame
    OBVIOUS
  <2>2. f \in Frame
    BY <2>1 DEF Frame
  <2>3. frame' = [frame EXCEPT ![s] = f]
    BY <1>15 DEF LastRound, Return
  <2>4. frame' \in [Senders -> Frame]
    BY <2>2, <2>3
  <2>. QED
    BY <1>15, <2>4 DEF LastRound, Return, Goto
<1>16. ASSUME NEW s \in Senders, Snapshot(s) PROVE TypeOK'
  <2>. DEFINE f == [frame[s] EXCEPT !.snapshot = Len(history), !.sending = FALSE, !.executed = FALSE]
  <2>1. frame[s] \in Frame
    OBVIOUS
  <2>0. Len(history) \in Nat
    OBVIOUS
  <2>2. f \in Frame
    BY <2>0, <2>1 DEF Frame
  <2>3. frame' = [frame EXCEPT ![s] = f]
    BY <1>16 DEF Snapshot
  <2>4. frame' \in [Senders -> Frame]
    BY <2>2, <2>3
  <2>. QED
    BY <1>16, <2>4 DEF Snapshot, Goto
<1>17. ASSUME NEW s \in Senders, Arm(s) PROVE TypeOK'
  <2>. DEFINE f == [frame[s] EXCEPT !.notified = FALSE]
  <2>1. frame[s] \in Frame
    OBVIOUS
  <2>2. f \in Frame
    BY <2>1 DEF Frame
  <2>3. frame' = [frame EXCEPT ![s] = f]
    BY <1>17 DEF Arm
  <2>4. frame' \in [Senders -> Frame]
    BY <2>2, <2>3
  <2>. QED
    BY <1>17, <2>4 DEF Arm, Goto
<1>18. ASSUME NEW s \in Senders, CheckClear(s) PROVE TypeOK'
  BY <1>18 DEF CheckClear, Goto
<1>19. ASSUME NEW s \in Senders, CheckStopped(s) PROVE TypeOK'
  <2>. DEFINE f == [frame[s] EXCEPT !.unanswered = ~frame[s].sending /\ frame[s].injected]
  <2>1. frame[s] \in Frame
    OBVIOUS
  <2>2. f \in Frame
    BY <2>1 DEF Frame
  <2>3. frame' = [frame EXCEPT ![s] = f]
    BY <1>19 DEF CheckStopped, Return
  <2>4. frame' \in [Senders -> Frame]
    BY <2>2, <2>3
  <2>. QED
    BY <1>19, <2>4 DEF CheckStopped, Return, Goto
<1>20. ASSUME NEW s \in Senders, Wake(s) PROVE TypeOK'
  BY <1>20 DEF Wake, Goto
<1>21. ASSUME NEW s \in Senders, Send(s) PROVE TypeOK'
  <2>. DEFINE f == [frame[s] EXCEPT !.sending = TRUE]
  <2>1. frame[s] \in Frame
    OBVIOUS
  <2>2. f \in Frame
    BY <2>1 DEF Frame
  <2>3. frame' = [frame EXCEPT ![s] = f]
    BY <1>21 DEF Send
  <2>4. frame' \in [Senders -> Frame]
    BY <2>2, <2>3
  <2>5. seen' \in Nat
    <3>1. frame[s].snapshot \in Nat
      BY <2>1 DEF Frame
    <3>. QED  BY <1>21, <3>1 DEF Send
  <2>. QED
    BY <1>21, <2>4, <2>5 DEF Send, Goto
<1>29. ASSUME NEW s \in Senders, PassStop(s) PROVE TypeOK'
  BY <1>29 DEF PassStop, Goto
<1>22. ASSUME NEW s \in Senders, StreamContent(s) PROVE TypeOK'
  BY <1>22 DEF StreamContent, StreamEvent, Goto
<1>23. ASSUME NEW s \in Senders, StreamAction(s) PROVE TypeOK'
  BY <1>23 DEF StreamAction, StreamEvent, Goto
<1>24. ASSUME NEW s \in Senders, StreamEnd(s) PROVE TypeOK'
  BY <1>24 DEF StreamEnd, StreamEvent, Goto
<1>25. ASSUME NEW s \in Senders, ActionHandled(s) PROVE TypeOK'
  <2>1. PICK executed \in BOOLEAN :
          frame' = [frame EXCEPT ![s] = [frame[s] EXCEPT !.executed = frame[s].executed \/ executed]]
    BY <1>25 DEF ActionHandled
  <2>. DEFINE f == [frame[s] EXCEPT !.executed = frame[s].executed \/ executed]
  <2>2. frame[s] \in Frame
    OBVIOUS
  <2>3. f \in Frame
    BY <2>2 DEF Frame
  <2>4. frame' \in [Senders -> Frame]
    BY <2>1, <2>3
  <2>. QED
    BY <1>25, <2>4 DEF ActionHandled, Goto
<1>26. ASSUME NEW t \in Stoppers, StoreStop(t) PROVE TypeOK'
  BY <1>26 DEF StoreStop
<1>27. ASSUME NEW t \in Stoppers, NotifyWaiters(t) PROVE TypeOK'
  <2>1. \A s \in Senders : [frame[s] EXCEPT !.notified = TRUE] \in Frame
    <3>1. \A f \in Frame : [f EXCEPT !.notified = TRUE] \in Frame
      BY DEF Frame
    <3>. QED  BY <3>1
  <2>2. frame' \in [Senders -> Frame]
    BY <1>27, <2>1 DEF NotifyWaiters
  <2>. QED
    BY <1>27, <2>2 DEF NotifyWaiters
<1>28. CASE UNCHANGED vars
  BY <1>28 DEF vars
<1>. QED
  BY <1>1, <1>2, <1>3, <1>4, <1>5, <1>6, <1>7, <1>8, <1>9, <1>10, <1>11, <1>12, <1>13, <1>14, <1>15, <1>16, <1>17, <1>18, <1>19, <1>20, <1>21, <1>22, <1>23, <1>24, <1>25, <1>26, <1>27, <1>28, <1>29
  DEF Next, Enter, Bookkeeping, Rounds, SlotReady, EventReady, Stream, Finished

-----------------------------------------------------------------------------
(* There is at most one owner, and running says whether there is one.      *)
LEMMA OneTurnInit == Init => OneTurn
  BY DEF Init, OneTurn, Owners, OwnerPC

LEMMA OneTurnStep == TypeOK /\ OneTurn /\ [Next]_vars => OneTurn'
<1> SUFFICES ASSUME TypeOK, OneTurn, [Next]_vars PROVE OneTurn'
  OBVIOUS
<1>. USE DEF OneTurn, Owners, OwnerPC, TypeOK
<1>1. ASSUME NEW s \in Senders, Enter(s) PROVE OneTurn'
  BY <1>1, SMTT(40) DEF Enter, Enqueue, BeginTurn, Goto
<1>2. ASSUME NEW s \in Senders, EndTurn(s) \/ DropOwner(s) PROVE OneTurn'
  BY <1>2, SMTT(40) DEF EndTurn, DropOwner, Goto
<1>3. ASSUME NEW s \in Senders, RecordPrompt(s) PROVE OneTurn'
  BY <1>3 DEF RecordPrompt, Goto, sharedVars
<1>4. ASSUME NEW s \in Senders,
             \/ BuildContext(s) \/ PushText(s) \/ StartRounds(s) \/ FollowUpTurn(s)
             \/ Rounds(s) \/ EventReady(s) \/ Stream(s) \/ ActionHandled(s)
      PROVE  OneTurn'
  <2>1. /\ pc[s] \in OwnerPC /\ running' = running
        /\ \E to \in OwnerPC : pc' = [pc EXCEPT ![s] = to]
    BY <1>4 DEF BuildContext, PushText, StartRounds, FollowUpTurn, Rounds, Stream, ActionHandled,
         StopBetweenRounds, NoStopBetweenRounds, TakeQueue, Injected, NextRound, LastRound,
         Snapshot, Arm, CheckClear, CheckStopped, Wake, SlotReady, EventReady, PassStop, Send,
         StreamContent, StreamAction, StreamEnd, StreamEvent, Return, Goto, sharedVars
  <2>. QED
    BY <2>1
<1>5. ASSUME NEW t \in Stoppers, StoreStop(t) \/ NotifyWaiters(t) PROVE OneTurn'
  BY <1>5 DEF StoreStop, NotifyWaiters, sharedVars
<1>6. CASE UNCHANGED vars
  BY <1>6 DEF vars, sharedVars
<1>. QED
  BY <1>1, <1>2, <1>3, <1>4, <1>5, <1>6 DEF Next, Bookkeeping, Finished

(* Once a stop request has returned the flag is up, and an owner that is   *)
(* past the check of the flag has been woken.                              *)
StopInv ==
    /\ stopped => stop
    /\ \A s \in Senders : stopped /\ pc[s] = "parked" => frame[s].notified

LEMMA StopInvInit == Init => StopInv
  BY DEF Init, StopInv

LEMMA StopInvStep == TypeOK /\ OneTurn /\ StopInv /\ [Next]_vars => StopInv'
<1> SUFFICES ASSUME TypeOK, OneTurn, StopInv, [Next]_vars PROVE StopInv'
  OBVIOUS
<1>. USE DEF StopInv, TypeOK
<1>1. ASSUME NEW s \in Senders, BeginTurn(s) \/ FollowUpTurn(s) PROVE StopInv'
  BY <1>1 DEF BeginTurn, FollowUpTurn
<1>2. ASSUME NEW s \in Senders, CheckClear(s) PROVE StopInv'
  BY <1>2 DEF CheckClear, Goto, sharedVars
<1>3. ASSUME NEW s \in Senders,
             \/ Enqueue(s) \/ RecordPrompt(s) \/ BuildContext(s) \/ PushText(s) \/ StartRounds(s)
             \/ EndTurn(s) \/ DropOwner(s)
             \/ StopBetweenRounds(s) \/ NoStopBetweenRounds(s) \/ TakeQueue(s) \/ Injected(s)
             \/ NextRound(s) \/ LastRound(s) \/ Snapshot(s) \/ Arm(s) \/ CheckStopped(s) \/ Wake(s)
             \/ PassStop(s) \/ Send(s) \/ Stream(s) \/ ActionHandled(s)
      PROVE  StopInv'
  <2>1. UNCHANGED <<stop, stopped>>
    BY <1>3 DEF Enqueue, RecordPrompt, BuildContext, PushText, StartRounds, EndTurn, DropOwner,
         StopBetweenRounds, NoStopBetweenRounds, TakeQueue, Injected, NextRound, LastRound,
         Snapshot, Arm, CheckStopped, Wake, PassStop, Send, Stream, StreamContent, StreamAction, StreamEnd,
         StreamEvent, ActionHandled, Return, sharedVars
  <2>2. \A r \in Senders : pc'[r] = "parked" => pc[r] = "parked" /\ frame'[r] = frame[r]
    BY <1>3 DEF Enqueue, RecordPrompt, BuildContext, PushText, StartRounds, EndTurn, DropOwner,
         StopBetweenRounds, NoStopBetweenRounds, TakeQueue, Injected, NextRound, LastRound,
         Snapshot, Arm, CheckStopped, Wake, PassStop, Send, Stream, StreamContent, StreamAction, StreamEnd,
         StreamEvent, ActionHandled, Return, Goto
  <2>. QED
    BY <2>1, <2>2
<1>4. ASSUME NEW t \in Stoppers, StoreStop(t) PROVE StopInv'
  BY <1>4 DEF StoreStop
<1>5. ASSUME NEW t \in Stoppers, NotifyWaiters(t) PROVE StopInv'
  <2>1. \A f \in Frame : [f EXCEPT !.notified = TRUE].notified = TRUE
    BY DEF Frame
  <2>. QED
    BY <1>5, <2>1 DEF NotifyWaiters, sharedVars
<1>6. CASE UNCHANGED vars
  BY <1>6 DEF vars, sharedVars
<1>. QED
  BY <1>1, <1>2, <1>3, <1>4, <1>5, <1>6 DEF Next, Enter, Bookkeeping, Rounds, SlotReady, EventReady, Finished

-----------------------------------------------------------------------------
(* Without dropped owners the texts are where they belong: an owner holds  *)
(* texts only on its way to the history, and nothing is queued when no     *)
(* turn runs.                                                              *)
TextsInOrder == arrived = history \o OwnerTexts \o queued

WellOrdered ==
    /\ \A s \in Owners : pc[s] \notin {"record", "context", "push", "inject"} => frame[s].texts = <<>>
    /\ Owners = {} => queued = <<>>
    /\ TextsInOrder

LEMMA WellOrderedInit == Init => WellOrdered
<1> SUFFICES ASSUME Init PROVE WellOrdered
  OBVIOUS
<1>1. Owners = {} /\ history = <<>> /\ queued = <<>> /\ arrived = <<>>
  BY DEF Init, Owners, OwnerPC
<1>2. <<>> \o <<>> \o <<>> = <<>>
  OBVIOUS
<1>. QED
  BY <1>1, <1>2 DEF WellOrdered, TextsInOrder, OwnerTexts

LEMMA OwnerTextsIs == ASSUME OneTurn, NEW s \in Owners PROVE OwnerTexts = frame[s].texts
  BY DEF OneTurn, OwnerTexts

LEMMA AppendRight ==
    \A h, o, q \in Seq(Senders), s \in Senders :
       Append(h \o o \o q, s) = h \o o \o Append(q, s)
<1> SUFFICES ASSUME NEW h \in Seq(Senders), NEW o \in Seq(Senders), NEW q \in Seq(Senders),
                    NEW s \in Senders
             PROVE  Append(h \o o \o q, s) = h \o o \o Append(q, s)
  OBVIOUS
<1>1. h \o o \in Seq(Senders) /\ h \o o \o q \in Seq(Senders) /\ <<s>> \in Seq(Senders)
  OBVIOUS
<1>2. Append(h \o o \o q, s) = (h \o o \o q) \o <<s>> /\ Append(q, s) = q \o <<s>>
  BY <1>1, AppendIsConcat
<1>3. (h \o o \o q) \o <<s>> = h \o o \o (q \o <<s>>)
  BY <1>1, ConcatAssociative, SMTT(40)
<1>. QED
  BY <1>2, <1>3

LEMMA MoveHead ==
    ASSUME NEW h \in Seq(Senders), NEW o \in Seq(Senders), o # <<>>
    PROVE  h \o o = Append(h, Head(o)) \o Tail(o)
  OBVIOUS

(* The steps that leave history, queue and the texts of the owner alone.   *)
TextsAlone(s) ==
    \/ RecordPrompt(s) \/ BuildContext(s) \/ StartRounds(s) \/ Stream(s)
    \/ ActionHandled(s) \/ StopBetweenRounds(s) \/ NoStopBetweenRounds(s)
    \/ Injected(s) \/ NextRound(s) \/ LastRound(s) \/ Snapshot(s) \/ Arm(s)
    \/ CheckClear(s) \/ CheckStopped(s) \/ Wake(s) \/ PassStop(s) \/ Send(s)

LEMMA TextsStay ==
    ASSUME TypeOK, NEW s \in Senders, TextsAlone(s)
    PROVE  /\ UNCHANGED <<history, arrived, queued, lost>>
           /\ Owners' = Owners
           /\ \A r \in Senders : frame'[r].texts = frame[r].texts
           /\ \A r \in Owners : pc'[r] \notin {"record", "context", "push", "inject"} =>
                 \/ pc[r] \notin {"record", "context", "push", "inject"}
                 \/ frame[r].texts = <<>>
           /\ \A r \in Senders : pc'[r] = "new" <=> pc[r] = "new"
<1>0. TextsAlone(s)
  OBVIOUS
<1>. USE DEF TextsAlone, RecordPrompt, BuildContext, StartRounds, Stream, ActionHandled,
       StopBetweenRounds, NoStopBetweenRounds, Injected, NextRound, LastRound,
       Snapshot, Arm, CheckClear, CheckStopped, Wake, PassStop, Send, StreamContent, StreamAction,
       StreamEnd, StreamEvent, Return, Goto, sharedVars
<1>1. UNCHANGED <<history, arrived, queued, lost>>
  BY <1>0
<1>2. Owners' = Owners
  BY <1>0, SMTT(40) DEF Owners, OwnerPC, TypeOK
<1>3. \A r \in Senders : frame'[r].texts = frame[r].texts
  <2>1. CASE UNCHANGED frame
    BY <2>1
  <2>2. CASE StartRounds(s)
    BY <2>2 DEF TypeOK, Frame
  <2>3. CASE NextRound(s)
    BY <2>3 DEF TypeOK, Frame
  <2>5. CASE Snapshot(s)
    BY <2>5 DEF TypeOK, Frame
  <2>9. CASE Arm(s)
    BY <2>9 DEF TypeOK, Frame
  <2>6. CASE StopBetweenRounds(s)
    BY <2>6 DEF TypeOK, Frame
  <2>10. CASE LastRound(s)
    BY <2>10 DEF TypeOK, Frame
  <2>7. CASE CheckStopped(s)
    BY <2>7 DEF TypeOK, Frame
  <2>8. CASE Send(s)
    BY <2>8 DEF TypeOK, Frame
  <2>4. CASE ActionHandled(s)
    BY <2>4 DEF TypeOK, Frame
  <2>. QED
    BY <1>0, <2>1, <2>2, <2>3, <2>4, <2>5, <2>6, <2>7, <2>8, <2>9, <2>10
<1>4. \A r \in Owners : pc'[r] \notin {"record", "context", "push", "inject"} =>
              \/ pc[r] \notin {"record", "context", "push", "inject"}
              \/ frame[r].texts = <<>>
  BY <1>0 DEF Owners, OwnerPC, TypeOK
<1>5. \A r \in Senders : pc'[r] = "new" <=> pc[r] = "new"
  BY <1>0 DEF TypeOK
<1>. QED
  BY <1>1, <1>2, <1>3, <1>4, <1>5

LEMMA WellOrderedStep ==
    NoneDropped' /\ TypeOK /\ OneTurn /\ WellOrdered /\ [Next]_vars => WellOrdered'
<1> SUFFICES ASSUME NoneDropped', TypeOK, OneTurn, WellOrdered, [Next]_vars PROVE WellOrdered'
  OBVIOUS
<1>a. OneTurn'
  BY TypeStep, OneTurnStep
<1>b. /\ queued \in Seq(Senders) /\ history \in Seq(Senders) /\ arrived \in Seq(Senders)
      /\ \A s \in Senders : frame[s].texts \in Seq(Senders)
  BY DEF TypeOK, Frame
<1>1. ASSUME NEW s \in Senders, Enqueue(s) PROVE WellOrdered'
  <2>1. Owners' = Owners /\ Owners # {} /\ frame' = frame
    BY <1>1 DEF Enqueue, Goto, Owners, OwnerPC, OneTurn, TypeOK
  <2>2. OwnerTexts' = OwnerTexts /\ OwnerTexts \in Seq(Senders)
    <3>1. PICK r \in Senders : r \in Owners
      BY <2>1 DEF Owners
    <3>2. OwnerTexts = frame[r].texts
      BY <3>1, OwnerTextsIs
    <3>. QED
      BY <2>1, <3>1, <3>2, <1>b DEF OwnerTexts
  <2>3. arrived' = Append(arrived, s) /\ queued' = Append(queued, s) /\ history' = history
    BY <1>1 DEF Enqueue
  <2>4. TextsInOrder'
    <3>1. Append(history \o OwnerTexts \o queued, s) = history \o OwnerTexts \o Append(queued, s)
      <4>0. queued \in Seq(Senders) /\ history \in Seq(Senders)
        BY <1>b
      <4>1. ASSUME NEW o \in Seq(Senders)
            PROVE  Append(history \o o \o queued, s) = history \o o \o Append(queued, s)
        BY <4>0, AppendRight, ZenonT(60)
      <4>. QED
        BY <2>2, <4>1, Zenon
    <3>. QED
      BY <2>2, <2>3, <3>1 DEF WellOrdered, TextsInOrder
  <2>5. \A r \in Owners : pc'[r] = pc[r]
    BY <1>1 DEF Enqueue, Goto, Owners, OwnerPC, TypeOK
  <2>. QED
    BY <2>1, <2>4, <2>5 DEF WellOrdered
<1>2. ASSUME NEW s \in Senders, BeginTurn(s) PROVE WellOrdered'
  <2>1. Owners = {} /\ queued = <<>> /\ Owners' = {s} /\ pc'[s] = "record"
    BY <1>2 DEF BeginTurn, Goto, Owners, OwnerPC, OneTurn, TypeOK, WellOrdered
  <2>2. frame'[s].texts = <<s>>
    BY <1>2 DEF BeginTurn, TypeOK, Frame
  <2>3. OwnerTexts' = <<s>>
    BY <2>1, <2>2 DEF OwnerTexts
  <2>4. arrived' = Append(arrived, s) /\ queued' = queued /\ history' = history
    BY <1>2 DEF BeginTurn
  <2>5. OwnerTexts = <<>>
    BY <2>1 DEF OwnerTexts
  <2>6. Append(history \o <<>> \o <<>>, s) = history \o <<s>> \o <<>>
    BY <1>b
  <2>7. TextsInOrder'
    BY <2>1, <2>3, <2>4, <2>5, <2>6 DEF WellOrdered, TextsInOrder
  <2>. QED
    BY <2>1, <2>7 DEF WellOrdered
<1>3. ASSUME NEW s \in Senders, PushText(s) PROVE WellOrdered'
  <2>1. s \in Owners /\ Owners' = Owners /\ pc' = pc
    BY <1>3 DEF PushText, Owners, OwnerPC
  <2>2. OwnerTexts = frame[s].texts /\ OwnerTexts' = Tail(frame[s].texts)
    <3>1. frame'[s].texts = Tail(frame[s].texts)
      BY <1>3 DEF PushText, TypeOK, Frame
    <3>. QED  BY <3>1, <2>1, OwnerTextsIs, <1>a DEF OwnerTexts, OneTurn
  <2>3. history' = Append(history, Head(frame[s].texts)) /\ arrived' = arrived /\ queued' = queued
    BY <1>3 DEF PushText
  <2>4. history \o OwnerTexts = history' \o OwnerTexts'
    BY <2>2, <2>3, <1>b, <1>3, MoveHead DEF PushText
  <2>5. TextsInOrder'
    BY <2>3, <2>4 DEF WellOrdered, TextsInOrder
  <2>6. \A r \in Owners' : r = s
    BY <1>a, <2>1 DEF OneTurn
  <2>. QED
    BY <2>1, <2>5, <2>6, <1>3 DEF WellOrdered, PushText
<1>4. ASSUME NEW s \in Senders, FollowUpTurn(s) \/ TakeQueue(s) PROVE WellOrdered'
  <2>1. s \in Owners /\ s \in Owners' /\ pc'[s] \in {"context", "inject"}
    BY <1>4 DEF FollowUpTurn, TakeQueue, Goto, Owners, OwnerPC, TypeOK
  <2>2. frame[s].texts = <<>>
    BY <1>4, <2>1 DEF FollowUpTurn, TakeQueue, Goto, WellOrdered
  <2>3. frame'[s].texts = queued /\ queued' = <<>> /\ arrived' = arrived /\ history' = history
    BY <1>4 DEF FollowUpTurn, TakeQueue, TypeOK, Frame
  <2>4. OwnerTexts = <<>> /\ OwnerTexts' = queued
    BY <2>1, <2>2, <2>3, OwnerTextsIs, <1>a DEF OwnerTexts, OneTurn
  <2>5. history \o <<>> \o queued = history \o queued \o <<>>
    BY <1>b
  <2>6. TextsInOrder'
    BY <2>3, <2>4, <2>5 DEF WellOrdered, TextsInOrder
  <2>7. \A r \in Owners' : r = s
    BY <1>a, <2>1 DEF OneTurn
  <2>. QED
    BY <2>1, <2>6, <2>7 DEF WellOrdered
<1>5. ASSUME NEW s \in Senders, EndTurn(s) PROVE WellOrdered'
  <2>1. s \in Owners /\ pc'[s] = "done" /\ \A r \in Senders \ {s} : pc'[r] = pc[r]
    BY <1>5 DEF EndTurn, Goto, Owners, OwnerPC, TypeOK
  <2>2. Owners' = {}
    BY <2>1 DEF Owners, OwnerPC, OneTurn
  <2>3. frame[s].texts = <<>> /\ OwnerTexts = <<>> /\ OwnerTexts' = <<>>
    BY <1>5, <2>1, <2>2, OwnerTextsIs DEF EndTurn, Goto, WellOrdered, OwnerTexts
  <2>4. UNCHANGED <<history, arrived, queued>> /\ queued = <<>>
    BY <1>5 DEF EndTurn
  <2>. QED
    BY <2>2, <2>3, <2>4 DEF WellOrdered, TextsInOrder
<1>6. ASSUME UNCHANGED <<history, arrived, queued>>, Owners' = Owners,
             \A s \in Senders : frame'[s].texts = frame[s].texts,
             \A s \in Owners : pc'[s] \notin {"record", "context", "push", "inject"} =>
                \/ pc[s] \notin {"record", "context", "push", "inject"}
                \/ frame[s].texts = <<>>
      PROVE  WellOrdered'
  <2>1. OwnerTexts' = OwnerTexts
    BY <1>6 DEF OwnerTexts, Owners
  <2>2. TextsInOrder'
    BY <1>6, <2>1 DEF WellOrdered, TextsInOrder
  <2>. QED
    BY <1>6, <2>2 DEF WellOrdered, Owners
<1>7. ASSUME NEW s \in Senders, TextsAlone(s) PROVE WellOrdered'
  BY <1>6, <1>7, TextsStay
<1>8. ASSUME NEW t \in Stoppers, StoreStop(t) \/ NotifyWaiters(t) PROVE WellOrdered'
  <2>1. \A r \in Senders : frame'[r].texts = frame[r].texts
    <3>1. \A f \in Frame : [f EXCEPT !.notified = TRUE].texts = f.texts
      BY DEF Frame
    <3>. QED  BY <1>8, <3>1 DEF StoreStop, NotifyWaiters, TypeOK
  <2>2. UNCHANGED <<history, arrived, queued, pc>>
    BY <1>8 DEF StoreStop, NotifyWaiters, sharedVars
  <2>. QED
    BY <1>6, <2>1, <2>2 DEF Owners
<1>9. CASE UNCHANGED vars
  BY <1>9, <1>6 DEF vars, sharedVars, Owners
<1>10. ASSUME NEW s \in Senders, DropOwner(s) PROVE FALSE
  BY <1>10 DEF DropOwner, NoneDropped, TypeOK
<1>. QED
  BY <1>1, <1>2, <1>3, <1>4, <1>5, <1>7, <1>8, <1>9, <1>10
  DEF Next, Enter, Bookkeeping, Rounds, SlotReady, EventReady, Finished, TextsAlone

(* A dropped owner does not come back.                                     *)
LEMMA DroppedStays == TypeOK /\ [Next]_vars /\ NoneDropped' => NoneDropped
<1> SUFFICES ASSUME TypeOK, [Next]_vars, NEW r \in Senders, pc[r] = "dropped"
             PROVE  pc'[r] = "dropped"
  BY DEF NoneDropped
<1>1. ASSUME NEW s \in Senders, Enter(s) \/ Bookkeeping(s) \/ EventReady(s) \/ Stream(s) \/ ActionHandled(s)
      PROVE  pc'[r] = "dropped"
  BY <1>1 DEF Enter, Enqueue, BeginTurn, Bookkeeping, RecordPrompt, BuildContext, PushText,
     StartRounds, EndTurn, FollowUpTurn, EventReady, Stream, StreamContent, StreamAction,
     StreamEnd, StreamEvent, PassStop, ActionHandled, Goto, TypeOK
<1>2. ASSUME NEW s \in Senders, Rounds(s) PROVE pc'[r] = "dropped"
  BY <1>2 DEF Rounds, StopBetweenRounds, NoStopBetweenRounds, TakeQueue, Injected, NextRound,
     LastRound, Snapshot, Arm, CheckClear, CheckStopped, Wake, SlotReady, PassStop, Send, Return,
     Goto, TypeOK
<1>3. ASSUME NEW s \in Senders, DropOwner(s) PROVE pc'[r] = "dropped"
  BY <1>3 DEF DropOwner, OwnerPC, TypeOK
<1>4. ASSUME NEW t \in Stoppers, StoreStop(t) \/ NotifyWaiters(t) PROVE pc'[r] = "dropped"
  BY <1>4 DEF StoreStop, NotifyWaiters, sharedVars
<1>. QED
  BY <1>1, <1>2, <1>3, <1>4 DEF Next, Finished, vars

-----------------------------------------------------------------------------
(* The types, for any number of messages, stop requests and rounds.        *)
THEOREM TypeCorrect == Spec => []TypeOK
  BY TypeInit, TypeStep, PTL DEF Spec

(* At most one turn runs, and running tells.                               *)
THEOREM OneTurnAtATime == Spec => []OneTurn
<1>1. Init => TypeOK /\ OneTurn
  BY TypeInit, OneTurnInit
<1>2. (TypeOK /\ OneTurn) /\ [Next]_vars => (TypeOK /\ OneTurn)'
  BY TypeStep, OneTurnStep
<1>. QED
  BY <1>1, <1>2, PTL DEF Spec

(* No poll gets past the stop once a stop request has returned.            *)
THEOREM StopIsRespected == Spec => NoSendAfterStop
<1>. DEFINE Inv == TypeOK /\ OneTurn /\ StopInv
            Silent == \A s \in Senders :
                         stopped /\ pc[s] # "polled" => pc'[s] # "polled" /\ ~Send(s)
<1>1. Init => Inv
  BY TypeInit, OneTurnInit, StopInvInit
<1>2. Inv /\ [Next]_vars => Inv'
  BY TypeStep, OneTurnStep, StopInvStep
<1>3. Inv /\ [Next]_vars => Silent
  <2> SUFFICES ASSUME Inv, [Next]_vars, NEW s \in Senders, stopped, pc[s] # "polled"
               PROVE  pc'[s] # "polled" /\ ~Send(s)
    OBVIOUS
  <2>1. ~Send(s)
    BY DEF Send, Goto
  <2>2. ASSUME NEW r \in Senders, PassStop(r) PROVE pc'[s] # "polled"
    BY <2>2 DEF PassStop, Goto, StopInv, TypeOK
  <2>3. ASSUME NEW r \in Senders, NEW from, NEW to \in SenderPC, Goto(r, from, to), to # "polled"
        PROVE  pc'[s] # "polled"
    BY <2>3 DEF Goto, TypeOK
  <2>4. ASSUME pc' = pc PROVE pc'[s] # "polled"
    BY <2>4
  <2>5. ASSUME NEW r \in Senders, Enter(r) \/ Bookkeeping(r) PROVE pc'[s] # "polled"
    BY <2>3, <2>4, <2>5 DEF Enter, Bookkeeping, Enqueue, BeginTurn, RecordPrompt, BuildContext,
         PushText, StartRounds, EndTurn, FollowUpTurn, SenderPC, OwnerPC
  <2>6. ASSUME NEW r \in Senders, Rounds(r) PROVE pc'[s] # "polled"
    BY <2>2, <2>3, <2>6 DEF Rounds, StopBetweenRounds, NoStopBetweenRounds, TakeQueue, Injected,
         NextRound, LastRound, Snapshot, Arm, CheckClear, CheckStopped, Wake, SlotReady, Send,
         Return, SenderPC, OwnerPC
  <2>7. ASSUME NEW r \in Senders, EventReady(r) \/ Stream(r) \/ ActionHandled(r)
        PROVE  pc'[s] # "polled"
    BY <2>2, <2>3, <2>7 DEF EventReady, Stream, StreamContent, StreamAction, StreamEnd,
         StreamEvent, ActionHandled, SenderPC, OwnerPC
  <2>8. ASSUME NEW r \in Senders, DropOwner(r) PROVE pc'[s] # "polled"
    BY <2>8 DEF DropOwner, TypeOK
  <2>. QED
    BY <2>1, <2>4, <2>5, <2>6, <2>7, <2>8
    DEF Next, StoreStop, NotifyWaiters, Finished, vars
<1>4. Spec => [][Silent]_vars
  BY <1>1, <1>2, <1>3, PTL DEF Spec
<1>. QED
  BY <1>4 DEF NoSendAfterStop

(* As long as no owner is dropped, the history gets every text once and in *)
(* the order of sending.                                                   *)
THEOREM TextsKeepTheirOrder == Spec => []OrderKept
<1>. DEFINE Inv == TypeOK /\ OneTurn /\ (NoneDropped => WellOrdered)
<1>1. Init => Inv
  BY TypeInit, OneTurnInit, WellOrderedInit
<1>2. Inv /\ [Next]_vars => Inv'
  BY TypeStep, OneTurnStep, WellOrderedStep, DroppedStays
<1>3. Inv => OrderKept
  BY DEF WellOrdered, TextsInOrder, OrderKept
<1>. QED
  BY <1>1, <1>2, <1>3, PTL DEF Spec

-----------------------------------------------------------------------------
(* Also when owners are dropped: every text is in one place, in the        *)
(* history, with the owner, in the queue or lost, and in that place once.  *)
Once(q) == \A i, j \in DOMAIN q : q[i] = q[j] => i = j

PlacesApart ==
    /\ Once(history) /\ Once(OwnerTexts) /\ Once(queued)
    /\ Elements(history) \cap Elements(OwnerTexts) = {}
    /\ Elements(history) \cap Elements(queued) = {}
    /\ Elements(OwnerTexts) \cap Elements(queued) = {}
    /\ (Elements(history) \cup Elements(OwnerTexts) \cup Elements(queued)) \cap lost = {}
    /\ Elements(history) \cup Elements(OwnerTexts) \cup Elements(queued) \cup lost
          = Elements(arrived)

OnTheWay ==
    \A s \in Owners : pc[s] \notin {"record", "context", "push", "inject"} => frame[s].texts = <<>>

ArrivedOnce == \A s \in Senders : pc[s] = "new" => s \notin Elements(arrived)

TextsOnce == PlacesApart /\ OnTheWay /\ ArrivedOnce

LEMMA OnceEmpty == Once(<<>>) /\ Elements(<<>>) = {}
  BY DEF Once, Elements

LEMMA OnceOne == \A s : Once(<<s>>) /\ Elements(<<s>>) = {s}
  BY DEF Once, Elements

LEMMA OnceAppend ==
    ASSUME NEW q \in Seq(Senders), NEW s \in Senders
    PROVE  /\ Elements(Append(q, s)) = Elements(q) \cup {s}
           /\ Once(q) /\ s \notin Elements(q) => Once(Append(q, s))
<1>1. /\ DOMAIN Append(q, s) = 1..(Len(q) + 1) /\ DOMAIN q = 1..Len(q) /\ Len(q) \in Nat
      /\ \A i \in DOMAIN q : Append(q, s)[i] = q[i]
      /\ Append(q, s)[Len(q) + 1] = s
  OBVIOUS
<1>2. \A i \in DOMAIN Append(q, s) : i \in DOMAIN q \/ i = Len(q) + 1
  BY <1>1
<1>3. Len(q) + 1 \in DOMAIN Append(q, s) /\ DOMAIN q \subseteq DOMAIN Append(q, s)
  BY <1>1
<1>. QED
  BY <1>1, <1>2, <1>3 DEF Elements, Once

LEMMA OnceTail ==
    ASSUME NEW q \in Seq(Senders), q # <<>>
    PROVE  /\ Elements(q) = {Head(q)} \cup Elements(Tail(q))
           /\ Once(q) => Once(Tail(q)) /\ Head(q) \notin Elements(Tail(q))
<1>. DEFINE t == Tail(q)
<1>1. /\ DOMAIN q = 1..Len(q) /\ Len(q) \in Nat \ {0} /\ DOMAIN t = 1..(Len(q) - 1)
      /\ \A i \in DOMAIN t : t[i] = q[i + 1] /\ i + 1 \in DOMAIN q
      /\ Head(q) = q[1] /\ 1 \in DOMAIN q
  OBVIOUS
<1>2. \A i \in DOMAIN q : i = 1 \/ (i - 1 \in DOMAIN t /\ t[i - 1] = q[i])
  BY <1>1
<1>3. \A i \in DOMAIN t : i \in Nat /\ i # 0
  BY <1>1
<1>. HIDE DEF t
<1>4. Elements(q) = {Head(q)} \cup Elements(t)
  BY <1>1, <1>2 DEF Elements
<1>5. ASSUME Once(q) PROVE Once(t) /\ Head(q) \notin Elements(t)
  <2>1. Once(t)
    BY <1>1, <1>3, <1>5 DEF Once
  <2>2. \A i \in DOMAIN t : t[i] # Head(q)
    BY <1>1, <1>3, <1>5 DEF Once
  <2>. QED
    BY <2>1, <2>2 DEF Elements
<1>. QED
  BY <1>4, <1>5 DEF t

LEMMA OnceConcat ==
    ASSUME NEW p \in Seq(Senders), NEW q \in Seq(Senders)
    PROVE  /\ Elements(p \o q) = Elements(p) \cup Elements(q)
           /\ Once(p) /\ Once(q) /\ Elements(p) \cap Elements(q) = {} => Once(p \o q)
<1>. DEFINE r == p \o q
<1>1. /\ DOMAIN p = 1..Len(p) /\ DOMAIN q = 1..Len(q) /\ DOMAIN r = 1..(Len(p) + Len(q))
      /\ Len(p) \in Nat /\ Len(q) \in Nat
      /\ \A i \in DOMAIN p : r[i] = p[i]
      /\ \A i \in DOMAIN q : r[Len(p) + i] = q[i]
  OBVIOUS
<1>2. /\ \A i \in DOMAIN r : i \in DOMAIN p \/ (i - Len(p) \in DOMAIN q /\ r[i] = q[i - Len(p)])
      /\ \A i \in DOMAIN p : i \in DOMAIN r
      /\ \A i \in DOMAIN q : Len(p) + i \in DOMAIN r
  <2>1. \A i \in DOMAIN r : i \in DOMAIN p \/ i - Len(p) \in DOMAIN q
    BY <1>1
  <2>2. \A i \in DOMAIN r : i - Len(p) \in DOMAIN q => r[Len(p) + (i - Len(p))] = q[i - Len(p)]
    BY <1>1
  <2>3. \A i \in DOMAIN r : Len(p) + (i - Len(p)) = i
    BY <1>1
  <2>. QED
    BY <1>1, <2>1, <2>2, <2>3
<1>. HIDE DEF r
<1>3. Elements(r) = Elements(p) \cup Elements(q)
  BY <1>1, <1>2 DEF Elements
<1>4. ASSUME Once(p), Once(q), Elements(p) \cap Elements(q) = {} PROVE Once(r)
  <2> SUFFICES ASSUME NEW i \in DOMAIN r, NEW j \in DOMAIN r, r[i] = r[j] PROVE i = j
    BY DEF Once
  <2>1. CASE i \in DOMAIN p /\ j \in DOMAIN p
    BY <1>1, <1>4, <2>1 DEF Once
  <2>2. CASE i \notin DOMAIN p /\ j \notin DOMAIN p
    <3>1. i - Len(p) = j - Len(p)
      BY <1>2, <1>4, <2>2 DEF Once
    <3>. QED
      BY <1>1, <3>1
  <2>3. CASE i \in DOMAIN p /\ j \notin DOMAIN p
    BY <1>1, <1>2, <1>4, <2>3, ZenonT(60) DEF Elements
  <2>4. CASE i \notin DOMAIN p /\ j \in DOMAIN p
    BY <1>1, <1>2, <1>4, <2>4, ZenonT(60) DEF Elements
  <2>. QED
    BY <2>1, <2>2, <2>3, <2>4
<1>. QED
  BY <1>3, <1>4 DEF r

LEMMA TextsOnceInit == Init => TextsOnce
<1> SUFFICES ASSUME Init PROVE TextsOnce
  OBVIOUS
<1>1. Owners = {} /\ history = <<>> /\ queued = <<>> /\ arrived = <<>> /\ lost = {}
  BY DEF Init, Owners, OwnerPC
<1>2. OwnerTexts = <<>>
  BY <1>1 DEF OwnerTexts
<1>. QED
  BY <1>1, <1>2, OnceEmpty DEF TextsOnce, PlacesApart, OnTheWay, ArrivedOnce

LEMMA TextsOnceStep == TypeOK /\ OneTurn /\ TextsOnce /\ [Next]_vars => TextsOnce'
<1> SUFFICES ASSUME TypeOK, OneTurn, TextsOnce, [Next]_vars PROVE TextsOnce'
  OBVIOUS
<1>a. OneTurn'
  BY TypeStep, OneTurnStep
<1>b. /\ queued \in Seq(Senders) /\ history \in Seq(Senders) /\ arrived \in Seq(Senders)
      /\ \A s \in Senders : frame[s].texts \in Seq(Senders)
  BY DEF TypeOK, Frame
<1>c. PlacesApart /\ OnTheWay /\ ArrivedOnce
  BY DEF TextsOnce
<1>1. ASSUME NEW s \in Senders, Enqueue(s) PROVE TextsOnce'
  <2>1. /\ Owners' = Owners /\ frame' = frame /\ s \notin Owners /\ pc[s] = "new"
        /\ \A r \in Owners : pc'[r] = pc[r]
        /\ \A r \in Senders : pc'[r] = "new" => pc[r] = "new" /\ r # s
    BY <1>1 DEF Enqueue, Goto, Owners, OwnerPC, TypeOK
  <2>2. OwnerTexts' = OwnerTexts
    BY <2>1 DEF OwnerTexts
  <2>3. /\ arrived' = Append(arrived, s) /\ queued' = Append(queued, s)
        /\ history' = history /\ lost' = lost
    BY <1>1 DEF Enqueue
  <2>4. /\ Elements(arrived') = Elements(arrived) \cup {s}
        /\ Elements(queued') = Elements(queued) \cup {s}
        /\ s \notin Elements(queued) => Once(queued')
    BY <1>b, <1>c, <2>3, OnceAppend DEF PlacesApart
  <2>5. s \notin Elements(arrived)
    BY <1>c, <2>1 DEF ArrivedOnce
  <2>6. PlacesApart'
    BY <1>c, <2>2, <2>3, <2>4, <2>5 DEF PlacesApart
  <2>7. OnTheWay' /\ ArrivedOnce'
    BY <1>c, <2>1, <2>4 DEF OnTheWay, ArrivedOnce
  <2>. QED
    BY <2>6, <2>7 DEF TextsOnce
<1>2. ASSUME NEW s \in Senders, BeginTurn(s) PROVE TextsOnce'
  <2>1. /\ Owners = {} /\ Owners' = {s} /\ pc[s] = "new" /\ pc'[s] = "record"
        /\ \A r \in Senders : pc'[r] = "new" => pc[r] = "new" /\ r # s
    BY <1>2 DEF BeginTurn, Goto, Owners, OwnerPC, OneTurn, TypeOK
  <2>2. frame'[s].texts = <<s>>
    BY <1>2 DEF BeginTurn, TypeOK, Frame
  <2>3. OwnerTexts' = <<s>> /\ OwnerTexts = <<>>
    BY <2>1, <2>2 DEF OwnerTexts
  <2>4. /\ arrived' = Append(arrived, s) /\ queued' = queued /\ history' = history /\ lost' = lost
    BY <1>2 DEF BeginTurn
  <2>5. Elements(arrived') = Elements(arrived) \cup {s} /\ s \notin Elements(arrived)
    BY <1>b, <1>c, <2>1, <2>4, OnceAppend DEF ArrivedOnce
  <2>6. PlacesApart'
    BY <1>c, <2>3, <2>4, <2>5, OnceOne, OnceEmpty DEF PlacesApart
  <2>7. OnTheWay' /\ ArrivedOnce'
    BY <1>c, <2>1, <2>5 DEF OnTheWay, ArrivedOnce
  <2>. QED
    BY <2>6, <2>7 DEF TextsOnce
<1>3. ASSUME NEW s \in Senders, PushText(s) PROVE TextsOnce'
  <2>1. s \in Owners /\ Owners' = Owners /\ pc' = pc
    BY <1>3 DEF PushText, Owners, OwnerPC
  <2>2. OwnerTexts = frame[s].texts /\ OwnerTexts' = Tail(frame[s].texts)
    <3>1. frame'[s].texts = Tail(frame[s].texts)
      BY <1>3 DEF PushText, TypeOK, Frame
    <3>. QED  BY <3>1, <2>1, OwnerTextsIs, <1>a DEF OwnerTexts, OneTurn
  <2>3. /\ history' = Append(history, Head(OwnerTexts)) /\ OwnerTexts # <<>>
        /\ UNCHANGED <<arrived, queued, lost>>
    BY <1>3, <2>2 DEF PushText
  <2>4. OwnerTexts \in Seq(Senders) /\ Head(OwnerTexts) \in Senders
    BY <1>b, <2>2, <2>3
  <2>5. /\ Elements(OwnerTexts) = {Head(OwnerTexts)} \cup Elements(OwnerTexts')
        /\ Once(OwnerTexts') /\ Head(OwnerTexts) \notin Elements(OwnerTexts')
    <3>1. ASSUME NEW o \in Seq(Senders), o # <<>>, Once(o)
          PROVE  /\ Elements(o) = {Head(o)} \cup Elements(Tail(o))
                 /\ Once(Tail(o)) /\ Head(o) \notin Elements(Tail(o))
      BY <3>1, OnceTail
    <3>. QED
      BY <1>c, <2>2, <2>3, <2>4, <3>1 DEF PlacesApart
  <2>6. /\ Elements(history') = Elements(history) \cup {Head(OwnerTexts)}
        /\ Once(history')
    BY <1>b, <1>c, <2>3, <2>4, <2>5, OnceAppend DEF PlacesApart
  <2>7. PlacesApart'
    BY <1>c, <2>3, <2>5, <2>6 DEF PlacesApart
  <2>8. \A r \in Owners' : r = s
    BY <1>a, <2>1 DEF OneTurn
  <2>9. OnTheWay' /\ ArrivedOnce'
    BY <1>3, <1>c, <2>1, <2>3, <2>8 DEF OnTheWay, ArrivedOnce, PushText
  <2>. QED
    BY <2>7, <2>9 DEF TextsOnce
<1>4. ASSUME NEW s \in Senders, FollowUpTurn(s) \/ TakeQueue(s) PROVE TextsOnce'
  <2>1. /\ s \in Owners /\ s \in Owners' /\ pc'[s] \in {"context", "inject"}
        /\ \A r \in Senders : pc'[r] = "new" => pc[r] = "new"
    BY <1>4 DEF FollowUpTurn, TakeQueue, Goto, Owners, OwnerPC, TypeOK
  <2>2. frame[s].texts = <<>>
    BY <1>4, <1>c, <2>1 DEF FollowUpTurn, TakeQueue, Goto, OnTheWay
  <2>3. /\ frame'[s].texts = queued /\ queued' = <<>>
        /\ UNCHANGED <<arrived, history, lost>>
    BY <1>4 DEF FollowUpTurn, TakeQueue, TypeOK, Frame
  <2>4. OwnerTexts = <<>> /\ OwnerTexts' = queued
    BY <2>1, <2>2, <2>3, OwnerTextsIs, <1>a DEF OwnerTexts, OneTurn
  <2>5. PlacesApart'
    BY <1>c, <2>3, <2>4, OnceEmpty DEF PlacesApart
  <2>6. \A r \in Owners' : r = s
    BY <1>a, <2>1 DEF OneTurn
  <2>7. OnTheWay' /\ ArrivedOnce'
    BY <1>c, <2>1, <2>3, <2>6 DEF OnTheWay, ArrivedOnce
  <2>. QED
    BY <2>5, <2>7 DEF TextsOnce
<1>5. ASSUME NEW s \in Senders, EndTurn(s) \/ DropOwner(s) PROVE TextsOnce'
  <2>1. /\ s \in Owners /\ pc'[s] \in {"done", "dropped"}
        /\ \A r \in Senders \ {s} : pc'[r] = pc[r]
    BY <1>5 DEF EndTurn, DropOwner, Goto, Owners, OwnerPC, TypeOK
  <2>2. Owners' = {}
    BY <2>1 DEF Owners, OwnerPC, OneTurn
  <2>3. OwnerTexts = frame[s].texts /\ OwnerTexts' = <<>>
    BY <2>1, <2>2, OwnerTextsIs DEF OwnerTexts
  <2>4. UNCHANGED <<history, arrived, queued>>
    BY <1>5 DEF EndTurn, DropOwner
  <2>5. lost' = lost \cup Elements(OwnerTexts)
    <3>1. CASE EndTurn(s)
      <4>1. OwnerTexts = <<>>
        BY <1>c, <2>1, <2>3, <3>1 DEF EndTurn, Goto, OnTheWay
      <4>. QED
        BY <3>1, <4>1, OnceEmpty DEF EndTurn
    <3>2. CASE DropOwner(s)
      BY <2>3, <3>2 DEF DropOwner, Elements
    <3>. QED
      BY <1>5, <3>1, <3>2
  <2>6. PlacesApart'
    BY <1>c, <2>3, <2>4, <2>5, OnceEmpty DEF PlacesApart
  <2>7. OnTheWay' /\ ArrivedOnce'
    BY <1>c, <2>1, <2>2, <2>4 DEF OnTheWay, ArrivedOnce
  <2>. QED
    BY <2>6, <2>7 DEF TextsOnce
<1>6. ASSUME UNCHANGED <<history, arrived, queued, lost>>, Owners' = Owners,
             \A r \in Senders : frame'[r].texts = frame[r].texts,
             \A r \in Owners : pc'[r] \notin {"record", "context", "push", "inject"} =>
                \/ pc[r] \notin {"record", "context", "push", "inject"}
                \/ frame[r].texts = <<>>,
             \A r \in Senders : pc'[r] = "new" => pc[r] = "new"
      PROVE  TextsOnce'
  <2>1. OwnerTexts' = OwnerTexts
    BY <1>6 DEF OwnerTexts, Owners
  <2>2. PlacesApart'
    BY <1>6, <1>c, <2>1 DEF PlacesApart
  <2>3. OnTheWay' /\ ArrivedOnce'
    BY <1>6, <1>c DEF OnTheWay, ArrivedOnce, Owners
  <2>. QED
    BY <2>2, <2>3 DEF TextsOnce
<1>7. ASSUME NEW s \in Senders, TextsAlone(s) PROVE TextsOnce'
  BY <1>6, <1>7, TextsStay
<1>8. ASSUME NEW t \in Stoppers, StoreStop(t) \/ NotifyWaiters(t) PROVE TextsOnce'
  <2>1. \A r \in Senders : frame'[r].texts = frame[r].texts
    <3>1. \A f \in Frame : [f EXCEPT !.notified = TRUE].texts = f.texts
      BY DEF Frame
    <3>. QED  BY <1>8, <3>1 DEF StoreStop, NotifyWaiters, TypeOK
  <2>2. UNCHANGED <<history, arrived, queued, lost, pc>>
    BY <1>8 DEF StoreStop, NotifyWaiters, sharedVars
  <2>. QED
    BY <1>6, <2>1, <2>2 DEF Owners
<1>9. CASE UNCHANGED vars
  BY <1>9, <1>6 DEF vars, sharedVars, Owners
<1>. QED
  BY <1>1, <1>2, <1>3, <1>4, <1>5, <1>7, <1>8, <1>9
  DEF Next, Enter, Bookkeeping, Rounds, SlotReady, EventReady, Finished, TextsAlone

(* No text is doubled, and only what a dropped owner held is missing, for  *)
(* any number of messages, follow-up turns and dropped owners.             *)
THEOREM TextsNeverDoubled == Spec => []NothingDoubled
<1>. DEFINE Inv == TypeOK /\ OneTurn /\ TextsOnce
<1>1. Init => Inv
  BY TypeInit, OneTurnInit, TextsOnceInit
<1>2. Inv /\ [Next]_vars => Inv'
  BY TypeStep, OneTurnStep, TextsOnceStep
<1>3. Inv => NothingDoubled
  <2> SUFFICES ASSUME TypeOK, OneTurn, TextsOnce PROVE NothingDoubled
    OBVIOUS
  <2>1. history \in Seq(Senders) /\ queued \in Seq(Senders) /\ OwnerTexts \in Seq(Senders)
    <3>1. CASE Owners = {}
      BY <3>1 DEF OwnerTexts, TypeOK
    <3>2. CASE Owners # {}
      <4>1. PICK s \in Senders : s \in Owners
        BY <3>2 DEF Owners
      <4>. QED
        BY <4>1, OwnerTextsIs DEF TypeOK, Frame
    <3>. QED
      BY <3>1, <3>2 DEF TypeOK
  <2>. DEFINE some == history \o OwnerTexts
             all == some \o queued
  <2>2. /\ some \in Seq(Senders) /\ Once(some)
        /\ Elements(some) = Elements(history) \cup Elements(OwnerTexts)
    BY <2>1, OnceConcat DEF TextsOnce, PlacesApart
  <2>. HIDE DEF some
  <2>3. /\ Once(all)
        /\ Elements(all) = Elements(some) \cup Elements(queued)
    BY <2>1, <2>2, OnceConcat DEF TextsOnce, PlacesApart
  <2>4. /\ Elements(all) \cap lost = {}
        /\ Elements(all) \cup lost = Elements(arrived)
    BY <2>2, <2>3 DEF TextsOnce, PlacesApart
  <2>. QED
    BY <2>3, <2>4 DEF NothingDoubled, Once, some
<1>. QED
  BY <1>1, <1>2, <1>3, PTL DEF Spec

-----------------------------------------------------------------------------
(***************************************************************************)
(* What the AI has seen.  While no owner is dropped: from the moment a     *)
(* request is built until the round ends the history stands still, so a    *)
(* request that was sent has shown all of it; a round that did not get to  *)
(* send either is the first of its turn or had texts injected, which are   *)
(* then reported as unanswered and get a follow-up turn.                   *)
(***************************************************************************)
AllSeen == seen = Len(history)

InRequest == {"arm", "check", "parked", "polled", "handling", "endRound"}

StoppedInFirst(s) == stop /\ frame[s].round = 1

SeenOf(s) ==
    /\ pc[s] \notin {"record", "context", "push"} => frame[s].round > 0
    /\ pc[s] \in {"round", "take", "endRound"} => AllSeen
    /\ pc[s] = "inject" => frame[s].injected \/ (AllSeen /\ frame[s].texts = <<>>)
    /\ pc[s] \in {"snapshot"} \cup InRequest => frame[s].round = 1 \/ frame[s].injected \/ AllSeen
    /\ pc[s] \in InRequest => frame[s].snapshot = Len(history) /\ (frame[s].sending => AllSeen)
    /\ pc[s] = "handling" => frame[s].sending
    /\ pc[s] = "endTurn" => frame[s].unanswered \/ AllSeen \/ StoppedInFirst(s)

(* The owner is the latest of all that ever were; when there is none, the  *)
(* latest one has left everything seen or was stopped in its first round.  *)
NeverOwned(s) == pc[s] \notin OwnerPC /\ frame[s].round = 0

LatestAt(i) == \A j \in (i + 1)..Len(arrived) : NeverOwned(arrived[j])

LatestInv ==
    /\ \A s \in Senders : pc[s] = "new" => frame[s].round = 0
    /\ \A i \in DOMAIN arrived : pc[arrived[i]] # "new"
    /\ \A s \in Owners : \E i \in DOMAIN arrived : arrived[i] = s /\ LatestAt(i)
    /\ Owners = {} =>
          \/ AllSeen
          \/ \E i \in DOMAIN arrived :
                /\ LatestAt(i) /\ frame[arrived[i]].round > 0
                /\ StoppedInFirst(arrived[i])

SeenInv == LatestInv /\ \A s \in Owners : SeenOf(s)

LEMMA SeenInit == Init => SeenInv
<1> SUFFICES ASSUME Init PROVE SeenInv
  OBVIOUS
<1>1. Owners = {} /\ history = <<>> /\ arrived = <<>> /\ seen = 0
  BY DEF Init, Owners, OwnerPC
<1>2. \A s \in Senders : frame[s].round = 0
  BY DEF Init, EmptyFrame
<1>. QED
  BY <1>1, <1>2 DEF SeenInv, LatestInv, AllSeen

(* The owner goes on: it stays the owner and the latest one.               *)
LEMMA LatestKept ==
    ASSUME TypeOK, OneTurn, LatestInv, Owners' = Owners, Owners # {},
           arrived' = arrived,
           \A r \in Senders : pc'[r] = "new" <=> pc[r] = "new",
           \A r \in Senders \ Owners :
              frame'[r].round = frame[r].round /\ (pc[r] \notin OwnerPC => pc'[r] \notin OwnerPC)
    PROVE  LatestInv'
<1>1. \A i \in DOMAIN arrived : arrived[i] \in Senders
  BY DEF TypeOK
<1>2. \A i \in Nat : \A j \in (i + 1)..Len(arrived) : j \in DOMAIN arrived
  BY DEF TypeOK
<1>3. ASSUME NEW i \in DOMAIN arrived, LatestAt(i) PROVE LatestAt(i)'
  <2> SUFFICES ASSUME NEW j \in (i + 1)..Len(arrived) PROVE NeverOwned(arrived[j])'
    BY DEF LatestAt
  <2>1. i \in Nat /\ j \in DOMAIN arrived /\ arrived[j] \in Senders
    BY <1>1, <1>2 DEF TypeOK
  <2>2. NeverOwned(arrived[j])
    BY <1>3 DEF LatestAt
  <2>. QED
    BY <2>1, <2>2 DEF NeverOwned, Owners
<1>4. \A s \in Senders : pc'[s] = "new" => s \notin Owners /\ pc[s] = "new"
  BY DEF Owners, OwnerPC
<1>5. \A s \in Senders : pc'[s] = "new" => frame'[s].round = 0
  BY <1>4 DEF LatestInv
<1>6. \A i \in DOMAIN arrived' : pc'[arrived'[i]] # "new"
  BY <1>1 DEF LatestInv
<1>7. \A s \in Owners' : \E i \in DOMAIN arrived' : arrived'[i] = s /\ LatestAt(i)'
  BY <1>3 DEF LatestInv
<1>. QED
  BY <1>5, <1>6, <1>7 DEF LatestInv

(* The owner s moves within its turn.                                      *)
LEMMA OwnerMoves ==
    ASSUME TypeOK, OneTurn, SeenInv, NEW s \in Owners,
           Owners' = Owners, arrived' = arrived,
           \A r \in Senders \ {s} : pc'[r] = pc[r] /\ frame'[r] = frame[r],
           SeenOf(s)'
    PROVE  SeenInv'
<1>1. \A r \in Senders : pc'[r] = "new" <=> pc[r] = "new"
  BY DEF Owners, OwnerPC
<1>2. \A r \in Owners : r = s
  BY DEF OneTurn
<1>3. LatestInv'
  BY <1>1, <1>2, LatestKept DEF SeenInv
<1>. QED
  BY <1>2, <1>3 DEF SeenInv

(* Nobody moves but callers that own no turn; the stop flag may come up    *)
(* and an owner may be notified.                                           *)
LEMMA OthersMove ==
    ASSUME TypeOK, OneTurn, SeenInv, Owners' = Owners,
           UNCHANGED <<arrived, history, seen>>, stop => stop',
           \A r \in Senders : (pc'[r] = "new" <=> pc[r] = "new") /\ (r \in Owners => pc'[r] = pc[r]),
           \A r \in Senders :
              /\ frame'[r].round = frame[r].round /\ frame'[r].injected = frame[r].injected
              /\ frame'[r].texts = frame[r].texts /\ frame'[r].snapshot = frame[r].snapshot
              /\ frame'[r].sending = frame[r].sending
              /\ frame'[r].unanswered = frame[r].unanswered
    PROVE  SeenInv'
<1>1. \A r \in Senders : pc[r] \notin OwnerPC => pc'[r] \notin OwnerPC
  BY DEF Owners
<1>2. ASSUME NEW i \in DOMAIN arrived, LatestAt(i) PROVE LatestAt(i)'
  <2>1. i \in Nat /\ \A j \in (i + 1)..Len(arrived) : j \in DOMAIN arrived
    BY DEF TypeOK
  <2>2. \A j \in DOMAIN arrived : arrived[j] \in Senders
    BY DEF TypeOK
  <2>. QED
    BY <1>1, <1>2, <2>1, <2>2 DEF LatestAt, NeverOwned
<1>3. LatestInv'
  <2>1. \A i \in DOMAIN arrived : arrived[i] \in Senders
    BY DEF TypeOK
  <2>2. \A r \in Senders : pc'[r] = "new" => frame'[r].round = 0
    BY DEF SeenInv, LatestInv
  <2>3. \A i \in DOMAIN arrived : pc'[arrived[i]] # "new"
    BY <2>1 DEF SeenInv, LatestInv
  <2>4. \A r \in Owners : \E i \in DOMAIN arrived : arrived[i] = r /\ LatestAt(i)'
    BY <1>2 DEF SeenInv, LatestInv
  <2>5. ASSUME Owners = {}
        PROVE  \/ AllSeen'
               \/ \E i \in DOMAIN arrived :
                     /\ LatestAt(i)' /\ frame'[arrived[i]].round > 0
                     /\ stop' /\ frame'[arrived[i]].round = 1
    BY <1>2, <2>1, <2>5 DEF SeenInv, LatestInv, AllSeen, StoppedInFirst
  <2>. QED
    BY <2>2, <2>3, <2>4, <2>5 DEF LatestInv, StoppedInFirst
<1>4. ASSUME NEW r \in Owners PROVE SeenOf(r)'
  <2>1. r \in Senders /\ SeenOf(r)
    BY <1>4 DEF Owners, SeenInv
  <2>. QED
    BY <2>1 DEF SeenOf, AllSeen, StoppedInFirst, InRequest
<1>. QED
  BY <1>3, <1>4 DEF SeenInv

(* A message is queued: it comes after the owner's, and owns nothing.      *)
LEMMA SeenEnqueue ==
    ASSUME TypeOK, OneTurn, SeenInv, NEW s \in Senders, Enqueue(s)
    PROVE  SeenInv'
<1>1. /\ Owners' = Owners /\ Owners # {} /\ pc[s] = "new" /\ s \notin Owners
      /\ \A r \in Owners : pc'[r] = pc[r]
      /\ \A r \in Senders : pc'[r] = IF r = s THEN "recordQueued" ELSE pc[r]
  BY DEF Enqueue, Goto, Owners, OwnerPC, OneTurn, TypeOK
<1>2. UNCHANGED <<history, seen, stop, frame>> /\ arrived' = Append(arrived, s)
  BY DEF Enqueue
<1>3. /\ DOMAIN arrived = 1..Len(arrived) /\ Len(arrived) \in Nat
      /\ DOMAIN arrived' = 1..(Len(arrived) + 1) /\ Len(arrived') = Len(arrived) + 1
      /\ \A i \in DOMAIN arrived : arrived'[i] = arrived[i] /\ arrived[i] \in Senders
      /\ arrived'[Len(arrived) + 1] = s
  BY <1>2 DEF TypeOK
<1>4. NeverOwned(s)'
  BY <1>1, <1>2 DEF NeverOwned, SeenInv, LatestInv, OwnerPC
<1>5. ASSUME NEW i \in DOMAIN arrived, LatestAt(i) PROVE LatestAt(i)'
  <2> SUFFICES ASSUME NEW j \in (i + 1)..(Len(arrived) + 1) PROVE NeverOwned(arrived[j])'
    BY <1>3 DEF LatestAt
  <2>1. CASE j = Len(arrived) + 1
    BY <1>3, <1>4, <2>1
  <2>2. CASE j # Len(arrived) + 1
    <3>1. j \in (i + 1)..Len(arrived) /\ j \in DOMAIN arrived
      BY <1>3, <2>2
    <3>2. NeverOwned(arrived[j]) /\ arrived'[j] = arrived[j] /\ arrived[j] \in Senders
      BY <1>3, <1>5, <3>1 DEF LatestAt
    <3>. QED
      BY <1>1, <1>2, <3>2 DEF NeverOwned, OwnerPC
  <2>. QED
    BY <2>1, <2>2
<1>6. LatestInv'
  <2>1. \A r \in Senders : pc'[r] = "new" => frame'[r].round = 0
    BY <1>1, <1>2 DEF SeenInv, LatestInv
  <2>2. \A i \in DOMAIN arrived' : pc'[arrived'[i]] # "new"
    <3>1. \A i \in DOMAIN arrived' : i \in DOMAIN arrived \/ i = Len(arrived) + 1
      BY <1>3
    <3>. QED
      BY <1>1, <1>3, <3>1 DEF SeenInv, LatestInv
  <2>3. \A i \in DOMAIN arrived : i \in DOMAIN arrived'
    BY <1>3
  <2>4. \A r \in Owners' : \E i \in DOMAIN arrived' : arrived'[i] = r /\ LatestAt(i)'
    BY <1>1, <1>3, <1>5, <2>3 DEF SeenInv, LatestInv
  <2>. QED
    BY <1>1, <2>1, <2>2, <2>4 DEF LatestInv
<1>7. ASSUME NEW r \in Owners PROVE SeenOf(r)'
  BY <1>1, <1>2, <1>7 DEF SeenInv, SeenOf, AllSeen, StoppedInFirst
<1>. QED
  BY <1>1, <1>6, <1>7 DEF SeenInv

(* A new turn begins: its owner is the latest of all.                      *)
LEMMA SeenBegin ==
    ASSUME TypeOK, OneTurn, SeenInv, NEW s \in Senders, BeginTurn(s)
    PROVE  SeenInv'
<1>1. /\ Owners' = {s} /\ pc'[s] = "record"
      /\ \A r \in Senders : pc'[r] = IF r = s THEN "record" ELSE pc[r]
  BY DEF BeginTurn, Goto, Owners, OwnerPC, OneTurn, TypeOK
<1>2. arrived' = Append(arrived, s) /\ \A r \in Senders \ {s} : frame'[r] = frame[r]
  BY DEF BeginTurn, TypeOK
<1>3. /\ DOMAIN arrived = 1..Len(arrived) /\ Len(arrived) \in Nat
      /\ DOMAIN arrived' = 1..(Len(arrived) + 1) /\ Len(arrived') = Len(arrived) + 1
      /\ \A i \in DOMAIN arrived : arrived'[i] = arrived[i] /\ arrived[i] \in Senders
      /\ arrived'[Len(arrived) + 1] = s
  BY <1>2 DEF TypeOK
<1>4. \A i \in DOMAIN arrived' : i = Len(arrived) + 1 => LatestAt(i)'
  <2>1. (Len(arrived) + 1 + 1)..(Len(arrived) + 1) = {}
    BY <1>3
  <2>. QED
    BY <1>3, <2>1 DEF LatestAt
<1>5. LatestInv'
  <2>1. \A r \in Senders : pc'[r] = "new" => frame'[r].round = 0
    BY <1>1, <1>2 DEF SeenInv, LatestInv
  <2>2. \A i \in DOMAIN arrived' : pc'[arrived'[i]] # "new"
    <3>1. \A i \in DOMAIN arrived' : i \in DOMAIN arrived \/ i = Len(arrived) + 1
      BY <1>3
    <3>. QED
      BY <1>1, <1>3, <3>1 DEF SeenInv, LatestInv
  <2>3. Len(arrived) + 1 \in DOMAIN arrived'
    BY <1>3
  <2>4. \A r \in Owners' : \E i \in DOMAIN arrived' : arrived'[i] = r /\ LatestAt(i)'
    BY <1>1, <1>3, <1>4, <2>3
  <2>. QED
    BY <1>1, <2>1, <2>2, <2>4 DEF LatestInv
<1>6. SeenOf(s)'
  BY <1>1 DEF SeenOf, InRequest
<1>. QED
  BY <1>1, <1>5, <1>6 DEF SeenInv

(* The turn ends: all is seen, or it was stopped in its first round.       *)
LEMMA SeenEnd ==
    ASSUME TypeOK, OneTurn, SeenInv, NEW s \in Senders, EndTurn(s)
    PROVE  SeenInv'
<1>1. /\ s \in Owners /\ Owners' = {} /\ pc[s] = "endTurn" /\ ~frame[s].unanswered
      /\ \A r \in Senders : pc'[r] = IF r = s THEN "done" ELSE pc[r]
  BY DEF EndTurn, Goto, Owners, OwnerPC, OneTurn, TypeOK
<1>2. UNCHANGED <<history, seen, stop, frame, arrived>>
  BY DEF EndTurn
<1>3. PICK i \in DOMAIN arrived : arrived[i] = s /\ LatestAt(i)
  BY <1>1 DEF SeenInv, LatestInv
<1>4. AllSeen \/ StoppedInFirst(s)
  BY <1>1 DEF SeenInv, SeenOf
<1>5. \A k \in DOMAIN arrived : arrived[k] \in Senders
  BY DEF TypeOK
<1>6. \A j \in (i + 1)..Len(arrived) : NeverOwned(arrived[j])'
  <2> SUFFICES ASSUME NEW j \in (i + 1)..Len(arrived) PROVE NeverOwned(arrived[j])'
    OBVIOUS
  <2>1. j \in DOMAIN arrived
    BY DEF TypeOK
  <2>2. arrived[j] \in Senders /\ NeverOwned(arrived[j])
    BY <1>3, <1>5, <2>1 DEF LatestAt
  <2>. QED
    BY <1>1, <1>2, <2>2 DEF NeverOwned, OwnerPC
<1>7. frame[s].round \in Nat
  BY TurnAssumption DEF TypeOK, Frame
<1>8. LatestInv'
  <2>1. \A r \in Senders : pc'[r] = "new" => frame'[r].round = 0
    BY <1>1, <1>2 DEF SeenInv, LatestInv
  <2>2. \A k \in DOMAIN arrived : pc'[arrived[k]] # "new"
    BY <1>1, <1>5 DEF SeenInv, LatestInv
  <2>3. \/ AllSeen'
        \/ /\ \A j \in (i + 1)..Len(arrived') : NeverOwned(arrived[j])'
           /\ frame'[arrived'[i]].round > 0 /\ stop' /\ frame'[arrived'[i]].round = 1
    BY <1>2, <1>3, <1>4, <1>6, <1>7 DEF AllSeen, StoppedInFirst
  <2>. QED
    BY <1>1, <1>2, <2>1, <2>2, <2>3 DEF LatestInv, LatestAt, StoppedInFirst
<1>. QED
  BY <1>1, <1>8 DEF SeenInv

(* The owner's own steps.                                                  *)
LEMMA SeenOwnerSteps ==
    ASSUME TypeOK, OneTurn, SeenInv, NEW s \in Owners,
           \/ Goto(s, "record", "context") /\ UNCHANGED <<sharedVars, frame, stopper, arrived, lost, stopped>>
           \/ BuildContext(s) \/ PushText(s) \/ StartRounds(s) \/ FollowUpTurn(s)
           \/ Rounds(s) \/ EventReady(s) \/ Stream(s) \/ ActionHandled(s)
    PROVE  SeenInv'
<1>a. s \in Senders /\ frame[s] \in Frame /\ SeenOf(s)
  BY DEF Owners, SeenInv, TypeOK
<1>. DEFINE Still == arrived' = arrived
            Alone == \A r \in Senders \ {s} : pc'[r] = pc[r] /\ frame'[r] = frame[r]
            Here == s \in Owners'
<1>b. ASSUME Still, Alone, Here, SeenOf(s)' PROVE SeenInv'
  <2>1. Owners' = Owners
    BY <1>a, <1>b DEF Owners, OneTurn
  <2>. QED
    BY <1>b, <2>1, OwnerMoves
<1>1. CASE Goto(s, "record", "context") /\ UNCHANGED <<sharedVars, frame, stopper, arrived, lost, stopped>>
  <2>1. Still /\ Alone /\ Here /\ pc'[s] = "context"
    BY <1>1, <1>a DEF Goto, TypeOK, Owners, OwnerPC
  <2>. QED
    BY <1>b, <2>1 DEF SeenOf, InRequest
<1>2. CASE BuildContext(s)
  <2>1. Still /\ Alone /\ Here /\ pc'[s] = "push"
    BY <1>2, <1>a DEF BuildContext, Goto, TypeOK, Owners, OwnerPC
  <2>. QED
    BY <1>b, <2>1 DEF SeenOf, InRequest
<1>3. CASE FollowUpTurn(s)
  <2>1. Still /\ Alone /\ Here /\ pc'[s] = "context"
    BY <1>3, <1>a DEF FollowUpTurn, Goto, TypeOK, Owners, OwnerPC
  <2>. QED
    BY <1>b, <2>1 DEF SeenOf, InRequest
<1>4. CASE PushText(s)
  <2>1. /\ Still /\ Alone /\ Here /\ pc'[s] = pc[s] /\ pc[s] \in {"push", "inject"}
        /\ frame'[s].injected = frame[s].injected /\ frame'[s].round = frame[s].round
        /\ frame[s].texts # <<>>
    BY <1>4, <1>a DEF PushText, TypeOK, Owners, Frame, OwnerPC
  <2>2. pc[s] = "inject" => frame[s].injected /\ frame[s].round > 0
    BY <1>a, <2>1 DEF SeenOf
  <2>3. SeenOf(s)'
    BY <2>1, <2>2 DEF SeenOf, InRequest
  <2>. QED
    BY <1>b, <2>1, <2>3
<1>5. CASE StartRounds(s)
  <2>1. /\ Still /\ Alone /\ Here /\ pc'[s] = "snapshot" /\ frame'[s].round = 1
    BY <1>5, <1>a, TurnAssumption DEF StartRounds, Goto, TypeOK, Owners, Frame, OwnerPC
  <2>. QED
    BY <1>b, <2>1 DEF SeenOf, InRequest
<1>6. CASE TakeQueue(s)
  <2>1. /\ Still /\ Alone /\ Here /\ pc[s] = "take" /\ pc'[s] = "inject"
        /\ UNCHANGED <<history, seen>> /\ frame'[s].round = frame[s].round
        /\ frame'[s].texts = queued /\ frame'[s].injected = (queued # <<>>)
    BY <1>6, <1>a DEF TakeQueue, Goto, TypeOK, Owners, Frame, OwnerPC
  <2>2. frame[s].round > 0 /\ AllSeen
    BY <1>a, <2>1 DEF SeenOf
  <2>3. SeenOf(s)'
    BY <2>1, <2>2 DEF SeenOf, InRequest, AllSeen
  <2>. QED
    BY <1>b, <2>1, <2>3
<1>7. CASE \/ NoStopBetweenRounds(s) \/ Injected(s) \/ CheckClear(s) \/ Wake(s)
           \/ PassStop(s) \/ Stream(s)
  <2>1. /\ Still /\ Alone /\ Here /\ UNCHANGED <<history, seen, frame>>
        /\ \/ pc[s] = "round" /\ pc'[s] = "take"
           \/ pc[s] = "inject" /\ pc'[s] = "snapshot" /\ frame[s].texts = <<>>
           \/ pc[s] \in InRequest /\ pc'[s] \in InRequest \ {"handling", "endRound"}
           \/ /\ pc[s] \in InRequest /\ pc'[s] \in {"handling", "endRound"}
              /\ frame[s].sending
    BY <1>7, <1>a DEF NoStopBetweenRounds, Injected, CheckClear, Wake, PassStop, Stream,
         StreamContent, StreamAction, StreamEnd, StreamEvent, Goto, TypeOK, Owners, OwnerPC,
         sharedVars, InRequest
  <2>2. SeenOf(s)'
    BY <1>a, <2>1 DEF SeenOf, InRequest, AllSeen
  <2>. QED
    BY <1>b, <2>1, <2>2
<1>8. CASE NextRound(s)
  <2>1. /\ Still /\ Alone /\ Here /\ pc[s] = "endRound" /\ pc'[s] = "round"
        /\ UNCHANGED <<history, seen>> /\ frame'[s].round = frame[s].round + 1
    BY <1>8, <1>a DEF NextRound, Goto, TypeOK, Owners, Frame, OwnerPC, sharedVars
  <2>2. AllSeen /\ frame[s].round \in Nat
    BY <1>a, <2>1, TurnAssumption DEF SeenOf, Frame
  <2>3. SeenOf(s)'
    BY <2>1, <2>2 DEF SeenOf, InRequest, AllSeen
  <2>. QED
    BY <1>b, <2>1, <2>3
<1>9. CASE LastRound(s) \/ StopBetweenRounds(s) \/ CheckStopped(s)
  <2>1. /\ Still /\ Alone /\ Here /\ pc'[s] = "endTurn"
        /\ UNCHANGED <<history, seen, stop>> /\ frame'[s].round = frame[s].round
        /\ \/ pc[s] \in {"round", "endRound"}
           \/ /\ pc[s] = "check" /\ stop
              /\ frame'[s].unanswered = (~frame[s].sending /\ frame[s].injected)
    BY <1>9, <1>a DEF LastRound, StopBetweenRounds, CheckStopped, Return, Goto, TypeOK, Owners,
         Frame, OwnerPC, sharedVars
  <2>2. frame[s].round > 0
    BY <1>a, <2>1 DEF SeenOf
  <2>3. frame'[s].unanswered \/ AllSeen \/ (stop /\ frame[s].round = 1)
    BY <1>a, <2>1 DEF SeenOf, InRequest
  <2>4. SeenOf(s)'
    BY <2>1, <2>2, <2>3 DEF SeenOf, InRequest, AllSeen, StoppedInFirst
  <2>. QED
    BY <1>b, <2>1, <2>4
<1>10. CASE Snapshot(s)
  <2>1. /\ Still /\ Alone /\ Here /\ pc[s] = "snapshot" /\ pc'[s] = "arm"
        /\ UNCHANGED <<history, seen>> /\ frame'[s].round = frame[s].round
        /\ frame'[s].injected = frame[s].injected /\ frame'[s].snapshot = Len(history)
        /\ ~frame'[s].sending
    BY <1>10, <1>a DEF Snapshot, Goto, TypeOK, Owners, Frame, OwnerPC, sharedVars
  <2>2. SeenOf(s)'
    BY <1>a, <2>1 DEF SeenOf, InRequest, AllSeen
  <2>. QED
    BY <1>b, <2>1, <2>2
<1>11. CASE Arm(s) \/ ActionHandled(s)
  <2>1. /\ Still /\ Alone /\ Here
        /\ pc[s] \in InRequest /\ pc'[s] \in {"check", "arm"}
        /\ UNCHANGED <<history, seen>> /\ frame'[s].round = frame[s].round
        /\ frame'[s].injected = frame[s].injected /\ frame'[s].snapshot = frame[s].snapshot
        /\ frame'[s].sending = frame[s].sending
    BY <1>11, <1>a DEF Arm, ActionHandled, Goto, TypeOK, Owners, Frame, OwnerPC, sharedVars,
         InRequest
  <2>2. SeenOf(s)'
    BY <1>a, <2>1 DEF SeenOf, InRequest, AllSeen
  <2>. QED
    BY <1>b, <2>1, <2>2
<1>12. CASE Send(s)
  <2>1. /\ Still /\ Alone /\ Here /\ pc[s] = "polled" /\ pc'[s] = "arm"
        /\ history' = history /\ frame'[s].round = frame[s].round
        /\ frame'[s].snapshot = frame[s].snapshot /\ seen' = frame[s].snapshot
    BY <1>12, <1>a DEF Send, Goto, TypeOK, Owners, Frame, OwnerPC
  <2>2. frame[s].snapshot = Len(history) /\ frame[s].round > 0
    BY <1>a, <2>1 DEF SeenOf, InRequest
  <2>3. SeenOf(s)'
    BY <2>1, <2>2 DEF SeenOf, InRequest, AllSeen
  <2>. QED
    BY <1>b, <2>1, <2>3
<1>. QED
  BY <1>1, <1>2, <1>3, <1>4, <1>5, <1>6, <1>7, <1>8, <1>9, <1>10, <1>11, <1>12
  DEF Rounds, SlotReady, EventReady

LEMMA SeenStep == NoneDropped' /\ TypeOK /\ OneTurn /\ SeenInv /\ [Next]_vars => SeenInv'
<1> SUFFICES ASSUME NoneDropped', TypeOK, OneTurn, SeenInv, [Next]_vars PROVE SeenInv'
  OBVIOUS
<1>1. ASSUME NEW s \in Senders, Enter(s) PROVE SeenInv'
  BY <1>1, SeenEnqueue, SeenBegin DEF Enter
<1>2. ASSUME NEW s \in Senders, Bookkeeping(s) PROVE SeenInv'
  <2>1. CASE EndTurn(s)
    BY <2>1, SeenEnd
  <2>2. CASE Goto(s, "recordQueued", "done") /\ UNCHANGED <<sharedVars, frame, stopper, arrived, lost, stopped>>
    <3>1. /\ Owners' = Owners /\ UNCHANGED <<arrived, history, seen, stop, frame>>
          /\ \A r \in Senders : (pc'[r] = "new" <=> pc[r] = "new") /\ (r \in Owners => pc'[r] = pc[r])
      BY <2>2 DEF Goto, TypeOK, Owners, OwnerPC, sharedVars
    <3>. QED
      BY <3>1, OthersMove
  <2>3. CASE Goto(s, "record", "context") /\ UNCHANGED <<sharedVars, frame, stopper, arrived, lost, stopped>>
    <3>1. s \in Owners
      BY <2>3 DEF Goto, Owners, OwnerPC
    <3>. QED
      BY <2>3, <3>1, SeenOwnerSteps
  <2>4. CASE BuildContext(s) \/ PushText(s) \/ StartRounds(s) \/ FollowUpTurn(s)
    <3>1. s \in Owners
      BY <2>4 DEF BuildContext, PushText, StartRounds, FollowUpTurn, Goto, Owners, OwnerPC
    <3>. QED
      BY <2>4, <3>1, SeenOwnerSteps
  <2>. QED
    BY <1>2, <2>1, <2>2, <2>3, <2>4 DEF Bookkeeping, RecordPrompt
<1>3. ASSUME NEW s \in Senders, Rounds(s) \/ EventReady(s) \/ Stream(s) \/ ActionHandled(s)
      PROVE  SeenInv'
  <2>1. s \in Owners
    BY <1>3 DEF Rounds, StopBetweenRounds, NoStopBetweenRounds, TakeQueue, Injected, NextRound,
         LastRound, Snapshot, Arm, CheckClear, CheckStopped, Wake, SlotReady, EventReady,
         PassStop, Send, Stream, StreamContent, StreamAction, StreamEnd, StreamEvent,
         ActionHandled, Return, Goto, Owners, OwnerPC
  <2>. QED
    BY <1>3, <2>1, SeenOwnerSteps
<1>4. ASSUME NEW s \in Senders, DropOwner(s) PROVE FALSE
  BY <1>4 DEF DropOwner, NoneDropped, TypeOK
<1>5. ASSUME NEW t \in Stoppers, StoreStop(t) \/ NotifyWaiters(t) PROVE SeenInv'
  <2>1. \A f \in Frame : LET g == [f EXCEPT !.notified = TRUE]
                         IN  /\ g.round = f.round /\ g.injected = f.injected /\ g.texts = f.texts
                             /\ g.snapshot = f.snapshot /\ g.sending = f.sending
                             /\ g.unanswered = f.unanswered
    BY DEF Frame
  <2>2. /\ UNCHANGED <<arrived, history, seen, pc>> /\ (stop => stop')
        /\ \/ frame' = frame
           \/ \A r \in Senders : frame'[r] \in {frame[r], [frame[r] EXCEPT !.notified = TRUE]}
    BY <1>5 DEF StoreStop, NotifyWaiters, sharedVars
  <2>3. \A r \in Senders :
           /\ frame'[r].round = frame[r].round /\ frame'[r].injected = frame[r].injected
           /\ frame'[r].texts = frame[r].texts /\ frame'[r].snapshot = frame[r].snapshot
           /\ frame'[r].sending = frame[r].sending
           /\ frame'[r].unanswered = frame[r].unanswered
    BY <2>1, <2>2, ZenonT(60) DEF TypeOK
  <2>. QED
    BY <2>2, <2>3, OthersMove DEF Owners
<1>6. CASE UNCHANGED vars
  BY <1>6, OthersMove DEF vars, sharedVars, Owners
<1>. QED
  BY <1>1, <1>2, <1>3, <1>4, <1>5, <1>6 DEF Next, Finished

(* The owner that LastOwner picks is the latest that ever was.             *)
LEMMA LatestIsLast ==
    ASSUME TypeOK, NEW i \in DOMAIN arrived, LatestAt(i), frame[arrived[i]].round > 0
    PROVE  LastOwner = arrived[i]
<1>. DEFINE Latest(s) == \E k \in DOMAIN arrived :
                            /\ arrived[k] = s /\ frame[s].round > 0
                            /\ \A j \in (k + 1)..Len(arrived) : frame[arrived[j]].round = 0
<1>1. DOMAIN arrived = 1..Len(arrived) /\ Len(arrived) \in Nat /\ arrived[i] \in Senders
  BY DEF TypeOK
<1>2. \A j \in (i + 1)..Len(arrived) : frame[arrived[j]].round = 0
  BY DEF LatestAt, NeverOwned
<1>3. Latest(arrived[i])
  BY <1>2
<1>4. ASSUME NEW s \in Senders, Latest(s) PROVE s = arrived[i]
  <2>1. PICK k \in DOMAIN arrived :
           /\ arrived[k] = s /\ frame[s].round > 0
           /\ \A j \in (k + 1)..Len(arrived) : frame[arrived[j]].round = 0
    BY <1>4
  <2>2. CASE k < i
    <3>1. i \in (k + 1)..Len(arrived)
      BY <1>1, <2>2
    <3>. QED
      BY <2>1, <3>1
  <2>3. CASE i < k
    <3>1. k \in (i + 1)..Len(arrived)
      BY <1>1, <2>3
    <3>. QED
      BY <1>2, <2>1, <3>1
  <2>. QED
    BY <1>1, <2>1, <2>2, <2>3
<1>5. LastOwner = CHOOSE s \in Senders : Latest(s)
  BY DEF LastOwner
<1>. HIDE DEF Latest
<1>. QED
  BY <1>1, <1>3, <1>4, <1>5

(* As long as no owner is dropped, a turn that ends unstopped has shown    *)
(* the AI every text, and one that is stopped leaves texts unseen only in  *)
(* its first round: what is injected later always gets its follow-up turn. *)
THEOREM InjectedSeen == Spec => []InjectedGetSeen
<1>. DEFINE Inv == TypeOK /\ OneTurn /\ (NoneDropped => SeenInv)
<1>1. Init => Inv
  BY TypeInit, OneTurnInit, SeenInit
<1>2. Inv /\ [Next]_vars => Inv'
  BY TypeStep, OneTurnStep, SeenStep, DroppedStays
<1>3. Inv => InjectedGetSeen
  <2> SUFFICES ASSUME TypeOK, OneTurn, SeenInv, ~running, seen < Len(history)
               PROVE  stop /\ frame[LastOwner].round = 1
    BY DEF InjectedGetSeen
  <2>1. Owners = {} /\ ~AllSeen
    BY DEF OneTurn, AllSeen, TypeOK
  <2>2. PICK i \in DOMAIN arrived :
           /\ LatestAt(i) /\ frame[arrived[i]].round > 0
           /\ StoppedInFirst(arrived[i])
    BY <2>1 DEF SeenInv, LatestInv
  <2>3. LastOwner = arrived[i]
    BY <2>2, LatestIsLast
  <2>. QED
    BY <2>2, <2>3 DEF StoppedInFirst
<1>. QED
  BY <1>1, <1>2, <1>3, PTL DEF Spec
-----------------------------------------------------------------------------
(* The safety half of StopEndsTurn: when the stop flag is up, no owner     *)
(* waits, for the slot or for the next event of the stream, without its    *)
(* Notified future having been woken, unless a stop request has stored the *)
(* flag and is just about to wake it.  It is why the future is created     *)
(* before the flag is read.                                                *)
NoLostWakeup ==
    \A s \in Senders : stop /\ pc[s] \in {"parked", "polled"} =>
        frame[s].notified \/ \E t \in Stoppers : stopper[t] = "stored"

LEMMA NoLostWakeupStep == TypeOK /\ NoLostWakeup /\ [Next]_vars => NoLostWakeup'
<1> SUFFICES ASSUME TypeOK, NoLostWakeup, [Next]_vars PROVE NoLostWakeup'
  OBVIOUS
<1>. USE DEF NoLostWakeup, TypeOK
<1>1. ASSUME NEW s \in Senders, BeginTurn(s) \/ FollowUpTurn(s) PROVE NoLostWakeup'
  BY <1>1 DEF BeginTurn, FollowUpTurn
<1>2. ASSUME NEW s \in Senders, CheckClear(s) PROVE NoLostWakeup'
  BY <1>2 DEF CheckClear, sharedVars
<1>3. ASSUME NEW s \in Senders,
             \/ Enqueue(s) \/ RecordPrompt(s) \/ BuildContext(s) \/ PushText(s) \/ StartRounds(s)
             \/ EndTurn(s) \/ DropOwner(s)
             \/ StopBetweenRounds(s) \/ NoStopBetweenRounds(s) \/ TakeQueue(s) \/ Injected(s)
             \/ NextRound(s) \/ LastRound(s) \/ Snapshot(s) \/ Arm(s) \/ CheckStopped(s) \/ Wake(s)
             \/ PassStop(s) \/ Send(s) \/ Stream(s) \/ ActionHandled(s)
      PROVE  NoLostWakeup'
  <2>1. UNCHANGED <<stop, stopper>>
    BY <1>3 DEF Enqueue, RecordPrompt, BuildContext, PushText, StartRounds, EndTurn, DropOwner,
         StopBetweenRounds, NoStopBetweenRounds, TakeQueue, Injected, NextRound, LastRound,
         Snapshot, Arm, CheckStopped, Wake, PassStop, Send, Stream, StreamContent, StreamAction, StreamEnd,
         StreamEvent, ActionHandled, Return, sharedVars
  <2>2. \A r \in Senders : pc'[r] \in {"parked", "polled"} =>
            pc[r] \in {"parked", "polled"} /\ frame'[r] = frame[r]
    BY <1>3 DEF Enqueue, RecordPrompt, BuildContext, PushText, StartRounds, EndTurn, DropOwner,
         StopBetweenRounds, NoStopBetweenRounds, TakeQueue, Injected, NextRound, LastRound,
         Snapshot, Arm, CheckStopped, Wake, PassStop, Send, Stream, StreamContent, StreamAction, StreamEnd,
         StreamEvent, ActionHandled, Return, Goto
  <2>. QED
    BY <2>1, <2>2
<1>4. ASSUME NEW t \in Stoppers, StoreStop(t) PROVE NoLostWakeup'
  BY <1>4 DEF StoreStop
<1>5. ASSUME NEW t \in Stoppers, NotifyWaiters(t) PROVE NoLostWakeup'
  <2>1. \A f \in Frame : [f EXCEPT !.notified = TRUE].notified = TRUE
    BY DEF Frame
  <2>. QED
    BY <1>5, <2>1 DEF NotifyWaiters, sharedVars
<1>6. CASE UNCHANGED vars
  BY <1>6 DEF vars, sharedVars
<1>. QED
  BY <1>1, <1>2, <1>3, <1>4, <1>5, <1>6 DEF Next, Enter, Bookkeeping, Rounds, SlotReady, EventReady, Finished

(* No stop is missed by an owner that waits, whatever the stop and the     *)
(* check of the flag were interleaved like.                                *)
THEOREM StopWakesWaiter == Spec => []NoLostWakeup
<1>1. Init => NoLostWakeup
  BY DEF Init, NoLostWakeup
<1>2. (TypeOK /\ NoLostWakeup) /\ [Next]_vars => (TypeOK /\ NoLostWakeup)'
  BY TypeStep, NoLostWakeupStep
<1>. QED
  BY <1>1, <1>2, TypeInit, PTL DEF Spec

(* The safety half of QueuedGetsSent: a text in the queue has an owner who *)
(* will look there, unless an owner was dropped.  The test of the queue    *)
(* and the end of the turn are one step under one lock for this reason.    *)
NoTextStranded == NoneDropped /\ queued # <<>> => running

(* No text is queued for a turn that is already over, however sending and  *)
(* ending are interleaved.                                                 *)
THEOREM QueuedHasOwner == Spec => []NoTextStranded
<1>. DEFINE Inv == TypeOK /\ OneTurn /\ (NoneDropped => WellOrdered)
<1>1. Init => Inv
  BY TypeInit, OneTurnInit, WellOrderedInit
<1>2. Inv /\ [Next]_vars => Inv'
  BY TypeStep, OneTurnStep, WellOrderedStep, DroppedStays
<1>3. Inv => NoTextStranded
  BY DEF WellOrdered, OneTurn, NoTextStranded
<1>. QED
  BY <1>1, <1>2, <1>3, PTL DEF Spec
=============================================================================
