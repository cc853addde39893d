----------------------------- MODULE Gate_proofs -----------------------------
(***************************************************************************)
(* Proofs about the gate every action passes: first about ActionExec, for  *)
(* any number of actions of the chat and of MCP clients, any items and any *)
(* settings; then about FilterEngine, for any rules, any commands however  *)
(* they are nested, and any limit on the depth.                            *)
(***************************************************************************)
EXTENDS ActionExec, FilterEngine, SequenceTheorems, WellFoundedInduction, TLAPS

Preparing == {"preview", "previewChannel", "previewOpening", "previewRead", "previewing", "opinion",
              "prepared"}
Executing == {"start", "lock", "running", "ended", "channel", "openChannel", "opening", "transfer",
              "transferring", "fallback", "privileged", "flag", "check"}

(* Nothing runs before the decision, and what ran is what was to run.      *)
ItemInv ==
    \A a \in Actions :
        /\ pc[a] = "new" => told[a] = "nothing"
        /\ pc[a] # "new" => item[a] \in Items /\ work[a] \in Items
        /\ pc[a] \in {"policy", "suspicion"} \cup Preparing \cup {"waiting", "decided"} =>
              work[a] = item[a]
        /\ pc[a] \in {"channel", "openChannel", "opening", "transfer", "transferring"} =>
              item[a].kind \in {"read", "write"}
        /\ pc[a] \in {"fallback", "privileged"} => item[a].kind = "write"
        /\ ran[a] # None =>
              /\ ran[a] = Sent(work[a])
              /\ pc[a] \in {"running", "ended", "transferring", "fallback", "privileged", "flag",
                            "check", "done"}

(* What the chain of escalations has established as long as it says auto:  *)
(* first from the filter and the policy, ...                               *)
Harmless(a) ==
    /\ item[a].kind \in {"command", "read"} /\ item[a].verdict = "auto"
    /\ ~AlwaysConfirmed(item[a])
    /\ tainted[a] => ~ConfirmedAfterIngest(item[a])

(* ... then from where the action comes from and what came before it.      *)
Unsuspicious(a) ==
    /\ a \in ChatActions
    /\ ~UsesPassword(item[a])
    /\ \A c \in earlier[a] : told[c] # "rejected"

ChainInv ==
    \A a \in Actions :
        /\ pc[a] # "new" /\ item[a].verdict = "deny" => decision[a] = "deny"
        /\ pc[a] = "policy" => decision[a] = Verdict(item[a])
        /\ pc[a] \notin {"new", "policy"} /\ decision[a] = "auto" => Harmless(a)
        /\ pc[a] \notin {"new", "policy", "suspicion"} /\ decision[a] = "auto" => Unsuspicious(a)
        /\ pc[a] \in {"waiting", "decided"} => decision[a] = "confirm"

(* Whatever executes was let through by the user or by the whole chain.    *)
LetThrough(a) ==
    /\ work[a].verdict # "deny"
    /\ \/ Asked(a)
       \/ decision[a] = "auto" /\ ~RaisedToRed(a) /\ work[a] = item[a]

RunInv == \A a \in Actions : pc[a] \in Executing \/ ran[a] # None => LetThrough(a)

(* A rejection stays up as long as the response it was given in; the       *)
(* earlier actions of a response are over.                                 *)
ResponseInv ==
    /\ \A c \in response : pc[c] # "new" /\ (told[c] = "rejected" => rejected)
    /\ \A a \in Actions :
          /\ a \in ChatActions /\ pc[a] \notin {"new", "done"} => earlier[a] \subseteq response
          /\ a \notin ChatActions => earlier[a] = {}
          /\ \A c \in earlier[a] : pc[c] = "done"

(* Content in the history is flagged, or about to be; what was to be wary  *)
(* of stays so.                                                            *)
IngestInv ==
    /\ \A a \in Actions : tainted[a] => ingested
    /\ \A b \in Content : pc[b] = "flag" \/ ingested

IInv == TypeOK /\ ItemInv /\ ChainInv /\ RunInv /\ ResponseInv /\ IngestInv


LEMMA Initially == Init => IInv
<1> SUFFICES ASSUME Init PROVE IInv
  OBVIOUS
<1> USE ActionAssumption DEF Init
<1>1. TypeOK
  <2>1. /\ pc \in [Actions -> Places]
        /\ trail \in [Actions -> Seq(Entry)] /\ lost \in [Actions -> SUBSET Nat]
    BY DEF Places
  <2>2. /\ item \in [Actions -> Items \cup {None}] /\ work \in [Actions -> Items \cup {None}]
        /\ ran \in [Actions -> Wordings \cup {None}]
    OBVIOUS
  <2>3. /\ question \in [Actions -> {"unasked", "open", "closed"}]
        /\ accepted \in [Actions -> Decisions \cup {None}]
        /\ outcome \in [Actions -> Decisions \cup {None}]
    BY DEF C!Init
  <2>4. /\ tainted \in [Actions -> BOOLEAN] /\ raised \in [Actions -> BOOLEAN]
        /\ earlier \in [Actions -> SUBSET ChatActions] /\ response \in SUBSET ChatActions
    OBVIOUS
  <2> QED
    BY <2>1, <2>2, <2>3, <2>4 DEF TypeOK
<1>2. ItemInv /\ ChainInv /\ RunInv /\ ResponseInv /\ IngestInv
  BY DEF ItemInv, ChainInv, RunInv, ResponseInv, IngestInv, Content, Executing, Preparing
<1> QED
  BY <1>1, <1>2 DEF IInv

LEMMA Worded == \A i \in Items : As(i) \in Wordings /\ Sent(i) \in Wordings
  BY DEF As, Sent, Wordings

LEMMA SentItem == \A i : Sent(i).item = i
  BY DEF Sent

(* The ledger of an action grows by entries, of which some may be lost.    *)
LEMMA ByEntry ==
    ASSUME NEW event \in {"proposed", "auto", "confirmed", "rejected", "executed"},
           NEW w \in Wordings \cup {None}, NEW who \in {"user", "origin"}
    PROVE  By(event, w, who) \in Seq(Entry)
  BY DEF By, Entry

LEMMA EnterEntries ==
    ASSUME TypeOK, NEW a \in Actions, NEW entries \in Seq(Entry), Enter(a, entries)
    PROVE  trail' \in [Actions -> Seq(Entry)] /\ lost' \in [Actions -> SUBSET Nat]
<1>1. trail[a] \in Seq(Entry) /\ trail[a] \o entries \in Seq(Entry)
  BY DEF TypeOK
<1>2. PICK missing \in SUBSET (Len(trail[a]) + 1 .. Len(trail[a]) + Len(entries)) :
         lost' = [lost EXCEPT ![a] = @ \cup missing]
  BY DEF Enter
<1>3. missing \subseteq Nat
  BY <1>1, LenProperties
<1> QED
  BY <1>1, <1>2, <1>3 DEF TypeOK, Enter

LEMMA LogEntries ==
    ASSUME TypeOK, NEW a \in Actions, NEW entries \in Seq(Entry), Log(a, entries)
    PROVE  trail' \in [Actions -> Seq(Entry)] /\ lost' \in [Actions -> SUBSET Nat]
  BY EnterEntries DEF Log, TypeOK, ledgerVars

(* A step in the middle of one action that touches neither the response    *)
(* nor what is told of it.                                                 *)
LEMMA ResponseKept ==
    ASSUME TypeOK, ResponseInv, NEW a \in Actions, NEW to, to # "new",
           pc[a] \notin {"new", "done"}, pc' = [pc EXCEPT ![a] = to],
           UNCHANGED <<rejected, response, earlier, told>>
    PROVE  ResponseInv'
  BY DEF TypeOK, ResponseInv

(* A step of an action that reports no content and flags none.             *)
LEMMA IngestKept ==
    ASSUME TypeOK, IngestInv, NEW a \in Actions, NEW to,
           pc[a] # "flag", pc' = [pc EXCEPT ![a] = to],
           UNCHANGED <<item, tainted, ingested>>,
           \A b \in Actions : told'[b] = "result" => told[b] = "result"
    PROVE  IngestInv'
<1>1. \A b \in Content' : b \in Content
  BY DEF Content
<1>2. \A b \in Content : pc[b] = "flag" => pc'[b] = "flag"
  BY DEF TypeOK, Content
<1> QED
  BY <1>1, <1>2 DEF IngestInv, TypeOK

(* A step that ends an action, not with a rejection.                       *)
LEMMA ResponseTold ==
    ASSUME TypeOK, ResponseInv, NEW a \in Actions, NEW to, to # "new",
           pc[a] \notin {"new", "done"}, pc' = [pc EXCEPT ![a] = to],
           UNCHANGED <<rejected, response, earlier>>,
           \A b \in Actions : told'[b] = "rejected" => told[b] = "rejected"
    PROVE  ResponseInv'
<1>1. response \subseteq Actions
  BY DEF TypeOK, Actions
<1> QED
  BY <1>1 DEF TypeOK, ResponseInv

LEMMA ProposeStep ==
    ASSUME IInv, NEW a \in Actions, Propose(a)
    PROVE  IInv'
<1> USE ActionAssumption DEF IInv
<1>0. trail' \in [Actions -> Seq(Entry)] /\ lost' \in [Actions -> SUBSET Nat]
  <2>1. PICK i \in Items :
          IF i.kind = "command" THEN Enter(a, By("proposed", As(i), "origin")) ELSE UNCHANGED ledgerVars
    BY DEF Propose
  <2>2. By("proposed", As(i), "origin") \in Seq(Entry)
    BY ByEntry, Worded
  <2> QED
    BY <2>1, <2>2, EnterEntries DEF ledgerVars, TypeOK
<1>1. TypeOK'
  BY <1>0 DEF Propose, Goto, flagVars, lockVars, confirmVars, historyVars, ledgerVars, TypeOK, Places,
     Actions, Verdict, ItemType
<1>2. ItemInv'
  BY DEF Propose, Goto, TypeOK, ItemInv, Sent, Executing, Preparing
<1>3. ChainInv'
  BY DEF Propose, Goto, TypeOK, ItemInv, Executing, Preparing, ChainInv, Harmless,
     Unsuspicious, historyVars, flagVars, AlwaysConfirmed, UsesPassword, ConfirmedAfterIngest,
     Verdict, ItemType
<1>4. RunInv'
  BY DEF Propose, Goto, TypeOK, ItemInv, Executing, Preparing, ChainInv, RunInv, LetThrough,
     Asked, RaisedToRed, confirmVars
<1>5. ResponseInv'
  <2>1. \A c \in response : c # a /\ c \in Actions /\ pc[c] = pc'[c]
    BY DEF Propose, Goto, TypeOK, ResponseInv, Actions
  <2>2. a \in ChatActions => \A c \in response : pc[c] = "done"
    BY <2>1 DEF Propose, TypeOK, ResponseInv
  <2>3. \A b \in Actions : a \notin earlier[b]
    BY DEF Propose, Goto, ResponseInv
  <2>4. /\ response' = response \cup ({a} \cap ChatActions) /\ told' = told /\ rejected' = rejected
        /\ earlier'[a] = IF a \in ChatActions THEN response ELSE {}
        /\ pc'[a] = "policy" /\ told[a] # "rejected"
        /\ \A b \in Actions : b # a => pc'[b] = pc[b] /\ earlier'[b] = earlier[b]
    BY DEF Propose, Goto, TypeOK, flagVars, ItemInv
  <2> QED
    <3>1. \A c \in response' : pc'[c] # "new" /\ (told'[c] = "rejected" => rejected')
      BY <2>1, <2>4 DEF ResponseInv
    <3>2. \A b \in Actions : \A c \in earlier'[b] : pc'[c] = "done"
      <4>1. ASSUME NEW b \in Actions, b # a, NEW c \in earlier[b] PROVE pc'[c] = "done"
        <5>1. c \in Actions /\ c # a
          BY <4>1, <2>3 DEF TypeOK, Actions
        <5>2. pc[c] = "done"
          BY <4>1 DEF ResponseInv
        <5> QED
          BY <5>1, <5>2, <2>4
      <4>2. \A c \in earlier'[a] : pc'[c] = "done"
        BY <2>1, <2>2, <2>4
      <4> QED
        BY <4>1, <4>2, <2>4
    <3>3. \A b \in Actions :
             /\ b \in ChatActions /\ pc'[b] \notin {"new", "done"} => earlier'[b] \subseteq response'
             /\ b \notin ChatActions => earlier'[b] = {}
      BY <2>4 DEF ResponseInv
    <3> QED
      BY <3>1, <3>2, <3>3 DEF ResponseInv
<1>6. IngestInv'
  <2>1. /\ pc[a] = "new" /\ told[a] = "nothing"
        /\ \A b \in Actions \ {a} : pc'[b] = pc[b] /\ item'[b] = item[b]
        /\ told' = told /\ ingested' = ingested
    BY DEF Propose, Goto, TypeOK, ItemInv, flagVars
  <2>2. \A b \in Content' : b \in Content /\ b # a
    BY <2>1 DEF Content
  <2>3. \A b \in Content' : pc'[b] = "flag" \/ ingested'
    BY <2>1, <2>2 DEF IngestInv, Content
  <2>4. tainted'[a] => ingested
    <3>1. ASSUME NEW b \in Content, pc[b] # "flag" \/ {a, b} \subseteq ChatActions PROVE ingested
      <4>1. b \in ChatActions => pc[b] \in {"new", "done"} \/ a \notin ChatActions
        BY DEF Propose
      <4> QED
        BY <3>1, <4>1 DEF IngestInv
    <3> QED
      BY <3>1 DEF Propose, TypeOK
  <2> QED
    BY <2>1, <2>3, <2>4 DEF Propose, IngestInv, TypeOK
<1> QED
  BY <1>1, <1>2, <1>3, <1>4, <1>5, <1>6

LEMMA ApplyPolicyStep ==
    ASSUME IInv, NEW a \in Actions, ApplyPolicy(a)
    PROVE  IInv'
<1> USE ActionAssumption DEF IInv
<1>1. TypeOK'
  BY DEF ApplyPolicy, Goto, flagVars, lockVars, confirmVars, historyVars, ledgerVars, TypeOK, Places,
     Actions
<1>2. ItemInv'
  BY DEF ApplyPolicy, Goto, TypeOK, ItemInv, Sent, Executing, Preparing
<1>3. ChainInv'
  <2>1. /\ item' = item /\ tainted' = tainted /\ earlier' = earlier /\ told' = told /\ setting' = setting
        /\ \A b \in Actions : b # a => pc'[b] = pc[b] /\ decision'[b] = decision[b]
    BY DEF ApplyPolicy, Goto, TypeOK, historyVars
  <2>2. \A b \in Actions : (Harmless(b)' <=> Harmless(b)) /\ (Unsuspicious(b)' <=> Unsuspicious(b))
    BY <2>1 DEF Harmless, Unsuspicious, AlwaysConfirmed, ConfirmedAfterIngest, UsesPassword
  <2>3. /\ pc[a] = "policy" /\ pc'[a] = "suspicion" /\ item[a] \in Items /\ decision[a] = Verdict(item[a])
        /\ decision'[a] = "auto" => decision[a] = "auto" /\ ~AlwaysConfirmed(item[a])
                                   /\ ~(ingested /\ ConfirmedAfterIngest(item[a]))
        /\ decision[a] = "deny" => decision'[a] = "deny"
    BY DEF ApplyPolicy, Goto, TypeOK, ItemInv, ChainInv
  <2>4. decision'[a] = "auto" => Harmless(a)
    BY <2>3 DEF Harmless, IngestInv, Verdict, ItemType
  <2> QED
    BY <2>1, <2>2, <2>3, <2>4 DEF ChainInv
<1>4. RunInv'
  BY DEF ApplyPolicy, Goto, TypeOK, ItemInv, Executing, Preparing, ChainInv, RunInv,
     LetThrough, Asked, RaisedToRed, confirmVars
<1>5. ResponseInv'
  BY ResponseKept DEF ApplyPolicy, Goto, historyVars, flagVars
<1>6. IngestInv'
  BY IngestKept DEF ApplyPolicy, Goto, TypeOK, historyVars, flagVars
<1> QED
  BY <1>1, <1>2, <1>3, <1>4, <1>5, <1>6

LEMMA TakeSuspicionStep ==
    ASSUME IInv, NEW a \in Actions, TakeSuspicion(a)
    PROVE  IInv'
<1> USE ActionAssumption DEF IInv
<1>1. TypeOK'
  BY ZenonT(60) DEF TakeSuspicion, Goto, C!Ask, flagVars, lockVars, confirmVars, historyVars, ledgerVars, TypeOK,
     Places, Actions
<1>2. ItemInv'
  BY DEF TakeSuspicion, Goto, C!Ask, TypeOK, ItemInv, Sent, Executing, Preparing
<1>3. ChainInv'
  <2>1. /\ item' = item /\ tainted' = tainted /\ earlier' = earlier /\ told' = told /\ setting' = setting
        /\ \A b \in Actions : b # a => pc'[b] = pc[b] /\ decision'[b] = decision[b]
    BY DEF TakeSuspicion, Goto, C!Ask, TypeOK, historyVars
  <2>2. \A b \in Actions : (Harmless(b)' <=> Harmless(b)) /\ (Unsuspicious(b)' <=> Unsuspicious(b))
    BY <2>1 DEF Harmless, Unsuspicious, AlwaysConfirmed, ConfirmedAfterIngest, UsesPassword
  <2>3. /\ pc'[a] \in {"preview", "opinion"}
        /\ decision'[a] = "auto" => decision[a] = "auto" /\ ~ConfirmedAnyway(a)
        /\ decision[a] = "deny" => decision'[a] = "deny"
    BY DEF TakeSuspicion, Goto, C!Ask, TypeOK
  <2>4. decision'[a] = "auto" => Unsuspicious(a)
    BY <2>3 DEF Unsuspicious, ConfirmedAnyway, ResponseInv, Actions, TakeSuspicion, Goto
  <2> QED
    BY <2>1, <2>2, <2>3, <2>4 DEF ChainInv, TakeSuspicion, Goto
<1>4. RunInv'
  BY DEF TakeSuspicion, Goto, C!Ask, TypeOK, ItemInv, Executing, Preparing, ChainInv, RunInv,
     LetThrough, Asked, RaisedToRed, confirmVars
<1>5. ResponseInv'
  BY ResponseKept DEF TakeSuspicion, Goto, C!Ask, historyVars, flagVars
<1>6. IngestInv'
  BY IngestKept DEF TakeSuspicion, Goto, C!Ask, TypeOK, historyVars, flagVars
<1> QED
  BY <1>1, <1>2, <1>3, <1>4, <1>5, <1>6

LEMMA LockChannelStep ==
    ASSUME IInv, NEW a \in Actions, LockChannel(a)
    PROVE  IInv'
<1> USE ActionAssumption DEF IInv
<1>1. TypeOK'
  <2>1. pc' \in [Actions -> Places]
    <3>1. \E place \in {"previewRead", "previewChannel", "transfer", "openChannel"} :
            pc' = [pc EXCEPT ![a] = place]
      BY DEF LockChannel
    <3>2. pc \in [Actions -> Places]
      BY DEF TypeOK
    <3>3. {"previewRead", "previewChannel", "transfer", "openChannel"} \subseteq Places
      BY DEF Places
    <3> QED
      BY <3>1, <3>2, <3>3
  <2>2. sftpLock' \in Actions \cup {None}
    BY DEF LockChannel, TypeOK
  <2> QED
    BY <2>1, <2>2 DEF LockChannel, flagVars, lockVars, confirmVars, historyVars, ledgerVars, TypeOK
<1>2. ItemInv'
  BY DEF LockChannel, TypeOK, ItemInv, Sent, Executing, Preparing
<1>3. ChainInv'
  BY DEF LockChannel, TypeOK, ItemInv, Executing, Preparing, ChainInv, Harmless, Unsuspicious,
     historyVars, flagVars, AlwaysConfirmed, UsesPassword, ConfirmedAfterIngest
<1>4. RunInv'
  BY DEF LockChannel, TypeOK, ItemInv, Executing, Preparing, ChainInv, RunInv, LetThrough,
     Asked, RaisedToRed, confirmVars
<1>5. ResponseInv'
  BY ResponseKept DEF LockChannel, historyVars, flagVars
<1>6. IngestInv'
  BY IngestKept DEF LockChannel, TypeOK, historyVars, flagVars
<1> QED
  BY <1>1, <1>2, <1>3, <1>4, <1>5, <1>6

LEMMA OpenChannelStep ==
    ASSUME IInv, NEW a \in Actions, OpenChannel(a)
    PROVE  IInv'
<1> USE ActionAssumption DEF IInv
<1>1. TypeOK'
  <2>1. pc' = [pc EXCEPT ![a] = "previewOpening"] \/ pc' = [pc EXCEPT ![a] = "opening"]
    BY DEF OpenChannel, Goto
  <2>2. pc' \in [Actions -> Places]
    BY <2>1 DEF TypeOK, Places
  <2> QED
    BY <2>2 DEF OpenChannel, flagVars, lockVars, confirmVars, historyVars, ledgerVars, TypeOK
<1>2. ItemInv'
  BY DEF OpenChannel, Goto, TypeOK, ItemInv, Sent, Executing, Preparing
<1>3. ChainInv'
  BY DEF OpenChannel, Goto, TypeOK, ItemInv, Executing, Preparing, ChainInv,
     Harmless, Unsuspicious, historyVars, flagVars, AlwaysConfirmed, UsesPassword,
     ConfirmedAfterIngest
<1>4. RunInv'
  BY DEF OpenChannel, Goto, TypeOK, ItemInv, Executing, Preparing, ChainInv, RunInv,
     LetThrough, Asked, RaisedToRed, confirmVars
<1>5. ResponseInv'
  BY ResponseKept DEF OpenChannel, Goto, historyVars, flagVars
<1>6. IngestInv'
  BY IngestKept DEF OpenChannel, Goto, TypeOK, historyVars, flagVars
<1> QED
  BY <1>1, <1>2, <1>3, <1>4, <1>5, <1>6

LEMMA ChannelOpenedStep ==
    ASSUME IInv, NEW a \in Actions, ChannelOpened(a)
    PROVE  IInv'
<1> USE ActionAssumption DEF IInv
<1>1. TypeOK'
  <2>1. pc' = [pc EXCEPT ![a] = "previewRead"] \/ pc' = [pc EXCEPT ![a] = "transfer"]
    BY DEF ChannelOpened, Goto
  <2>2. pc' \in [Actions -> Places]
    BY <2>1 DEF TypeOK, Places
  <2> QED
    BY <2>2 DEF ChannelOpened, flagVars, lockVars, confirmVars, historyVars, ledgerVars, TypeOK
<1>2. ItemInv'
  BY DEF ChannelOpened, Goto, TypeOK, ItemInv, Sent, Executing, Preparing
<1>3. ChainInv'
  BY DEF ChannelOpened, Goto, TypeOK, ItemInv, Executing, Preparing, ChainInv,
     Harmless, Unsuspicious, historyVars, flagVars, AlwaysConfirmed, UsesPassword,
     ConfirmedAfterIngest
<1>4. RunInv'
  BY DEF ChannelOpened, Goto, TypeOK, ItemInv, Executing, Preparing, ChainInv, RunInv,
     LetThrough, Asked, RaisedToRed, confirmVars
<1>5. ResponseInv'
  BY ResponseKept DEF ChannelOpened, Goto, historyVars, flagVars
<1>6. IngestInv'
  BY IngestKept DEF ChannelOpened, Goto, TypeOK, historyVars, flagVars
<1> QED
  BY <1>1, <1>2, <1>3, <1>4, <1>5, <1>6

LEMMA ChannelFailedStep ==
    ASSUME IInv, NEW a \in Actions, ChannelFailed(a)
    PROVE  IInv'
<1> USE ActionAssumption DEF IInv
<1>1. TypeOK'
  <2>1. pc' \in [Actions -> Places] /\ sftpLock' \in Actions \cup {None}
    BY DEF ChannelFailed, Goto, TypeOK, Places
  <2>2. told' \in [Actions -> {"nothing", "result", "error", "rejected", "skipped"}]
    BY DEF ChannelFailed, Tell, TypeOK
  <2> QED
    BY <2>1, <2>2 DEF ChannelFailed, flagVars, lockVars, confirmVars, historyVars, ledgerVars, TypeOK
<1>2. ItemInv'
  BY DEF ChannelFailed, Goto, Tell, TypeOK, ItemInv, Sent, Executing, Preparing
<1>3. ChainInv'
  <2>1. /\ \A b \in Actions : b # a => pc'[b] = pc[b]
        /\ \A b \in Actions : told'[b] = "rejected" => told[b] = "rejected"
        /\ UNCHANGED <<item, decision, earlier, tainted, setting>>
        /\ pc[a] \notin {"new", "policy", "suspicion"} /\ pc'[a] \in {"opinion", "done"}
    BY DEF ChannelFailed, Goto, Tell, TypeOK, historyVars
  <2>2. \A b \in Actions : (Harmless(b)' <=> Harmless(b)) /\ (Unsuspicious(b) => Unsuspicious(b)')
    <3>1. \A b \in Actions : \A c \in earlier[b] : c \in Actions
      BY DEF TypeOK, Actions
    <3> QED
      BY <2>1, <3>1 DEF Harmless, Unsuspicious, AlwaysConfirmed, ConfirmedAfterIngest,
         UsesPassword
  <2> QED
    BY <2>1, <2>2 DEF ChainInv
<1>4. RunInv'
  BY DEF ChannelFailed, Goto, Tell, TypeOK, ItemInv, Executing, Preparing, ChainInv, RunInv,
     LetThrough, Asked, RaisedToRed, confirmVars
<1>5. ResponseInv'
  <2>1. /\ pc[a] \notin {"new", "done"}
        /\ pc' = [pc EXCEPT ![a] = "opinion"] \/ pc' = [pc EXCEPT ![a] = "done"]
        /\ UNCHANGED <<rejected, response, earlier>>
        /\ \A b \in Actions : told'[b] = "rejected" => told[b] = "rejected"
    BY DEF ChannelFailed, Goto, Tell, TypeOK, historyVars, flagVars
  <2> QED
    BY <2>1, ResponseTold
<1>6. IngestInv'
  BY IngestKept DEF ChannelFailed, Goto, Tell, TypeOK, historyVars, flagVars
<1> QED
  BY <1>1, <1>2, <1>3, <1>4, <1>5, <1>6

LEMMA ReadPreviewStep ==
    ASSUME IInv, NEW a \in Actions, ReadPreview(a)
    PROVE  IInv'
<1> USE ActionAssumption DEF IInv
<1>1. TypeOK'
  BY DEF ReadPreview, Goto, flagVars, lockVars, confirmVars, historyVars, ledgerVars, TypeOK,
     Places, Actions
<1>2. ItemInv'
  BY DEF ReadPreview, Goto, TypeOK, ItemInv, Sent, Executing, Preparing
<1>3. ChainInv'
  BY DEF ReadPreview, Goto, TypeOK, ItemInv, Executing, Preparing, ChainInv,
     Harmless, Unsuspicious, historyVars, flagVars, AlwaysConfirmed, UsesPassword,
     ConfirmedAfterIngest
<1>4. RunInv'
  BY DEF ReadPreview, Goto, TypeOK, ItemInv, Executing, Preparing, ChainInv, RunInv,
     LetThrough, Asked, RaisedToRed, confirmVars
<1>5. ResponseInv'
  BY ResponseKept DEF ReadPreview, Goto, historyVars, flagVars
<1>6. IngestInv'
  BY IngestKept DEF ReadPreview, Goto, TypeOK, historyVars, flagVars
<1> QED
  BY <1>1, <1>2, <1>3, <1>4, <1>5, <1>6

LEMMA PreviewReadStep ==
    ASSUME IInv, NEW a \in Actions, PreviewRead(a)
    PROVE  IInv'
<1> USE ActionAssumption DEF IInv
<1>1. TypeOK'
  BY DEF PreviewRead, Goto, flagVars, lockVars, confirmVars, historyVars, ledgerVars, TypeOK,
     Places, Actions
<1>2. ItemInv'
  BY DEF PreviewRead, Goto, TypeOK, ItemInv, Sent, Executing, Preparing
<1>3. ChainInv'
  BY DEF PreviewRead, Goto, TypeOK, ItemInv, Executing, Preparing, ChainInv,
     Harmless, Unsuspicious, historyVars, flagVars, AlwaysConfirmed, UsesPassword,
     ConfirmedAfterIngest
<1>4. RunInv'
  BY DEF PreviewRead, Goto, TypeOK, ItemInv, Executing, Preparing, ChainInv, RunInv,
     LetThrough, Asked, RaisedToRed, confirmVars
<1>5. ResponseInv'
  BY ResponseKept DEF PreviewRead, Goto, historyVars, flagVars
<1>6. IngestInv'
  BY IngestKept DEF PreviewRead, Goto, TypeOK, historyVars, flagVars
<1> QED
  BY <1>1, <1>2, <1>3, <1>4, <1>5, <1>6

LEMMA SecondOpinionStep ==
    ASSUME IInv, NEW a \in Actions, SecondOpinion(a)
    PROVE  IInv'
<1> USE ActionAssumption DEF IInv
<1>1. TypeOK'
  <2>1. PICK r \in BOOLEAN : raised' = [raised EXCEPT ![a] = r]
    BY DEF SecondOpinion
  <2>2. raised' \in [Actions -> BOOLEAN] /\ pc' \in [Actions -> Places]
    BY <2>1 DEF SecondOpinion, Goto, TypeOK, Places
  <2> QED
    BY <2>2 DEF SecondOpinion, flagVars, lockVars, confirmVars, historyVars, ledgerVars, TypeOK
<1>2. ItemInv'
  BY DEF SecondOpinion, Goto, TypeOK, ItemInv, Sent, Executing, Preparing
<1>3. ChainInv'
  BY DEF SecondOpinion, Goto, TypeOK, ItemInv, Executing, Preparing, ChainInv, Harmless,
     Unsuspicious, historyVars, flagVars, AlwaysConfirmed, UsesPassword, ConfirmedAfterIngest
<1>4. RunInv'
  BY DEF SecondOpinion, Goto, TypeOK, ItemInv, Executing, Preparing, ChainInv, RunInv,
     LetThrough, Asked, RaisedToRed, confirmVars
<1>5. ResponseInv'
  BY ResponseKept DEF SecondOpinion, Goto, historyVars, flagVars
<1>6. IngestInv'
  BY IngestKept DEF SecondOpinion, Goto, TypeOK, historyVars, flagVars
<1> QED
  BY <1>1, <1>2, <1>3, <1>4, <1>5, <1>6

LEMMA EscalateStep ==
    ASSUME IInv, NEW a \in Actions, Escalate(a)
    PROVE  IInv'
<1> USE ActionAssumption DEF IInv
<1>1. TypeOK'
  BY DEF Escalate, Goto, C!Ask, flagVars, lockVars, confirmVars, historyVars, ledgerVars, TypeOK, Places,
     Actions
<1>2. ItemInv'
  BY DEF Escalate, Goto, C!Ask, TypeOK, ItemInv, Sent, Executing, Preparing
<1>3. ChainInv'
  BY DEF Escalate, Goto, C!Ask, TypeOK, ItemInv, Executing, Preparing, ChainInv, Harmless,
     Unsuspicious, historyVars, flagVars, AlwaysConfirmed, UsesPassword, ConfirmedAfterIngest
<1>4. RunInv'
  BY DEF Escalate, Goto, C!Ask, TypeOK, ItemInv, Executing, Preparing, ChainInv, RunInv,
     LetThrough, Asked, RaisedToRed, confirmVars
<1>5. ResponseInv'
  BY ResponseKept DEF Escalate, Goto, C!Ask, historyVars, flagVars
<1>6. IngestInv'
  BY IngestKept DEF Escalate, Goto, C!Ask, TypeOK, historyVars, flagVars
<1> QED
  BY <1>1, <1>2, <1>3, <1>4, <1>5, <1>6

LEMMA SkipAfterStopStep ==
    ASSUME IInv, NEW a \in Actions, SkipAfterStop(a)
    PROVE  IInv'
<1> USE ActionAssumption DEF IInv
<1>1. TypeOK'
  BY DEF SkipAfterStop, Goto, Tell, flagVars, lockVars, confirmVars, historyVars, ledgerVars, TypeOK,
     Places, Actions
<1>2. ItemInv'
  BY DEF SkipAfterStop, Goto, Tell, TypeOK, ItemInv, Sent, Executing, Preparing
<1>3. ChainInv'
  BY DEF SkipAfterStop, Goto, Tell, TypeOK, ItemInv, Executing, Preparing, ChainInv, Harmless,
     Unsuspicious, historyVars, flagVars, AlwaysConfirmed, UsesPassword, ConfirmedAfterIngest
<1>4. RunInv'
  BY DEF SkipAfterStop, Goto, Tell, TypeOK, ItemInv, Executing, Preparing, ChainInv, RunInv,
     LetThrough, Asked, RaisedToRed, confirmVars
<1>5. ResponseInv'
  BY DEF SkipAfterStop, Goto, Tell, TypeOK, ItemInv, ResponseInv, historyVars, flagVars, Actions
<1>6. IngestInv'
  BY IngestKept DEF SkipAfterStop, Goto, Tell, TypeOK, historyVars, flagVars
<1> QED
  BY <1>1, <1>2, <1>3, <1>4, <1>5, <1>6

LEMMA AutoExecStep ==
    ASSUME IInv, NEW a \in Actions, AutoExec(a)
    PROVE  IInv'
<1> USE ActionAssumption DEF IInv
<1>0. trail' \in [Actions -> Seq(Entry)] /\ lost' \in [Actions -> SUBSET Nat]
  <2>1. By("auto", None, "origin") \in Seq(Entry)
    BY ByEntry
  <2> QED
    BY <2>1, LogEntries DEF AutoExec
<1>1. TypeOK'
  BY <1>0 DEF AutoExec, Goto, flagVars, lockVars, confirmVars, historyVars, ledgerVars, TypeOK, Places,
     Actions
<1>2. ItemInv'
  BY DEF AutoExec, Goto, TypeOK, ItemInv, Sent, Executing, Preparing
<1>3. ChainInv'
  BY DEF AutoExec, Goto, TypeOK, ItemInv, Executing, Preparing, ChainInv, Harmless,
     Unsuspicious, historyVars, flagVars, AlwaysConfirmed, UsesPassword, ConfirmedAfterIngest
<1>4. RunInv'
  <2>1. LetThrough(a)
    BY DEF AutoExec, Goto, ItemInv, ChainInv, Preparing, LetThrough, Asked
  <2>2. /\ \A b \in Actions : LetThrough(b)' <=> LetThrough(b)
        /\ \A b \in Actions : b # a => pc'[b] = pc[b]
        /\ ran' = ran
    BY DEF AutoExec, Goto, TypeOK, LetThrough, Asked, RaisedToRed, confirmVars
  <2> QED
    BY <2>1, <2>2 DEF RunInv
<1>5. ResponseInv'
  BY ResponseKept DEF AutoExec, Goto, historyVars, flagVars
<1>6. IngestInv'
  BY IngestKept DEF AutoExec, Goto, TypeOK, historyVars, flagVars
<1> QED
  BY <1>1, <1>2, <1>3, <1>4, <1>5, <1>6

LEMMA BlockStep ==
    ASSUME IInv, NEW a \in Actions, Block(a)
    PROVE  IInv'
<1> USE ActionAssumption DEF IInv
<1>0. trail' \in [Actions -> Seq(Entry)] /\ lost' \in [Actions -> SUBSET Nat]
  <2>1. By("rejected", None, "origin") \in Seq(Entry)
    BY ByEntry
  <2> QED
    BY <2>1, LogEntries DEF Block
<1>1. TypeOK'
  BY <1>0 DEF Block, Goto, Tell, MarkRejected, flagVars, lockVars, confirmVars, historyVars, ledgerVars,
     TypeOK, Places, Actions
<1>2. ItemInv'
  BY DEF Block, Goto, Tell, MarkRejected, TypeOK, ItemInv, Sent, Executing, Preparing
<1>3. ChainInv'
  BY DEF Block, Goto, Tell, MarkRejected, TypeOK, ItemInv, Executing, Preparing, ChainInv,
     Harmless, Unsuspicious, historyVars, flagVars, AlwaysConfirmed, UsesPassword,
     ConfirmedAfterIngest, ResponseInv
<1>4. RunInv'
  BY DEF Block, Goto, Tell, MarkRejected, TypeOK, ItemInv, Executing, Preparing, ChainInv,
     RunInv, LetThrough, Asked, RaisedToRed, confirmVars
<1>5. ResponseInv'
  BY ZenonT(60) DEF Block, Goto, Tell, MarkRejected, TypeOK, ItemInv, ResponseInv, historyVars, flagVars,
     Actions
<1>6. IngestInv'
  BY IngestKept DEF Block, Goto, Tell, MarkRejected, TypeOK, historyVars, flagVars
<1> QED
  BY <1>1, <1>2, <1>3, <1>4, <1>5, <1>6

LEMMA StartWaitingStep ==
    ASSUME IInv, NEW a \in Actions, StartWaiting(a)
    PROVE  IInv'
<1> USE ActionAssumption DEF IInv
<1>1. TypeOK'
  BY DEF StartWaiting, Goto, flagVars, lockVars, confirmVars, historyVars, ledgerVars, TypeOK, Places,
     Actions
<1>2. ItemInv'
  BY DEF StartWaiting, Goto, TypeOK, ItemInv, Sent, Executing, Preparing
<1>3. ChainInv'
  BY DEF StartWaiting, Goto, TypeOK, ItemInv, Executing, Preparing, ChainInv, Harmless,
     Unsuspicious, historyVars, flagVars, AlwaysConfirmed, UsesPassword, ConfirmedAfterIngest
<1>4. RunInv'
  BY DEF StartWaiting, Goto, TypeOK, ItemInv, Executing, Preparing, ChainInv, RunInv,
     LetThrough, Asked, RaisedToRed, confirmVars
<1>5. ResponseInv'
  BY ResponseKept DEF StartWaiting, Goto, historyVars, flagVars
<1>6. IngestInv'
  BY IngestKept DEF StartWaiting, Goto, TypeOK, historyVars, flagVars
<1> QED
  BY <1>1, <1>2, <1>3, <1>4, <1>5, <1>6

LEMMA RefuseStep ==
    ASSUME IInv, NEW a \in Actions, Refuse(a)
    PROVE  IInv'
<1> USE ActionAssumption DEF IInv
<1>0. trail' \in [Actions -> Seq(Entry)] /\ lost' \in [Actions -> SUBSET Nat]
  <2>1. By("rejected", None, IF outcome[a] = None THEN "origin" ELSE "user") \in Seq(Entry)
    BY ByEntry
  <2> QED
    BY <2>1, LogEntries DEF Refuse
<1>1. TypeOK'
  BY <1>0 DEF Refuse, Goto, Tell, MarkRejected, flagVars, lockVars, confirmVars, historyVars, ledgerVars,
     TypeOK, Places, Actions
<1>2. ItemInv'
  BY DEF Refuse, Goto, Tell, MarkRejected, TypeOK, ItemInv, Sent, Executing, Preparing
<1>3. ChainInv'
  BY DEF Refuse, Goto, Tell, MarkRejected, TypeOK, ItemInv, Executing, Preparing, ChainInv,
     Harmless, Unsuspicious, historyVars, flagVars, AlwaysConfirmed, UsesPassword,
     ConfirmedAfterIngest, ResponseInv
<1>4. RunInv'
  BY DEF Refuse, Goto, Tell, MarkRejected, TypeOK, ItemInv, Executing, Preparing, ChainInv,
     RunInv, LetThrough, Asked, RaisedToRed, confirmVars
<1>5. ResponseInv'
  BY ZenonT(60) DEF Refuse, Goto, Tell, MarkRejected, TypeOK, ItemInv, ResponseInv, historyVars,
     flagVars, Actions
<1>6. IngestInv'
  BY IngestKept DEF Refuse, Goto, Tell, MarkRejected, TypeOK, historyVars, flagVars
<1> QED
  BY <1>1, <1>2, <1>3, <1>4, <1>5, <1>6

LEMMA ApproveStep ==
    ASSUME IInv, NEW a \in Actions, Approve(a)
    PROVE  IInv'
<1> USE ActionAssumption DEF IInv
<1>0. trail' \in [Actions -> Seq(Entry)] /\ lost' \in [Actions -> SUBSET Nat]
  <2>1. By("confirmed", None, "user") \in Seq(Entry)
    BY ByEntry
  <2> QED
    BY <2>1, LogEntries DEF Approve
<1>1. TypeOK'
  BY <1>0 DEF Approve, Goto, flagVars, lockVars, confirmVars, historyVars, ledgerVars, TypeOK, Places,
     Actions
<1>2. ItemInv'
  BY DEF Approve, Goto, TypeOK, ItemInv, Sent, Executing, Preparing
<1>3. ChainInv'
  BY DEF Approve, Goto, TypeOK, ItemInv, Executing, Preparing, ChainInv, Harmless,
     Unsuspicious, historyVars, flagVars, AlwaysConfirmed, UsesPassword, ConfirmedAfterIngest
<1>4. RunInv'
  <2>1. LetThrough(a)
    BY DEF Approve, Goto, ItemInv, ChainInv, Preparing, LetThrough, Asked
  <2>2. /\ \A b \in Actions : LetThrough(b)' <=> LetThrough(b)
        /\ \A b \in Actions : b # a => pc'[b] = pc[b]
        /\ ran' = ran
    BY DEF Approve, Goto, TypeOK, LetThrough, Asked, RaisedToRed, confirmVars
  <2> QED
    BY <2>1, <2>2 DEF RunInv
<1>5. ResponseInv'
  BY ResponseKept DEF Approve, Goto, historyVars, flagVars
<1>6. IngestInv'
  BY IngestKept DEF Approve, Goto, TypeOK, historyVars, flagVars
<1> QED
  BY <1>1, <1>2, <1>3, <1>4, <1>5, <1>6

LEMMA ExecuteEditedStep ==
    ASSUME IInv, NEW a \in Actions, ExecuteEdited(a)
    PROVE  IInv'
<1> USE ActionAssumption DEF IInv
<1>0. trail' \in [Actions -> Seq(Entry)] /\ lost' \in [Actions -> SUBSET Nat]
  <2>1. PICK i \in Items : Log(a, By("proposed", As(i), "user") \o By("confirmed", None, "user"))
    BY DEF ExecuteEdited
  <2>2. By("proposed", As(i), "user") \o By("confirmed", None, "user") \in Seq(Entry)
    BY ByEntry, Worded
  <2> QED
    BY <2>1, <2>2, LogEntries
<1>1. TypeOK'
  BY <1>0 DEF ExecuteEdited, Goto, EditedItem, flagVars, lockVars, confirmVars, historyVars, ledgerVars,
     TypeOK, Places, Actions
<1>2. ItemInv'
  BY DEF ExecuteEdited, Goto, EditedItem, TypeOK, ItemInv, Sent, Executing, Preparing
<1>3. ChainInv'
  BY DEF ExecuteEdited, Goto, EditedItem, TypeOK, ItemInv, Executing, Preparing, ChainInv,
     Harmless, Unsuspicious, historyVars, flagVars, AlwaysConfirmed, UsesPassword,
     ConfirmedAfterIngest
<1>4. RunInv'
  BY DEF ExecuteEdited, Goto, EditedItem, TypeOK, ItemInv, Executing, Preparing, ChainInv,
     RunInv, LetThrough, Asked, RaisedToRed, confirmVars
<1>5. ResponseInv'
  BY ResponseKept DEF ExecuteEdited, Goto, EditedItem, historyVars, flagVars
<1>6. IngestInv'
  <2>1. /\ pc[a] = "decided" /\ pc' = [pc EXCEPT ![a] = "start"]
        /\ UNCHANGED <<item, tainted, ingested>>
        /\ \A b \in Actions : told'[b] = "result" => told[b] = "result"
    BY DEF ExecuteEdited, Goto, Tell, TypeOK, historyVars, flagVars
  <2> QED
    BY <2>1, IngestKept
<1> QED
  BY <1>1, <1>2, <1>3, <1>4, <1>5, <1>6

LEMMA BlockEditedStep ==
    ASSUME IInv, NEW a \in Actions, BlockEdited(a)
    PROVE  IInv'
<1> USE ActionAssumption DEF IInv
<1>0. trail' \in [Actions -> Seq(Entry)] /\ lost' \in [Actions -> SUBSET Nat]
  <2>1. PICK i \in Items : Log(a, By("proposed", As(i), "user") \o By("rejected", None, "origin"))
    BY DEF BlockEdited
  <2>2. By("proposed", As(i), "user") \o By("rejected", None, "origin") \in Seq(Entry)
    BY ByEntry, Worded
  <2> QED
    BY <2>1, <2>2, LogEntries
<1>1. TypeOK'
  BY <1>0 DEF BlockEdited, Goto, Tell, MarkRejected, EditedItem, flagVars, lockVars,
     confirmVars, historyVars, ledgerVars, TypeOK, Places, Actions
<1>2. ItemInv'
  BY DEF BlockEdited, Goto, Tell, MarkRejected, EditedItem, TypeOK, ItemInv, Sent, Executing,
     Preparing
<1>3. ChainInv'
  BY DEF BlockEdited, Goto, Tell, MarkRejected, EditedItem, TypeOK, ItemInv, Executing,
     Preparing, ChainInv, Harmless, Unsuspicious, historyVars, flagVars, AlwaysConfirmed,
     UsesPassword, ConfirmedAfterIngest, ResponseInv
<1>4. RunInv'
  BY DEF BlockEdited, Goto, Tell, MarkRejected, EditedItem, TypeOK, ItemInv, Executing,
     Preparing, ChainInv, RunInv, LetThrough, Asked, RaisedToRed, confirmVars
<1>5. ResponseInv'
  <2>1. /\ pc[a] = "decided" /\ pc' = [pc EXCEPT ![a] = "done"] /\ told' = [told EXCEPT ![a] = "rejected"]
        /\ rejected' = (rejected \/ a \in ChatActions) /\ UNCHANGED <<response, earlier>>
    BY DEF BlockEdited, Goto, Tell, MarkRejected, historyVars
  <2> QED
    BY <2>1, ZenonT(60) DEF TypeOK, ResponseInv, Actions
<1>6. IngestInv'
  <2>1. /\ pc[a] = "decided" /\ pc' = [pc EXCEPT ![a] = "done"]
        /\ UNCHANGED <<item, tainted, ingested>>
        /\ \A b \in Actions : told'[b] = "result" => told[b] = "result"
    BY DEF BlockEdited, Goto, Tell, TypeOK, historyVars, flagVars
  <2> QED
    BY <2>1, IngestKept
<1> QED
  BY <1>1, <1>2, <1>3, <1>4, <1>5, <1>6

LEMMA ReceiveDecisionStep ==
    ASSUME IInv, NEW a \in Actions, ReceiveDecision(a)
    PROVE  IInv'
<1> USE ActionAssumption DEF IInv
<1>1. TypeOK'
  BY DEF ReceiveDecision, Goto, C!CloseDecided, flagVars, lockVars, confirmVars, historyVars, ledgerVars,
     TypeOK, Places, Actions
<1>2. ItemInv'
  BY DEF ReceiveDecision, Goto, C!CloseDecided, TypeOK, ItemInv, Sent, Executing, Preparing
<1>3. ChainInv'
  BY DEF ReceiveDecision, Goto, C!CloseDecided, TypeOK, ItemInv, Executing, Preparing,
     ChainInv, Harmless, Unsuspicious, historyVars, flagVars, AlwaysConfirmed, UsesPassword,
     ConfirmedAfterIngest
<1>4. RunInv'
  BY DEF ReceiveDecision, Goto, C!CloseDecided, TypeOK, ItemInv, Executing, Preparing,
     ChainInv, RunInv, LetThrough, Asked, RaisedToRed, confirmVars
<1>5. ResponseInv'
  BY ResponseKept DEF ReceiveDecision, Goto, C!CloseDecided, historyVars, flagVars
<1>6. IngestInv'
  BY IngestKept DEF ReceiveDecision, Goto, C!CloseDecided, TypeOK, historyVars, flagVars
<1> QED
  BY <1>1, <1>2, <1>3, <1>4, <1>5, <1>6

LEMMA TimeOutStep ==
    ASSUME IInv, NEW a \in Actions, TimeOut(a)
    PROVE  IInv'
<1> USE ActionAssumption DEF IInv
<1>1. TypeOK'
  BY DEF TimeOut, Goto, C!CloseUndecided, flagVars, lockVars, confirmVars, historyVars, ledgerVars,
     TypeOK, Places, Actions
<1>2. ItemInv'
  BY DEF TimeOut, Goto, C!CloseUndecided, TypeOK, ItemInv, Sent, Executing, Preparing
<1>3. ChainInv'
  BY DEF TimeOut, Goto, C!CloseUndecided, TypeOK, ItemInv, Executing, Preparing, ChainInv,
     Harmless, Unsuspicious, historyVars, flagVars, AlwaysConfirmed, UsesPassword,
     ConfirmedAfterIngest
<1>4. RunInv'
  BY DEF TimeOut, Goto, C!CloseUndecided, TypeOK, ItemInv, Executing, Preparing, ChainInv,
     RunInv, LetThrough, Asked, RaisedToRed, confirmVars
<1>5. ResponseInv'
  BY ResponseKept DEF TimeOut, Goto, C!CloseUndecided, historyVars, flagVars
<1>6. IngestInv'
  BY IngestKept DEF TimeOut, Goto, C!CloseUndecided, TypeOK, historyVars, flagVars
<1> QED
  BY <1>1, <1>2, <1>3, <1>4, <1>5, <1>6

LEMMA UpdateNoteStep ==
    ASSUME IInv, NEW a \in Actions, UpdateNote(a)
    PROVE  IInv'
<1> USE ActionAssumption DEF IInv
<1>1. TypeOK'
  <2>1. pc' \in [Actions -> Places]
    BY DEF UpdateNote, Goto, TypeOK, Places
  <2>3. ran' \in [Actions -> Wordings \cup {None}]
    <3>1. ran' = ran \/ ran' = [ran EXCEPT ![a] = Sent(work[a])]
      BY DEF UpdateNote
    <3>2. Sent(work[a]) \in Wordings
      BY Worded DEF UpdateNote, Goto, ItemInv
    <3>3. ran \in [Actions -> Wordings \cup {None}]
      BY DEF TypeOK
    <3> QED
      BY <3>1, <3>2, <3>3
  <2>2. told' \in [Actions -> {"nothing", "result", "error", "rejected", "skipped"}]
    BY DEF UpdateNote, Tell, TypeOK
  <2> QED
    BY <2>1, <2>2, <2>3 DEF UpdateNote, flagVars, lockVars, confirmVars, historyVars, ledgerVars, TypeOK
<1>2. ItemInv'
  BY DEF UpdateNote, Goto, Tell, TypeOK, ItemInv, Sent, Executing, Preparing
<1>3. ChainInv'
  <2>1. /\ \A b \in Actions : b # a => pc'[b] = pc[b]
        /\ \A b \in Actions : told'[b] = "rejected" => told[b] = "rejected"
        /\ UNCHANGED <<item, decision, earlier, tainted, setting>>
        /\ pc[a] \notin {"new", "policy", "suspicion"} /\ pc'[a] \in {"opinion", "done"}
    BY DEF UpdateNote, Goto, Tell, TypeOK, historyVars
  <2>2. \A b \in Actions : (Harmless(b)' <=> Harmless(b)) /\ (Unsuspicious(b) => Unsuspicious(b)')
    <3>1. \A b \in Actions : \A c \in earlier[b] : c \in Actions
      BY DEF TypeOK, Actions
    <3> QED
      BY <2>1, <3>1 DEF Harmless, Unsuspicious, AlwaysConfirmed, ConfirmedAfterIngest,
         UsesPassword
  <2> QED
    BY <2>1, <2>2 DEF ChainInv
<1>4. RunInv'
  BY DEF UpdateNote, Goto, Tell, TypeOK, ItemInv, Executing, Preparing, ChainInv, RunInv,
     LetThrough, Asked, RaisedToRed, confirmVars
<1>5. ResponseInv'
  BY DEF UpdateNote, Goto, Tell, TypeOK, ItemInv, ResponseInv, historyVars, flagVars, Actions
<1>6. IngestInv'
  <2>1. /\ \A b \in Actions \ {a} : pc'[b] = pc[b] /\ told'[b] = told[b]
        /\ UNCHANGED <<item, tainted, ingested>>
        /\ item[a].kind = "note"
    BY DEF UpdateNote, Goto, Tell, TypeOK, historyVars, flagVars, ItemInv
  <2>2. \A b \in Content' : b \in Content \/ b = a
    BY <2>1 DEF Content
  <2> QED
    BY <2>1, <2>2 DEF IngestInv, Content
<1> QED
  BY <1>1, <1>2, <1>3, <1>4, <1>5, <1>6

LEMMA StartTransferStep ==
    ASSUME IInv, NEW a \in Actions, StartTransfer(a)
    PROVE  IInv'
<1> USE ActionAssumption DEF IInv
<1>1. TypeOK'
  BY DEF StartTransfer, Goto, flagVars, lockVars, confirmVars, historyVars, ledgerVars, TypeOK, Places,
     Actions
<1>2. ItemInv'
  BY DEF StartTransfer, Goto, TypeOK, ItemInv, Sent, Executing, Preparing
<1>3. ChainInv'
  BY DEF StartTransfer, Goto, TypeOK, ItemInv, Executing, Preparing, ChainInv, Harmless,
     Unsuspicious, historyVars, flagVars, AlwaysConfirmed, UsesPassword, ConfirmedAfterIngest
<1>4. RunInv'
  BY DEF StartTransfer, Goto, TypeOK, ItemInv, Executing, Preparing, ChainInv, RunInv,
     LetThrough, Asked, RaisedToRed, confirmVars
<1>5. ResponseInv'
  BY ResponseKept DEF StartTransfer, Goto, historyVars, flagVars
<1>6. IngestInv'
  BY IngestKept DEF StartTransfer, Goto, TypeOK, historyVars, flagVars
<1> QED
  BY <1>1, <1>2, <1>3, <1>4, <1>5, <1>6

LEMMA TransferStep ==
    ASSUME IInv, NEW a \in Actions, Transfer(a)
    PROVE  IInv'
<1> USE ActionAssumption DEF IInv
<1>1. TypeOK'
  <2>1. Sent(work[a]) \in Wordings
    BY Worded DEF Transfer, Goto, ItemInv
  <2> QED
    BY <2>1 DEF Transfer, Goto, flagVars, lockVars, confirmVars, historyVars, ledgerVars, TypeOK,
       Places, Actions
<1>2. ItemInv'
  BY DEF Transfer, Goto, TypeOK, ItemInv, Sent, Executing, Preparing
<1>3. ChainInv'
  BY DEF Transfer, Goto, TypeOK, ItemInv, Executing, Preparing, ChainInv,
     Harmless, Unsuspicious, historyVars, flagVars, AlwaysConfirmed, UsesPassword,
     ConfirmedAfterIngest
<1>4. RunInv'
  BY DEF Transfer, Goto, TypeOK, ItemInv, Executing, Preparing, ChainInv, RunInv,
     LetThrough, Asked, RaisedToRed, confirmVars
<1>5. ResponseInv'
  BY ResponseKept DEF Transfer, Goto, historyVars, flagVars
<1>6. IngestInv'
  BY IngestKept DEF Transfer, Goto, TypeOK, historyVars, flagVars
<1> QED
  BY <1>1, <1>2, <1>3, <1>4, <1>5, <1>6

LEMMA TransferredStep ==
    ASSUME IInv, NEW a \in Actions, Transferred(a)
    PROVE  IInv'
<1> USE ActionAssumption DEF IInv
<1>1. TypeOK'
  BY DEF Transferred, Goto, Tell, flagVars, lockVars, confirmVars, historyVars, ledgerVars, TypeOK,
     Places, Actions
<1>2. ItemInv'
  BY DEF Transferred, Goto, Tell, TypeOK, ItemInv, Sent, Executing, Preparing
<1>3. ChainInv'
  BY DEF Transferred, Goto, Tell, TypeOK, ItemInv, Executing, Preparing, ChainInv,
     Harmless, Unsuspicious, historyVars, flagVars, AlwaysConfirmed, UsesPassword,
     ConfirmedAfterIngest
<1>4. RunInv'
  BY DEF Transferred, Goto, Tell, TypeOK, ItemInv, Executing, Preparing, ChainInv, RunInv,
     LetThrough, Asked, RaisedToRed, confirmVars
<1>5. ResponseInv'
  BY DEF Transferred, Goto, Tell, TypeOK, ItemInv, ResponseInv, historyVars, flagVars,
     Actions
<1>6. IngestInv'
  <2>1. /\ \A b \in Actions \ {a} : pc'[b] = pc[b] /\ told'[b] = told[b]
        /\ UNCHANGED <<item, tainted, ingested>>
        /\ pc'[a] = "flag" \/ item[a].kind = "write"
    BY DEF Transferred, Goto, Tell, TypeOK, historyVars, flagVars, ItemInv
  <2>2. \A b \in Content' : b \in Content \/ b = a
    BY <2>1 DEF Content
  <2> QED
    BY <2>1, <2>2 DEF IngestInv, Content
<1> QED
  BY <1>1, <1>2, <1>3, <1>4, <1>5, <1>6

LEMMA TransferFailedStep ==
    ASSUME IInv, NEW a \in Actions, TransferFailed(a)
    PROVE  IInv'
<1> USE ActionAssumption DEF IInv
<1>1. TypeOK'
  BY SMTT(40) DEF TransferFailed, Goto, Tell, flagVars, lockVars, confirmVars, historyVars, ledgerVars, TypeOK,
     Places, Actions
<1>2. ItemInv'
  BY DEF TransferFailed, Goto, Tell, TypeOK, ItemInv, Sent, Executing, Preparing
<1>3. ChainInv'
  BY DEF TransferFailed, Goto, Tell, TypeOK, ItemInv, Executing, Preparing, ChainInv,
     Harmless, Unsuspicious, historyVars, flagVars, AlwaysConfirmed, UsesPassword,
     ConfirmedAfterIngest
<1>4. RunInv'
  BY DEF TransferFailed, Goto, Tell, TypeOK, ItemInv, Executing, Preparing, ChainInv, RunInv,
     LetThrough, Asked, RaisedToRed, confirmVars
<1>5. ResponseInv'
  BY DEF TransferFailed, Goto, Tell, TypeOK, ItemInv, ResponseInv, historyVars, flagVars,
     Actions
<1>6. IngestInv'
  BY IngestKept DEF TransferFailed, Goto, Tell, TypeOK, historyVars, flagVars
<1> QED
  BY <1>1, <1>2, <1>3, <1>4, <1>5, <1>6

LEMMA StartCommandStep ==
    ASSUME IInv, NEW a \in Actions, StartCommand(a)
    PROVE  IInv'
<1> USE ActionAssumption DEF IInv
<1>1. TypeOK'
  BY DEF StartCommand, Goto, flagVars, lockVars, confirmVars, historyVars, ledgerVars, TypeOK, Places,
     Actions
<1>2. ItemInv'
  BY DEF StartCommand, Goto, TypeOK, ItemInv, Sent, Executing, Preparing
<1>3. ChainInv'
  BY DEF StartCommand, Goto, TypeOK, ItemInv, Executing, Preparing, ChainInv, Harmless,
     Unsuspicious, historyVars, flagVars, AlwaysConfirmed, UsesPassword, ConfirmedAfterIngest
<1>4. RunInv'
  BY DEF StartCommand, Goto, TypeOK, ItemInv, Executing, Preparing, ChainInv, RunInv,
     LetThrough, Asked, RaisedToRed, confirmVars
<1>5. ResponseInv'
  BY ResponseKept DEF StartCommand, Goto, historyVars, flagVars
<1>6. IngestInv'
  BY IngestKept DEF StartCommand, Goto, TypeOK, historyVars, flagVars
<1> QED
  BY <1>1, <1>2, <1>3, <1>4, <1>5, <1>6

LEMMA TransferDeniedStep ==
    ASSUME IInv, NEW a \in Actions, TransferDenied(a)
    PROVE  IInv'
<1> USE ActionAssumption DEF IInv
<1>1. TypeOK'
  BY DEF TransferDenied, Goto, flagVars, lockVars, confirmVars, historyVars, ledgerVars, TypeOK,
     Places, Actions
<1>2. ItemInv'
  BY DEF TransferDenied, Goto, TypeOK, ItemInv, Sent, Executing, Preparing
<1>3. ChainInv'
  BY DEF TransferDenied, Goto, TypeOK, ItemInv, Executing, Preparing, ChainInv,
     Harmless, Unsuspicious, historyVars, flagVars, AlwaysConfirmed, UsesPassword,
     ConfirmedAfterIngest
<1>4. RunInv'
  BY DEF TransferDenied, Goto, TypeOK, ItemInv, Executing, Preparing, ChainInv, RunInv,
     LetThrough, Asked, RaisedToRed, confirmVars
<1>5. ResponseInv'
  BY ResponseKept DEF TransferDenied, Goto, historyVars, flagVars
<1>6. IngestInv'
  BY IngestKept DEF TransferDenied, Goto, TypeOK, historyVars, flagVars
<1> QED
  BY <1>1, <1>2, <1>3, <1>4, <1>5, <1>6

LEMMA RunPrivilegedStep ==
    ASSUME IInv, NEW a \in Actions, RunPrivileged(a)
    PROVE  IInv'
<1> USE ActionAssumption DEF IInv
<1>1. TypeOK'
  BY DEF RunPrivileged, Goto, flagVars, lockVars, confirmVars, historyVars, ledgerVars, TypeOK,
     Places, Actions
<1>2. ItemInv'
  BY DEF RunPrivileged, Goto, TypeOK, ItemInv, Sent, Executing, Preparing
<1>3. ChainInv'
  BY DEF RunPrivileged, Goto, TypeOK, ItemInv, Executing, Preparing, ChainInv,
     Harmless, Unsuspicious, historyVars, flagVars, AlwaysConfirmed, UsesPassword,
     ConfirmedAfterIngest
<1>4. RunInv'
  BY DEF RunPrivileged, Goto, TypeOK, ItemInv, Executing, Preparing, ChainInv, RunInv,
     LetThrough, Asked, RaisedToRed, confirmVars
<1>5. ResponseInv'
  BY ResponseKept DEF RunPrivileged, Goto, historyVars, flagVars
<1>6. IngestInv'
  BY IngestKept DEF RunPrivileged, Goto, TypeOK, historyVars, flagVars
<1> QED
  BY <1>1, <1>2, <1>3, <1>4, <1>5, <1>6

LEMMA PrivilegedEndedStep ==
    ASSUME IInv, NEW a \in Actions, PrivilegedEnded(a)
    PROVE  IInv'
<1> USE ActionAssumption DEF IInv
<1>1. TypeOK'
  BY DEF PrivilegedEnded, Goto, Tell, flagVars, lockVars, confirmVars, historyVars, ledgerVars, TypeOK,
     Places, Actions
<1>2. ItemInv'
  BY DEF PrivilegedEnded, Goto, Tell, TypeOK, ItemInv, Sent, Executing, Preparing
<1>3. ChainInv'
  <2>1. /\ \A b \in Actions : b # a => pc'[b] = pc[b]
        /\ \A b \in Actions : told'[b] = "rejected" => told[b] = "rejected"
        /\ UNCHANGED <<item, decision, earlier, tainted, setting>>
        /\ pc[a] \notin {"new", "policy", "suspicion"} /\ pc'[a] = "done"
    BY DEF PrivilegedEnded, Goto, Tell, TypeOK, historyVars
  <2>2. \A b \in Actions : (Harmless(b)' <=> Harmless(b)) /\ (Unsuspicious(b) => Unsuspicious(b)')
    <3>1. \A b \in Actions : \A c \in earlier[b] : c \in Actions
      BY DEF TypeOK, Actions
    <3> QED
      BY <2>1, <3>1 DEF Harmless, Unsuspicious, AlwaysConfirmed, ConfirmedAfterIngest,
         UsesPassword
  <2> QED
    BY <2>1, <2>2 DEF ChainInv
<1>4. RunInv'
  BY DEF PrivilegedEnded, Goto, Tell, TypeOK, ItemInv, Executing, Preparing, ChainInv, RunInv,
     LetThrough, Asked, RaisedToRed, confirmVars
<1>5. ResponseInv'
  BY DEF PrivilegedEnded, Goto, Tell, TypeOK, ItemInv, ResponseInv, historyVars, flagVars,
     Actions
<1>6. IngestInv'
  <2>1. /\ \A b \in Actions \ {a} : pc'[b] = pc[b] /\ told'[b] = told[b]
        /\ UNCHANGED <<item, tainted, ingested>>
        /\ item[a].kind = "write"
    BY DEF PrivilegedEnded, Goto, Tell, TypeOK, historyVars, flagVars, ItemInv
  <2>2. \A b \in Content' : b \in Content \/ b = a
    BY <2>1 DEF Content
  <2> QED
    BY <2>1, <2>2 DEF IngestInv, Content
<1> QED
  BY <1>1, <1>2, <1>3, <1>4, <1>5, <1>6

LEMMA RunCommandStep ==
    ASSUME IInv, NEW a \in Actions, RunCommand(a)
    PROVE  IInv'
<1> USE ActionAssumption DEF IInv
<1>1. TypeOK'
  <2>1. Sent(work[a]) \in Wordings
    BY Worded DEF RunCommand, Goto, ItemInv
  <2> QED
    BY <2>1 DEF RunCommand, Goto, flagVars, lockVars, confirmVars, historyVars, ledgerVars, TypeOK,
       Places, Actions
<1>2. ItemInv'
  BY DEF RunCommand, Goto, TypeOK, ItemInv, Sent, Executing, Preparing
<1>3. ChainInv'
  BY DEF RunCommand, Goto, TypeOK, ItemInv, Executing, Preparing, ChainInv,
     Harmless, Unsuspicious, historyVars, flagVars, AlwaysConfirmed, UsesPassword,
     ConfirmedAfterIngest
<1>4. RunInv'
  BY DEF RunCommand, Goto, TypeOK, ItemInv, Executing, Preparing, ChainInv, RunInv,
     LetThrough, Asked, RaisedToRed, confirmVars
<1>5. ResponseInv'
  BY ResponseKept DEF RunCommand, Goto, historyVars, flagVars
<1>6. IngestInv'
  BY IngestKept DEF RunCommand, Goto, TypeOK, historyVars, flagVars
<1> QED
  BY <1>1, <1>2, <1>3, <1>4, <1>5, <1>6

LEMMA EndCommandStep ==
    ASSUME IInv, NEW a \in Actions, EndCommand(a)
    PROVE  IInv'
<1> USE ActionAssumption DEF IInv
<1>1. TypeOK'
  BY DEF EndCommand, Goto, flagVars, lockVars, confirmVars, historyVars, ledgerVars, TypeOK, Places, Actions
<1>2. ItemInv'
  BY DEF EndCommand, Goto, TypeOK, ItemInv, Sent, Executing, Preparing
<1>3. ChainInv'
  BY DEF EndCommand, Goto, TypeOK, ItemInv, Executing, Preparing, ChainInv, Harmless,
     Unsuspicious, historyVars, flagVars, AlwaysConfirmed, UsesPassword, ConfirmedAfterIngest
<1>4. RunInv'
  BY DEF EndCommand, Goto, TypeOK, ItemInv, Executing, Preparing, ChainInv, RunInv,
     LetThrough, Asked, RaisedToRed, confirmVars
<1>5. ResponseInv'
  BY ResponseKept DEF EndCommand, Goto, historyVars, flagVars
<1>6. IngestInv'
  BY IngestKept DEF EndCommand, Goto, TypeOK, historyVars, flagVars
<1> QED
  BY <1>1, <1>2, <1>3, <1>4, <1>5, <1>6

LEMMA ReportOutputStep ==
    ASSUME IInv, NEW a \in Actions, ReportOutput(a)
    PROVE  IInv'
<1> USE ActionAssumption DEF IInv
<1>0. trail' \in [Actions -> Seq(Entry)] /\ lost' \in [Actions -> SUBSET Nat]
  <2>1. By("executed", Sent(work[a]), Executor(a)) \in Seq(Entry)
    BY ByEntry, Worded DEF ReportOutput, Goto, Tell, ItemInv, Preparing, Executor
  <2> QED
    BY <2>1, LogEntries DEF ReportOutput
<1>1. TypeOK'
  BY <1>0 DEF ReportOutput, Goto, Tell, flagVars, lockVars, confirmVars, historyVars, ledgerVars, TypeOK,
     Places, Actions
<1>2. ItemInv'
  BY DEF ReportOutput, Goto, Tell, TypeOK, ItemInv, Sent, Executing, Preparing
<1>3. ChainInv'
  BY DEF ReportOutput, Goto, Tell, TypeOK, ItemInv, Executing, Preparing, ChainInv, Harmless,
     Unsuspicious, historyVars, flagVars, AlwaysConfirmed, UsesPassword, ConfirmedAfterIngest
<1>4. RunInv'
  BY DEF ReportOutput, Goto, Tell, TypeOK, ItemInv, Executing, Preparing, ChainInv, RunInv,
     LetThrough, Asked, RaisedToRed, confirmVars
<1>5. ResponseInv'
  BY DEF ReportOutput, Goto, Tell, TypeOK, ItemInv, ResponseInv, historyVars, flagVars, Actions
<1>6. IngestInv'
  <2>1. /\ \A b \in Actions \ {a} : pc'[b] = pc[b] /\ told'[b] = told[b]
        /\ UNCHANGED <<item, tainted, ingested>>
        /\ pc'[a] = "flag"
    BY DEF ReportOutput, Goto, Tell, TypeOK, historyVars, flagVars, ItemInv
  <2>2. \A b \in Content' : b \in Content \/ b = a
    BY <2>1 DEF Content
  <2> QED
    BY <2>1, <2>2 DEF IngestInv, Content
<1> QED
  BY <1>1, <1>2, <1>3, <1>4, <1>5, <1>6

LEMMA ReportErrorStep ==
    ASSUME IInv, NEW a \in Actions, ReportError(a)
    PROVE  IInv'
<1> USE ActionAssumption DEF IInv
<1>0. trail' \in [Actions -> Seq(Entry)] /\ lost' \in [Actions -> SUBSET Nat]
  <2>1. By("executed", Sent(work[a]), Executor(a)) \in Seq(Entry)
    BY ByEntry, Worded DEF ReportError, Goto, Tell, ItemInv, Preparing, Executor
  <2> QED
    BY <2>1, LogEntries DEF ReportError
<1>1. TypeOK'
  BY <1>0 DEF ReportError, Goto, Tell, flagVars, lockVars, confirmVars, historyVars, ledgerVars, TypeOK,
     Places, Actions
<1>2. ItemInv'
  BY DEF ReportError, Goto, Tell, TypeOK, ItemInv, Sent, Executing, Preparing
<1>3. ChainInv'
  BY DEF ReportError, Goto, Tell, TypeOK, ItemInv, Executing, Preparing, ChainInv, Harmless,
     Unsuspicious, historyVars, flagVars, AlwaysConfirmed, UsesPassword, ConfirmedAfterIngest
<1>4. RunInv'
  BY DEF ReportError, Goto, Tell, TypeOK, ItemInv, Executing, Preparing, ChainInv, RunInv,
     LetThrough, Asked, RaisedToRed, confirmVars
<1>5. ResponseInv'
  BY DEF ReportError, Goto, Tell, TypeOK, ItemInv, ResponseInv, historyVars, flagVars, Actions
<1>6. IngestInv'
  BY IngestKept DEF ReportError, Goto, Tell, TypeOK, historyVars, flagVars
<1> QED
  BY <1>1, <1>2, <1>3, <1>4, <1>5, <1>6

LEMMA StoreFlagStep ==
    ASSUME IInv, NEW a \in Actions, StoreFlag(a)
    PROVE  IInv'
<1> USE ActionAssumption DEF IInv
<1>1. TypeOK'
  BY DEF StoreFlag, Goto, flagVars, lockVars, confirmVars, historyVars, ledgerVars, TypeOK,
     Places, Actions
<1>2. ItemInv'
  BY DEF StoreFlag, Goto, TypeOK, ItemInv, Sent, Executing, Preparing
<1>3. ChainInv'
  BY DEF StoreFlag, Goto, TypeOK, ItemInv, Executing, Preparing, ChainInv,
     Harmless, Unsuspicious, historyVars, flagVars, AlwaysConfirmed, UsesPassword,
     ConfirmedAfterIngest
<1>4. RunInv'
  BY DEF StoreFlag, Goto, TypeOK, ItemInv, Executing, Preparing, ChainInv, RunInv,
     LetThrough, Asked, RaisedToRed, confirmVars
<1>5. ResponseInv'
  BY ResponseKept DEF StoreFlag, Goto, historyVars, flagVars
<1>6. IngestInv'
  BY DEF StoreFlag, Goto, TypeOK, IngestInv, historyVars, flagVars
<1> QED
  BY <1>1, <1>2, <1>3, <1>4, <1>5, <1>6

LEMMA CheckInjectionStep ==
    ASSUME IInv, NEW a \in Actions, CheckInjection(a)
    PROVE  IInv'
<1> USE ActionAssumption DEF IInv
<1>1. TypeOK'
  BY DEF CheckInjection, Goto, flagVars, lockVars, confirmVars, historyVars, ledgerVars, TypeOK, Places,
     Actions
<1>2. ItemInv'
  BY DEF CheckInjection, Goto, TypeOK, ItemInv, Sent, Executing, Preparing
<1>3. ChainInv'
  BY DEF CheckInjection, Goto, TypeOK, ItemInv, Executing, Preparing, ChainInv, Harmless,
     Unsuspicious, historyVars, flagVars, AlwaysConfirmed, UsesPassword, ConfirmedAfterIngest
<1>4. RunInv'
  BY DEF CheckInjection, Goto, TypeOK, ItemInv, Executing, Preparing, ChainInv, RunInv,
     LetThrough, Asked, RaisedToRed, confirmVars
<1>5. ResponseInv'
  BY ResponseKept DEF CheckInjection, Goto, historyVars, flagVars
<1>6. IngestInv'
  BY IngestKept DEF CheckInjection, Goto, TypeOK, historyVars, flagVars
<1> QED
  BY <1>1, <1>2, <1>3, <1>4, <1>5, <1>6

(* A step beside the actions that none of the parts speaks of.             *)
LEMMA Beside ==
    ASSUME IInv, TypeOK',
           UNCHANGED <<setting, pc, item, work, decision, raised, outcome, ran, told, tainted,
                       earlier, response, ingested, rejected>>
    PROVE  IInv'
<1> USE DEF IInv
<1>1. ItemInv' /\ ResponseInv' /\ IngestInv'
  BY DEF ItemInv, Sent, ResponseInv, IngestInv, Content
<1>2. ChainInv'
  BY DEF ChainInv, Harmless, Unsuspicious, AlwaysConfirmed, UsesPassword, ConfirmedAfterIngest
<1>3. RunInv'
  BY DEF RunInv, LetThrough, Asked, RaisedToRed
<1> QED
  BY <1>1, <1>2, <1>3

LEMMA AnswerStep ==
    ASSUME IInv, NEW a \in Actions, NEW d \in Decisions, Answer(a, d)
    PROVE  IInv'
<1>1. TypeOK'
  BY DEF Answer, C!Accept, flagVars, lockVars, historyVars, ledgerVars, IInv, TypeOK
<1> QED
  BY <1>1, Beside DEF Answer, C!Accept, flagVars, historyVars

LEMMA CancelCommandStep ==
    ASSUME IInv, NEW a \in Actions, CancelCommand(a)
    PROVE  IInv'
<1>1. TypeOK'
  BY DEF CancelCommand, flagVars, lockVars, confirmVars, historyVars, ledgerVars, IInv, TypeOK
<1> QED
  BY <1>1, Beside DEF CancelCommand, flagVars, confirmVars, historyVars

LEMMA StopStep == ASSUME IInv, Stop PROVE IInv'
<1>1. TypeOK'
  BY DEF Stop, lockVars, confirmVars, historyVars, ledgerVars, IInv, TypeOK
<1> QED
  BY <1>1, Beside DEF Stop, confirmVars, historyVars

LEMMA NextResponseStep == ASSUME IInv, NextResponse PROVE IInv'
<1> USE ActionAssumption DEF IInv
<1>1. TypeOK'
  BY DEF NextResponse, lockVars, confirmVars, ledgerVars, TypeOK
<1>2. UNCHANGED <<setting, pc, item, work, decision, raised, outcome, ran, told, tainted, earlier,
                  ingested>>
  BY DEF NextResponse, confirmVars
<1>3. ItemInv' /\ IngestInv'
  BY <1>2 DEF ItemInv, Sent, IngestInv, Content
<1>4. ChainInv'
  BY <1>2 DEF ChainInv, Harmless, Unsuspicious, AlwaysConfirmed, UsesPassword,
     ConfirmedAfterIngest
<1>5. RunInv'
  BY <1>2 DEF RunInv, LetThrough, Asked, RaisedToRed
<1>6. ResponseInv'
  BY <1>2 DEF NextResponse, ResponseInv
<1> QED
  BY <1>1, <1>3, <1>4, <1>5, <1>6

LEMMA Stepwise == IInv /\ [Next]_vars => IInv'
<1> SUFFICES ASSUME IInv, [Next]_vars PROVE IInv'
  OBVIOUS
<1>1. ASSUME NEW a \in Actions, ApplyPolicy(a) \/ TakeSuspicion(a) \/ Channel(a) PROVE IInv'
  BY <1>1, ApplyPolicyStep, TakeSuspicionStep, LockChannelStep, OpenChannelStep,
     ChannelOpenedStep, ChannelFailedStep, ReadPreviewStep, PreviewReadStep DEF Channel
<1>2. ASSUME NEW a \in Actions, FollowUp(a) \/ Wait(a) PROVE IInv'
  BY <1>2, SecondOpinionStep, EscalateStep, SkipAfterStopStep, AutoExecStep, BlockStep,
     StartWaitingStep, RefuseStep, ApproveStep, ExecuteEditedStep, BlockEditedStep,
     ReceiveDecisionStep, TimeOutStep DEF FollowUp, Wait
<1>3. ASSUME NEW a \in Actions, Execute(a) \/ Report(a) PROVE IInv'
  BY <1>3, UpdateNoteStep, StartTransferStep, TransferStep, TransferredStep, TransferFailedStep,
     TransferDeniedStep, RunPrivilegedStep, PrivilegedEndedStep, StartCommandStep,
     RunCommandStep, EndCommandStep, ReportOutputStep, ReportErrorStep, StoreFlagStep,
     CheckInjectionStep DEF Execute, Report
<1>4. ASSUME NEW a \in Actions PROVE Propose(a) \/ Proceed(a) => IInv'
  BY <1>1, <1>2, <1>3, ProposeStep DEF Proceed
<1>5. ASSUME NEW a \in Actions, NEW d \in Decisions PROVE Answer(a, d) => IInv'
  BY AnswerStep
<1>6. ASSUME NEW a \in Actions PROVE CancelCommand(a) => IInv'
  BY CancelCommandStep
<1>7. Stop => IInv'
  BY StopStep
<1>8. NextResponse => IInv'
  BY NextResponseStep
<1>9. CASE UNCHANGED vars
  <2>1. TypeOK'
    BY <1>9 DEF vars, flagVars, lockVars, confirmVars, historyVars, ledgerVars, IInv, TypeOK
  <2> QED
    BY <1>9, <2>1, Beside DEF vars, flagVars, confirmVars, historyVars
<1> QED
  BY <1>4, <1>5, <1>6, <1>7, <1>8, <1>9 DEF Next, Finished

LEMMA Inductive == Spec => []IInv
<1> QED
  BY Initially, Stepwise, PTL DEF Spec

(* The type invariant, for any number of actions of chat and MCP clients.  *)
THEOREM TypeCorrect == Spec => []TypeOK
<1>1. IInv => TypeOK
  BY DEF IInv
<1> QED
  BY <1>1, Inductive, PTL

(* What the filter denies does not run: an approval is only ever asked for *)
(* what it does not deny, and an edit is checked once more.                *)
THEOREM NoDeniedRuns == Spec => []DeniedNeverRuns
<1>1. IInv => DeniedNeverRuns
  BY SentItem DEF IInv, DeniedNeverRuns, ItemInv, RunInv, LetThrough
<1> QED
  BY <1>1, Inductive, PTL

(* Whatever ran although nobody approved it has passed every check of the  *)
(* chain, whichever actions went on beside it.                             *)
LEMMA UnaskedPassed ==
    ASSUME IInv, NEW a \in Actions, Unasked(a)
    PROVE  /\ ran[a].item = item[a] /\ decision[a] = "auto" /\ ~RaisedToRed(a)
           /\ Harmless(a) /\ Unsuspicious(a)
<1>1. pc[a] \notin {"new", "policy", "suspicion"}
  BY DEF Unasked, IInv, ItemInv
<1>2. ran[a].item = work[a] /\ LetThrough(a) /\ ~Asked(a)
  BY SentItem DEF Unasked, IInv, ItemInv, RunInv
<1> QED
  BY <1>1, <1>2 DEF LetThrough, IInv, ChainInv

(* Nothing but what the filter allows, the chat proposed and no escalation *)
(* holds back runs without the user's word.                                *)
THEOREM NothingUnasked == Spec => []NothingRunsUnasked
<1>1. ASSUME IInv, NEW a \in Actions, Unasked(a)
      PROVE  /\ a \in ChatActions /\ ran[a].item = item[a]
             /\ item[a].kind \in {"command", "read"} /\ item[a].verdict = "auto"
             /\ ~UsesPassword(item[a]) /\ ~item[a].secret
             /\ setting.redAlways => ~item[a].red /\ ~raised[a]
  BY <1>1, UnaskedPassed DEF Harmless, Unsuspicious, AlwaysConfirmed, Classified, RaisedToRed
<1>2. IInv => NothingRunsUnasked
  BY <1>1 DEF NothingRunsUnasked
<1> QED
  BY <1>2, Inductive, PTL

(* Content of the server that is in the history when the chat proposes an  *)
(* action, and content of any other action that is through with flagging   *)
(* it, keeps the action from running unasked where the policy says so: the *)
(* flag is stored after the content, but before the chat goes on.          *)
THEOREM ContentNotTrusted == Spec => []ContentIsNotTrusted
<1>1. IInv => ContentIsNotTrusted
  BY UnaskedPassed DEF ContentIsNotTrusted, Harmless
<1> QED
  BY <1>1, Inductive, PTL

(* A rejection holds for all later actions of the response.                *)
THEOREM RejectionHolds == Spec => []RejectionSticks
<1>1. IInv => RejectionSticks
  BY UnaskedPassed DEF RejectionSticks, Unsuspicious
<1> QED
  BY <1>1, Inductive, PTL
-----------------------------------------------------------------------------
(***************************************************************************)
(* The ledger.  The entry of the proposal comes first; then what let the   *)
(* command through, or what stopped it; then the execution.  That is what  *)
(* trail has; some of it may never have been written.                      *)
(***************************************************************************)
Undecided == {"policy", "suspicion", "waiting"} \cup Preparing

Proposal(a) == By("proposed", As(item[a]), "origin")

(* The entries that let the command of a through, and that say it ran.     *)
Edited(a) == By("proposed", As(work[a]), "user") \o By("confirmed", None, "user")

Allowed(a, last) ==
    \/ /\ outcome[a] = None /\ work[a] = item[a]
       /\ trail[a] = (Proposal(a) \o By("auto", None, "origin")) \o last
    \/ /\ outcome[a] = "approve" /\ work[a] = item[a]
       /\ trail[a] = (Proposal(a) \o By("confirmed", None, "user")) \o last
    \/ /\ outcome[a] = "edit"
       /\ trail[a] = (Proposal(a) \o Edited(a)) \o last

Ran(a) == ran[a] = Sent(work[a]) /\ Allowed(a, By("executed", Sent(work[a]), Executor(a)))

(* The entries that say it was blocked or refused.                         *)
Refused(a) ==
    /\ ran[a] = None
    /\ \/ /\ outcome[a] = None
          /\ trail[a] = Proposal(a) \o By("rejected", None, "origin")
       \/ /\ outcome[a] = "deny"
          /\ trail[a] = Proposal(a) \o By("rejected", None, "user")
       \/ /\ outcome[a] = "edit"
          /\ \E i \in Items :
                trail[a] = Proposal(a) \o (By("proposed", As(i), "user") \o By("rejected", None, "origin"))

CommandLedger(a) ==
    /\ pc[a] \in Undecided \cup {"decided"} => trail[a] = Proposal(a)
    /\ pc[a] \in {"start", "lock", "running", "ended"} => Allowed(a, <<>>)
    /\ pc[a] \in {"running", "ended"} => ran[a] = Sent(work[a])
    /\ pc[a] \in {"flag", "check"} => Ran(a) /\ told[a] = "result"
    /\ pc[a] = "done" =>
         \/ told[a] = "skipped" /\ ran[a] = None /\ trail[a] = Proposal(a)
         \/ told[a] # "skipped" /\ (Ran(a) \/ Refused(a))

Transferring == {"channel", "openChannel", "opening", "transfer", "transferring", "fallback",
                 "privileged"}

LedgerOf(a) ==
    /\ pc[a] \in {"new"} \cup Undecided => outcome[a] = None
    /\ pc[a] \in Transferring => item[a].kind # "command"
    /\ pc[a] \in {"lock", "running", "ended"} => item[a].kind = "command"
    /\ pc[a] = "new" => item[a] = None /\ trail[a] = <<>>
    /\ pc[a] # "new" /\ item[a].kind = "command" => CommandLedger(a)

LedgerInv == \A a \in Actions : LedgerOf(a)

LEMMA LedgerInitially == Init => LedgerInv
  BY DEF Init, C!Init, LedgerInv, LedgerOf, Undecided, Preparing, Transferring

(* The ledger of an action depends on nothing but the action's own state.  *)
SameAction(b) ==
    /\ pc'[b] = pc[b] /\ item'[b] = item[b] /\ work'[b] = work[b] /\ outcome'[b] = outcome[b]
    /\ trail'[b] = trail[b] /\ ran'[b] = ran[b] /\ told'[b] = told[b] /\ setting' = setting

LEMMA LedgerKept ==
    ASSUME NEW b \in Actions, SameAction(b), LedgerOf(b)
    PROVE  LedgerOf(b)'
  BY ZenonT(60) DEF SameAction, LedgerOf, CommandLedger, Ran, Refused, Allowed, Edited, Proposal, Executor, Sent

(* A step of a that leaves item, ledger and answer alone and keeps a       *)
(* within its part of the handling.                                        *)
LEMMA LedgerMoved ==
    ASSUME IInv, LedgerInv, NEW a \in Actions, NEW from, NEW to,
           pc[a] = from, pc' = [pc EXCEPT ![a] = to],
           UNCHANGED <<setting, item, work, outcome, trail, ran>>,
           \A b \in Actions \ {a} : told'[b] = told[b],
           \/ from \in Undecided \ {"waiting"} /\ to \in Undecided
           \/ from = "prepared" /\ to = "done" /\ told'[a] = "skipped"
           \/ from = "start" /\ to = "channel" /\ item[a].kind # "command"
           \/ from = "channel" /\ to \in {"openChannel", "transfer"}
           \/ from = "openChannel" /\ to = "opening"
           \/ from = "opening" /\ to \in {"transfer", "done"}
           \/ from = "start" /\ to = "lock" /\ item[a].kind = "command"
           \/ from = "running" /\ to = "ended"
           \/ from = "flag" /\ to = "check" /\ told'[a] = told[a]
           \/ from = "check" /\ to = "done" /\ told'[a] = told[a]
    PROVE  LedgerInv'
<1>1. \A b \in Actions \ {a} : SameAction(b)
  BY DEF IInv, TypeOK, SameAction
<1>2. LedgerOf(a) /\ ItemInv /\ pc'[a] = to
  BY DEF IInv, TypeOK, LedgerInv
<1>3. LedgerOf(a)'
  <2>1. pc[a] # "new" /\ pc'[a] # "new"
    BY <1>2 DEF Undecided, Preparing
  <2>2. /\ pc'[a] \in {"new"} \cup Undecided => outcome[a] = None
        /\ pc'[a] \in Transferring => item[a].kind # "command"
        /\ pc'[a] \in {"lock", "running", "ended"} => item[a].kind = "command"
    BY <1>2 DEF LedgerOf, Undecided, Preparing, Transferring
  <2>3. ASSUME item[a].kind = "command" PROVE CommandLedger(a)'
    <3>1. CommandLedger(a)
      BY <1>2, <2>1, <2>3 DEF LedgerOf
    <3>2. /\ Proposal(a)' = Proposal(a) /\ Ran(a)' = Ran(a)
          /\ \A last : Allowed(a, last)' = Allowed(a, last)
      BY DEF Proposal, Ran, Allowed, Edited, Executor, Sent
    <3>3. pc[a] \in Undecided => ran[a] = None
      BY <1>2 DEF ItemInv, Undecided, Preparing
    <3>4. /\ pc'[a] \in Undecided \cup {"decided"} => trail[a] = Proposal(a)
          /\ pc'[a] \in {"start", "lock", "running", "ended"} => Allowed(a, <<>>)
          /\ pc'[a] \in {"running", "ended"} => ran[a] = Sent(work[a])
      BY <1>2, <2>3, <3>1 DEF CommandLedger, LedgerOf, Undecided, Preparing, Transferring
    <3>5. CASE pc[a] \in {"flag", "check"}
      BY <1>2, <3>1, <3>2, <3>4, <3>5 DEF CommandLedger, Sent, Undecided, Preparing
    <3>6. CASE pc[a] \notin {"flag", "check"}
      <4>1. pc'[a] \notin {"flag", "check"}
        BY <1>2, <3>6 DEF Undecided, Preparing
      <4>2. pc'[a] = "done" => pc[a] = "prepared" /\ told'[a] = "skipped"
        BY <1>2, <2>3, <3>6 DEF LedgerOf, Undecided, Preparing, Transferring
      <4>3. pc'[a] = "done" => ran[a] = None /\ trail[a] = Proposal(a)
        BY <3>1, <3>3, <4>2 DEF CommandLedger, Undecided, Preparing
      <4> QED
        BY <3>2, <3>4, <4>1, <4>2, <4>3 DEF CommandLedger, Sent
    <3> QED
      BY <3>5, <3>6
  <2> QED
    BY <2>1, <2>2, <2>3 DEF LedgerOf
<1> QED
  BY <1>1, <1>3, LedgerKept DEF LedgerInv

(* A step of a that gives it an answer, lets it through, stops it, runs it *)
(* or reports on it.                                                       *)
LEMMA LedgerOne ==
    ASSUME LedgerInv, NEW a \in Actions, LedgerOf(a)',
           \A b \in Actions \ {a} : SameAction(b)
    PROVE  LedgerInv'
  BY LedgerKept DEF LedgerInv

LEMMA LedgerProposed ==
    ASSUME IInv, LedgerInv, NEW a \in Actions, Propose(a)
    PROVE  LedgerInv'
<1>1. PICK i \in Items :
        /\ item' = [item EXCEPT ![a] = i]
        /\ IF i.kind = "command" THEN Enter(a, By("proposed", As(i), "origin")) ELSE UNCHANGED ledgerVars
  BY DEF Propose
<1>2. trail[a] = <<>> /\ By("proposed", As(i), "origin") \in Seq(Entry)
  BY ByEntry, Worded DEF LedgerInv, LedgerOf, Propose, Goto
<1>5. /\ \A b \in Actions \ {a} : SameAction(b)
      /\ item'[a] = i
      /\ i.kind = "command" => trail'[a] = By("proposed", As(i), "origin")
  BY <1>1, <1>2, ConcatEmptySeq DEF Propose, Goto, Enter, ledgerVars, confirmVars, ledgerVars, IInv, TypeOK, SameAction
<1>3. outcome'[a] = None /\ pc'[a] = "policy"
  BY DEF Propose, Goto, confirmVars, ledgerVars, IInv, TypeOK, LedgerInv, LedgerOf
<1>4. LedgerOf(a)'
  BY <1>3, <1>5 DEF LedgerOf, CommandLedger, Proposal, Undecided, Preparing, Transferring
<1> QED
  BY <1>4, <1>5, LedgerOne

(* The answer, or that there is none.                                      *)
LEMMA LedgerAnswered ==
    ASSUME IInv, LedgerInv, NEW a \in Actions, ReceiveDecision(a) \/ TimeOut(a)
    PROVE  LedgerInv'
<1>1. \A b \in Actions \ {a} : SameAction(b)
  BY DEF ReceiveDecision, TimeOut, Goto, C!CloseDecided, C!CloseUndecided, ledgerVars, IInv, TypeOK,
     SameAction
<1>2. /\ pc[a] = "waiting" /\ pc'[a] = "decided"
      /\ item' = item /\ trail' = trail
  BY DEF ReceiveDecision, TimeOut, Goto, ledgerVars, IInv, TypeOK
<1>3. LedgerOf(a)
  BY DEF LedgerInv
<1>4. LedgerOf(a)'
  BY <1>2, <1>3 DEF LedgerOf, CommandLedger, Proposal, Undecided, Preparing, Transferring
<1> QED
  BY <1>1, <1>4, LedgerOne

(* Entries are added for commands only.                                    *)
LEMMA LogAdds ==
    ASSUME IInv, NEW a \in Actions, NEW entries, Log(a, entries)
    PROVE  /\ \A b \in Actions \ {a} : trail'[b] = trail[b]
           /\ item[a].kind = "command" => trail'[a] = trail[a] \o entries
  BY DEF Log, Enter, ledgerVars, IInv, TypeOK

(* What lets an action through.                                            *)
LEMMA LedgerLetThrough ==
    ASSUME IInv, LedgerInv, NEW a \in Actions, AutoExec(a) \/ Approve(a) \/ ExecuteEdited(a)
    PROVE  LedgerInv'
<1>1. \A b \in Actions \ {a} : SameAction(b)
  BY LogAdds DEF AutoExec, Approve, ExecuteEdited, Goto, confirmVars, ledgerVars, IInv, TypeOK, SameAction
<1>2. /\ pc[a] \in {"prepared", "decided"} /\ pc'[a] = "start"
      /\ item' = item /\ outcome' = outcome
  BY DEF AutoExec, Approve, ExecuteEdited, Goto, confirmVars, ledgerVars, IInv, TypeOK
<1>3. LedgerOf(a) /\ work[a] = item[a]
  BY <1>2 DEF IInv, ItemInv, LedgerInv, Preparing
<1>4. ASSUME item[a].kind = "command" PROVE Allowed(a, <<>>)'
  <2>1. trail[a] = Proposal(a) /\ Proposal(a)' = Proposal(a)
    BY <1>2, <1>3, <1>4 DEF LedgerOf, CommandLedger, Undecided, Preparing, Proposal
  <2>2. CASE AutoExec(a)
    <3>1. outcome[a] = None
      BY <1>3, <2>2 DEF LedgerOf, AutoExec, Goto, Undecided, Preparing
    <3>2. work' = work /\ trail'[a] = Proposal(a) \o By("auto", None, "origin")
      BY <1>4, <2>1, <2>2, LogAdds DEF AutoExec
    <3>3. trail'[a] \in Seq(Entry)
      BY <2>2, ByEntry, AutoExecStep DEF IInv, TypeOK
    <3>4. trail'[a] = trail'[a] \o <<>>
      BY <3>3
    <3> QED
      BY <1>2, <1>3, <2>1, <3>1, <3>2, <3>4 DEF Allowed
  <2>3. CASE Approve(a)
    <3>1. outcome[a] = "approve"
      BY <1>4, <2>3 DEF Approve
    <3>2. work' = work /\ trail'[a] = Proposal(a) \o By("confirmed", None, "user")
      BY <1>4, <2>1, <2>3, LogAdds DEF Approve
    <3>3. trail'[a] \in Seq(Entry)
      BY <2>3, ApproveStep DEF IInv, TypeOK
    <3>4. trail'[a] = trail'[a] \o <<>>
      BY <3>3
    <3> QED
      BY <1>2, <1>3, <2>1, <3>1, <3>2, <3>4 DEF Allowed
  <2>4. CASE ExecuteEdited(a)
    <3>1. PICK i \in Items :
            /\ EditedItem(a, i) /\ work' = [work EXCEPT ![a] = i]
            /\ Log(a, By("proposed", As(i), "user") \o By("confirmed", None, "user"))
      BY <2>4 DEF ExecuteEdited
    <3>2. outcome[a] = "edit" /\ work'[a] = i
      BY <3>1 DEF EditedItem, IInv, TypeOK
    <3>3. trail'[a] = Proposal(a) \o Edited(a)'
      BY <1>4, <2>1, <3>1, <3>2, LogAdds DEF Edited
    <3>4. trail'[a] \in Seq(Entry)
      BY <2>4, ExecuteEditedStep DEF IInv, TypeOK
    <3>5. trail'[a] = trail'[a] \o <<>>
      BY <3>4
    <3> QED
      BY <1>2, <2>1, <3>2, <3>3, <3>5 DEF Allowed
  <2> QED
    BY <2>2, <2>3, <2>4
<1>5. LedgerOf(a)'
  BY <1>2, <1>4 DEF LedgerOf, CommandLedger, Undecided, Preparing, Transferring
<1> QED
  BY <1>1, <1>5, LedgerOne

(* What stops it.                                                          *)
LEMMA LedgerStopped ==
    ASSUME IInv, LedgerInv, NEW a \in Actions, Block(a) \/ Refuse(a) \/ BlockEdited(a)
    PROVE  LedgerInv'
<1>1. \A b \in Actions \ {a} : SameAction(b)
  BY LogAdds DEF Block, Refuse, BlockEdited, Goto, Tell, confirmVars, ledgerVars, IInv, TypeOK, SameAction
<1>2. /\ pc[a] \in {"prepared", "decided"} /\ pc'[a] = "done" /\ told'[a] = "rejected"
      /\ UNCHANGED <<item, work, outcome, ran>>
  BY DEF Block, Refuse, BlockEdited, Goto, Tell, confirmVars, ledgerVars, IInv, TypeOK
<1>3. LedgerOf(a) /\ ran[a] = None
  BY <1>2 DEF IInv, ItemInv, LedgerInv
<1>4. ASSUME item[a].kind = "command" PROVE Refused(a)'
  <2>1. trail[a] = Proposal(a) /\ Proposal(a)' = Proposal(a)
    BY <1>2, <1>3, <1>4 DEF LedgerOf, CommandLedger, Undecided, Preparing, Proposal
  <2>2. CASE Block(a)
    <3>1. outcome[a] = None
      BY <1>3, <2>2 DEF LedgerOf, Block, Goto, Undecided, Preparing
    <3>2. trail'[a] = Proposal(a) \o By("rejected", None, "origin")
      BY <1>4, <2>1, <2>2, LogAdds DEF Block
    <3> QED
      BY <1>2, <1>3, <2>1, <3>1, <3>2 DEF Refused
  <2>3. CASE Refuse(a)
    <3>1. /\ outcome[a] \in {"deny", None}
          /\ trail'[a] = Proposal(a) \o
                By("rejected", None, IF outcome[a] = None THEN "origin" ELSE "user")
      BY <1>4, <2>1, <2>3, LogAdds DEF Refuse
    <3>2. outcome[a] = "deny" => outcome[a] # None
      BY ActionAssumption DEF Decisions
    <3> QED
      BY <1>2, <1>3, <2>1, <3>1, <3>2 DEF Refused
  <2>4. CASE BlockEdited(a)
    <3>1. PICK i \in Items :
            /\ EditedItem(a, i)
            /\ Log(a, By("proposed", As(i), "user") \o By("rejected", None, "origin"))
      BY <2>4 DEF BlockEdited
    <3>2. trail'[a] = Proposal(a) \o (By("proposed", As(i), "user") \o By("rejected", None, "origin"))
      BY <1>4, <2>1, <3>1, LogAdds
    <3> QED
      BY <1>2, <1>3, <2>1, <3>1, <3>2 DEF Refused, EditedItem
  <2> QED
    BY <2>2, <2>3, <2>4
<1>5. LedgerOf(a)'
  BY <1>2, <1>4 DEF LedgerOf, CommandLedger, Undecided, Preparing, Transferring
<1> QED
  BY <1>1, <1>5, LedgerOne

(* What is not a command has no ledger to keep.                            *)
LEMMA LedgerOtherKinds ==
    ASSUME IInv, LedgerInv, NEW a \in Actions,
           \/ UpdateNote(a) \/ Transfer(a) \/ Transferred(a) \/ TransferFailed(a)
           \/ TransferDenied(a) \/ RunPrivileged(a) \/ PrivilegedEnded(a)
    PROVE  LedgerInv'
<1>. USE DEF UpdateNote, Transfer, Transferred, TransferFailed, TransferDenied, RunPrivileged,
         PrivilegedEnded, Goto, Tell
<1>1. \A b \in Actions \ {a} : SameAction(b)
  BY DEF confirmVars, ledgerVars, IInv, TypeOK, SameAction
<1>2. /\ pc[a] \in {"start"} \cup Transferring
      /\ pc'[a] \in {"transferring", "fallback", "privileged", "flag", "done"}
      /\ item' = item /\ item[a].kind # "command"
  BY DEF IInv, TypeOK, LedgerInv, LedgerOf, Transferring
<1>3. LedgerOf(a)'
  BY <1>2 DEF LedgerOf, Undecided, Preparing, Transferring
<1> QED
  BY <1>1, <1>3, LedgerOne

(* The command is sent.                                                    *)
LEMMA LedgerSent ==
    ASSUME IInv, LedgerInv, NEW a \in Actions, RunCommand(a)
    PROVE  LedgerInv'
<1>1. \A b \in Actions \ {a} : SameAction(b)
  BY DEF RunCommand, Goto, confirmVars, ledgerVars, IInv, TypeOK, SameAction
<1>2. /\ pc[a] = "lock" /\ pc'[a] = "running" /\ ran'[a] = Sent(work[a])
      /\ UNCHANGED <<setting, item, work, outcome, trail>>
  BY DEF RunCommand, Goto, confirmVars, ledgerVars, IInv, TypeOK
<1>3. Allowed(a, <<>>)' = Allowed(a, <<>>)
  BY <1>2 DEF Allowed, Proposal, Edited
<1>4. LedgerOf(a)'
  BY <1>2, <1>3 DEF LedgerInv, LedgerOf, CommandLedger, Sent, Undecided, Preparing, Transferring
<1> QED
  BY <1>1, <1>4, LedgerOne

(* What came of it is reported, and entered.                               *)
LEMMA LedgerReported ==
    ASSUME IInv, LedgerInv, NEW a \in Actions, ReportOutput(a) \/ ReportError(a)
    PROVE  LedgerInv'
<1>. DEFINE last == By("executed", Sent(work[a]), Executor(a))
<1>1. \A b \in Actions \ {a} : SameAction(b)
  BY LogAdds DEF ReportOutput, ReportError, Goto, Tell, confirmVars, ledgerVars, IInv, TypeOK, SameAction
<1>2. /\ pc[a] = "ended" /\ UNCHANGED <<setting, item, work, outcome, ran>> /\ Log(a, last)
      /\ \/ pc'[a] = "flag" /\ told'[a] = "result"
         \/ pc'[a] = "done" /\ told'[a] = "error"
  BY DEF ReportOutput, ReportError, Goto, Tell, confirmVars, ledgerVars, IInv, TypeOK
<1>3. item[a].kind = "command" /\ ran[a] = Sent(work[a]) /\ Allowed(a, <<>>)
  BY <1>2 DEF LedgerInv, LedgerOf, CommandLedger, IInv, ItemInv
<1>4. trail'[a] = trail[a] \o last /\ last' = last
  BY <1>2, <1>3, LogAdds DEF Executor, Sent
<1>. HIDE DEF last
<1>5. Allowed(a, last)'
  <2>. DEFINE P == Proposal(a)
             A == By("auto", None, "origin")
             D == By("confirmed", None, "user")
             E == Edited(a)
  <2>1. P \in Seq(Entry) /\ A \in Seq(Entry) /\ D \in Seq(Entry) /\ E \in Seq(Entry)
    <3>1. item[a] \in Items /\ work[a] \in Items
      BY <1>2 DEF IInv, ItemInv
    <3>2. By("proposed", As(work[a]), "user") \in Seq(Entry) /\ By("confirmed", None, "user") \in Seq(Entry)
      BY <3>1, ByEntry, Worded
    <3>3. By("proposed", As(item[a]), "origin") \in Seq(Entry) /\ A \in Seq(Entry) /\ D \in Seq(Entry)
      BY <3>1, ByEntry, Worded
    <3> QED
      BY <3>2, <3>3 DEF Proposal, Edited
  <2>2. UNCHANGED <<P, A, D, E>>
    BY <1>2 DEF Proposal, Edited
  <2>3. Allowed(a, <<>>)
    BY <1>3
  <2>. HIDE DEF P, A, D, E
  <2>4. \A s \in Seq(Entry) : (P \o s) \o <<>> = P \o s
    BY <2>1
  <2> QED
    BY <1>2, <1>4, <2>1, <2>2, <2>3, <2>4 DEF Allowed, P, A, D, E
<1>6. Ran(a)'
  BY <1>2, <1>3, <1>4, <1>5 DEF Ran, last, Sent
<1>7. LedgerOf(a)'
  BY <1>2, <1>6 DEF LedgerOf, CommandLedger, Undecided, Preparing, Transferring
<1> QED
  BY <1>1, <1>7, LedgerOne

LEMMA LedgerStep == IInv /\ LedgerInv /\ [Next]_vars => LedgerInv'
<1> SUFFICES ASSUME IInv, LedgerInv, [Next]_vars PROVE LedgerInv'
  OBVIOUS
<1>1. ASSUME NEW a \in Actions, ApplyPolicy(a) \/ TakeSuspicion(a) PROVE LedgerInv'
  <2>1. ASSUME ApplyPolicy(a) PROVE LedgerInv'
    BY <2>1, LedgerMoved DEF ApplyPolicy, Goto, confirmVars, ledgerVars, Undecided
  <2>2. ASSUME TakeSuspicion(a) PROVE LedgerInv'
    <3>1. UNCHANGED <<setting, item, work, outcome, trail, ran, told>>
      BY <2>2 DEF TakeSuspicion, confirmVars, ledgerVars, C!Ask
    <3> QED
      BY <2>2, <3>1, LedgerMoved DEF TakeSuspicion, Goto, Undecided, Preparing
  <2> QED
    BY <1>1, <2>1, <2>2
<1>2. ASSUME NEW a \in Actions, Channel(a) PROVE LedgerInv'
  <2>1. ASSUME LockChannel(a) PROVE LedgerInv'
    BY <2>1, LedgerMoved DEF LockChannel, confirmVars, ledgerVars, Undecided, Preparing
  <2>2. ASSUME ChannelOpened(a) PROVE LedgerInv'
    BY <2>2, LedgerMoved DEF ChannelOpened, Goto, confirmVars, ledgerVars, Undecided, Preparing
  <2>3. ASSUME ChannelFailed(a) PROVE LedgerInv'
    <3>1. /\ UNCHANGED <<setting, item, work, outcome, trail, ran>>
          /\ \A b \in Actions \ {a} : told'[b] = told[b]
      BY <2>3 DEF ChannelFailed, confirmVars, ledgerVars, Tell, IInv, TypeOK
    <3> QED
      BY <2>3, <3>1, LedgerMoved DEF ChannelFailed, Goto, Undecided, Preparing
  <2>4. ASSUME ReadPreview(a) \/ PreviewRead(a) PROVE LedgerInv'
    BY <2>4, LedgerMoved DEF ReadPreview, PreviewRead, Goto, confirmVars, ledgerVars, Undecided, Preparing
  <2>5. ASSUME OpenChannel(a) PROVE LedgerInv'
    BY <2>5, LedgerMoved DEF OpenChannel, Goto, confirmVars, ledgerVars, Undecided, Preparing
  <2> QED
    BY <1>2, <2>1, <2>2, <2>3, <2>4, <2>5 DEF Channel
<1>3. ASSUME NEW a \in Actions, FollowUp(a) PROVE LedgerInv'
  <2>1. ASSUME SecondOpinion(a) PROVE LedgerInv'
    BY <2>1, LedgerMoved DEF SecondOpinion, Goto, confirmVars, ledgerVars, Undecided, Preparing
  <2>2. ASSUME Escalate(a) PROVE LedgerInv'
    BY <2>2, LedgerMoved DEF Escalate, Goto, C!Ask, ledgerVars, Undecided, Preparing
  <2>3. ASSUME SkipAfterStop(a) PROVE LedgerInv'
    <3>1. told'[a] = "skipped" /\ \A b \in Actions \ {a} : told'[b] = told[b]
      BY <2>3 DEF SkipAfterStop, Tell, IInv, TypeOK
    <3> QED
      BY <2>3, <3>1, LedgerMoved DEF SkipAfterStop, Goto, confirmVars, ledgerVars
  <2>4. ASSUME StartWaiting(a) PROVE LedgerInv'
    BY <2>4, LedgerMoved DEF StartWaiting, Goto, confirmVars, ledgerVars, Undecided, Preparing
  <2> QED
    BY <1>3, <2>1, <2>2, <2>3, <2>4, LedgerLetThrough, LedgerStopped DEF FollowUp
<1>4. ASSUME NEW a \in Actions, Execute(a) PROVE LedgerInv'
  <2>1. ASSUME StartTransfer(a) PROVE LedgerInv'
    BY <2>1, LedgerMoved DEF StartTransfer, Goto, confirmVars, ledgerVars
  <2>2. ASSUME StartCommand(a) PROVE LedgerInv'
    BY <2>2, LedgerMoved DEF StartCommand, Goto, confirmVars, ledgerVars
  <2>3. ASSUME EndCommand(a) PROVE LedgerInv'
    BY <2>3, LedgerMoved DEF EndCommand, Goto, confirmVars, ledgerVars
  <2> QED
    BY <1>4, <2>1, <2>2, <2>3, LedgerOtherKinds, LedgerSent DEF Execute
<1>5. ASSUME NEW a \in Actions, Report(a) PROVE LedgerInv'
  <2>1. ASSUME CheckInjection(a) PROVE LedgerInv'
    BY <2>1, LedgerMoved DEF CheckInjection, Goto, confirmVars, ledgerVars
  <2>2. ASSUME StoreFlag(a) PROVE LedgerInv'
    BY <2>2, LedgerMoved DEF StoreFlag, Goto, confirmVars, ledgerVars
  <2> QED
    BY <1>5, <2>1, <2>2, LedgerReported DEF Report
<1>6. CASE UNCHANGED <<setting, pc, item, work, outcome, trail, ran, told>>
  BY <1>6, LedgerKept DEF LedgerInv, SameAction
<1>7. ASSUME \/ \E a \in Actions, d \in Decisions : Answer(a, d)
             \/ \E a \in Actions : CancelCommand(a)
             \/ Stop \/ NextResponse \/ UNCHANGED vars
      PROVE  UNCHANGED <<setting, pc, item, work, outcome, trail, ran, told>>
  BY <1>7 DEF Answer, C!Accept, CancelCommand, Stop, NextResponse, confirmVars, ledgerVars, vars
<1> QED
  BY <1>1, <1>2, <1>3, <1>4, <1>5, <1>6, <1>7, LedgerProposed, LedgerAnswered
  DEF Next, Proceed, Wait, Finished

(* The forms a ledger can have, entry by entry: which entry decides, and   *)
(* whether the command ran.                                                *)
Line(event, i, who) == [event |-> event, of |-> i, by |-> who]

Deciding == {"auto", "confirmed", "rejected"}

LEMMA SameLines ==
    ASSUME NEW s \in Seq(Entry), NEW t \in Seq(Entry), Len(s) = Len(t), Len(t) \in {2, 3, 4},
           s[1] = t[1], s[2] = t[2], Len(t) > 2 => s[3] = t[3], Len(t) > 3 => s[4] = t[4]
    PROVE  s = t
<1>1. \A i \in 1..Len(s) : s[i] = t[i]
  OBVIOUS
<1> QED
  BY <1>1, SeqEqual

LEMMA TwoLines ==
    ASSUME NEW p \in Entry, NEW q \in Entry
    PROVE  <<p>> \o <<q>> = <<p, q>>
<1>. DEFINE t == <<p>> \o <<q>>
           u == <<p, q>>
<1>1. t \in Seq(Entry) /\ u \in Seq(Entry) /\ Len(t) = 2 /\ Len(u) = 2
  OBVIOUS
<1>2. t[1] = u[1] /\ t[2] = u[2]
  OBVIOUS
<1>. HIDE DEF t, u
<1>3. t = u
  BY <1>1, <1>2, SameLines
<1> QED
  BY <1>3 DEF t, u

LEMMA AfterTwoLines ==
    ASSUME NEW p \in Entry, NEW q \in Entry, NEW s \in Entry
    PROVE  <<p, q>> \o <<s>> = <<p, q, s>>
<1>. DEFINE t == <<p, q>> \o <<s>>
           u == <<p, q, s>>
<1>1. t \in Seq(Entry) /\ u \in Seq(Entry) /\ Len(t) = 3 /\ Len(u) = 3
  OBVIOUS
<1>2. t[1] = u[1] /\ t[2] = u[2] /\ t[3] = u[3]
  OBVIOUS
<1>. HIDE DEF t, u
<1>3. t = u
  BY <1>1, <1>2, SameLines
<1> QED
  BY <1>3 DEF t, u

LEMMA BeforeTwoLines ==
    ASSUME NEW p \in Entry, NEW q \in Entry, NEW s \in Entry
    PROVE  <<p>> \o <<q, s>> = <<p, q, s>>
<1>. DEFINE t == <<p>> \o <<q, s>>
           u == <<p, q, s>>
<1>1. t \in Seq(Entry) /\ u \in Seq(Entry) /\ Len(t) = 3 /\ Len(u) = 3
  OBVIOUS
<1>2. t[1] = u[1] /\ t[2] = u[2] /\ t[3] = u[3]
  OBVIOUS
<1>. HIDE DEF t, u
<1>3. t = u
  BY <1>1, <1>2, SameLines
<1> QED
  BY <1>3 DEF t, u

LEMMA AfterThreeLines ==
    ASSUME NEW p \in Entry, NEW q \in Entry, NEW r \in Entry, NEW s \in Entry
    PROVE  <<p, q, r>> \o <<s>> = <<p, q, r, s>>
<1>. DEFINE t == <<p, q, r>> \o <<s>>
           u == <<p, q, r, s>>
<1>1. t \in Seq(Entry) /\ u \in Seq(Entry) /\ Len(t) = 4 /\ Len(u) = 4
  OBVIOUS
<1>2. t[1] = u[1] /\ t[2] = u[2] /\ t[3] = u[3] /\ t[4] = u[4]
  OBVIOUS
<1>. HIDE DEF t, u
<1>3. t = u
  BY <1>1, <1>2, SameLines
<1> QED
  BY <1>3 DEF t, u

LEMMA NoMoreLines == \A t \in Seq(Entry) : t \o <<>> = t
  BY ConcatEmptySeq

(* Which of the entries are decisions, and which say that it ran.          *)
Decisive(t) == {k \in DOMAIN t : t[k].event \in Deciding}

Executions(t) == {k \in DOMAIN t : t[k].event = "executed"}

LEMMA OnlyProposed ==
    ASSUME NEW p, p.event = "proposed", NEW t, t = <<p>>
    PROVE  Decisive(t) = {} /\ Executions(t) = {}
<1>1. DOMAIN t = {1} /\ t[1] = p
  OBVIOUS
<1> QED
  BY <1>1 DEF Decisive, Executions, Deciding

LEMMA Decided ==
    ASSUME NEW p, NEW d, p.event = "proposed", d.event \in Deciding, NEW t, t = <<p, d>>
    PROVE  Decisive(t) = {2} /\ t[1] = p /\ t[2] = d /\ Executions(t) = {}
<1>1. DOMAIN t = {1, 2} /\ t[1] = p /\ t[2] = d
  OBVIOUS
<1> QED
  BY <1>1 DEF Decisive, Executions, Deciding

LEMMA DecidedAndRun ==
    ASSUME NEW p, NEW d, NEW x, p.event = "proposed", d.event \in Deciding, x.event = "executed",
           NEW t, t = <<p, d, x>>
    PROVE  Decisive(t) = {2} /\ t[1] = p /\ t[2] = d /\ Executions(t) = {3} /\ t[3] = x
<1>1. DOMAIN t = {1, 2, 3} /\ t[1] = p /\ t[2] = d /\ t[3] = x
  OBVIOUS
<1> QED
  BY <1>1 DEF Decisive, Executions, Deciding

LEMMA EditDecided ==
    ASSUME NEW p, NEW q, NEW d, p.event = "proposed", q.event = "proposed", d.event \in Deciding,
           NEW t, t = <<p, q, d>>
    PROVE  Decisive(t) = {3} /\ t[2] = q /\ t[3] = d /\ Executions(t) = {}
<1>1. DOMAIN t = {1, 2, 3} /\ t[1] = p /\ t[2] = q /\ t[3] = d
  OBVIOUS
<1> QED
  BY <1>1 DEF Decisive, Executions, Deciding

LEMMA EditDecidedAndRun ==
    ASSUME NEW p, NEW q, NEW d, NEW x, p.event = "proposed", q.event = "proposed",
           d.event \in Deciding, x.event = "executed", NEW t, t = <<p, q, d, x>>
    PROVE  Decisive(t) = {3} /\ t[2] = q /\ t[3] = d /\ Executions(t) = {4} /\ t[4] = x
<1>1. DOMAIN t = {1, 2, 3, 4} /\ t[1] = p /\ t[2] = q /\ t[3] = d /\ t[4] = x
  OBVIOUS
<1> QED
  BY <1>1 DEF Decisive, Executions, Deciding

(* An allowed command has one decision, right after the proposal of what   *)
(* is to run, and it is the user's if and only if the user approved or     *)
(* edited; so has the execution.                                           *)
LEMMA AllowedLines ==
    ASSUME IInv, NEW a \in Actions, item[a] \in Items, work[a] \in Items,
           NEW last \in {<<>>, By("executed", Sent(work[a]), Executor(a))}, Allowed(a, last)
    PROVE  /\ \E k \in {2, 3} :
                 /\ Decisive(trail[a]) = {k} /\ trail[a][k - 1].of = As(work[a])
                 /\ trail[a][k].event # "rejected" /\ (trail[a][k].by = "user" <=> Asked(a))
           /\ last = <<>> => Executions(trail[a]) = {}
           /\ last # <<>> => \E k \in {3, 4} :
                 /\ Executions(trail[a]) = {k} /\ trail[a][k].of = Sent(work[a])
                 /\ trail[a][k].by = "user" <=> Asked(a)
<1>. DEFINE p == Line("proposed", As(item[a]), "origin")
           q == Line("proposed", As(work[a]), "user")
           x == Line("executed", Sent(work[a]), Executor(a))
           auto == Line("auto", None, "origin")
           confirmed == Line("confirmed", None, "user")
<1>1. outcome[a] \in {None, "approve", "edit"} /\ (outcome[a] # None <=> Asked(a))
  BY ActionAssumption DEF Allowed, Asked, Decisions
<1>2. PICK d \in {auto, confirmed} :
        /\ d.by = "user" <=> Asked(a)
        /\ \/ work[a] = item[a] /\ trail[a] = (<<p>> \o <<d>>) \o last
           \/ trail[a] = (<<p>> \o (<<q>> \o <<d>>)) \o last
  <2>1. CASE outcome[a] = None /\ work[a] = item[a] /\ trail[a] = (<<p>> \o <<auto>>) \o last
    BY <1>1, <2>1 DEF Line
  <2>2. CASE outcome[a] = "approve" /\ work[a] = item[a] /\ trail[a] = (<<p>> \o <<confirmed>>) \o last
    BY <2>2 DEF Line, Asked
  <2>3. CASE outcome[a] = "edit" /\ trail[a] = (<<p>> \o (<<q>> \o <<confirmed>>)) \o last
    BY <2>3 DEF Line, Asked
  <2> QED
    BY <2>1, <2>2, <2>3 DEF Allowed, Proposal, Edited, By, Line
<1>3. last \in {<<>>, <<x>>} /\ <<x>> # <<>>
  BY DEF By, Line
<1>4. /\ p.event = "proposed" /\ p.of = As(item[a])
      /\ q.event = "proposed" /\ q.of = As(work[a])
      /\ d.event \in Deciding /\ d.event # "rejected"
      /\ x.event = "executed" /\ x.of = Sent(work[a]) /\ (x.by = "user" <=> Asked(a))
  BY <1>1, ActionAssumption DEF Line, Deciding, Executor
<1>5. p \in Entry /\ q \in Entry /\ d \in Entry /\ x \in Entry
  BY Worded DEF Line, Entry, Executor
<1>. HIDE DEF p, q, x, auto, confirmed
<1>6. CASE work[a] = item[a] /\ trail[a] = (<<p>> \o <<d>>) \o last
  <2>1. <<p>> \o <<d>> = <<p, d>> /\ <<p, d>> \in Seq(Entry)
    BY <1>5, TwoLines
  <2>2. CASE last = <<>>
    <3>1. trail[a] = <<p, d>>
      BY <1>6, <2>1, <2>2, NoMoreLines
    <3>2. Decisive(trail[a]) = {2} /\ trail[a][2 - 1] = p /\ trail[a][2] = d /\ Executions(trail[a]) = {}
      BY <1>4, <3>1, Decided
    <3> QED
      BY <1>2, <1>4, <1>6, <2>2, <3>2
  <2>3. CASE last = <<x>>
    <3>1. trail[a] = <<p, d, x>>
      <4>1. trail[a] = <<p, d>> \o <<x>>
        BY <1>6, <2>1, <2>3
      <4>2. <<p, d>> \o <<x>> = <<p, d, x>>
        BY <1>5, AfterTwoLines
      <4> QED
        BY <4>1, <4>2
    <3>2. /\ Decisive(trail[a]) = {2} /\ trail[a][2 - 1] = p /\ trail[a][2] = d
          /\ Executions(trail[a]) = {3} /\ trail[a][3] = x
      BY <1>4, <3>1, DecidedAndRun
    <3> QED
      BY <1>2, <1>3, <1>4, <1>6, <2>3, <3>2
  <2> QED
    BY <1>3, <2>2, <2>3
<1>7. CASE trail[a] = (<<p>> \o (<<q>> \o <<d>>)) \o last
  <2>1. <<p>> \o (<<q>> \o <<d>>) = <<p, q, d>> /\ <<p, q, d>> \in Seq(Entry)
    <3>1. <<q>> \o <<d>> = <<q, d>> /\ <<p>> \o <<q, d>> = <<p, q, d>>
      BY <1>5, TwoLines, BeforeTwoLines
    <3>2. <<p, q, d>> \in Seq(Entry)
      BY <1>5
    <3> QED
      BY <3>1, <3>2
  <2>2. CASE last = <<>>
    <3>1. trail[a] = <<p, q, d>>
      BY <1>7, <2>1, <2>2, NoMoreLines
    <3>2. Decisive(trail[a]) = {3} /\ trail[a][3 - 1] = q /\ trail[a][3] = d /\ Executions(trail[a]) = {}
      BY <1>4, <3>1, EditDecided
    <3> QED
      BY <1>2, <1>4, <2>2, <3>2
  <2>3. CASE last = <<x>>
    <3>1. trail[a] = <<p, q, d, x>>
      <4>1. trail[a] = <<p, q, d>> \o <<x>>
        BY <1>7, <2>1, <2>3
      <4>2. <<p, q, d>> \o <<x>> = <<p, q, d, x>>
        BY <1>5, AfterThreeLines
      <4> QED
        BY <4>1, <4>2
    <3>2. /\ Decisive(trail[a]) = {3} /\ trail[a][3 - 1] = q /\ trail[a][3] = d
          /\ Executions(trail[a]) = {4} /\ trail[a][4] = x
      BY <1>4, <3>1, EditDecidedAndRun
    <3> QED
      BY <1>2, <1>3, <1>4, <2>3, <3>2
  <2> QED
    BY <1>3, <2>2, <2>3
<1> QED
  BY <1>2, <1>6, <1>7

(* A stopped command has one decision, a rejection, in the user's name     *)
(* only if the user answered, and no execution.                            *)
LEMMA RefusedLines ==
    ASSUME IInv, NEW a \in Actions, item[a] \in Items, Refused(a)
    PROVE  /\ \E k \in {2, 3} :
                 Decisive(trail[a]) = {k} /\ (trail[a][k].by = "user" => outcome[a] # None)
           /\ Executions(trail[a]) = {}
<1>. DEFINE p == Line("proposed", As(item[a]), "origin")
<1>1. PICK who \in {"user", "origin"}, i \in Items :
        /\ who = "user" => outcome[a] # None
        /\ \/ trail[a] = <<p>> \o <<Line("rejected", None, who)>>
           \/ trail[a] = <<p>> \o (<<Line("proposed", As(i), "user")>> \o <<Line("rejected", None, who)>>)
  <2>1. outcome[a] = "deny" => outcome[a] # None
    BY ActionAssumption DEF Decisions
  <2>2. CASE trail[a] = Proposal(a) \o By("rejected", None, "origin")
    BY <2>2 DEF Proposal, By, Line
  <2>3. CASE outcome[a] = "deny" /\ trail[a] = Proposal(a) \o By("rejected", None, "user")
    BY <2>1, <2>3 DEF Proposal, By, Line
  <2>4. CASE \E i \in Items :
          trail[a] = Proposal(a) \o (By("proposed", As(i), "user") \o By("rejected", None, "origin"))
    BY <2>4 DEF Proposal, By, Line
  <2> QED
    BY <2>2, <2>3, <2>4 DEF Refused
<1>. DEFINE q == Line("proposed", As(i), "user")
           d == Line("rejected", None, who)
<1>2. /\ p.event = "proposed" /\ q.event = "proposed"
      /\ d.event \in Deciding /\ d.by = who
  BY DEF Line, Deciding
<1>3. p \in Entry /\ q \in Entry /\ d \in Entry
  BY Worded DEF Line, Entry
<1>4. trail[a] = <<p, d>> \/ trail[a] = <<p, q, d>>
  BY <1>1, <1>3, TwoLines, BeforeTwoLines
<1>. HIDE DEF p, q, d
<1>5. CASE trail[a] = <<p, d>>
  BY <1>1, <1>2, <1>5, Decided
<1>6. CASE trail[a] = <<p, q, d>>
  BY <1>1, <1>2, <1>6, EditDecided
<1> QED
  BY <1>4, <1>5, <1>6

(* What all the entries of a command together say, written or lost.        *)
WholeTruth(a) ==
    /\ \A k \in Executions(trail[a]) :
          trail[a][k].of = ran[a] /\ (trail[a][k].by = "user" <=> Asked(a))
    /\ \A k \in Decisive(trail[a]) :
          /\ Decisive(trail[a]) = {k}
          /\ trail[a][k].by = "user" => outcome[a] # None
          /\ trail[a][k].event = "rejected" => ran[a] = None
    /\ ran[a] # None => \E k \in Decisive(trail[a]) :
          /\ k > 1 /\ trail[a][k - 1].of = As(ran[a].item)
          /\ trail[a][k].by = "user" <=> Asked(a)
    /\ pc[a] = "done" /\ told[a] # "skipped" =>
          Decisive(trail[a]) # {} /\ (ran[a] # None <=> Executions(trail[a]) # {})

LEMMA WholeLedgerTrue ==
    ASSUME IInv, LedgerInv, NEW a \in Actions, item[a] # None, item[a].kind = "command"
    PROVE  WholeTruth(a)
<1>1. /\ pc[a] \in Places \ {"new"} /\ item[a] \in Items /\ work[a] \in Items
      /\ LedgerOf(a) /\ CommandLedger(a)
  BY DEF LedgerInv, LedgerOf, IInv, TypeOK, ItemInv
<1>2. Asked(a) => outcome[a] # None
  BY ActionAssumption DEF Asked, Decisions
<1>3. CASE trail[a] = Proposal(a) /\ ran[a] = None /\ (pc[a] = "done" => told[a] = "skipped")
  <2>. DEFINE p == Line("proposed", As(item[a]), "origin")
  <2>1. trail[a] = <<p>> /\ p.event = "proposed"
    BY <1>3 DEF Proposal, By, Line
  <2>2. Decisive(trail[a]) = {} /\ Executions(trail[a]) = {}
    BY <2>1, OnlyProposed
  <2> QED
    BY <1>3, <2>2 DEF WholeTruth
<1>4. CASE Allowed(a, <<>>) /\ pc[a] # "done" /\ (ran[a] # None => ran[a] = Sent(work[a]))
  <2>1. PICK k \in {2, 3} :
          /\ Decisive(trail[a]) = {k} /\ trail[a][k - 1].of = As(work[a])
          /\ trail[a][k].event # "rejected" /\ (trail[a][k].by = "user" <=> Asked(a))
    BY <1>1, <1>4, AllowedLines
  <2>2. Executions(trail[a]) = {}
    BY <1>1, <1>4, AllowedLines
  <2>3. ran[a] # None => ran[a].item = work[a]
    BY <1>4, SentItem
  <2> QED
    BY <1>2, <1>4, <2>1, <2>2, <2>3 DEF WholeTruth
<1>5. CASE Ran(a)
  <2>. DEFINE last == By("executed", Sent(work[a]), Executor(a))
  <2>1. last # <<>> /\ Allowed(a, last)
    BY <1>5 DEF By, Ran
  <2>2. PICK k \in {2, 3} :
          /\ Decisive(trail[a]) = {k} /\ trail[a][k - 1].of = As(work[a])
          /\ trail[a][k].event # "rejected" /\ (trail[a][k].by = "user" <=> Asked(a))
    BY <1>1, <2>1, AllowedLines
  <2>3. PICK n \in {3, 4} :
          /\ Executions(trail[a]) = {n} /\ trail[a][n].of = Sent(work[a])
          /\ trail[a][n].by = "user" <=> Asked(a)
    BY <1>1, <2>1, AllowedLines
  <2>4. ran[a] = Sent(work[a]) /\ ran[a].item = work[a] /\ ran[a] # None
    BY <1>1, <1>5, SentItem, Worded, ActionAssumption DEF Ran
  <2> QED
    BY <1>2, <2>2, <2>3, <2>4 DEF WholeTruth
<1>6. CASE Refused(a)
  <2>1. ran[a] = None
    BY <1>6 DEF Refused
  <2>2. PICK k \in {2, 3} :
          Decisive(trail[a]) = {k} /\ (trail[a][k].by = "user" => outcome[a] # None)
    BY <1>1, <1>6, RefusedLines
  <2>3. Executions(trail[a]) = {}
    BY <1>1, <1>6, RefusedLines
  <2> QED
    BY <2>1, <2>2, <2>3 DEF WholeTruth
<1>7. pc[a] \in Undecided \cup {"decided", "start", "lock"} => ran[a] = None
  BY DEF IInv, ItemInv, Undecided, Preparing
<1>8. pc[a] \notin Transferring
  BY <1>1 DEF LedgerOf
<1> QED
  BY <1>1, <1>3, <1>4, <1>5, <1>6, <1>7, <1>8
  DEF CommandLedger, Places, Undecided, Preparing, Transferring

(* Whatever entries are lost, those the ledger has of a command are true,  *)
(* for any number of actions beside it: what they say was executed, was    *)
(* sent in this very wording; there is one decision, in the user's name    *)
(* only if the user decided; and if none is lost, a command that ran has   *)
(* its decision, after its proposal, and one that did not has no execution.*)
THEOREM LedgerIsTrue == Spec => []LedgerTellsTruth
<1>1. Spec => [](IInv /\ LedgerInv)
  BY Inductive, LedgerInitially, LedgerStep, PTL DEF Spec
<1>2. ASSUME IInv, LedgerInv, NEW a \in Actions, item[a] # None, item[a].kind = "command"
      PROVE  /\ WholeTruth(a)
             /\ DecisionEntries(a) \subseteq Decisive(trail[a])
             /\ \A k \in Kept(a) : trail[a][k].event = "executed" => k \in Executions(trail[a])
             /\ lost[a] = {} =>
                   /\ DecisionEntries(a) = Decisive(trail[a])
                   /\ \A k \in Executions(trail[a]) : k \in Kept(a) /\ trail[a][k].event = "executed"
  BY <1>2, WholeLedgerTrue DEF DecisionEntries, Decisive, Deciding, Executions, Kept
<1>3. IInv /\ LedgerInv => LedgerTellsTruth
  <2> SUFFICES ASSUME IInv, LedgerInv, NEW a \in Actions, item[a] # None, item[a].kind = "command"
               PROVE  /\ \A k \in Kept(a) : trail[a][k].event = "executed" =>
                            trail[a][k].of = ran[a] /\ (trail[a][k].by = "user" <=> Asked(a))
                      /\ \A k \in DecisionEntries(a) :
                            /\ DecisionEntries(a) = {k}
                            /\ trail[a][k].by = "user" => outcome[a] # None
                            /\ trail[a][k].event = "rejected" => ran[a] = None
                      /\ ran[a] # None /\ lost[a] = {} =>
                            \E k \in DecisionEntries(a) :
                                /\ k > 1 /\ trail[a][k - 1].of = As(ran[a].item)
                                /\ trail[a][k].by = "user" <=> Asked(a)
                      /\ pc[a] = "done" /\ told[a] # "skipped" /\ lost[a] = {} =>
                            /\ DecisionEntries(a) # {}
                            /\ ran[a] # None <=> \E k \in Kept(a) : trail[a][k].event = "executed"
    BY DEF LedgerTellsTruth
  <2> QED
    BY <1>2 DEF WholeTruth
<1> QED
  BY <1>1, <1>3, PTL

-----------------------------------------------------------------------------
(***************************************************************************)
(* The connection, the channel and the entry of a running command: who     *)
(* holds them, and where it is.                                            *)
(***************************************************************************)
OnConnection == {"running", "privileged", "previewOpening", "opening"}
OnChannel == {"previewChannel", "openChannel", "previewOpening", "opening", "previewing",
              "transferring"}
Holding == {"lock"} \cup OnConnection \cup OnChannel

LockInv ==
    /\ transport # None => pc[transport] \in OnConnection
    /\ sftpLock # None => pc[sftpLock] \in OnChannel
    /\ \A a \in Actions :
          /\ pc[a] \in OnConnection => transport = a
          /\ pc[a] \in OnChannel => sftpLock = a
          /\ cancel[a] # "none" <=> pc[a] \in {"lock", "running"}

LEMMA LockInitially == Init => LockInv
  BY ActionAssumption DEF Init, LockInv, OnConnection, OnChannel

(* A step of a that takes the locks its new place needs, and gives up      *)
(* those it does not need any more.                                        *)
LEMMA LockMoved ==
    ASSUME IInv, LockInv, NEW a \in Actions, NEW to,
           pc' = [pc EXCEPT ![a] = to],
           \/ transport' = transport /\ (to \in OnConnection <=> pc[a] \in OnConnection)
           \/ transport = None /\ transport' = a /\ to \in OnConnection
           \/ transport' = None /\ to \notin OnConnection /\ pc[a] \in OnConnection,
           \/ sftpLock' = sftpLock /\ (to \in OnChannel <=> pc[a] \in OnChannel)
           \/ sftpLock = None /\ sftpLock' = a /\ to \in OnChannel
           \/ sftpLock' = None /\ to \notin OnChannel /\ pc[a] \in OnChannel,
           \A b \in Actions \ {a} : cancel'[b] = cancel[b],
           cancel'[a] # "none" <=> to \in {"lock", "running"}
    PROVE  LockInv'
<1> USE ActionAssumption
<1>1. pc'[a] = to /\ \A b \in Actions \ {a} : pc'[b] = pc[b]
  BY DEF IInv, TypeOK
<1>2. /\ transport' # None => pc'[transport'] \in OnConnection
      /\ \A b \in Actions : pc'[b] \in OnConnection => transport' = b
  BY <1>1 DEF IInv, TypeOK, LockInv
<1>3. /\ sftpLock' # None => pc'[sftpLock'] \in OnChannel
      /\ \A b \in Actions : pc'[b] \in OnChannel => sftpLock' = b
  BY <1>1 DEF IInv, TypeOK, LockInv
<1>4. \A b \in Actions : cancel'[b] # "none" <=> pc'[b] \in {"lock", "running"}
  BY <1>1 DEF LockInv
<1> QED
  BY <1>2, <1>3, <1>4 DEF LockInv

(* A step without locks.                                                   *)
LEMMA LockKept ==
    ASSUME IInv, LockInv, NEW a \in Actions, NEW to, pc' = [pc EXCEPT ![a] = to],
           to \notin Holding, pc[a] \notin Holding, UNCHANGED <<transport, sftpLock, cancel>>
    PROVE  LockInv'
<1>1. cancel'[a] # "none" <=> to \in {"lock", "running"}
  BY DEF LockInv, Holding, OnConnection
<1> QED
  BY <1>1, LockMoved DEF Holding

LEMMA LockStep == IInv /\ LockInv /\ [Next]_vars => LockInv'
<1> SUFFICES ASSUME IInv, LockInv, [Next]_vars PROVE LockInv'
  OBVIOUS
<1>1. ASSUME NEW a \in Actions, Channel(a) PROVE LockInv'
  <2>1. UNCHANGED cancel /\ (cancel[a] # "none" => pc[a] \in {"lock", "running"})
    BY <1>1 DEF Channel, LockChannel, OpenChannel, ChannelOpened, ChannelFailed, ReadPreview,
       PreviewRead, LockInv
  <2>2. PICK to \in {"previewRead", "previewChannel", "previewOpening", "previewing", "opinion",
                     "transfer", "openChannel", "opening", "done"} :
          /\ pc' = [pc EXCEPT ![a] = to]
          /\ \/ transport' = transport /\ (to \in OnConnection <=> pc[a] \in OnConnection)
             \/ transport = None /\ transport' = a /\ to \in OnConnection
             \/ transport' = None /\ to \notin OnConnection /\ pc[a] \in OnConnection
          /\ \/ sftpLock' = sftpLock /\ (to \in OnChannel <=> pc[a] \in OnChannel)
             \/ sftpLock = None /\ sftpLock' = a /\ to \in OnChannel
             \/ sftpLock' = None /\ to \notin OnChannel /\ pc[a] \in OnChannel
    <3>. USE DEF Goto, OnConnection, OnChannel
    <3>1. CASE LockChannel(a)
      BY <3>1 DEF LockChannel
    <3>2. CASE OpenChannel(a)
      BY <3>2 DEF OpenChannel
    <3>3. CASE ChannelOpened(a)
      BY <3>3 DEF ChannelOpened
    <3>4. CASE ChannelFailed(a)
      BY <3>4 DEF ChannelFailed
    <3>5. CASE ReadPreview(a)
      BY <3>5 DEF ReadPreview
    <3>6. CASE PreviewRead(a)
      BY <3>6 DEF PreviewRead
    <3> QED
      BY <1>1, <3>1, <3>2, <3>3, <3>4, <3>5, <3>6 DEF Channel
  <2>3. cancel[a] = "none"
    BY <1>1, <2>1 DEF Channel, LockChannel, OpenChannel, ChannelOpened, ChannelFailed, ReadPreview,
       PreviewRead, Goto
  <2> QED
    BY <2>1, <2>2, <2>3, LockMoved
<1>2. ASSUME NEW a \in Actions,
             \/ Transfer(a) \/ Transferred(a) \/ TransferFailed(a) \/ TransferDenied(a)
             \/ RunPrivileged(a) \/ PrivilegedEnded(a)
      PROVE  LockInv'
  <2>. USE DEF Transfer, Transferred, TransferFailed, TransferDenied, RunPrivileged,
           PrivilegedEnded, Goto
  <2>1. UNCHANGED cancel /\ cancel[a] = "none"
    BY <1>2 DEF LockInv
  <2>2. PICK to \in {"transferring", "fallback", "privileged", "flag", "done"} :
          pc' = [pc EXCEPT ![a] = to]
    BY <1>2
  <2>3. to # pc[a] /\ pc'[a] = to
    BY <1>2, <2>2 DEF IInv, TypeOK
  <2>4. /\ \/ transport' = transport /\ (to \in OnConnection <=> pc[a] \in OnConnection)
           \/ transport = None /\ transport' = a /\ to \in OnConnection
           \/ transport' = None /\ to \notin OnConnection /\ pc[a] \in OnConnection
        /\ \/ sftpLock' = sftpLock /\ (to \in OnChannel <=> pc[a] \in OnChannel)
           \/ sftpLock = None /\ sftpLock' = a /\ to \in OnChannel
           \/ sftpLock' = None /\ to \notin OnChannel /\ pc[a] \in OnChannel
    BY <1>2, <2>3 DEF OnConnection, OnChannel, IInv, TypeOK
  <2> QED
    BY <2>1, <2>2, <2>4, LockMoved
<1>3. ASSUME NEW a \in Actions, StartCommand(a) \/ RunCommand(a) \/ EndCommand(a) PROVE LockInv'
  <2>. USE DEF OnConnection, OnChannel, Goto
  <2>1. CASE StartCommand(a)
    BY <2>1, LockMoved DEF StartCommand, lockVars, IInv, TypeOK
  <2>2. CASE RunCommand(a)
    <3>1. cancel[a] # "none" /\ cancel' = cancel
      BY <2>2 DEF RunCommand, LockInv
    <3> QED
      BY <2>2, <3>1, LockMoved DEF RunCommand
  <2>3. CASE EndCommand(a)
    BY <2>3, LockMoved DEF EndCommand, IInv, TypeOK
  <2> QED
    BY <1>3, <2>1, <2>2, <2>3
<1>4. ASSUME NEW a \in Actions, CancelCommand(a) PROVE LockInv'
  BY <1>4 DEF CancelCommand, lockVars, LockInv, IInv, TypeOK
<1>5. ASSUME NEW a \in Actions, Propose(a) \/ ApplyPolicy(a) \/ TakeSuspicion(a) \/ FollowUp(a)
      PROVE  LockInv'
  <2>. USE DEF Propose, ApplyPolicy, TakeSuspicion, FollowUp, SecondOpinion, Escalate,
           SkipAfterStop, AutoExec, Block, StartWaiting, Refuse, Approve, ExecuteEdited, BlockEdited
  <2>1. UNCHANGED <<transport, sftpLock, cancel>>
    BY <1>5 DEF lockVars
  <2>2. PICK to \in Places \ Holding : pc' = [pc EXCEPT ![a] = to]
    BY <1>5 DEF Goto, Places, Holding, OnConnection, OnChannel
  <2>3. pc[a] \notin Holding
    BY <1>5 DEF Goto, Holding, OnConnection, OnChannel
  <2> QED
    BY <2>1, <2>2, <2>3, LockKept
<1>6. ASSUME NEW a \in Actions, Wait(a) \/ UpdateNote(a) \/ StartTransfer(a) \/ Report(a)
      PROVE  LockInv'
  <2>. USE DEF Wait, ReceiveDecision, TimeOut, UpdateNote, StartTransfer, Report, ReportOutput,
           ReportError, StoreFlag, CheckInjection
  <2>1. UNCHANGED <<transport, sftpLock, cancel>>
    BY <1>6 DEF lockVars
  <2>2. PICK to \in Places \ Holding : pc' = [pc EXCEPT ![a] = to]
    BY <1>6 DEF Goto, Places, Holding, OnConnection, OnChannel
  <2>3. pc[a] \notin Holding
    BY <1>6 DEF Goto, Holding, OnConnection, OnChannel
  <2> QED
    BY <2>1, <2>2, <2>3, LockKept
<1>7. CASE UNCHANGED <<transport, sftpLock, cancel, pc>>
  BY <1>7 DEF LockInv
<1>8. ASSUME \/ \E a \in Actions, d \in Decisions : Answer(a, d)
             \/ Stop \/ NextResponse \/ UNCHANGED vars
      PROVE  UNCHANGED <<transport, sftpLock, cancel, pc>>
  BY <1>8 DEF Answer, Stop, NextResponse, lockVars, vars
<1> QED
  BY <1>1, <1>2, <1>3, <1>4, <1>5, <1>6, <1>7, <1>8 DEF Next, Proceed, Execute, Finished

(* One action at a time uses the connection, for a command or to open the  *)
(* channel, and one at a time the channel, whatever the chat and the MCP   *)
(* clients do.                                                             *)
OneHolder ==
    \A a, b \in Actions :
        /\ pc[a] \in OnConnection /\ pc[b] \in OnConnection => a = b
        /\ pc[a] \in OnChannel /\ pc[b] \in OnChannel => a = b

WaitingForChannel == {"preview", "previewRead", "channel", "transfer"}
WaitingForConnection == {"previewChannel", "openChannel", "fallback", "lock"}

(* Who holds the channel waits at most for the connection; who holds the   *)
(* connection waits for no lock.                                           *)
NoLockCycle ==
    \A a \in Actions :
        /\ sftpLock = a => pc[a] \notin WaitingForChannel
        /\ transport = a => pc[a] \notin WaitingForChannel \cup WaitingForConnection

(* Only a command that waits for the connection or runs can be cancelled:  *)
(* the entry is gone once it has ended, however it ended.                  *)
EntryOnlyWhileRunning ==
    \A a \in Actions : cancel[a] # "none" => pc[a] \in {"lock", "running"}

(* The locks of connection and channel, for any number of actions: each    *)
(* has one holder, who never waits for one above it.                       *)
THEOREM LocksInOrder == Spec => [](OneHolder /\ NoLockCycle /\ EntryOnlyWhileRunning)
<1>1. Spec => []LockInv
  BY Inductive, LockInitially, LockStep, PTL DEF Spec
<1>2. LockInv => OneHolder /\ NoLockCycle /\ EntryOnlyWhileRunning
  BY ActionAssumption DEF LockInv, OneHolder, NoLockCycle, EntryOnlyWhileRunning, OnConnection,
     OnChannel, WaitingForChannel, WaitingForConnection
<1> QED
  BY <1>1, <1>2, PTL

-----------------------------------------------------------------------------
(***************************************************************************)
(* FilterEngine.                                                           *)
(***************************************************************************)

(* Recursion.  A set of numbers that holds 0 and, with a number, the next  *)
(* one, holds all of them: by the well-foundedness of <.                   *)
Below == {p \in Nat \X Nat : p[1] < p[2]}

LEMMA SetInduction ==
  ASSUME NEW T \in SUBSET Nat, 0 \in T, \A n \in T : n + 1 \in T
  PROVE  T = Nat
<1>1. IsWellFoundedOn(Below, Nat)
  BY NatLessThanWellFounded DEF OpToRel, Below
<1>2. SUFFICES ASSUME Nat \ T # {} PROVE FALSE
  OBVIOUS
<1>. DEFINE U == Nat \ T
<1>3. PICK x \in U : \A y \in U : <<y, x>> \notin Below
  <2>1. U \subseteq Nat /\ U # {}
    BY <1>2
  <2>. HIDE DEF U
  <2>. QED
    BY <1>1, <2>1, WFMin
<1>4. \A y \in Nat \ T : ~(y < x)
  BY <1>3 DEF Below
<1>5. x # 0 /\ x - 1 \in Nat /\ x - 1 < x /\ (x - 1) + 1 = x
  OBVIOUS
<1>. QED
  BY <1>4, <1>5

(* A step can be iterated: there is a function with the values that its    *)
(* recursive definition asks for.                                          *)
Iterates(f, L, base, step) ==
  f \in [Nat -> L] /\ f[0] = base /\ \A n \in Nat : f[n + 1] = step[n][f[n]]

LEMMA Iterate ==
  ASSUME NEW L, NEW base, base \in L, NEW step, step \in [Nat -> [L -> L]]
  PROVE  \E f : Iterates(f, L, base, step)
<1>. DEFINE Good(n, g) == /\ g \in [0 .. n -> L]
                          /\ g[0] = base
                          /\ \A i \in 0 .. n : i < n => g[i + 1] = step[i][g[i]]
            T == {n \in Nat : \E g : Good(n, g)}
<1>1. 0 \in T
  <2>1. Good(0, [i \in 0 .. 0 |-> base])
    OBVIOUS
  <2>. QED
    BY <2>1
<1>2. ASSUME NEW n \in T PROVE n + 1 \in T
  <2>1. PICK g : Good(n, g)
    OBVIOUS
  <2>2. n \in Nat /\ g[n] \in L
    BY <2>1
  <2>. DEFINE h == [i \in 0 .. (n + 1) |-> IF i = n + 1 THEN step[n][g[n]] ELSE g[i]]
  <2>3. h \in [0 .. (n + 1) -> L]
    BY <2>1, <2>2
  <2>4. \A i \in 0 .. (n + 1) : i < n + 1 => h[i + 1] = step[i][h[i]]
    BY <2>1, <2>2
  <2>5. h[0] = base
    BY <2>1, <2>2
  <2>6. \E k : Good(n + 1, k)
    BY <2>3, <2>4, <2>5
  <2>7. n + 1 \in Nat
    BY <2>2
  <2>. HIDE DEF Good, h
  <2>. QED
    BY <2>6, <2>7
<1>3. T = Nat
  <2>. HIDE DEF T
  <2>1. T \in SUBSET Nat
    BY DEF T
  <2>. QED
    BY <1>1, <1>2, <2>1, SetInduction
<1>. DEFINE G(n) == CHOOSE g : Good(n, g)
<1>4. \A n \in Nat : Good(n, G(n))
  <2>1. \A n \in Nat : \E g : Good(n, g)
    BY <1>3
  <2>. HIDE DEF Good
  <2>. QED
    BY <2>1
<1>5. ASSUME NEW n \in Nat, NEW g, NEW h, Good(n, g), Good(n + 1, h)
      PROVE  g[n] = h[n]
  <2>. DEFINE A == {i \in Nat : i <= n => g[i] = h[i]}
  <2>1. 0 \in A
    BY <1>5
  <2>2. ASSUME NEW i \in A PROVE i + 1 \in A
    <3>1. CASE i + 1 <= n
      BY <1>5, <2>2, <3>1
    <3>2. CASE ~(i + 1 <= n)
      BY <2>2, <3>2
    <3>. QED
      BY <3>1, <3>2
  <2>3. A = Nat
    <3>. HIDE DEF A
    <3>1. A \in SUBSET Nat
      BY DEF A
    <3>. QED
      BY <2>1, <2>2, <3>1, SetInduction
  <2>. QED
    BY <2>3
<1>. HIDE DEF G
<1>. DEFINE F == [n \in Nat |-> G(n)[n]]
<1>6. F \in [Nat -> L]
  <2>1. \A n \in Nat : G(n)[n] \in L
    BY <1>4
  <2>. QED
    BY <2>1
<1>7. F[0] = base
  BY <1>4
<1>8. ASSUME NEW n \in Nat PROVE F[n + 1] = step[n][F[n]]
  <2>1. n + 1 \in Nat /\ Good(n, G(n)) /\ Good(n + 1, G(n + 1))
    <3>1. n + 1 \in Nat
      OBVIOUS
    <3>. HIDE DEF Good
    <3>. QED
      BY <1>4, <3>1
  <2>2. G(n)[n] = G(n + 1)[n]
    <3>. HIDE DEF Good
    <3>. QED
      BY <1>5, <2>1
  <2>3. G(n + 1)[n + 1] = step[n][G(n + 1)[n]]
    BY <2>1
  <2>. QED
    BY <2>1, <2>2, <2>3
<1>. HIDE DEF F
<1>. QED
  BY <1>6, <1>7, <1>8 DEF Iterates

-----------------------------------------------------------------------------
(* Decisions.                                                              *)

LEMMA DecisionsTyped ==
  /\ AutoExecute \in FilterDecisions
  /\ \A code \in Codes : Confirm(code) \in FilterDecisions /\ Deny(code) \in FilterDecisions
<1>1. AutoExecute \in FilterDecisions
  BY DEF AutoExecute, FilterDecisions, Codes
<1>2. ASSUME NEW code \in Codes PROVE Confirm(code) \in FilterDecisions
  BY DEF Confirm, FilterDecisions
<1>3. ASSUME NEW code \in Codes PROVE Deny(code) \in FilterDecisions
  BY DEF Deny, FilterDecisions
<1>. QED
  BY <1>1, <1>2, <1>3

LEMMA SeverityIs ==
  ASSUME NEW a \in FilterDecisions
  PROVE  /\ Severity(a) \in 0 .. 2
         /\ Severity(a) = 0 <=> a.verdict = "auto"
         /\ Severity(a) = 1 <=> a.verdict = "confirm"
         /\ Severity(a) = 2 <=> a.verdict = "deny"
BY DEF FilterDecisions, Severity

LEMMA PriorityIs ==
  ASSUME NEW code
  PROVE  CodePriority(code) \in 0 .. 255
BY DEF CodePriority

LEMMA RankArithmetic ==
  ASSUME NEW s \in 0 .. 2, NEW t \in 0 .. 2, NEW p \in 0 .. 255, NEW q \in 0 .. 255
  PROVE  /\ (2 - s) * 256 + p \in Nat
         /\ (2 - s) * 256 + p <= (2 - t) * 256 + q <=> s > t \/ (s = t /\ p <= q)
OBVIOUS

(* The place of a decision in the order that combine looks for the first   *)
(* of.                                                                     *)
Rank(a) == (2 - Severity(a)) * 256 + CodePriority(a.code)

LEMMA RankIs ==
  ASSUME NEW a \in FilterDecisions, NEW b \in FilterDecisions
  PROVE  /\ Rank(a) \in Nat
         /\ Rank(a) <= Rank(b) => Severity(a) >= Severity(b)
         /\ Combine(a, b) = IF Rank(a) <= Rank(b) THEN a ELSE b
<1>1. /\ Severity(a) \in 0 .. 2 /\ Severity(b) \in 0 .. 2
      /\ a.code \in Codes /\ b.code \in Codes
      /\ CodePriority(a.code) \in 0 .. 255 /\ CodePriority(b.code) \in 0 .. 255
  BY SeverityIs, PriorityIs DEF FilterDecisions
<1>2. /\ Rank(a) \in Nat
      /\ Rank(a) <= Rank(b) <=> \/ Severity(a) > Severity(b)
                               \/ /\ Severity(a) = Severity(b)
                                  /\ CodePriority(a.code) <= CodePriority(b.code)
  BY <1>1, RankArithmetic, ZenonT(60) DEF Rank
<1>3. Rank(a) <= Rank(b) => Severity(a) >= Severity(b)
  BY <1>1, <1>2
<1>4. CASE Severity(a) > Severity(b)
  BY <1>2, <1>3, <1>4 DEF Combine
<1>5. CASE Severity(a) < Severity(b)
  <2>1. ~(Severity(a) > Severity(b)) /\ Severity(a) # Severity(b)
    BY <1>1, <1>5
  <2>. QED
    BY <1>2, <1>3, <1>5, <2>1 DEF Combine
<1>6. CASE Severity(a) = Severity(b)
  <2>1. Rank(a) <= Rank(b) <=> CodePriority(a.code) <= CodePriority(b.code)
    BY <1>1, <1>2, <1>6
  <2>2. a.verdict = b.verdict
    BY <1>6, SeverityIs DEF FilterDecisions
  <2>3. [a EXCEPT !.code = b.code] = b /\ [a EXCEPT !.code = a.code] = a
    BY <2>2 DEF FilterDecisions
  <2>4. Combine(a, b) = [a EXCEPT !.code = MergeCodes(a.code, b.code)]
    BY <1>1, <1>6 DEF Combine
  <2>. QED
    BY <1>2, <1>3, <2>1, <2>3, <2>4 DEF MergeCodes
<1>. QED
  BY <1>1, <1>4, <1>5, <1>6

(* Of decisions there is a first one.                                      *)
LEMMA FirstOf ==
  ASSUME NEW D \in SUBSET FilterDecisions, D # {}
  PROVE  \E a \in D : \A b \in D : Rank(a) <= Rank(b)
<1>. DEFINE R == {Rank(a) : a \in D}
<1>1. R \subseteq Nat /\ R # {}
  BY RankIs
<1>2. IsWellFoundedOn(Below, Nat)
  BY NatLessThanWellFounded DEF OpToRel, Below
<1>3. PICK x \in R : \A y \in R : <<y, x>> \notin Below
  <2>. HIDE DEF R
  <2>. QED
    BY <1>1, <1>2, WFMin
<1>4. PICK a \in D : x = Rank(a)
  BY <1>3
<1>5. ASSUME NEW b \in D PROVE Rank(a) <= Rank(b)
  <2>1. ~(Rank(b) < Rank(a))
    BY <1>1, <1>3, <1>4 DEF Below
  <2>2. Rank(a) \in Nat /\ Rank(b) \in Nat
    BY RankIs
  <2>. QED
    BY <2>1, <2>2
<1>. QED
  BY <1>5

(* CombineAll gives one of the decisions, or AutoExecute, and none is tighter.    *)
LEMMA CombineAllIs ==
  ASSUME NEW D \in SUBSET FilterDecisions
  PROVE  /\ CombineAll(D) \in D \cup {AutoExecute}
         /\ CombineAll(D) \in FilterDecisions
         /\ \A b \in D : Severity(b) <= Severity(CombineAll(D))
<1>. DEFINE whole == D \cup {AutoExecute}
<1>1. whole \in SUBSET FilterDecisions /\ whole # {}
  BY DecisionsTyped
<1>2. CombineAll(D) = CHOOSE a \in whole : \A b \in whole : Combine(a, b) = a
  BY DEF CombineAll
<1>. HIDE DEF whole
<1>3. \E a \in whole : \A b \in whole : Combine(a, b) = a
  <2>1. PICK a \in whole : \A b \in whole : Rank(a) <= Rank(b)
    BY <1>1, FirstOf
  <2>2. \A b \in whole : Combine(a, b) = a
    BY <1>1, <2>1, RankIs
  <2>. QED
    BY <2>2
<1>4. CombineAll(D) \in whole /\ \A b \in whole : Combine(CombineAll(D), b) = CombineAll(D)
  BY <1>2, <1>3
<1>5. ASSUME NEW b \in D PROVE Severity(b) <= Severity(CombineAll(D))
  <2>. DEFINE a == CombineAll(D)
  <2>1. b \in whole /\ b \in FilterDecisions /\ a \in FilterDecisions /\ Combine(a, b) = a
    BY <1>1, <1>4 DEF whole
  <2>. HIDE DEF a
  <2>2. Rank(a) <= Rank(b)
    <3>1. CASE a = b
      BY <2>1, <3>1, RankIs
    <3>2. CASE a # b
      BY <2>1, <3>2, RankIs
    <3>. QED
      BY <3>1, <3>2
  <2>3. Severity(a) >= Severity(b) /\ Severity(a) \in 0 .. 2 /\ Severity(b) \in 0 .. 2
    BY <2>1, <2>2, RankIs, SeverityIs
  <2>. QED
    BY <2>3 DEF a
<1>. QED
  BY <1>1, <1>4, <1>5 DEF whole

(* What denies denies the whole; and the whole is let through only if      *)
(* everything is.                                                          *)
LEMMA CombineAllDenies ==
  ASSUME NEW D \in SUBSET FilterDecisions, NEW b \in D, b.verdict = "deny"
  PROVE  CombineAll(D).verdict = "deny"
<1>1. CombineAll(D) \in FilterDecisions /\ Severity(b) <= Severity(CombineAll(D))
  BY CombineAllIs
<1>2. Severity(b) = 2 /\ Severity(CombineAll(D)) \in 0 .. 2
  BY <1>1, SeverityIs
<1>3. Severity(CombineAll(D)) = 2
  BY <1>1, <1>2
<1>. QED
  BY <1>1, <1>3, SeverityIs

LEMMA CombineAllAllows ==
  ASSUME NEW D \in SUBSET FilterDecisions, CombineAll(D).verdict = "auto", NEW b \in D
  PROVE  b.verdict = "auto"
<1>1. CombineAll(D) \in FilterDecisions /\ Severity(b) <= Severity(CombineAll(D))
  BY CombineAllIs
<1>2. Severity(CombineAll(D)) = 0 /\ Severity(b) \in 0 .. 2
  BY <1>1, SeverityIs
<1>3. Severity(b) = 0
  BY <1>1, <1>2
<1>. QED
  BY <1>3, SeverityIs

LEMMA CombineBoth ==
  ASSUME NEW a \in FilterDecisions, NEW b \in FilterDecisions
  PROVE  /\ Combine(a, b) \in {a, b}
         /\ Severity(a) <= Severity(Combine(a, b))
         /\ Severity(b) <= Severity(Combine(a, b))
<1>1. /\ Rank(a) \in Nat /\ Rank(b) \in Nat
      /\ Rank(a) <= Rank(b) => Severity(a) >= Severity(b)
      /\ Rank(b) <= Rank(a) => Severity(b) >= Severity(a)
      /\ Combine(a, b) = IF Rank(a) <= Rank(b) THEN a ELSE b
      /\ Severity(a) \in 0 .. 2 /\ Severity(b) \in 0 .. 2
  BY RankIs, SeverityIs
<1>. QED
  BY <1>1

-----------------------------------------------------------------------------
(* Commands, and the functions that are defined along their nesting.       *)

LEMMA PartIs ==
  ASSUME NEW c \in Parts
  PROVE  \/ c.kind \in {"nothing", "opaque"}
         \/ c.kind = "code" /\ c.inner \in Parts
         \/ /\ c.kind = "chain"
            /\ \A i \in DOMAIN c.segments :
                 /\ c.segments[i].text \in Literal
                 /\ c.segments[i].redirect \in BOOLEAN
                 /\ c.segments[i].inner \in Seq(Parts)
BY FilterAssumption

LEMMA InnerAreParts ==
  ASSUME NEW c \in Parts, c.kind = "chain", NEW i \in DOMAIN c.segments,
         NEW j \in DOMAIN c.segments[i].inner
  PROVE  c.segments[i].inner[j] \in Parts
<1>1. c.segments[i].inner \in Seq(Parts)
  BY PartIs
<1>. QED
  BY <1>1

LEMMA InsideAreParts ==
  ASSUME NEW c \in Parts
  PROVE  SeenInside(c) \in SUBSET Parts
<1>1. CASE c.kind = "code"
  BY <1>1, PartIs DEF SeenInside
<1>2. CASE c.kind = "chain"
  <2>1. SeenInside(c) = UNION {{c.segments[i].inner[j] : j \in DOMAIN c.segments[i].inner}
                                   : i \in DOMAIN c.segments}
    BY <1>2 DEF SeenInside
  <2>. QED
    BY <1>2, <2>1, InnerAreParts
<1>3. CASE c.kind \in {"nothing", "opaque"}
  BY <1>3 DEF SeenInside
<1>. QED
  BY <1>1, <1>2, <1>3, PartIs

LEMMA WithinIs ==
  /\ Within[0] = [c \in Parts |-> {}]
  /\ \A n \in Nat : Within[n + 1] =
        [c \in Parts |-> {c} \cup UNION {Within[n][d] : d \in SeenInside(c)}]
  /\ \A n \in Nat : Within[n] \in [Parts -> SUBSET Parts]
<1>. DEFINE L == [Parts -> SUBSET Parts]
            base == [c \in Parts |-> {}]
            around(g) == [c \in Parts |-> {c} \cup UNION {g[d] : d \in SeenInside(c)}]
            step == [n \in Nat |-> [g \in L |-> around(g)]]
<1>1. base \in L
  OBVIOUS
<1>2. \A g \in L : around(g) \in L
  BY InsideAreParts
<1>3. step \in [Nat -> [L -> L]]
  BY <1>2
<1>4. PICK f : Iterates(f, L, base, step)
  <2>. HIDE DEF L, base, step
  <2>. QED
    BY <1>1, <1>3, Iterate
<1>5. f \in [Nat -> L] /\ f[0] = base /\ \A n \in Nat : f[n + 1] = around(f[n])
  BY <1>4 DEF Iterates
<1>6. f = [n \in Nat |-> IF n = 0 THEN base ELSE around(f[n - 1])]
  <2>. HIDE DEF base, around, L
  <2>1. ASSUME NEW n \in Nat PROVE f[n] = IF n = 0 THEN base ELSE around(f[n - 1])
    <3>1. CASE n = 0
      BY <1>5, <3>1
    <3>2. CASE n # 0
      <4>1. n - 1 \in Nat /\ (n - 1) + 1 = n
        BY <3>2
      <4>. QED
        BY <1>5, <3>2, <4>1
    <3>. QED
      BY <3>1, <3>2
  <2>. QED
    BY <1>5, <2>1
<1>7. Within = [n \in Nat |-> IF n = 0 THEN base ELSE around(Within[n - 1])]
  BY <1>6, ZenonT(60) DEF Within
<1>8. \A n \in Nat : Within[n + 1] = around(Within[n])
  <2>. HIDE DEF base, around
  <2>1. ASSUME NEW n \in Nat PROVE Within[n + 1] = around(Within[n])
    <3>1. n + 1 \in Nat /\ n + 1 # 0 /\ (n + 1) - 1 = n
      OBVIOUS
    <3>. QED
      BY <1>7, <3>1
  <2>. QED
    BY <2>1
<1>9. Within[0] = base
  BY <1>7
<1>10. \A n \in Nat : Within[n] \in L
  <2>. DEFINE T == {n \in Nat : Within[n] \in L}
  <2>1. 0 \in T
    BY <1>1, <1>9
  <2>2. ASSUME NEW n \in T PROVE n + 1 \in T
    <3>. HIDE DEF L, around
    <3>. QED
      BY <1>2, <1>8, <2>2
  <2>3. T = Nat
    <3>. HIDE DEF T
    <3>1. T \in SUBSET Nat
      BY DEF T
    <3>. QED
      BY <2>1, <2>2, <3>1, SetInduction
  <2>. QED
    BY <2>3
<1>. QED
  BY <1>8, <1>9, <1>10

-----------------------------------------------------------------------------
(* The decisions on the parts of a command.                                *)

(* What is combined for a segment.                                         *)
Judged(segment, rules, below) ==
  {EvaluateRules(rules, segment.text)}
    \cup {below[segment.inner[i]] : i \in DOMAIN segment.inner}
    \cup (IF segment.inner # <<>> THEN {Confirm("substitution")} ELSE {})
    \cup (IF Blacklisted(segment.text) THEN {Confirm("blacklist")} ELSE {})
    \cup (IF segment.redirect THEN {Confirm("redirection")} ELSE {})

LEMMA RulesTyped ==
  ASSUME NEW rules, NEW text
  PROVE  EvaluateRules(rules, text) \in FilterDecisions
<1>1. EvaluateRules(rules, text) \in
        {Deny("rule deny"), Confirm("rule confirm"), AutoExecute, Confirm("no rule")}
  BY DEF EvaluateRules
<1>2. {"rule deny", "rule confirm", "no rule"} \subseteq Codes
  BY DEF Codes
<1>. QED
  BY <1>1, <1>2, DecisionsTyped

LEMMA SegmentIs ==
  ASSUME NEW c \in Parts, c.kind = "chain", NEW i \in DOMAIN c.segments, NEW rules,
         NEW below \in [Parts -> FilterDecisions]
  PROVE  /\ Judged(c.segments[i], rules, below) \in SUBSET FilterDecisions
         /\ EvaluateSegment(c.segments[i], rules, below)
              = CombineAll(Judged(c.segments[i], rules, below))
         /\ EvaluateSegment(c.segments[i], rules, below) \in FilterDecisions
<1>1. EvaluateSegment(c.segments[i], rules, below)
        = CombineAll(Judged(c.segments[i], rules, below))
  BY DEF EvaluateSegment, Judged
<1>2. {below[c.segments[i].inner[j]] : j \in DOMAIN c.segments[i].inner} \in SUBSET FilterDecisions
  BY InnerAreParts
<1>3. /\ Confirm("substitution") \in FilterDecisions /\ Confirm("blacklist") \in FilterDecisions
      /\ Confirm("redirection") \in FilterDecisions
  <2>1. {"substitution", "blacklist", "redirection"} \subseteq Codes
    BY DEF Codes
  <2>. QED
    BY <2>1, DecisionsTyped
<1>4. Judged(c.segments[i], rules, below) \in SUBSET FilterDecisions
  BY <1>2, <1>3, RulesTyped DEF Judged
<1>. QED
  BY <1>1, <1>4, CombineAllIs

(* What is combined for a chain.                                           *)
Links(c, rules, below) == {EvaluateSegment(c.segments[i], rules, below) : i \in DOMAIN c.segments}

LEMMA ChainIs ==
  ASSUME NEW c \in Parts, c.kind = "chain", NEW rules,
         NEW below \in [Parts -> FilterDecisions]
  PROVE  /\ Links(c, rules, below) \in SUBSET FilterDecisions
         /\ EvaluateParsed(c, rules, below) = CombineAll(Links(c, rules, below))
<1>1. Links(c, rules, below) \in SUBSET FilterDecisions
  BY SegmentIs DEF Links
<1>2. EvaluateParsed(c, rules, below) = CombineAll(Links(c, rules, below))
  BY DEF EvaluateParsed, Links
<1>. QED
  BY <1>1, <1>2

LEMMA ParsedTyped ==
  ASSUME NEW c \in Parts, NEW rules, NEW below \in [Parts -> FilterDecisions]
  PROVE  EvaluateParsed(c, rules, below) \in FilterDecisions
<1>1. Deny("empty") \in FilterDecisions /\ Confirm("ambiguous") \in FilterDecisions
  <2>1. {"empty", "ambiguous"} \subseteq Codes
    BY DEF Codes
  <2>. QED
    BY <2>1, DecisionsTyped
<1>2. CASE c.kind = "nothing"
  BY <1>1, <1>2 DEF EvaluateParsed
<1>3. CASE c.kind = "opaque"
  BY <1>1, <1>3 DEF EvaluateParsed
<1>4. CASE c.kind = "code"
  <2>1. EvaluateParsed(c, rules, below) = Combine(Confirm("ambiguous"), below[c.inner])
    BY <1>4 DEF EvaluateParsed
  <2>2. below[c.inner] \in FilterDecisions
    BY <1>4, PartIs
  <2>. QED
    BY <1>1, <2>1, <2>2, CombineBoth
<1>5. CASE c.kind = "chain"
  BY <1>5, ChainIs, CombineAllIs
<1>. QED
  BY <1>2, <1>3, <1>4, <1>5, PartIs

(* The function of the depths that DecisionsAt is: the limit is looked at  *)
(* first, and every other depth looks at the next.                         *)
LEMMA DecisionsAtIs ==
  ASSUME NEW rules
  PROVE  /\ \A depth \in 0 .. MaxDepth + 1 :
              DecisionsAt(rules)[depth] \in [Parts -> FilterDecisions]
         /\ \A c \in Parts : DecisionsAt(rules)[MaxDepth + 1][c] = Deny("too deep")
         /\ \A depth \in 0 .. MaxDepth : \A c \in Parts :
              DecisionsAt(rules)[depth][c] = EvaluateParsed(c, rules, DecisionsAt(rules)[depth + 1])
<1>. USE FilterAssumption
<1>. DEFINE L == [Parts -> FilterDecisions]
            base == [c \in Parts |-> Deny("too deep")]
            above(g) == [c \in Parts |-> EvaluateParsed(c, rules, g)]
            step == [n \in Nat |-> [g \in L |-> above(g)]]
<1>1. base \in L
  <2>1. "too deep" \in Codes
    BY DEF Codes
  <2>. QED
    BY <2>1, DecisionsTyped
<1>2. \A g \in L : above(g) \in L
  BY ParsedTyped
<1>3. step \in [Nat -> [L -> L]]
  BY <1>2
<1>4. PICK f : Iterates(f, L, base, step)
  <2>. HIDE DEF L, base, step
  <2>. QED
    BY <1>1, <1>3, Iterate
<1>5. f \in [Nat -> L] /\ f[0] = base /\ \A n \in Nat : f[n + 1] = above(f[n])
  BY <1>4 DEF Iterates
<1>. DEFINE at == [depth \in 0 .. MaxDepth + 1 |-> f[MaxDepth + 1 - depth]]
<1>6. /\ \A depth \in 0 .. MaxDepth + 1 : at[depth] \in L
      /\ at[MaxDepth + 1] = base
      /\ \A depth \in 0 .. MaxDepth : at[depth] = above(at[depth + 1])
  <2>. HIDE DEF L, base, above
  <2>1. ASSUME NEW depth \in 0 .. MaxDepth + 1 PROVE at[depth] \in L
    <3>1. MaxDepth + 1 - depth \in Nat
      OBVIOUS
    <3>. QED
      BY <1>5, <3>1
  <2>2. at[MaxDepth + 1] = base
    <3>1. MaxDepth + 1 \in 0 .. MaxDepth + 1 /\ MaxDepth + 1 - (MaxDepth + 1) = 0
      OBVIOUS
    <3>. QED
      BY <1>5, <3>1
  <2>3. ASSUME NEW depth \in 0 .. MaxDepth PROVE at[depth] = above(at[depth + 1])
    <3>1. /\ MaxDepth - depth \in Nat /\ MaxDepth + 1 - (depth + 1) = MaxDepth - depth
          /\ MaxDepth + 1 - depth = (MaxDepth - depth) + 1
          /\ depth \in 0 .. MaxDepth + 1 /\ depth + 1 \in 0 .. MaxDepth + 1
      OBVIOUS
    <3>. QED
      BY <1>5, <3>1
  <2>. QED
    BY <2>1, <2>2, <2>3
<1>7. at = [depth \in 0 .. MaxDepth + 1 |->
              IF depth > MaxDepth THEN base ELSE above(at[depth + 1])]
  <2>. DEFINE other == [depth \in 0 .. MaxDepth + 1 |->
                          IF depth > MaxDepth THEN base ELSE above(at[depth + 1])]
  <2>1. ASSUME NEW depth \in 0 .. MaxDepth + 1 PROVE at[depth] = other[depth]
    <3>. HIDE DEF base, above, at
    <3>1. CASE depth > MaxDepth
      <4>1. depth = MaxDepth + 1
        BY <3>1
      <4>. QED
        BY <1>6, <3>1, <4>1
    <3>2. CASE ~(depth > MaxDepth)
      <4>1. depth \in 0 .. MaxDepth
        BY <3>2
      <4>. QED
        BY <1>6, <3>2, <4>1
    <3>. QED
      BY <3>1, <3>2
  <2>2. DOMAIN at = DOMAIN other
    OBVIOUS
  <2>. QED
    BY <2>1, <2>2
<1>. HIDE DEF at
<1>8. DecisionsAt(rules) = [depth \in 0 .. MaxDepth + 1 |->
        IF depth > MaxDepth THEN base ELSE above(DecisionsAt(rules)[depth + 1])]
  BY <1>7 DEF DecisionsAt
<1>. DEFINE d == DecisionsAt(rules)
<1>9. ASSUME NEW depth \in 0 .. MaxDepth
      PROVE  depth + 1 \in 0 .. MaxDepth + 1 /\ d[depth] = above(d[depth + 1])
  <2>1. depth \in 0 .. MaxDepth + 1 /\ ~(depth > MaxDepth) /\ depth + 1 \in 0 .. MaxDepth + 1
    OBVIOUS
  <2>. HIDE DEF base, above
  <2>. QED
    BY <1>8, <2>1
<1>10. d[MaxDepth + 1] = base
  <2>1. MaxDepth + 1 \in 0 .. MaxDepth + 1 /\ MaxDepth + 1 > MaxDepth
    OBVIOUS
  <2>. HIDE DEF base, above
  <2>. QED
    BY <1>8, <2>1
<1>. HIDE DEF d
<1>11. \A depth \in 0 .. MaxDepth + 1 : d[depth] \in L
  <2>. DEFINE T == {n \in Nat : n <= MaxDepth + 1 => d[MaxDepth + 1 - n] \in L}
  <2>. HIDE DEF base, above, L
  <2>1. 0 \in T
    <3>1. MaxDepth + 1 - 0 = MaxDepth + 1
      OBVIOUS
    <3>. QED
      BY <1>1, <1>10, <3>1
  <2>2. ASSUME NEW n \in T PROVE n + 1 \in T
    <3>1. CASE n + 1 <= MaxDepth + 1
      <4>1. /\ MaxDepth + 1 - (n + 1) \in 0 .. MaxDepth
            /\ MaxDepth + 1 - (n + 1) + 1 = MaxDepth + 1 - n /\ n <= MaxDepth + 1
        BY <3>1
      <4>. QED
        BY <1>2, <1>9, <2>2, <4>1
    <3>2. CASE ~(n + 1 <= MaxDepth + 1)
      BY <3>2
    <3>. QED
      BY <3>1, <3>2
  <2>3. T = Nat
    <3>. HIDE DEF T
    <3>1. T \in SUBSET Nat
      BY DEF T
    <3>. QED
      BY <2>1, <2>2, <3>1, SetInduction
  <2>4. ASSUME NEW depth \in 0 .. MaxDepth + 1 PROVE d[depth] \in L
    <3>1. /\ MaxDepth + 1 - depth \in Nat /\ MaxDepth + 1 - depth <= MaxDepth + 1
          /\ MaxDepth + 1 - (MaxDepth + 1 - depth) = depth
      OBVIOUS
    <3>. QED
      BY <2>3, <3>1
  <2>. QED
    BY <2>4
<1>. QED
  BY <1>9, <1>10, <1>11, ZenonT(60) DEF d

LEMMA SegmentTextsTyped ==
  ASSUME NEW c \in Parts, NEW depth, NEW below \in [Parts -> SUBSET Literal]
  PROVE  SegmentCommand(c, depth, below) \in SUBSET Literal
<1>1. CASE c.kind # "chain"
  BY <1>1 DEF SegmentCommand
<1>2. CASE c.kind = "chain"
  <2>1. ASSUME NEW i \in DOMAIN c.segments
        PROVE  /\ c.segments[i].text \in Literal
               /\ InnerTexts(c.segments[i], below) \in SUBSET Literal
    <3>1. c.segments[i].text \in Literal
      BY <1>2, PartIs
    <3>2. \A j \in DOMAIN c.segments[i].inner : below[c.segments[i].inner[j]] \in SUBSET Literal
      BY <1>2, InnerAreParts
    <3>. QED
      BY <3>1, <3>2 DEF InnerTexts
  <2>. QED
    BY <1>2, <2>1 DEF SegmentCommand
<1>. QED
  BY <1>1, <1>2

(* The classifier's walk, likewise; below the limit there is nothing.      *)
LEMMA TextsAtIs ==
  \A depth \in 0 .. MaxDepth : \A c \in Parts :
     TextsAt[depth][c] = SegmentCommand(c, depth, TextsAt[depth + 1])
<1>. USE FilterAssumption
<1>. DEFINE L == [Parts -> SUBSET Literal]
            base == [c \in Parts |-> {}]
            above(depth, g) == [c \in Parts |-> SegmentCommand(c, depth, g)]
            step == [n \in Nat |-> [g \in L |-> above(MaxDepth - n, g)]]
<1>1. base \in L
  OBVIOUS
<1>2. \A depth : \A g \in L : above(depth, g) \in L
  BY SegmentTextsTyped
<1>3. step \in [Nat -> [L -> L]]
  <2>1. \A n \in Nat : [g \in L |-> above(MaxDepth - n, g)] \in [L -> L]
    BY <1>2
  <2>. HIDE DEF above, L
  <2>. QED
    BY <2>1
<1>4. PICK f : Iterates(f, L, base, step)
  <2>. HIDE DEF L, base, step
  <2>. QED
    BY <1>1, <1>3, Iterate
<1>5. f \in [Nat -> L] /\ \A n \in Nat : f[n + 1] = above(MaxDepth - n, f[n])
  <2>. HIDE DEF above, L
  <2>. QED
    BY <1>4 DEF Iterates
<1>. DEFINE at == [depth \in 0 .. MaxDepth |-> f[MaxDepth + 1 - depth]]
<1>6. \A g, h : above(MaxDepth, g) = above(MaxDepth, h)
  <2>1. MaxDepth >= MaxDepth
    OBVIOUS
  <2>. DEFINE own(c) == IF c.kind # "chain" THEN {}
                        ELSE UNION {{c.segments[i].text} : i \in DOMAIN c.segments}
  <2>2. \A c, g : SegmentCommand(c, MaxDepth, g) = own(c)
    BY <2>1 DEF SegmentCommand
  <2>. HIDE DEF own
  <2>3. \A g : above(MaxDepth, g) = [c \in Parts |-> own(c)]
    BY <2>2
  <2>. QED
    BY <2>3, Zenon
<1>7. \A depth \in 0 .. MaxDepth : at[depth] = above(depth, at[depth + 1])
  <2>1. ASSUME NEW depth \in 0 .. MaxDepth PROVE at[depth] = above(depth, at[depth + 1])
    <3>. HIDE DEF above, L, base
    <3>1. /\ MaxDepth - depth \in Nat /\ MaxDepth - (MaxDepth - depth) = depth
          /\ MaxDepth + 1 - depth = (MaxDepth - depth) + 1
      OBVIOUS
    <3>2. at[depth] = above(depth, f[MaxDepth - depth])
      BY <1>5, <3>1
    <3>3. CASE depth = MaxDepth
      BY <1>6, <3>2, <3>3
    <3>4. CASE depth # MaxDepth
      <4>1. depth + 1 \in 0 .. MaxDepth /\ MaxDepth + 1 - (depth + 1) = MaxDepth - depth
        BY <3>4
      <4>2. at[depth + 1] = f[MaxDepth - depth]
        BY <4>1
      <4>. QED
        BY <3>2, <4>2
    <3>. QED
      BY <3>3, <3>4
  <2>. QED
    BY <2>1
<1>8. at = [depth \in 0 .. MaxDepth |-> above(depth, at[depth + 1])]
  <2>. DEFINE other == [depth \in 0 .. MaxDepth |-> above(depth, at[depth + 1])]
  <2>1. \A depth \in 0 .. MaxDepth : at[depth] = other[depth]
    <3>. HIDE DEF above, at
    <3>. QED
      BY <1>7
  <2>2. DOMAIN at = DOMAIN other
    OBVIOUS
  <2>. HIDE DEF above
  <2>. QED
    BY <2>1, <2>2
<1>. HIDE DEF at
<1>9. TextsAt = [depth \in 0 .. MaxDepth |-> above(depth, TextsAt[depth + 1])]
  BY <1>8 DEF TextsAt
<1>. QED
  BY <1>9, SMTT(40)

-----------------------------------------------------------------------------
(* The evaluation that a caller acts on is the engine's, on a command and  *)
(* valid rules.                                                            *)
TraceInv ==
  trace # NoTrace =>
    /\ [command |-> trace.command, size |-> trace.size] \in Proposals
    /\ trace.rules \in SUBSET {r \in Rules : r.valid}
    /\ trace.decision = Evaluate(trace.command, trace.size, trace.rules)

StoreInv == stored \in SUBSET {r \in Rules : r.valid}

LEMMA ProposalIs ==
  ASSUME NEW p \in Proposals
  PROVE  p.command \in Parts /\ p.size \in Sizes /\ p = [command |-> p.command, size |-> p.size]
<1>1. p \in [command : Parts, size : Sizes]
  BY FilterAssumption
<1>. QED
  BY <1>1

LEMMA StoreInit_Inv == StoreInit => StoreInv /\ TraceInv
BY DEF StoreInit, StoreInv, TraceInv

LEMMA StoreNext_Inv ==
  StoreInv /\ TraceInv /\ [StoreNext]_storeVars => StoreInv' /\ TraceInv'
<1>. SUFFICES ASSUME StoreInv, TraceInv, [StoreNext]_storeVars
              PROVE  StoreInv' /\ TraceInv'
  OBVIOUS
<1>1. ASSUME NEW r \in Rules, CreateRule(r) PROVE StoreInv' /\ TraceInv'
  BY <1>1 DEF CreateRule, StoreInv, TraceInv
<1>2. ASSUME NEW r \in Rules, DeleteRule(r) PROVE StoreInv' /\ TraceInv'
  BY <1>2 DEF DeleteRule, StoreInv, TraceInv
<1>3. ASSUME NEW old \in Rules, NEW r \in Rules, UpdateRule(old, r) PROVE StoreInv' /\ TraceInv'
  BY <1>3 DEF UpdateRule, StoreInv, TraceInv
<1>4. ASSUME NEW p \in Proposals, NEW rules, rules \in SUBSET stored,
             trace' = Evaluated(p, rules), UNCHANGED stored
      PROVE  StoreInv' /\ TraceInv'
  <2>1. [command |-> p.command, size |-> p.size] = p
    BY ProposalIs
  <2>2. /\ trace'.command = p.command /\ trace'.size = p.size /\ trace'.rules = rules
        /\ trace'.decision = Evaluate(p.command, p.size, rules)
    BY <1>4 DEF Evaluated
  <2>. QED
    BY <1>4, <2>1, <2>2 DEF StoreInv, TraceInv
<1>5. ASSUME NEW p \in Proposals, ProposeCommand(p) PROVE StoreInv' /\ TraceInv'
  <2>1. RulesFor \in SUBSET stored
    BY DEF RulesFor
  <2>. QED
    BY <1>4, <1>5, <2>1 DEF ProposeCommand
<1>6. ASSUME NEW p \in Proposals, ProposeUnread(p) PROVE StoreInv' /\ TraceInv'
  BY <1>4, <1>6 DEF ProposeUnread
<1>7. CASE Done
  BY <1>7 DEF Done, StoreInv, TraceInv
<1>8. CASE UNCHANGED storeVars
  BY <1>8 DEF storeVars, StoreInv, TraceInv
<1>. QED
  BY <1>1, <1>2, <1>3, <1>5, <1>6, <1>7, <1>8 DEF StoreNext

LEMMA StoreSafe == StoreSpec => [](StoreInv /\ TraceInv)
BY StoreInit_Inv, StoreNext_Inv, PTL DEF StoreSpec

LEMMA EvaluateTyped ==
  ASSUME NEW c \in Parts, NEW size, NEW rules
  PROVE  Evaluate(c, size, rules) \in FilterDecisions
<1>1. Confirm("too long") \in FilterDecisions
  <2>1. "too long" \in Codes
    BY DEF Codes
  <2>. QED
    BY <2>1, DecisionsTyped
<1>2. 0 \in 0 .. MaxDepth + 1
  BY FilterAssumption
<1>3. DecisionsAt(rules)[0][c] \in FilterDecisions
  BY <1>2, DecisionsAtIs
<1>. QED
  BY <1>1, <1>3 DEF Evaluate

(* What an evaluation is about.                                            *)
LEMMA TraceIs ==
  ASSUME TraceInv, trace # NoTrace
  PROVE  /\ trace.command \in Parts /\ trace.size \in Sizes
         /\ trace.rules \in SUBSET Rules
         /\ trace.decision = Evaluate(trace.command, trace.size, trace.rules)
         /\ 0 \in 0 .. MaxDepth /\ 0 \in 0 .. MaxDepth + 1
         /\ MaxNesting \in Nat
<1>1. [command |-> trace.command, size |-> trace.size] \in Proposals
  BY DEF TraceInv
<1>2. trace.command \in Parts /\ trace.size \in Sizes
  BY <1>1, ProposalIs
<1>3. 0 \in 0 .. MaxDepth /\ 0 \in 0 .. MaxDepth + 1 /\ MaxNesting \in Nat
  BY FilterAssumption
<1>. QED
  BY <1>2, <1>3 DEF TraceInv

(* The rule store holds valid rules, and an evaluation is one of a         *)
(* proposed command with valid rules and has a verdict.                    *)
THEOREM StoreTypes == StoreSpec => []StoreTypeOK
<1>1. StoreInv /\ TraceInv => StoreTypeOK
  <2>. SUFFICES ASSUME StoreInv, TraceInv PROVE StoreTypeOK
    OBVIOUS
  <2>1. ASSUME trace # NoTrace PROVE trace.decision.verdict \in {"auto", "confirm", "deny"}
    <3>1. /\ trace.command \in Parts
          /\ trace.decision = Evaluate(trace.command, trace.size, trace.rules)
      BY <2>1, TraceIs
    <3>2. trace.decision \in FilterDecisions
      BY <3>1, EvaluateTyped
    <3>. QED
      BY <3>2 DEF FilterDecisions
  <2>. QED
    BY <2>1 DEF StoreInv, TraceInv, StoreTypeOK
<1>. QED
  BY <1>1, StoreSafe, PTL

-----------------------------------------------------------------------------
(* A Deny rule reaches its program.                                        *)

Hits(r, text) == r.action = "deny" /\ Uncovered(text) /\ Names(r, text)

LEMMA BareIs ==
  ASSUME NEW text \in Literal
  PROVE  /\ FirstWord(Bare(text)) = text.program /\ Bare(text).arg = text.arg
         /\ Uncovered(text) => Resolved(text) = Bare(text)
<1>1. /\ Bare(text).prefix = <<>> /\ Bare(text).plain = TRUE
      /\ Bare(text).program = text.program /\ Bare(text).arg = text.arg
  BY DEF Bare, Literal
<1>2. 1 \notin DOMAIN <<>>
  OBVIOUS
<1>3. FirstWord(Bare(text)) = text.program
  BY <1>1, <1>2 DEF FirstWord, WordAt
<1>. QED
  BY <1>1, <1>3 DEF Resolved

LEMMA NamedIsDenied ==
  ASSUME NEW rules, NEW r \in rules, NEW text \in Literal, Hits(r, text)
  PROVE  EvaluateRules(rules, text) = Deny("rule deny")
<1>1. FirstWord(Resolved(text)) = text.program /\ Resolved(text).arg = text.arg
  BY BareIs DEF Hits
<1>2. Matches(r, Resolved(text))
  BY <1>1 DEF Matches, Hits, Names
<1>3. IsMatch(r, text) /\ r.action = "deny"
  BY <1>2 DEF IsMatch, Hits
<1>. QED
  BY <1>3 DEF EvaluateRules

LEMMA ChainDenies ==
  ASSUME NEW c \in Parts, c.kind = "chain", NEW i \in DOMAIN c.segments, NEW rules,
         NEW below \in [Parts -> FilterDecisions],
         NEW b \in Judged(c.segments[i], rules, below), b.verdict = "deny"
  PROVE  EvaluateParsed(c, rules, below).verdict = "deny"
<1>. DEFINE D == Links(c, rules, below)
            J == Judged(c.segments[i], rules, below)
            e == EvaluateSegment(c.segments[i], rules, below)
<1>1. J \in SUBSET FilterDecisions /\ e = CombineAll(J) /\ b \in J
  BY SegmentIs
<1>2. e.verdict = "deny"
  <2>. HIDE DEF J, e
  <2>. QED
    BY <1>1, CombineAllDenies
<1>3. e \in D /\ D \in SUBSET FilterDecisions /\ EvaluateParsed(c, rules, below) = CombineAll(D)
  BY ChainIs DEF Links
<1>. HIDE DEF D, e
<1>. QED
  BY <1>2, <1>3, CombineAllDenies

(* A command is denied when one of its segments is, when the code it       *)
(* carries is, and when a command in it is.                                *)
LEMMA DeniedInside ==
  ASSUME NEW c \in Parts, NEW rules, NEW below \in [Parts -> FilterDecisions],
         NEW d \in SeenInside(c), below[d].verdict = "deny"
  PROVE  EvaluateParsed(c, rules, below).verdict = "deny"
<1>1. CASE c.kind = "code"
  <2>1. d = c.inner /\ d \in Parts
    BY <1>1, PartIs DEF SeenInside
  <2>2. EvaluateParsed(c, rules, below) = Combine(Confirm("ambiguous"), below[d])
    BY <1>1, <2>1 DEF EvaluateParsed
  <2>3. Confirm("ambiguous") \in FilterDecisions /\ below[d] \in FilterDecisions
    <3>1. "ambiguous" \in Codes
      BY DEF Codes
    <3>. QED
      BY <2>1, <3>1, DecisionsTyped
  <2>4. Severity(below[d]) = 2 /\ Confirm("ambiguous").verdict = "confirm"
    BY <2>3, SeverityIs DEF Confirm
  <2>5. Severity(Confirm("ambiguous")) = 1
    BY <2>3, <2>4, SeverityIs
  <2>6. /\ Combine(Confirm("ambiguous"), below[d]) \in {Confirm("ambiguous"), below[d]}
        /\ 2 <= Severity(Combine(Confirm("ambiguous"), below[d]))
    BY <2>3, <2>4, CombineBoth
  <2>7. Combine(Confirm("ambiguous"), below[d]) = below[d]
    BY <2>5, <2>6
  <2>. QED
    BY <2>2, <2>7
<1>2. CASE c.kind = "chain"
  <2>1. PICK i \in DOMAIN c.segments : \E j \in DOMAIN c.segments[i].inner :
               d = c.segments[i].inner[j]
    BY <1>2 DEF SeenInside
  <2>2. below[d] \in Judged(c.segments[i], rules, below)
    BY <2>1 DEF Judged
  <2>. QED
    BY <1>2, <2>2, ChainDenies
<1>3. CASE c.kind \in {"nothing", "opaque"}
  BY <1>3 DEF SeenInside
<1>. QED
  BY <1>1, <1>2, <1>3, PartIs

LEMMA DeniedSegment ==
  ASSUME NEW c \in Parts, c.kind = "chain", NEW i \in DOMAIN c.segments,
         NEW rules, NEW below \in [Parts -> FilterDecisions],
         NEW r \in rules, Hits(r, c.segments[i].text)
  PROVE  EvaluateParsed(c, rules, below).verdict = "deny"
<1>1. c.segments[i].text \in Literal
  BY PartIs
<1>2. EvaluateRules(rules, c.segments[i].text) = Deny("rule deny")
  BY <1>1, NamedIsDenied
<1>3. Deny("rule deny") \in Judged(c.segments[i], rules, below)
  BY <1>2 DEF Judged
<1>4. Deny("rule deny").verdict = "deny"
  BY DEF Deny
<1>. QED
  BY <1>3, <1>4, ChainDenies

(* What is within a command is it, or within what is directly inside.      *)
LEMMA WithinStep ==
  ASSUME NEW n \in Nat, NEW c \in Parts, NEW d \in Within[n + 1][c]
  PROVE  d = c \/ \E e \in SeenInside(c) : e \in Parts /\ d \in Within[n][e]
<1>1. Within[n + 1][c] = {c} \cup UNION {Within[n][e] : e \in SeenInside(c)}
  BY WithinIs, ZenonT(60)
<1>2. SeenInside(c) \in SUBSET Parts
  BY InsideAreParts
<1>. QED
  BY <1>1, <1>2

LEMMA NamedAnywhereIsDenied ==
  ASSUME NEW rules
  PROVE  \A n \in Nat : \A depth \in 0 .. MaxDepth + 1 : \A c \in Parts :
           \A d \in Within[n][c] : \A r \in rules :
             /\ d.kind = "chain"
             /\ \E i \in DOMAIN d.segments : Hits(r, d.segments[i].text)
             => DecisionsAt(rules)[depth][c].verdict = "deny"
<1>. USE FilterAssumption
<1>. DEFINE Hit(d, r) == /\ d.kind = "chain"
                         /\ \E i \in DOMAIN d.segments : Hits(r, d.segments[i].text)
            Holds(n) == \A depth \in 0 .. MaxDepth + 1 : \A c \in Parts :
                           \A d \in Within[n][c] : \A r \in rules :
                             Hit(d, r) => DecisionsAt(rules)[depth][c].verdict = "deny"
            T == {n \in Nat : Holds(n)}
<1>1. 0 \in T
  BY WithinIs
<1>2. ASSUME NEW n \in T PROVE n + 1 \in T
  <2>1. SUFFICES ASSUME NEW depth \in 0 .. MaxDepth + 1, NEW c \in Parts,
                        NEW d \in Within[n + 1][c], NEW r \in rules, Hit(d, r)
                 PROVE  DecisionsAt(rules)[depth][c].verdict = "deny"
    OBVIOUS
  <2>. HIDE DEF Hit
  <2>2. CASE depth = MaxDepth + 1
    <3>1. DecisionsAt(rules)[depth][c] = Deny("too deep")
      BY <2>2, DecisionsAtIs
    <3>2. Deny("too deep").verdict = "deny"
      BY DEF Deny
    <3>. QED
      BY <3>1, <3>2
  <2>3. CASE depth # MaxDepth + 1
    <3>. DEFINE below == DecisionsAt(rules)[depth + 1]
    <3>1. depth \in 0 .. MaxDepth /\ depth + 1 \in 0 .. MaxDepth + 1
      BY <2>3
    <3>2. /\ DecisionsAt(rules)[depth][c] = EvaluateParsed(c, rules, below)
          /\ below \in [Parts -> FilterDecisions]
      BY <3>1, DecisionsAtIs
    <3>3. CASE d = c
      <4>. HIDE DEF below
      <4>1. c.kind = "chain" /\ \E i \in DOMAIN c.segments : Hits(r, c.segments[i].text)
        BY <2>1, <3>3 DEF Hit
      <4>. QED
        BY <3>2, <4>1, DeniedSegment
    <3>4. CASE d # c
      <4>1. PICK e \in SeenInside(c) : e \in Parts /\ d \in Within[n][e]
        BY <3>4, WithinStep
      <4>2. below[e].verdict = "deny"
        BY <1>2, <2>1, <3>1, <4>1
      <4>. HIDE DEF below
      <4>. QED
        BY <3>2, <4>2, DeniedInside
    <3>. QED
      BY <3>3, <3>4
  <2>. QED
    BY <2>2, <2>3
<1>3. T = Nat
  <2>. HIDE DEF T
  <2>1. T \in SUBSET Nat
    BY DEF T
  <2>. QED
    BY <1>1, <1>2, <2>1, SetInduction
<1>. QED
  BY <1>3

(* A program that a Deny rule names is denied wherever the parser sees it: *)
(* for any rules, any commands and any nesting (combine keeps a Deny on    *)
(* every level, and what is too deep is denied as it is).                  *)
THEOREM DenyEverywhere == StoreSpec => []DenyReaches
<1>1. TraceInv => DenyReaches
  <2>. SUFFICES ASSUME TraceInv, trace # NoTrace, trace.size # "long",
                       NEW s \in Executed(trace.command), NEW r \in trace.rules,
                       r.action = "deny", Uncovered(s.text), Names(r, s.text)
                PROVE  trace.decision.verdict = "deny"
    BY DEF DenyReaches
  <2>1. trace.decision = DecisionsAt(trace.rules)[0][trace.command]
    BY TraceIs DEF Evaluate
  <2>2. PICK d \in Within[MaxNesting][trace.command] :
               d.kind = "chain" /\ \E i \in DOMAIN d.segments : s = d.segments[i]
    BY DEF Executed
  <2>3. Hits(r, s.text)
    BY DEF Hits
  <2>4. DecisionsAt(trace.rules)[0][trace.command].verdict = "deny"
    BY <2>2, <2>3, TraceIs, NamedAnywhereIsDenied
  <2>. QED
    BY <2>1, <2>4
<1>. QED
  BY <1>1, StoreSafe, PTL

-----------------------------------------------------------------------------
(* What is let through was allowed.                                        *)

LEMMA AutoChain ==
  ASSUME NEW c \in Parts, NEW rules, NEW below \in [Parts -> FilterDecisions],
         EvaluateParsed(c, rules, below).verdict = "auto"
  PROVE  /\ c.kind = "chain"
         /\ \A i \in DOMAIN c.segments : \A b \in Judged(c.segments[i], rules, below) :
              b.verdict = "auto"
<1>1. CASE c.kind = "nothing"
  <2>1. EvaluateParsed(c, rules, below) = Deny("empty")
    BY <1>1 DEF EvaluateParsed
  <2>. QED
    BY <2>1 DEF Deny
<1>2. CASE c.kind = "opaque"
  <2>1. EvaluateParsed(c, rules, below) = Confirm("ambiguous")
    BY <1>2 DEF EvaluateParsed
  <2>. QED
    BY <2>1 DEF Confirm
<1>3. CASE c.kind = "code"
  <2>1. Confirm("ambiguous") \in FilterDecisions /\ below[c.inner] \in FilterDecisions
    <3>1. "ambiguous" \in Codes
      BY DEF Codes
    <3>. QED
      BY <1>3, <3>1, DecisionsTyped, PartIs
  <2>2. EvaluateParsed(c, rules, below) = Combine(Confirm("ambiguous"), below[c.inner])
    BY <1>3 DEF EvaluateParsed
  <2>3. /\ Severity(Confirm("ambiguous")) <= Severity(EvaluateParsed(c, rules, below))
        /\ EvaluateParsed(c, rules, below) \in FilterDecisions
    BY <2>1, <2>2, CombineBoth
  <2>4. Severity(EvaluateParsed(c, rules, below)) = 0
    BY <2>3, SeverityIs
  <2>5. Confirm("ambiguous").verdict = "confirm"
    BY DEF Confirm
  <2>6. Severity(Confirm("ambiguous")) = 1
    BY <2>1, <2>5, SeverityIs
  <2>. QED
    BY <2>3, <2>4, <2>6
<1>4. CASE c.kind = "chain"
  <2>. DEFINE D == Links(c, rules, below)
  <2>1. D \in SUBSET FilterDecisions /\ CombineAll(D).verdict = "auto"
    BY <1>4, ChainIs
  <2>2. ASSUME NEW i \in DOMAIN c.segments, NEW b \in Judged(c.segments[i], rules, below)
        PROVE  b.verdict = "auto"
    <3>. DEFINE J == Judged(c.segments[i], rules, below)
                e == EvaluateSegment(c.segments[i], rules, below)
    <3>1. e \in D /\ J \in SUBSET FilterDecisions /\ e = CombineAll(J) /\ b \in J
      BY <1>4, SegmentIs DEF Links
    <3>. HIDE DEF D, J, e
    <3>2. e.verdict = "auto"
      BY <2>1, <3>1, CombineAllAllows
    <3>. QED
      BY <3>1, <3>2, CombineAllAllows
  <2>. QED
    BY <1>4, <2>2
<1>. QED
  BY <1>1, <1>2, <1>3, <1>4, PartIs

(* The words of a text without the first of its prefix.                    *)
LEMMA WordsAfterFirst ==
  ASSUME NEW text \in Literal, text.prefix # <<>>
  PROVE  /\ 1 \in DOMAIN text.prefix
         /\ FirstWord([text EXCEPT !.prefix = Tail(@)]) = WordAt(text, 2)
<1>. DEFINE p == text.prefix
            t == [text EXCEPT !.prefix = Tail(@)]
<1>1. p \in Seq(Word) /\ t.prefix = Tail(p) /\ t.program = text.program /\ t.plain = text.plain
  BY DEF Literal
<1>2. /\ 1 \in DOMAIN p
      /\ 1 \in DOMAIN Tail(p) <=> 2 \in DOMAIN p
      /\ 1 \in DOMAIN Tail(p) => Tail(p)[1] = p[2]
  BY <1>1
<1>. HIDE DEF t, p
<1>3. FirstWord(t) = WordAt(text, 2)
  BY <1>1, <1>2 DEF FirstWord, WordAt, p
<1>. QED
  BY <1>2, <1>3 DEF t, p

(* An Allow rule matches the text as it is written, or behind one sudo.    *)
LEMMA AllowMatches ==
  ASSUME NEW r \in Rules, r.action = "allow", NEW text \in Literal, IsMatch(r, text)
  PROVE  /\ \/ r.word = WordAt(text, 1)
            \/ /\ WordAt(text, 1) = "sudo" /\ text.prefix[1].form = "bare"
               /\ r.word = WordAt(text, 2)
         /\ r.path => text.arg.normal
<1>1. r.word # "disguised"
  BY FilterAssumption
<1>2. CASE Matches(r, text)
  BY <1>2 DEF Matches, FirstWord
<1>3. CASE Matches(r, Stripped(text)) /\ ~Matches(r, text)
  <2>1. Elevated(text) /\ text.prefix # <<>> /\ 1 \in DOMAIN text.prefix
    BY <1>3, WordsAfterFirst DEF Stripped, Elevated
  <2>2. CASE text.prefix[1].form = "bare"
    <3>1. Stripped(text) = [text EXCEPT !.prefix = Tail(@)] /\ Stripped(text).arg = text.arg
      BY <2>1, <2>2 DEF Stripped, Literal
    <3>2. r.word = WordAt(text, 2) /\ (r.path => text.arg.normal)
      BY <1>3, <2>1, <3>1, WordsAfterFirst DEF Matches
    <3>3. WordAt(text, 1) = "sudo"
      BY <2>1, <2>2 DEF WordAt, Elevated
    <3>. QED
      BY <2>2, <3>2, <3>3
  <2>3. CASE text.prefix[1].form # "bare"
    <3>1. Stripped(text) = [text EXCEPT !.prefix[1].form = "rest"]
      BY <2>1, <2>3 DEF Stripped
    <3>2. text.prefix \in Seq(Word)
      BY DEF Literal
    <3>3. /\ DOMAIN Stripped(text).prefix = DOMAIN text.prefix
          /\ Stripped(text).prefix[1].form = "rest"
      BY <2>1, <3>1, <3>2 DEF Literal, Word
    <3>4. FirstWord(Stripped(text)) = "disguised"
      BY <2>1, <3>3 DEF FirstWord, WordAt
    <3>. QED
      BY <1>1, <1>3, <3>4 DEF Matches
  <2>. QED
    BY <2>2, <2>3
<1>. QED
  BY <1>2, <1>3 DEF IsMatch

(* What runs without a question was allowed word for word: for any rules   *)
(* and any commands, however they are nested.                              *)
THEOREM AutoOnlyEarned == StoreSpec => []AutoIsEarned
<1>1. TraceInv => AutoIsEarned
  <2>. SUFFICES ASSUME TraceInv, trace # NoTrace, trace.decision.verdict = "auto"
                PROVE  /\ trace.command.kind = "chain"
                       /\ \A s \in Executed(trace.command) :
                            /\ s.inner = <<>>
                            /\ ~s.redirect
                            /\ Uncovered(s.text) =>
                                 /\ s.text.program \notin Blacklist
                                 /\ \A r \in trace.rules : r.action # "allow" => ~Names(r, s.text)
                            /\ \E r \in trace.rules :
                                /\ r.action = "allow"
                                /\ \/ r.word = WordAt(s.text, 1)
                                   \/ /\ WordAt(s.text, 1) = "sudo"
                                      /\ s.text.prefix[1].form = "bare"
                                      /\ r.word = WordAt(s.text, 2)
                                /\ r.path => s.text.arg.normal
    BY DEF AutoIsEarned
  <2>. DEFINE c == trace.command
              below == DecisionsAt(trace.rules)[1]
  <2>1. c \in Parts /\ trace.rules \in SUBSET Rules
    BY TraceIs
  <2>2. /\ below \in [Parts -> FilterDecisions]
        /\ trace.decision = EvaluateParsed(c, trace.rules, below)
    <3>1. 0 \in 0 .. MaxDepth /\ 1 \in 0 .. MaxDepth + 1
      BY FilterAssumption
    <3>2. trace.decision = DecisionsAt(trace.rules)[0][c]
      <4>1. Confirm("too long").verdict = "confirm"
        BY DEF Confirm
      <4>. QED
        BY <2>1, <4>1, TraceIs DEF Evaluate
    <3>3. DecisionsAt(trace.rules)[0][c] = EvaluateParsed(c, trace.rules, DecisionsAt(trace.rules)[0 + 1])
      BY <2>1, <3>1, DecisionsAtIs
    <3>4. below \in [Parts -> FilterDecisions]
      BY <3>1, DecisionsAtIs
    <3>. QED
      BY <3>2, <3>3, <3>4
  <2>. HIDE DEF c, below
  <2>3. EvaluateParsed(c, trace.rules, below).verdict = "auto"
    BY <2>2
  <2>4. /\ c.kind = "chain"
        /\ \A i \in DOMAIN c.segments : \A b \in Judged(c.segments[i], trace.rules, below) :
             b.verdict = "auto"
    BY <2>1, <2>2, <2>3, AutoChain
  <2>5. ASSUME NEW i \in DOMAIN c.segments
        PROVE  /\ c.segments[i].text \in Literal
               /\ c.segments[i].inner = <<>>
               /\ ~c.segments[i].redirect
               /\ ~Blacklisted(c.segments[i].text)
               /\ EvaluateRules(trace.rules, c.segments[i].text).verdict = "auto"
    <3>1. \A code : Confirm(code).verdict # "auto"
      BY DEF Confirm
    <3>2. \A b \in Judged(c.segments[i], trace.rules, below) : b.verdict = "auto"
      BY <2>4
    <3>. QED
      BY <2>1, <2>4, <3>1, <3>2, PartIs DEF Judged
  <2>6. SeenInside(c) = {}
    BY <2>4, <2>5 DEF SeenInside
  <2>7. Within[MaxNesting][c] \subseteq {c}
    <3>1. MaxNesting \in Nat
      BY FilterAssumption
    <3>2. CASE MaxNesting = 0
      BY <2>1, <3>2, WithinIs
    <3>3. CASE MaxNesting # 0
      <4>1. MaxNesting - 1 \in Nat /\ (MaxNesting - 1) + 1 = MaxNesting
        BY <3>1, <3>3
      <4>. QED
        BY <2>1, <2>6, <4>1, WithinStep
    <3>. QED
      BY <3>2, <3>3
  <2>8. ASSUME NEW s \in Executed(trace.command) PROVE \E i \in DOMAIN c.segments : s = c.segments[i]
    BY <2>7 DEF Executed, c
  <2>9. ASSUME NEW i \in DOMAIN c.segments
        PROVE  LET text == c.segments[i].text
               IN  /\ \A r \in trace.rules : r.action \in {"deny", "confirm"} => ~IsMatch(r, text)
                   /\ \E r \in trace.rules : r.action = "allow" /\ IsMatch(r, text)
    <3>. DEFINE text == c.segments[i].text
    <3>1. /\ Deny("rule deny").verdict # "auto" /\ Confirm("rule confirm").verdict # "auto"
          /\ Confirm("no rule").verdict # "auto"
      BY DEF Deny, Confirm
    <3>2. EvaluateRules(trace.rules, text).verdict = "auto"
      BY <2>5
    <3>. HIDE DEF text
    <3>3. \A r \in trace.rules : r.action \in {"deny", "confirm"} => ~IsMatch(r, text)
      BY <3>1, <3>2 DEF EvaluateRules
    <3>4. \E r \in trace.rules : r.action = "allow" /\ IsMatch(r, text)
      BY <3>1, <3>2 DEF EvaluateRules
    <3>. QED
      BY <3>3, <3>4 DEF text
  <2>10. ASSUME NEW i \in DOMAIN c.segments, Uncovered(c.segments[i].text)
         PROVE  /\ c.segments[i].text.program \notin Blacklist
                /\ \A r \in trace.rules : r.action # "allow" => ~Names(r, c.segments[i].text)
    <3>. DEFINE text == c.segments[i].text
    <3>1. text \in Literal /\ Uncovered(text)
      BY <2>5, <2>10
    <3>2. ~Blacklisted(text)
      BY <2>5
    <3>3. \A r \in trace.rules : r.action \in {"deny", "confirm"} => ~IsMatch(r, text)
      BY <2>9
    <3>. HIDE DEF text
    <3>4. FirstWord(Resolved(text)) = text.program /\ Resolved(text).arg = text.arg
      BY <3>1, BareIs
    <3>5. text.program \notin Blacklist
      BY <3>2, <3>4 DEF Blacklisted
    <3>6. ASSUME NEW r \in trace.rules, r.action # "allow" PROVE ~Names(r, text)
      <4>1. r.action \in {"deny", "confirm"}
        BY <2>1, <3>6, FilterAssumption
      <4>2. ~Matches(r, Resolved(text))
        BY <3>3, <3>6, <4>1 DEF IsMatch
      <4>. QED
        BY <3>4, <3>6, <4>2 DEF Matches, Names
    <3>. QED
      BY <3>5, <3>6 DEF text
  <2>11. ASSUME NEW i \in DOMAIN c.segments
         PROVE  LET s == c.segments[i]
                IN  \E r \in trace.rules :
                      /\ r.action = "allow"
                      /\ \/ r.word = WordAt(s.text, 1)
                         \/ /\ WordAt(s.text, 1) = "sudo" /\ s.text.prefix[1].form = "bare"
                            /\ r.word = WordAt(s.text, 2)
                      /\ r.path => s.text.arg.normal
    <3>1. PICK r \in trace.rules : r.action = "allow" /\ IsMatch(r, c.segments[i].text)
      BY <2>9
    <3>. QED
      BY <2>1, <2>5, <3>1, AllowMatches
  <2>12. c.kind = "chain" /\ c = trace.command
    BY <2>4 DEF c
  <2>. QED
    BY <2>5, <2>8, <2>10, <2>11, <2>12
<1>. QED
  BY <1>1, StoreSafe, PTL

-----------------------------------------------------------------------------
(* One more rule never opens what was closed for a reason.                 *)

(* `after` is as tight as `before`, or r is an Allow rule and the reason   *)
(* before was that no rule was found.                                      *)
Keeps(before, after, r) ==
  Severity(before) <= Severity(after) \/ (r.action = "allow" /\ before.code = "no rule")

LEMMA KeepsWhen ==
  ASSUME NEW before, NEW after, NEW r
  PROVE  /\ Severity(before) <= Severity(after) => Keeps(before, after, r)
         /\ r.action = "allow" /\ before.code = "no rule" => Keeps(before, after, r)
BY Zenon DEF Keeps

LEMMA KeepsTransfers ==
  ASSUME NEW b \in FilterDecisions, NEW a \in FilterDecisions, NEW y \in FilterDecisions,
         NEW r, Keeps(b, a, r), Severity(a) <= Severity(y)
  PROVE  Keeps(b, y, r)
<1>1. Severity(b) \in 0 .. 2 /\ Severity(a) \in 0 .. 2 /\ Severity(y) \in 0 .. 2
  BY SeverityIs
<1>2. CASE Severity(b) <= Severity(a)
  <2>1. Severity(b) <= Severity(y)
    BY <1>1, <1>2
  <2>. QED
    BY <2>1, KeepsWhen
<1>3. CASE r.action = "allow" /\ b.code = "no rule"
  BY <1>3, KeepsWhen
<1>. QED
  BY <1>2, <1>3, Zenon DEF Keeps

LEMMA KeepsItself ==
  ASSUME NEW d \in FilterDecisions, NEW r
  PROVE  Keeps(d, d, r)
<1>1. Severity(d) <= Severity(d)
  BY SeverityIs
<1>. QED
  BY <1>1, KeepsWhen

LEMMA SetKeeps ==
  ASSUME NEW B \in SUBSET FilterDecisions, NEW A \in SUBSET FilterDecisions, NEW r,
         \A b \in B : \E a \in A : Keeps(b, a, r)
  PROVE  Keeps(CombineAll(B), CombineAll(A), r)
<1>. DEFINE x == CombineAll(B)
            y == CombineAll(A)
<1>1. /\ x \in B \cup {AutoExecute} /\ x \in FilterDecisions /\ y \in FilterDecisions
      /\ \A a \in A : Severity(a) <= Severity(y)
  BY CombineAllIs
<1>. HIDE DEF x, y
<1>2. Severity(x) \in 0 .. 2 /\ Severity(y) \in 0 .. 2
  BY <1>1, SeverityIs
<1>3. CASE x \in B
  <2>1. PICK a \in A : Keeps(x, a, r)
    BY <1>3
  <2>2. a \in FilterDecisions /\ Severity(a) <= Severity(y)
    BY <1>1
  <2>3. Keeps(x, y, r)
    BY <1>1, <2>1, <2>2, KeepsTransfers
  <2>. QED
    BY <2>3 DEF x, y
<1>4. CASE x = AutoExecute
  <2>1. x.verdict = "auto"
    BY <1>4 DEF AutoExecute
  <2>2. Severity(x) = 0
    BY <1>1, <2>1, SeverityIs
  <2>3. Severity(x) <= Severity(y)
    BY <1>2, <2>2
  <2>4. Keeps(x, y, r)
    BY <2>3, KeepsWhen
  <2>. QED
    BY <2>4 DEF x, y
<1>. QED
  BY <1>1, <1>3, <1>4

LEMMA PairKeeps ==
  ASSUME NEW a \in FilterDecisions, NEW b \in FilterDecisions, NEW d \in FilterDecisions,
         NEW r, Keeps(b, d, r)
  PROVE  Keeps(Combine(a, b), Combine(a, d), r)
<1>1. /\ Combine(a, b) \in {a, b}
      /\ Severity(a) <= Severity(Combine(a, d)) /\ Severity(d) <= Severity(Combine(a, d))
      /\ Combine(a, d) \in FilterDecisions
  BY CombineBoth
<1>2. CASE Combine(a, b) = a
  BY <1>1, <1>2, KeepsWhen
<1>3. CASE Combine(a, b) = b
  BY <1>1, <1>3, KeepsTransfers
<1>. QED
  BY <1>1, <1>2, <1>3

LEMMA SeverityOfRules ==
  /\ Severity(Deny("rule deny")) = 2
  /\ Severity(Confirm("rule confirm")) = 1 /\ Severity(Confirm("no rule")) = 1
  /\ Severity(AutoExecute) = 0
  /\ 0 <= 0 /\ 0 <= 1 /\ 0 <= 2 /\ 1 <= 1 /\ 1 <= 2 /\ 2 <= 2
  /\ Confirm("no rule").code = "no rule"
BY DEF Severity, Deny, Confirm, AutoExecute

LEMMA RulesKeep ==
  ASSUME NEW rules, NEW text, NEW r, r.action \in {"deny", "confirm", "allow"}
  PROVE  Keeps(EvaluateRules(rules, text), EvaluateRules(rules \cup {r}, text), r)
<1>. DEFINE hits(R, action) == {q \in R : q.action = action /\ IsMatch(q, text)}
            more == rules \cup {r}
            before == EvaluateRules(rules, text)
            after == EvaluateRules(more, text)
<1>1. /\ before = IF hits(rules, "deny") # {} THEN Deny("rule deny")
                  ELSE IF hits(rules, "confirm") # {} THEN Confirm("rule confirm")
                  ELSE IF hits(rules, "allow") # {} THEN AutoExecute
                  ELSE Confirm("no rule")
      /\ after = IF hits(more, "deny") # {} THEN Deny("rule deny")
                 ELSE IF hits(more, "confirm") # {} THEN Confirm("rule confirm")
                 ELSE IF hits(more, "allow") # {} THEN AutoExecute
                 ELSE Confirm("no rule")
  BY DEF EvaluateRules
<1>2. \A action : hits(rules, action) # {} => hits(more, action) # {}
  OBVIOUS
<1>3. \A action : r.action # action => hits(more, action) = hits(rules, action)
  OBVIOUS
<1>. HIDE DEF hits, more, before, after
<1>4. CASE hits(rules, "deny") # {}
  <2>1. before = Deny("rule deny") /\ after = Deny("rule deny")
    BY <1>1, <1>2, <1>4
  <2>. QED
    BY <2>1, SeverityOfRules, KeepsWhen DEF before, after, more
<1>5. CASE hits(rules, "deny") = {} /\ hits(rules, "confirm") # {}
  <2>1. before = Confirm("rule confirm") /\ after \in {Deny("rule deny"), Confirm("rule confirm")}
    BY <1>1, <1>2, <1>5
  <2>. QED
    BY <2>1, SeverityOfRules, KeepsWhen DEF before, after, more
<1>6. CASE /\ hits(rules, "deny") = {} /\ hits(rules, "confirm") = {}
           /\ hits(rules, "allow") # {}
  <2>1. /\ before = AutoExecute
        /\ after \in {Deny("rule deny"), Confirm("rule confirm"), AutoExecute}
    BY <1>1, <1>2, <1>6
  <2>. QED
    BY <2>1, SeverityOfRules, KeepsWhen DEF before, after, more
<1>7. CASE /\ hits(rules, "deny") = {} /\ hits(rules, "confirm") = {}
           /\ hits(rules, "allow") = {}
  <2>1. before = Confirm("no rule")
    BY <1>1, <1>7
  <2>2. CASE r.action = "allow"
    BY <2>1, <2>2, SeverityOfRules, KeepsWhen DEF before, after, more
  <2>3. CASE r.action # "allow"
    <3>1. hits(more, "allow") = {}
      BY <1>3, <1>7, <2>3
    <3>2. after \in {Deny("rule deny"), Confirm("rule confirm"), Confirm("no rule")}
      BY <1>1, <3>1
    <3>. QED
      BY <2>1, <3>2, SeverityOfRules, KeepsWhen DEF before, after, more
  <2>. QED
    BY <2>2, <2>3
<1>. QED
  BY <1>4, <1>5, <1>6, <1>7

LEMMA ParsedKeeps ==
  ASSUME NEW c \in Parts, NEW rules, NEW r, r.action \in {"deny", "confirm", "allow"},
         NEW below \in [Parts -> FilterDecisions], NEW then \in [Parts -> FilterDecisions],
         \A d \in Parts : Keeps(below[d], then[d], r)
  PROVE  Keeps(EvaluateParsed(c, rules, below), EvaluateParsed(c, rules \cup {r}, then), r)
<1>. DEFINE more == rules \cup {r}
<1>1. \A d \in FilterDecisions : Keeps(d, d, r)
  BY KeepsItself
<1>2. CASE c.kind \in {"nothing", "opaque"}
  <2>1. EvaluateParsed(c, rules, below) = EvaluateParsed(c, more, then)
    BY <1>2 DEF EvaluateParsed
  <2>2. EvaluateParsed(c, rules, below) \in FilterDecisions
    BY ParsedTyped
  <2>. QED
    BY <1>1, <2>1, <2>2
<1>3. CASE c.kind = "code"
  <2>1. /\ EvaluateParsed(c, rules, below) = Combine(Confirm("ambiguous"), below[c.inner])
        /\ EvaluateParsed(c, more, then) = Combine(Confirm("ambiguous"), then[c.inner])
    BY <1>3 DEF EvaluateParsed
  <2>2. c.inner \in Parts
    BY <1>3, PartIs
  <2>3. Confirm("ambiguous") \in FilterDecisions
    <3>1. "ambiguous" \in Codes
      BY DEF Codes
    <3>. QED
      BY <3>1, DecisionsTyped
  <2>4. /\ below[c.inner] \in FilterDecisions /\ then[c.inner] \in FilterDecisions
        /\ Keeps(below[c.inner], then[c.inner], r)
    BY <2>2
  <2>. QED
    BY <2>1, <2>3, <2>4, PairKeeps
<1>4. CASE c.kind = "chain"
  <2>. DEFINE seg(i) == EvaluateSegment(c.segments[i], rules, below)
              segMore(i) == EvaluateSegment(c.segments[i], more, then)
              B == Links(c, rules, below)
              A == Links(c, more, then)
  <2>1. ASSUME NEW i \in DOMAIN c.segments PROVE Keeps(seg(i), segMore(i), r)
    <3>. DEFINE J == Judged(c.segments[i], rules, below)
                K == Judged(c.segments[i], more, then)
    <3>1. /\ J \in SUBSET FilterDecisions /\ K \in SUBSET FilterDecisions
          /\ seg(i) = CombineAll(J) /\ segMore(i) = CombineAll(K)
      BY <1>4, SegmentIs
    <3>2. ASSUME NEW b \in J PROVE \E a \in K : Keeps(b, a, r)
      <4>1. CASE b = EvaluateRules(rules, c.segments[i].text)
        <5>1. EvaluateRules(more, c.segments[i].text) \in K
          BY DEF Judged
        <5>. QED
          BY <4>1, <5>1, RulesKeep
      <4>2. CASE \E j \in DOMAIN c.segments[i].inner : b = below[c.segments[i].inner[j]]
        <5>1. PICK j \in DOMAIN c.segments[i].inner : b = below[c.segments[i].inner[j]]
          BY <4>2
        <5>2. c.segments[i].inner[j] \in Parts
          BY <1>4, InnerAreParts
        <5>3. then[c.segments[i].inner[j]] \in K
          BY DEF Judged
        <5>. QED
          BY <5>1, <5>2, <5>3
      <4>3. CASE b \in K
        <5>1. b \in FilterDecisions
          BY <3>1
        <5>. QED
          BY <1>1, <4>3, <5>1
      <4>. QED
        BY <3>2, <4>1, <4>2, <4>3 DEF Judged
    <3>. HIDE DEF J, K, seg, segMore
    <3>. QED
      BY <3>1, <3>2, SetKeeps
  <2>. HIDE DEF more
  <2>2. /\ B \in SUBSET FilterDecisions /\ EvaluateParsed(c, rules, below) = CombineAll(B)
    BY <1>4, ChainIs
  <2>3. /\ A \in SUBSET FilterDecisions /\ EvaluateParsed(c, more, then) = CombineAll(A)
    BY <1>4, ChainIs
  <2>4. \A b \in B : \E a \in A : Keeps(b, a, r)
    BY <2>1 DEF Links
  <2>. HIDE DEF A, B
  <2>. QED
    BY <2>2, <2>3, <2>4, SetKeeps DEF more
<1>. QED
  BY <1>2, <1>3, <1>4, PartIs

LEMMA DecisionsKeep ==
  ASSUME NEW rules, NEW r, r.action \in {"deny", "confirm", "allow"}
  PROVE  \A depth \in 0 .. MaxDepth + 1 : \A c \in Parts :
           Keeps(DecisionsAt(rules)[depth][c], DecisionsAt(rules \cup {r})[depth][c], r)
<1>. USE FilterAssumption
<1>. DEFINE b == DecisionsAt(rules)
            a == DecisionsAt(rules \cup {r})
            Holds(depth) == \A c \in Parts : Keeps(b[depth][c], a[depth][c], r)
            T == {n \in Nat : n <= MaxDepth + 1 => Holds(MaxDepth + 1 - n)}
<1>1. /\ \A depth \in 0 .. MaxDepth + 1 :
           b[depth] \in [Parts -> FilterDecisions] /\ a[depth] \in [Parts -> FilterDecisions]
      /\ \A c \in Parts : b[MaxDepth + 1][c] = a[MaxDepth + 1][c]
      /\ \A depth \in 0 .. MaxDepth : \A c \in Parts :
           /\ b[depth][c] = EvaluateParsed(c, rules, b[depth + 1])
           /\ a[depth][c] = EvaluateParsed(c, rules \cup {r}, a[depth + 1])
  BY DecisionsAtIs
<1>. HIDE DEF a, b
<1>2. Holds(MaxDepth + 1)
  <2>1. ASSUME NEW c \in Parts PROVE Keeps(b[MaxDepth + 1][c], a[MaxDepth + 1][c], r)
    <3>1. MaxDepth + 1 \in 0 .. MaxDepth + 1
      OBVIOUS
    <3>2. b[MaxDepth + 1][c] \in FilterDecisions
      BY <1>1, <3>1
    <3>. QED
      BY <1>1, <3>2, KeepsItself
  <2>. QED
    BY <2>1
<1>3. ASSUME NEW depth \in 0 .. MaxDepth, Holds(depth + 1) PROVE Holds(depth)
  <2>1. depth + 1 \in 0 .. MaxDepth + 1
    OBVIOUS
  <2>2. b[depth + 1] \in [Parts -> FilterDecisions] /\ a[depth + 1] \in [Parts -> FilterDecisions]
    BY <1>1, <2>1
  <2>. QED
    BY <1>1, <1>3, <2>2, ParsedKeeps
<1>. HIDE DEF Holds
<1>4. 0 \in T
  <2>1. MaxDepth + 1 - 0 = MaxDepth + 1
    OBVIOUS
  <2>. QED
    BY <1>2, <2>1
<1>5. ASSUME NEW n \in T PROVE n + 1 \in T
  <2>1. CASE n + 1 <= MaxDepth + 1
    <3>1. /\ MaxDepth + 1 - (n + 1) \in 0 .. MaxDepth
          /\ MaxDepth + 1 - (n + 1) + 1 = MaxDepth + 1 - n /\ n <= MaxDepth + 1
      BY <2>1
    <3>. QED
      BY <1>3, <1>5, <3>1
  <2>2. CASE ~(n + 1 <= MaxDepth + 1)
    BY <2>2
  <2>. QED
    BY <2>1, <2>2
<1>6. T = Nat
  <2>. HIDE DEF T
  <2>1. T \in SUBSET Nat
    BY DEF T
  <2>. QED
    BY <1>4, <1>5, <2>1, SetInduction
<1>7. ASSUME NEW depth \in 0 .. MaxDepth + 1 PROVE Holds(depth)
  <2>1. /\ MaxDepth + 1 - depth \in Nat /\ MaxDepth + 1 - depth <= MaxDepth + 1
        /\ MaxDepth + 1 - (MaxDepth + 1 - depth) = depth
    OBVIOUS
  <2>. QED
    BY <1>6, <2>1
<1>. QED
  BY <1>7 DEF Holds, a, b

(* One more rule of any kind never loosens a decision, unless it is an     *)
(* Allow rule and the decision was only for want of a rule: for any rules, *)
(* any commands, however they are nested.                                  *)
THEOREM RulesOnlyTighten == StoreSpec => []AllowLiftsOnlyDefault
<1>1. TraceInv => AllowLiftsOnlyDefault
  <2>. SUFFICES ASSUME TraceInv, trace # NoTrace, NEW r \in Rules,
                       Severity(Evaluate(trace.command, trace.size, trace.rules \cup {r}))
                         < Severity(trace.decision)
                PROVE  r.action = "allow" /\ trace.decision.code = "no rule"
    BY DEF AllowLiftsOnlyDefault
  <2>. DEFINE c == trace.command
              before == trace.decision
              after == Evaluate(c, trace.size, trace.rules \cup {r})
  <2>1. /\ c \in Parts /\ before = Evaluate(c, trace.size, trace.rules)
        /\ r.action \in {"deny", "confirm", "allow"} /\ 0 \in 0 .. MaxDepth + 1
    BY TraceIs, FilterAssumption
  <2>2. before \in FilterDecisions /\ after \in FilterDecisions
    BY <2>1, EvaluateTyped
  <2>3. \/ before = after
        \/ /\ before = DecisionsAt(trace.rules)[0][c]
           /\ after = DecisionsAt(trace.rules \cup {r})[0][c]
    BY <2>1 DEF Evaluate
  <2>4. Severity(after) < Severity(before)
    OBVIOUS
  <2>. HIDE DEF before, after, c
  <2>5. Keeps(before, after, r)
    BY <2>1, <2>2, <2>3, DecisionsKeep, KeepsItself
  <2>6. ~(Severity(before) <= Severity(after))
    BY <2>2, <2>4, SeverityIs
  <2>7. r.action = "allow" /\ before.code = "no rule"
    BY <2>5, <2>6, Zenon DEF Keeps
  <2>. QED
    BY <2>7 DEF before
<1>. QED
  BY <1>1, StoreSafe, PTL

-----------------------------------------------------------------------------
(* The classifier's walk meets every segment that the filter's walk does   *)
(* not stop at.                                                            *)

LEMMA WithinItself ==
  ASSUME NEW n \in Nat, NEW c \in Parts
  PROVE  /\ c \in Within[n + 1][c]
         /\ \A e \in SeenInside(c) : Within[n][e] \subseteq Within[n + 1][c]
<1>1. Within[n + 1][c] = {c} \cup UNION {Within[n][e] : e \in SeenInside(c)}
  BY WithinIs, ZenonT(60)
<1>. QED
  BY <1>1

LEMMA TextsOf ==
  ASSUME NEW depth \in 0 .. MaxDepth, NEW c \in Parts, c.kind = "chain"
  PROVE  /\ \A i \in DOMAIN c.segments : c.segments[i].text \in TextsAt[depth][c]
         /\ depth < MaxDepth =>
              \A d \in SeenInside(c) : TextsAt[depth + 1][d] \subseteq TextsAt[depth][c]
<1>1. TextsAt[depth][c] = UNION {{c.segments[i].text}
          \cup (IF depth >= MaxDepth THEN {} ELSE InnerTexts(c.segments[i], TextsAt[depth + 1]))
          : i \in DOMAIN c.segments}
  <2>1. TextsAt[depth][c] = SegmentCommand(c, depth, TextsAt[depth + 1])
    BY TextsAtIs
  <2>. QED
    BY <2>1 DEF SegmentCommand
<1>2. ASSUME depth < MaxDepth, NEW d \in SeenInside(c)
      PROVE  TextsAt[depth + 1][d] \subseteq TextsAt[depth][c]
  <2>1. PICK i \in DOMAIN c.segments : \E j \in DOMAIN c.segments[i].inner :
               d = c.segments[i].inner[j]
    BY DEF SeenInside
  <2>2. TextsAt[depth + 1][d] \subseteq InnerTexts(c.segments[i], TextsAt[depth + 1])
    BY <2>1 DEF InnerTexts
  <2>3. ~(depth >= MaxDepth)
    BY <1>2, FilterAssumption
  <2>. QED
    BY <1>1, <2>2, <2>3
<1>3. \A i \in DOMAIN c.segments : c.segments[i].text \in TextsAt[depth][c]
  BY <1>1
<1>. QED
  BY <1>2, <1>3

LEMMA TextsSeen ==
  ASSUME NEW rules
  PROVE  \A n \in Nat : \A depth \in 0 .. MaxDepth : \A c \in Parts :
           /\ DecisionsAt(rules)[depth][c].verdict # "deny"
           /\ \A d \in Within[n][c] : d.kind # "code"
           => \A d \in Within[n][c] : d.kind = "chain" =>
                \A i \in DOMAIN d.segments : d.segments[i].text \in TextsAt[depth][c]
<1>. USE FilterAssumption
<1>. DEFINE Open(n, depth, c) == /\ DecisionsAt(rules)[depth][c].verdict # "deny"
                                 /\ \A d \in Within[n][c] : d.kind # "code"
            Seen(d, depth, c) == d.kind = "chain" =>
                \A i \in DOMAIN d.segments : d.segments[i].text \in TextsAt[depth][c]
            Holds(n) == \A depth \in 0 .. MaxDepth : \A c \in Parts :
                          Open(n, depth, c) => \A d \in Within[n][c] : Seen(d, depth, c)
            T == {n \in Nat : Holds(n)}
<1>1. 0 \in T
  <2>1. \A c \in Parts : Within[0][c] = {}
    BY WithinIs
  <2>. HIDE DEF Open, Seen
  <2>. QED
    BY <2>1
<1>2. ASSUME NEW n \in T PROVE n + 1 \in T
  <2>1. SUFFICES ASSUME NEW depth \in 0 .. MaxDepth, NEW c \in Parts, Open(n + 1, depth, c),
                        NEW d \in Within[n + 1][c]
                 PROVE  Seen(d, depth, c)
    <3>. HIDE DEF Open, Seen
    <3>. QED
      OBVIOUS
  <2>2. CASE d = c
    BY <2>2, TextsOf
  <2>3. CASE d # c
    <3>1. PICK e \in SeenInside(c) : e \in Parts /\ d \in Within[n][e]
      BY <2>3, WithinStep
    <3>2. c.kind # "code" /\ \A x \in Within[n][e] : x.kind # "code"
      BY <2>1, <3>1, WithinItself
    <3>3. c.kind = "chain"
      BY <3>1, <3>2, PartIs DEF SeenInside
    <3>4. depth + 1 \in 0 .. MaxDepth + 1
      OBVIOUS
    <3>5. /\ DecisionsAt(rules)[depth][c] = EvaluateParsed(c, rules, DecisionsAt(rules)[depth + 1])
          /\ DecisionsAt(rules)[depth + 1] \in [Parts -> FilterDecisions]
      BY <3>4, DecisionsAtIs
    <3>6. DecisionsAt(rules)[depth + 1][e].verdict # "deny"
      BY <2>1, <3>1, <3>5, DeniedInside
    <3>7. depth < MaxDepth /\ depth + 1 \in 0 .. MaxDepth
      <4>1. CASE depth = MaxDepth
        <5>1. DecisionsAt(rules)[depth + 1][e] = Deny("too deep")
          BY <3>1, <4>1, DecisionsAtIs
        <5>2. Deny("too deep").verdict = "deny"
          BY DEF Deny
        <5>. QED
          BY <3>6, <5>1, <5>2
      <4>2. CASE depth # MaxDepth
        BY <4>2
      <4>. QED
        BY <4>1, <4>2
    <3>8. Seen(d, depth + 1, e)
      <4>1. Open(n, depth + 1, e)
        BY <3>2, <3>6
      <4>2. Holds(n)
        BY <1>2
      <4>. HIDE DEF Open, Seen
      <4>. QED
        BY <3>1, <3>7, <4>1, <4>2
    <3>9. TextsAt[depth + 1][e] \subseteq TextsAt[depth][c]
      BY <3>1, <3>3, <3>7, TextsOf
    <3>. QED
      BY <3>8, <3>9
  <2>. QED
    BY <2>2, <2>3
<1>3. T = Nat
  <2>. HIDE DEF T
  <2>1. T \in SUBSET Nat
    BY DEF T
  <2>. QED
    BY <1>1, <1>2, <2>1, SetInduction
<1>. QED
  BY <1>3

(* The classifier has looked at every program of a command that the filter *)
(* has not denied, as far as the parser uncovers it and the command is     *)
(* within the classifier's own limit: for any rules and commands, and      *)
(* whatever MaxDepth is, as long as the two walks stop at the same depth.  *)
THEOREM RiskSeesAll == StoreSpec => []RiskSeesWhatFilterSees
<1>1. TraceInv => RiskSeesWhatFilterSees
  <2>. SUFFICES ASSUME TraceInv, trace # NoTrace, trace.decision.verdict # "deny",
                       trace.size = "short", ~HasCode(trace.command),
                       NEW s \in Executed(trace.command), Uncovered(s.text)
                PROVE  Bare(s.text) \in ClassifiedTexts(trace.command, trace.size)
    BY DEF RiskSeesWhatFilterSees
  <2>. DEFINE c == trace.command
  <2>1. /\ c \in Parts /\ 0 \in 0 .. MaxDepth
        /\ trace.decision = DecisionsAt(trace.rules)[0][c]
    BY TraceIs DEF Evaluate
  <2>2. MaxNesting \in Nat /\ \A d \in Within[MaxNesting][c] : d.kind # "code"
    BY FilterAssumption DEF HasCode
  <2>3. PICK d \in Within[MaxNesting][c] :
               d.kind = "chain" /\ \E i \in DOMAIN d.segments : s = d.segments[i]
    BY DEF Executed
  <2>4. s.text \in TextsAt[0][c]
    BY <2>1, <2>2, <2>3, TextsSeen
  <2>5. Resolved(s.text) = Bare(s.text)
    BY DEF Resolved
  <2>. QED
    BY <2>4, <2>5 DEF ClassifiedTexts
<1>. QED
  BY <1>1, StoreSafe, PTL
=============================================================================
