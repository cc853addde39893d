-------------------------- MODULE HostKeys_proofs ---------------------------
(***************************************************************************)
(* Proofs about HostKeys, for any number of connections, tests, hosts and  *)
(* keys, jump chains of any length, and any number of crashes.             *)
(***************************************************************************)
EXTENDS HostKeys, TLAPS

(* The mutex is held from the change of the map to the end of the writing, *)
(* so what is renamed into place is what the map says.                     *)
LockInv ==
    \A a \in Attempts :
        /\ pc[a] \in {"persisting", "renaming"} <=> holder = a
        /\ pc[a] = "renaming" => temp = known

(* Whoever is about to store a key has the user's word for it.             *)
DialogInv ==
    \A a \in Attempts :
        /\ pc[a] \in {"trusting", "persisting", "renaming"} => dialog[a].key \in approved
        /\ pc[a] \in {"persisting", "renaming"} => dialog[a].key \in known

(* A dialog on the screen and an answer on its way belong to the key the   *)
(* attempt asked about last: it asks again only after an answer.           *)
AnswerInv ==
    \A a \in Connects :
        /\ shown = a => pc[a] \in {"asking", "failed"} /\ answer[a] = "none"
        /\ answer[a] # "none" => pc[a] \in {"asking", "failed"}
        /\ answer[a] = "trust" /\ pc[a] = "asking" => dialog[a].key \in approved

StoreInv == OnlyApprovedKeys /\ OneKeyPerEntry /\ TrustSurvives

(* While a chain is being dialed there is a host left to pass.             *)
PathInv ==
    /\ ConnectedThroughApproved
    /\ \A a \in Attempts : pc[a] \notin {"connected", "failed"} => Len(path[a]) < Len(Chain[a])

IInv == TypeOK /\ LockInv /\ DialogInv /\ AnswerInv /\ StoreInv /\ PathInv

LEMMA InitIInv == Init => IInv
<1>. SUFFICES ASSUME Init PROVE IInv
  OBVIOUS
<1>. USE DEF Init
<1>1. TypeOK
  BY HostKeyAssumption DEF TypeOK, Stores, Attempts, Places
<1>2. LockInv
  BY HostKeyAssumption DEF LockInv
<1>3. DialogInv /\ AnswerInv
  BY HostKeyAssumption DEF DialogInv, AnswerInv, Attempts
<1>4. StoreInv
  BY DEF StoreInv, OnlyApprovedKeys, OneKeyPerEntry, TrustSurvives
<1>5. PathInv
  BY HostKeyAssumption DEF PathInv, ConnectedThroughApproved
<1>. QED  BY <1>1, <1>2, <1>3, <1>4, <1>5 DEF IInv

(* An attempt that asks, or stores, or whose dialog is shown, has a key.   *)
LEMMA DialogKey ==
    ASSUME TypeOK, NEW a \in Attempts,
           pc[a] \in {"unknown", "asking", "trusting", "persisting", "renaming"} \/ shown = a
    PROVE  dialog[a] \in Dialog /\ dialog[a].key \in Keys
<1>1. dialog[a] # None /\ dialog[a] \in Dialog \cup {None}
  BY DEF TypeOK
<1>. QED  BY <1>1 DEF Dialog

(* A replacement keeps one key for each entry.                             *)
LEMMA WithKeepsStores ==
    ASSUME NEW s \in Stores, NEW k \in Keys
    PROVE  With(s, k) \in Stores
BY DEF With, Stores, SameEntry

LEMMA DialStep ==
    ASSUME IInv, NEW a \in Attempts, Dial(a)
    PROVE  IInv'
<1>. USE HostKeyAssumption DEF IInv
<1>1. TypeOK'
  BY DEF Dial, Goto, storeVars, dialogVars, historyVars, TypeOK, Attempts, Connects, Places
<1>2. LockInv'
  BY DEF Dial, Goto, storeVars, dialogVars, historyVars, TypeOK, LockInv, Attempts
<1>3. DialogInv'
  BY DEF Dial, Goto, storeVars, dialogVars, historyVars, TypeOK, LockInv, DialogInv, AnswerInv, Attempts
<1>4. AnswerInv'
  BY DEF Dial, Goto, storeVars, dialogVars, historyVars, TypeOK, AnswerInv, Attempts
<1>5. StoreInv'
  BY DEF Dial, Goto, storeVars, dialogVars, historyVars, TypeOK, StoreInv, OnlyApprovedKeys, OneKeyPerEntry, TrustSurvives
<1>6. PathInv'
  BY DEF Dial, Goto, storeVars, dialogVars, historyVars, TypeOK, PathInv, ConnectedThroughApproved
<1>. QED  BY <1>1, <1>2, <1>3, <1>4, <1>5, <1>6

LEMMA PassHopStep ==
    ASSUME IInv, NEW a \in Attempts, PassHop(a)
    PROVE  IInv'
<1>. USE HostKeyAssumption DEF IInv
<1>0. PICK k \in Keys : HostOf[k] = NextHost(a) /\ k \in known /\ path' = [path EXCEPT ![a] = Append(@, k)]
  BY DEF PassHop, Accepts
<1>7. /\ pc[a] = "dialing" /\ pc' = [pc EXCEPT ![a] = IF LastHop(a) THEN "connected" ELSE "dialing"]
      /\ UNCHANGED <<known, file, temp, holder, dialog, pending, answer, crashes, approved, durable>>
      /\ shown' = shown \/ shown' = None
  BY DEF PassHop, Goto, CloseDialog, storeVars, historyVars
<1>8. /\ path[a] \in Seq(Keys) /\ Chain[a] \in Seq(Hosts) /\ Len(path[a]) < Len(Chain[a])
      /\ path'[a] = Append(path[a], k) /\ path' \in [Attempts -> Seq(Keys)]
      /\ \A b \in Attempts \ {a} : path'[b] = path[b]
  BY <1>0, <1>7 DEF TypeOK, PathInv
<1>9. Len(path'[a]) = Len(path[a]) + 1 /\ Len(path[a]) \in Nat /\ Len(Chain[a]) \in Nat
  BY <1>8
<1>1. TypeOK'
  <2>1. \A b \in Attempts : Len(path'[b]) <= Len(Chain[b])
    <3>1. Len(path'[a]) <= Len(Chain[a])
      BY <1>8, <1>9
    <3>2. \A b \in Attempts \ {a} : Len(path'[b]) <= Len(Chain[b])
      BY <1>8 DEF TypeOK
    <3>. QED  BY <3>1, <3>2
  <2>2. \A b \in Attempts : dialog'[b] = None =>
          pc'[b] \notin {"unknown", "asking", "trusting", "persisting", "renaming"} /\ shown' # b
    BY <1>7 DEF TypeOK
  <2>3. pending' = {b \in Connects : pc'[b] = "asking"} /\ pc' \in [Attempts -> Places]
    BY <1>7 DEF TypeOK, Places, Attempts
  <2>. QED  BY <1>7, <1>8, <2>1, <2>2, <2>3 DEF TypeOK
<1>2. LockInv'
  BY DEF PassHop, Goto, CloseDialog, storeVars, historyVars, TypeOK, LockInv, Attempts
<1>3. DialogInv'
  BY DEF PassHop, Goto, CloseDialog, storeVars, historyVars, TypeOK, LockInv, DialogInv, AnswerInv, Attempts
<1>4. AnswerInv'
  BY DEF PassHop, Goto, CloseDialog, storeVars, historyVars, TypeOK, AnswerInv, Attempts
<1>5. StoreInv'
  BY DEF PassHop, Goto, CloseDialog, storeVars, historyVars, TypeOK, StoreInv, OnlyApprovedKeys, OneKeyPerEntry, TrustSurvives
<1>6. PathInv'
  <2>1. ASSUME NEW i \in DOMAIN path'[a]
        PROVE  path'[a][i] \in approved' /\ HostOf[path'[a][i]] = Chain[a][i]
    <3>1. DOMAIN path'[a] = 1..(Len(path[a]) + 1) /\ DOMAIN path[a] = 1..Len(path[a])
      BY <1>8, <1>9
    <3>2. CASE i = Len(path[a]) + 1
      <4>1. path'[a][i] = k /\ HostOf[k] = Chain[a][i]
        BY <1>0, <1>8, <1>9, <3>2 DEF NextHost
      <4>. QED  BY <1>0, <1>7, <4>1 DEF StoreInv, OnlyApprovedKeys
    <3>3. CASE i \in DOMAIN path[a]
      <4>1. path'[a][i] = path[a][i]
        BY <1>8, <3>1, <3>3
      <4>. QED  BY <1>7, <3>3, <4>1 DEF PathInv, ConnectedThroughApproved
    <3>. QED  BY <1>9, <3>1, <3>2, <3>3
  <2>2. pc'[a] = "connected" => Len(path'[a]) = Len(Chain[a])
    BY <1>7, <1>9 DEF TypeOK, LastHop
  <2>3. pc'[a] \notin {"connected", "failed"} => Len(path'[a]) < Len(Chain[a])
    BY <1>7, <1>8, <1>9 DEF TypeOK, LastHop
  <2>4. ASSUME NEW b \in Attempts \ {a}
        PROVE  /\ \A i \in DOMAIN path'[b] : path'[b][i] \in approved' /\ HostOf[path'[b][i]] = Chain[b][i]
               /\ pc'[b] = "connected" => Len(path'[b]) = Len(Chain[b])
               /\ pc'[b] \notin {"connected", "failed"} => Len(path'[b]) < Len(Chain[b])
    <3>1. path'[b] = path[b] /\ pc'[b] = pc[b] /\ approved' = approved
      BY <1>7, <1>8 DEF TypeOK
    <3>. QED  BY <3>1 DEF PathInv, ConnectedThroughApproved
  <2>. QED  BY <2>1, <2>2, <2>3, <2>4 DEF PathInv, ConnectedThroughApproved
<1>. QED  BY <1>1, <1>2, <1>3, <1>4, <1>5, <1>6

LEMMA StopAtHopStep ==
    ASSUME IInv, NEW a \in Attempts, StopAtHop(a)
    PROVE  IInv'
<1>. USE HostKeyAssumption DEF IInv
<1>1. TypeOK'
  <2>1. PICK k \in Keys : dialog' = [dialog EXCEPT ![a] = [key |-> k, expected |-> Expected(k)]]
    BY DEF StopAtHop
  <2>2. Expected(k) \in Keys \cup {None}
    BY DEF Expected, TypeOK
  <2>3. [key |-> k, expected |-> Expected(k)] \in Dialog
    BY <2>2 DEF Dialog
  <2>4. /\ dialog' \in [Attempts -> Dialog \cup {None}] /\ dialog'[a] # None
        /\ \A b \in Attempts \ {a} : dialog'[b] = dialog[b]
    BY <2>1, <2>3 DEF TypeOK
  <2>5. path' \in [Attempts -> Seq(Keys)] /\ \A b \in Attempts : Len(path'[b]) <= Len(Chain[b])
    <3>1. Len(Chain[a]) \in Nat /\ Len(<<>>) = 0 /\ <<>> \in Seq(Keys)
      OBVIOUS
    <3>. QED  BY <3>1 DEF StopAtHop, TypeOK
  <2>6. \A b \in Attempts : dialog'[b] = None =>
          pc'[b] \notin {"unknown", "asking", "trusting", "persisting", "renaming"} /\ shown' # b
    BY <2>4 DEF StopAtHop, Goto, dialogVars, TypeOK
  <2>. QED  BY <2>4, <2>5, <2>6 DEF StopAtHop, Goto, storeVars, dialogVars, historyVars, TypeOK,
            Attempts, Connects, Places
<1>2. LockInv'
  BY DEF StopAtHop, Goto, storeVars, dialogVars, historyVars, TypeOK, LockInv, Attempts
<1>3. DialogInv'
  BY DEF StopAtHop, Goto, storeVars, dialogVars, historyVars, TypeOK, LockInv, DialogInv, AnswerInv, Attempts
<1>4. AnswerInv'
  BY DEF StopAtHop, Goto, storeVars, dialogVars, historyVars, TypeOK, AnswerInv, Attempts
<1>5. StoreInv'
  BY DEF StopAtHop, Goto, storeVars, dialogVars, historyVars, TypeOK, StoreInv, OnlyApprovedKeys, OneKeyPerEntry, TrustSurvives
<1>6. PathInv'
  BY DEF StopAtHop, Goto, storeVars, dialogVars, historyVars, TypeOK, PathInv, ConnectedThroughApproved
<1>. QED  BY <1>1, <1>2, <1>3, <1>4, <1>5, <1>6

LEMMA DialFailedStep ==
    ASSUME IInv, NEW a \in Attempts, DialFailed(a)
    PROVE  IInv'
<1>. USE HostKeyAssumption DEF IInv
<1>1. TypeOK'
  BY DEF DialFailed, Goto, CloseDialog, storeVars, historyVars, TypeOK, Attempts, Connects, Places
<1>2. LockInv'
  BY DEF DialFailed, Goto, CloseDialog, storeVars, historyVars, TypeOK, LockInv, Attempts
<1>3. DialogInv'
  BY DEF DialFailed, Goto, CloseDialog, storeVars, historyVars, TypeOK, LockInv, DialogInv, AnswerInv, Attempts
<1>4. AnswerInv'
  BY DEF DialFailed, Goto, CloseDialog, storeVars, historyVars, TypeOK, AnswerInv, Attempts
<1>5. StoreInv'
  BY DEF DialFailed, Goto, CloseDialog, storeVars, historyVars, TypeOK, StoreInv, OnlyApprovedKeys, OneKeyPerEntry, TrustSurvives
<1>6. PathInv'
  BY DEF DialFailed, Goto, CloseDialog, storeVars, historyVars, TypeOK, PathInv, ConnectedThroughApproved
<1>. QED  BY <1>1, <1>2, <1>3, <1>4, <1>5, <1>6

LEMMA AskStep ==
    ASSUME IInv, NEW a \in Attempts, Ask(a)
    PROVE  IInv'
<1>. USE HostKeyAssumption DEF IInv
<1>1. TypeOK'
  BY DEF Ask, Goto, storeVars, historyVars, TypeOK, Attempts, Connects, Places
<1>2. LockInv'
  BY DEF Ask, Goto, storeVars, historyVars, TypeOK, LockInv, Attempts
<1>3. DialogInv'
  BY DEF Ask, Goto, storeVars, historyVars, TypeOK, LockInv, DialogInv, AnswerInv, Attempts
<1>4. AnswerInv'
  BY DEF Ask, Goto, storeVars, historyVars, TypeOK, AnswerInv, Attempts
<1>5. StoreInv'
  BY DEF Ask, Goto, storeVars, historyVars, TypeOK, StoreInv, OnlyApprovedKeys, OneKeyPerEntry, TrustSurvives
<1>6. PathInv'
  BY DEF Ask, Goto, storeVars, historyVars, TypeOK, PathInv, ConnectedThroughApproved
<1>. QED  BY <1>1, <1>2, <1>3, <1>4, <1>5, <1>6

LEMMA TrustStep ==
    ASSUME IInv, NEW a \in Attempts, Trust(a)
    PROVE  IInv'
<1>. USE HostKeyAssumption DEF IInv
<1>0. dialog[a] \in Dialog /\ dialog[a].key \in Keys
  BY DialogKey DEF Trust, Goto
<1>7. known' = With(known, dialog[a].key) /\ With(known, dialog[a].key) \subseteq known \cup {dialog[a].key}
  BY DEF Trust, With
<1>1. TypeOK'
  BY <1>0, <1>7 DEF Trust, Goto, dialogVars, TypeOK, Attempts, Connects, Places
<1>2. LockInv'
  BY DEF Trust, Goto, dialogVars, TypeOK, LockInv, Attempts
<1>3. DialogInv'
  <2>1. dialog[a].key \in known' /\ UNCHANGED <<dialog, approved>> /\ dialog[a].key \in approved
    BY DEF Trust, With, Goto, DialogInv
  <2>2. \A b \in Attempts \ {a} : pc'[b] = pc[b] /\ pc[b] \notin {"persisting", "renaming"}
    BY DEF Trust, Goto, TypeOK, LockInv
  <2>. QED  BY <2>1, <2>2 DEF DialogInv
<1>4. AnswerInv'
  BY DEF Trust, Goto, dialogVars, TypeOK, AnswerInv, Attempts
<1>5. StoreInv'
  <2>1. OnlyApprovedKeys'
    BY <1>7 DEF Trust, Goto, DialogInv, StoreInv, OnlyApprovedKeys
  <2>2. OneKeyPerEntry'
    BY <1>0, <1>7, WithKeepsStores DEF Trust, StoreInv, OneKeyPerEntry
  <2>3. TrustSurvives'
    BY DEF Trust, With, StoreInv, TrustSurvives
  <2>. QED  BY <2>1, <2>2, <2>3 DEF StoreInv
<1>6. PathInv'
  BY DEF Trust, Goto, dialogVars, TypeOK, PathInv, ConnectedThroughApproved
<1>. QED  BY <1>1, <1>2, <1>3, <1>4, <1>5, <1>6

LEMMA WriteTempStep ==
    ASSUME IInv, NEW a \in Attempts, WriteTemp(a)
    PROVE  IInv'
<1>. USE HostKeyAssumption DEF IInv
<1>1. TypeOK'
  BY DEF WriteTemp, Goto, dialogVars, historyVars, TypeOK, Attempts, Connects, Places
<1>2. LockInv'
  BY DEF WriteTemp, Goto, dialogVars, historyVars, TypeOK, LockInv, Attempts
<1>3. DialogInv'
  BY DEF WriteTemp, Goto, dialogVars, historyVars, TypeOK, LockInv, DialogInv, AnswerInv, Attempts
<1>4. AnswerInv'
  BY DEF WriteTemp, Goto, dialogVars, historyVars, TypeOK, AnswerInv, Attempts
<1>5. StoreInv'
  BY DEF WriteTemp, Goto, dialogVars, historyVars, TypeOK, StoreInv, OnlyApprovedKeys, OneKeyPerEntry, TrustSurvives
<1>6. PathInv'
  BY DEF WriteTemp, Goto, dialogVars, historyVars, TypeOK, PathInv, ConnectedThroughApproved
<1>. QED  BY <1>1, <1>2, <1>3, <1>4, <1>5, <1>6

LEMMA RenameStep ==
    ASSUME IInv, NEW a \in Attempts, Rename(a)
    PROVE  IInv'
<1>. USE HostKeyAssumption DEF IInv
<1>0. dialog[a] \in Dialog /\ dialog[a].key \in Keys /\ temp = known /\ dialog[a].key \in known
  BY DialogKey DEF Rename, Goto, LockInv, DialogInv
<1>7. dialog' = [dialog EXCEPT ![a] = None] /\ pc' = [pc EXCEPT ![a] = "dialing"] /\ shown' = shown
  BY DEF Rename, Goto, dialogVars
<1>1. TypeOK'
  <2>1. shown # a
    BY HostKeyAssumption DEF Rename, Goto, TypeOK, AnswerInv, Attempts
  <2>2. /\ dialog' \in [Attempts -> Dialog \cup {None}]
        /\ \A b \in Attempts : dialog'[b] = None =>
              pc'[b] \notin {"unknown", "asking", "trusting", "persisting", "renaming"} /\ shown' # b
    BY <1>7, <2>1 DEF TypeOK
  <2>. QED  BY <1>0, <2>2 DEF Rename, Goto, dialogVars, TypeOK, Attempts, Connects, Places
<1>2. LockInv'
  BY DEF Rename, Goto, dialogVars, TypeOK, LockInv, Attempts
<1>3. DialogInv'
  BY DEF Rename, Goto, dialogVars, TypeOK, LockInv, DialogInv, AnswerInv, Attempts
<1>4. AnswerInv'
  BY DEF Rename, Goto, dialogVars, TypeOK, AnswerInv, Attempts
<1>5. StoreInv'
  BY <1>0 DEF Rename, StoreInv, OnlyApprovedKeys, OneKeyPerEntry, TrustSurvives
<1>6. PathInv'
  BY DEF Rename, Goto, dialogVars, TypeOK, PathInv, ConnectedThroughApproved
<1>. QED  BY <1>1, <1>2, <1>3, <1>4, <1>5, <1>6

LEMMA PersistFailedStep ==
    ASSUME IInv, NEW a \in Attempts, PersistFailed(a)
    PROVE  IInv'
<1>. USE HostKeyAssumption DEF IInv
<1>1. TypeOK'
  <2>1. temp' \in (SUBSET Keys) \cup {Torn}
    BY DEF PersistFailed, TypeOK
  <2>2. pending' = {b \in Connects : pc'[b] = "asking"} /\ pc' \in [Attempts -> Places]
    BY ZenonT(60) DEF PersistFailed, Goto, TypeOK, Places, Attempts
  <2>. QED  BY <2>1, <2>2 DEF PersistFailed, Goto, CloseDialog, historyVars, TypeOK, Attempts
<1>2. LockInv'
  BY DEF PersistFailed, Goto, CloseDialog, historyVars, TypeOK, LockInv, Attempts
<1>3. DialogInv'
  BY DEF PersistFailed, Goto, CloseDialog, historyVars, TypeOK, LockInv, DialogInv, AnswerInv, Attempts
<1>4. AnswerInv'
  BY DEF PersistFailed, Goto, CloseDialog, historyVars, TypeOK, AnswerInv, Attempts
<1>5. StoreInv'
  BY DEF PersistFailed, Goto, CloseDialog, historyVars, TypeOK, StoreInv, OnlyApprovedKeys, OneKeyPerEntry, TrustSurvives
<1>6. PathInv'
  BY ZenonT(60) DEF PersistFailed, Goto, CloseDialog, historyVars, TypeOK, PathInv, ConnectedThroughApproved
<1>. QED  BY <1>1, <1>2, <1>3, <1>4, <1>5, <1>6

LEMMA AnswerTestStep ==
    ASSUME IInv, NEW a \in Attempts, AnswerTest(a)
    PROVE  IInv'
<1>. USE HostKeyAssumption DEF IInv
<1>0. dialog[a] \in Dialog /\ dialog[a].key \in Keys
  BY DialogKey DEF AnswerTest, Goto
<1>1. TypeOK'
  <2>1. approved' \in SUBSET Keys /\ pc' \in [Attempts -> Places]
    BY <1>0 DEF AnswerTest, Goto, TypeOK, Places
  <2>2. pending' = {b \in Connects : pc'[b] = "asking"}
    BY DEF AnswerTest, Goto, dialogVars, TypeOK, Attempts
  <2>. QED  BY <2>1, <2>2 DEF AnswerTest, Goto, storeVars, dialogVars, TypeOK
<1>2. LockInv'
  BY DEF AnswerTest, Goto, storeVars, dialogVars, TypeOK, LockInv, Attempts
<1>3. DialogInv'
  BY DEF AnswerTest, Goto, storeVars, dialogVars, TypeOK, LockInv, DialogInv, AnswerInv, Attempts
<1>4. AnswerInv'
  BY DEF AnswerTest, Goto, storeVars, dialogVars, TypeOK, AnswerInv, Attempts
<1>5. StoreInv'
  BY DEF AnswerTest, Goto, storeVars, dialogVars, TypeOK, StoreInv, OnlyApprovedKeys, OneKeyPerEntry, TrustSurvives
<1>6. PathInv'
  BY ZenonT(60) DEF AnswerTest, Goto, storeVars, dialogVars, TypeOK, PathInv, ConnectedThroughApproved
<1>. QED  BY <1>1, <1>2, <1>3, <1>4, <1>5, <1>6

LEMMA ClickStep ==
    ASSUME IInv, NEW a \in Connects, NEW decision \in {"trust", "reject"}, Click(a, decision)
    PROVE  IInv'
<1>. USE HostKeyAssumption DEF IInv
<1>0. dialog[a] \in Dialog /\ dialog[a].key \in Keys
  BY DialogKey DEF Click, Attempts
<1>1. TypeOK'
  BY <1>0 DEF Click, storeVars, TypeOK, Attempts, Connects
<1>2. LockInv'
  BY DEF Click, storeVars, TypeOK, LockInv, Attempts
<1>3. DialogInv'
  BY DEF Click, storeVars, TypeOK, LockInv, DialogInv, AnswerInv, Attempts
<1>4. AnswerInv'
  BY DEF Click, storeVars, TypeOK, AnswerInv, Attempts
<1>5. StoreInv'
  BY DEF Click, storeVars, TypeOK, StoreInv, OnlyApprovedKeys, OneKeyPerEntry, TrustSurvives
<1>6. PathInv'
  BY DEF Click, storeVars, TypeOK, PathInv, ConnectedThroughApproved
<1>. QED  BY <1>1, <1>2, <1>3, <1>4, <1>5, <1>6

LEMMA DeliverStep ==
    ASSUME IInv, NEW a \in Connects, Deliver(a)
    PROVE  IInv'
<1>. USE HostKeyAssumption DEF IInv
<1>1. TypeOK'
  BY ZenonT(60) DEF Deliver, Goto, CloseDialog, storeVars, historyVars, TypeOK, Attempts, Connects, Places
<1>2. LockInv'
  BY DEF Deliver, Goto, CloseDialog, storeVars, historyVars, TypeOK, LockInv, Attempts
<1>3. DialogInv'
  BY DEF Deliver, Goto, CloseDialog, storeVars, historyVars, TypeOK, LockInv, DialogInv, AnswerInv, Attempts
<1>4. AnswerInv'
  BY DEF Deliver, Goto, CloseDialog, storeVars, historyVars, TypeOK, AnswerInv, Attempts
<1>5. StoreInv'
  BY DEF Deliver, Goto, CloseDialog, storeVars, historyVars, TypeOK, StoreInv, OnlyApprovedKeys, OneKeyPerEntry, TrustSurvives
<1>6. PathInv'
  BY ZenonT(60) DEF Deliver, Goto, CloseDialog, storeVars, historyVars, TypeOK, PathInv, ConnectedThroughApproved
<1>. QED  BY <1>1, <1>2, <1>3, <1>4, <1>5, <1>6

LEMMA TimeOutStep ==
    ASSUME IInv, NEW a \in Connects, TimeOut(a)
    PROVE  IInv'
<1>. USE HostKeyAssumption DEF IInv
<1>1. TypeOK'
  BY DEF TimeOut, Goto, CloseDialog, storeVars, historyVars, TypeOK, Attempts, Connects, Places
<1>2. LockInv'
  BY DEF TimeOut, Goto, CloseDialog, storeVars, historyVars, TypeOK, LockInv, Attempts
<1>3. DialogInv'
  BY DEF TimeOut, Goto, CloseDialog, storeVars, historyVars, TypeOK, LockInv, DialogInv, AnswerInv, Attempts
<1>4. AnswerInv'
  BY DEF TimeOut, Goto, CloseDialog, storeVars, historyVars, TypeOK, AnswerInv, Attempts
<1>5. StoreInv'
  BY DEF TimeOut, Goto, CloseDialog, storeVars, historyVars, TypeOK, StoreInv, OnlyApprovedKeys, OneKeyPerEntry, TrustSurvives
<1>6. PathInv'
  BY DEF TimeOut, Goto, CloseDialog, storeVars, historyVars, TypeOK, PathInv, ConnectedThroughApproved
<1>. QED  BY <1>1, <1>2, <1>3, <1>4, <1>5, <1>6

LEMMA ReloadStep ==
    ASSUME IInv, Reload
    PROVE  IInv'
<1>. USE HostKeyAssumption DEF IInv
<1>1. TypeOK'
  BY DEF Reload, storeVars, historyVars, TypeOK, Attempts, Connects, Places
<1>2. LockInv'
  BY DEF Reload, storeVars, historyVars, TypeOK, LockInv, Attempts
<1>3. DialogInv'
  BY DEF Reload, storeVars, historyVars, TypeOK, LockInv, DialogInv, AnswerInv, Attempts
<1>4. AnswerInv'
  BY DEF Reload, storeVars, historyVars, TypeOK, AnswerInv, Attempts
<1>5. StoreInv'
  BY DEF Reload, storeVars, historyVars, TypeOK, StoreInv, OnlyApprovedKeys, OneKeyPerEntry, TrustSurvives
<1>6. PathInv'
  BY DEF Reload, storeVars, historyVars, TypeOK, PathInv, ConnectedThroughApproved
<1>. QED  BY <1>1, <1>2, <1>3, <1>4, <1>5, <1>6

LEMMA CrashStep ==
    ASSUME IInv, Crash
    PROVE  IInv'
<1>. USE HostKeyAssumption DEF IInv
<1>1. TypeOK'
  <2>1. temp' \in (SUBSET Keys) \cup {Torn} /\ crashes' \in 0..MaxCrashes
    BY DEF Crash, TypeOK
  <2>2. path' \in [Attempts -> Seq(Keys)] /\ \A b \in Attempts : Len(path'[b]) <= Len(Chain[b])
    <3>1. ASSUME NEW b \in Attempts PROVE Len(<<>>) <= Len(Chain[b])
      <4>1. Chain[b] \in Seq(Hosts)
        OBVIOUS
      <4>. QED  BY <4>1
    <3>2. <<>> \in Seq(Keys)
      OBVIOUS
    <3>. QED  BY <3>1, <3>2 DEF Crash
  <2>3. /\ pc' \in [Attempts -> Places] /\ \A b \in Attempts : pc'[b] \in {"idle", "failed"}
    BY DEF Crash, Places
  <2>4. pending' = {b \in Connects : pc'[b] = "asking"}
    BY <2>3 DEF Crash, Attempts
  <2>5. /\ dialog' \in [Attempts -> Dialog \cup {None}]
        /\ \A b \in Attempts : dialog'[b] = None =>
              pc'[b] \notin {"unknown", "asking", "trusting", "persisting", "renaming"} /\ shown' # b
    BY <2>3 DEF Crash
  <2>6. answer' \in [Connects -> {"trust", "reject", "none"}] /\ shown' = None /\ holder' = None
    BY DEF Crash
  <2>. QED  BY <2>1, <2>2, <2>3, <2>4, <2>5, <2>6 DEF Crash, historyVars, TypeOK
<1>2. LockInv'
  BY DEF Crash, historyVars, TypeOK, LockInv, Attempts
<1>3. DialogInv'
  BY DEF Crash, historyVars, TypeOK, LockInv, DialogInv, AnswerInv, Attempts
<1>4. AnswerInv'
  BY DEF Crash, historyVars, TypeOK, AnswerInv, Attempts
<1>5. StoreInv'
  BY DEF Crash, historyVars, TypeOK, StoreInv, OnlyApprovedKeys, OneKeyPerEntry, TrustSurvives
<1>6. PathInv'
  BY DEF Crash, historyVars, TypeOK, PathInv, ConnectedThroughApproved
<1>. QED  BY <1>1, <1>2, <1>3, <1>4, <1>5, <1>6

LEMMA NextIInv == IInv /\ [Next]_vars => IInv'
<1>. SUFFICES ASSUME IInv, [Next]_vars PROVE IInv'
  OBVIOUS
<1>1. ASSUME NEW a \in Attempts, Step(a) PROVE IInv'
  BY <1>1, DialStep, PassHopStep, StopAtHopStep, DialFailedStep, AskStep, TrustStep,
     WriteTempStep, RenameStep, PersistFailedStep DEF Step
<1>2. ASSUME NEW a \in Attempts, AnswerTest(a) PROVE IInv'
  BY <1>2, AnswerTestStep
<1>3. ASSUME NEW a \in Connects, NEW decision \in {"trust", "reject"}, Click(a, decision)
      PROVE  IInv'
  BY <1>3, ClickStep
<1>4. ASSUME NEW a \in Connects, Deliver(a) \/ TimeOut(a) PROVE IInv'
  BY <1>4, DeliverStep, TimeOutStep
<1>5. CASE Reload \/ Crash
  BY <1>5, ReloadStep, CrashStep
<1>6. CASE UNCHANGED vars
  BY <1>6 DEF vars, IInv, TypeOK, LockInv, DialogInv, AnswerInv, StoreInv, PathInv,
     OnlyApprovedKeys, OneKeyPerEntry, TrustSurvives, ConnectedThroughApproved
<1>. QED  BY <1>1, <1>2, <1>3, <1>4, <1>5, <1>6 DEF Next, Finished

LEMMA Inductive == Spec => []IInv
<1>. QED  BY InitIInv, NextIInv, PTL DEF Spec


(* The type invariant, and with it: the waits registered are the waits     *)
(* going on.                                                               *)
THEOREM TypeCorrect == Spec => []TypeOK
<1>1. IInv => TypeOK
  BY DEF IInv
<1>. QED  BY <1>1, Inductive, PTL

(* No key is in memory or in the file that no user trusted.                *)
THEOREM OnlyApproved == Spec => []OnlyApprovedKeys
<1>1. IInv => OnlyApprovedKeys
  BY DEF IInv, StoreInv
<1>. QED  BY <1>1, Inductive, PTL

(* Every hop of a connection has shown an approved key of its own.         *)
THEOREM ThroughApproved == Spec => []ConnectedThroughApproved
<1>1. IInv => ConnectedThroughApproved
  BY DEF IInv, PathInv
<1>. QED  BY <1>1, Inductive, PTL

(* A rotated key replaces its predecessor, in memory and in the file.      *)
THEOREM OneKey == Spec => []OneKeyPerEntry
<1>1. IInv => OneKeyPerEntry
  BY DEF IInv, StoreInv
<1>. QED  BY <1>1, Inductive, PTL

(* A confirmed trust survives every crash.                                 *)
THEOREM TrustDurable == Spec => []TrustSurvives
<1>1. IInv => TrustSurvives
  BY DEF IInv, StoreInv
<1>. QED  BY <1>1, Inductive, PTL

(* A key whose trust was reported a success is not put to the user again,  *)
(* by no connection, test or restart, before another key has replaced it.  *)
NotAskedAgain ==
    [][\A a \in Attempts :
          pc[a] = "dialing" /\ pc'[a] = "unknown" => dialog'[a].key \notin durable]_vars

(* Only a stop at a hop leads to a question.                               *)
LEMMA AsksAtHop ==
    ASSUME IInv, [Next]_vars, NEW a \in Attempts, pc[a] = "dialing", pc'[a] = "unknown"
    PROVE  StopAtHop(a)
<1>1. pc \in [Attempts -> Places] /\ pc' # pc
  BY DEF IInv, TypeOK
<1>2. ASSUME NEW b \in Attempts, Step(b) PROVE StopAtHop(a)
  BY <1>1, <1>2 DEF Step, Goto, Dial, PassHop, StopAtHop, DialFailed, Ask, Trust, WriteTemp,
     Rename, PersistFailed
<1>3. ASSUME NEW b \in Attempts, AnswerTest(b) PROVE FALSE
  BY <1>1, <1>3 DEF AnswerTest, Goto
<1>4. ASSUME NEW b \in Connects, NEW decision \in {"trust", "reject"}, Click(b, decision)
      PROVE  FALSE
  BY <1>1, <1>4 DEF Click
<1>5. ASSUME NEW b \in Connects, Deliver(b) \/ TimeOut(b) PROVE FALSE
  BY <1>1, <1>5 DEF Deliver, TimeOut, Goto, Attempts
<1>6. ~Reload /\ ~Crash /\ ~Finished /\ ~UNCHANGED vars
  BY <1>1 DEF Reload, Crash, Finished, vars
<1> QED
  BY <1>2, <1>3, <1>4, <1>5, <1>6 DEF Next

(* The store remembers for the user: no question about what was trusted.   *)
THEOREM TrustedNotAsked == Spec => NotAskedAgain
<1> DEFINE Unasked == \A a \in Attempts :
              pc[a] = "dialing" /\ pc'[a] = "unknown" => dialog'[a].key \notin durable
<1>1. IInv /\ [Next]_vars => [Unasked]_vars
  <2> SUFFICES ASSUME IInv, [Next]_vars, NEW a \in Attempts,
                      pc[a] = "dialing", pc'[a] = "unknown"
               PROVE  dialog'[a].key \notin durable
    OBVIOUS
  <2>1. PICK k \in Keys : k \notin known
                          /\ dialog' = [dialog EXCEPT ![a] = [key |-> k, expected |-> Expected(k)]]
    BY AsksAtHop DEF StopAtHop, Accepts
  <2>2. dialog'[a].key = k
    BY <2>1 DEF IInv, TypeOK
  <2> QED
    BY <2>1, <2>2 DEF IInv, StoreInv, TrustSurvives
<1> HIDE DEF Unasked
<1>2. Spec => [][Unasked]_vars
  BY <1>1, Inductive, PTL DEF Spec
<1> QED
  BY <1>2 DEF NotAskedAgain, Unasked

=============================================================================
