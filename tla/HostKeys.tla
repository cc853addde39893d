------------------------------ MODULE HostKeys ------------------------------
(***************************************************************************)
(* Trust in the keys of SSH hosts: the store of known keys with its file   *)
(* (app-logic, host_key_store.rs), the hops of a connection that consult   *)
(* it (ssh-transport, connect.rs), and the two sides that ask the user     *)
(* about a key the store does not know: connect_session (app-shell,        *)
(* commands/connect.rs), which waits for the answer, and the connection    *)
(* test of the server form, which returns and is called again.             *)
(*                                                                         *)
(* A host may present any of its keys at any time.  The server list of the *)
(* frontend shows one dialog at a time, a later question taking the place  *)
(* of an earlier one.  The wait for the answer is taken as what            *)
(* Confirmation promises: an answer reaches the wait that is registered    *)
(* under its session, or nobody.                                           *)
(***************************************************************************)
EXTENDS Naturals, Sequences

CONSTANTS
    UserConnects,   \* connections the server list opens
    McpConnects,    \* connections an MCP call opens
    Tests,          \* connection tests of a server form
    Hosts, Keys,
    HostOf,         \* the host a key belongs to
    AlgorithmOf,    \* the algorithm of a key
    Chain,          \* the hosts each attempt passes: jump hosts, then the server
    MaxCrashes,     \* bound
    None            \* no key, nobody

Connects == UserConnects \cup McpConnects
Attempts == Connects \cup Tests

Dialog == [key : Keys, expected : Keys \cup {None}]

ASSUME HostKeyAssumption ==
    /\ HostOf \in [Keys -> Hosts]
    /\ Chain \in [Attempts -> Seq(Hosts) \ {<<>>}]
    /\ Connects \cap Tests = {}
    /\ None \notin Keys \cup Attempts \cup Dialog
    /\ MaxCrashes \in Nat

VARIABLES
    known,      \* the store in memory
    file,       \* host_keys.json
    temp,       \* host_keys.json.tmp
    holder,     \* who holds the mutex of the store while its file is written
    pc,
    path,       \* the keys of the hops passed so far
    dialog,     \* the key an attempt last asked about, and the one the store expected
    pending,    \* the connects that wait for confirm_host_key
    shown,      \* the connect whose dialog the server list shows
    answer,     \* the answer to a connect's dialog, on its way
    crashes,
    approved,   \* history variable: the keys a user ever trusted, seeing them
    durable     \* history variable: those whose trust was reported a success

vars == <<known, file, temp, holder, pc, path, dialog, pending, shown, answer, crashes,
          approved, durable>>
storeVars == <<known, file, temp, holder>>
dialogVars == <<pending, shown, answer>>
historyVars == <<approved, durable>>

(* What lies in a file whose writing broke off.                            *)
Torn == {None}

(* One key for each host, port and algorithm.                              *)
SameEntry(j, k) == HostOf[j] = HostOf[k] /\ AlgorithmOf[j] = AlgorithmOf[k]
Stores == {s \in SUBSET Keys : \A j, k \in s : SameEntry(j, k) => j = k}

Places == {"idle", "dialing", "unknown", "asking", "trusting", "persisting", "renaming",
           "connected", "failed"}

TypeOK ==
    /\ known \in SUBSET Keys /\ file \in SUBSET Keys /\ temp \in (SUBSET Keys) \cup {Torn}
    /\ holder \in Attempts \cup {None}
    /\ pc \in [Attempts -> Places]
    /\ path \in [Attempts -> Seq(Keys)] /\ \A a \in Attempts : Len(path[a]) <= Len(Chain[a])
    /\ dialog \in [Attempts -> Dialog \cup {None}]
    /\ \A a \in Attempts : dialog[a] = None =>
          pc[a] \notin {"unknown", "asking", "trusting", "persisting", "renaming"} /\ shown # a
    /\ pending = {a \in Connects : pc[a] = "asking"}
    /\ shown \in Connects \cup {None}
    /\ answer \in [Connects -> {"trust", "reject", "none"}]
    /\ crashes \in 0..MaxCrashes
    /\ approved \in SUBSET Keys /\ durable \in SUBSET Keys

Init ==
    /\ known \in Stores /\ file = known /\ temp = {} /\ holder = None
    /\ pc = [a \in Attempts |-> "idle"] /\ path = [a \in Attempts |-> <<>>]
    /\ dialog = [a \in Attempts |-> None]
    /\ pending = {} /\ shown = None /\ answer = [a \in Connects |-> "none"]
    /\ crashes = 0
    /\ approved = known /\ durable = known

Goto(a, from, to) == pc[a] = from /\ pc' = [pc EXCEPT ![a] = to]

(* When a connect of its own returns, the server list closes its dialog,   *)
(* whosever it is; not so after a reload, or when a chat was resumed.      *)
CloseDialog(a) == shown' = shown \/ (a \in UserConnects /\ shown' = None)

-----------------------------------------------------------------------------
(* ssh_transport::connect, one hop after the other                         *)
Dial(a) ==
    /\ Goto(a, "idle", "dialing")
    /\ UNCHANGED <<storeVars, path, dialog, dialogVars, crashes, historyVars>>

NextHost(a) == Chain[a][Len(path[a]) + 1]
LastHop(a) == Len(path[a]) + 1 = Len(Chain[a])

(* Mutant: only the first hop asks the store.                              *)
AcceptsFirstHop(a, k) == k \in known \/ path[a] # <<>>

(* FileHostKeyStore::check                                                 *)
Accepts(a, k) == k \in known

Expected(k) == IF \E j \in known : SameEntry(j, k)
               THEN CHOOSE j \in known : SameEntry(j, k) ELSE None

PassHop(a) ==
    /\ holder = None
    /\ Goto(a, "dialing", IF LastHop(a) THEN "connected" ELSE "dialing")
    /\ \E k \in Keys :
          /\ HostOf[k] = NextHost(a)
          /\ Accepts(a, k)
          /\ path' = [path EXCEPT ![a] = Append(@, k)]
    /\ IF LastHop(a) THEN CloseDialog(a) ELSE UNCHANGED shown
    /\ UNCHANGED <<storeVars, dialog, pending, answer, crashes, historyVars>>

(* PendingHostKeyConfirmation: the hops before this one are given up.      *)
StopAtHop(a) ==
    /\ holder = None
    /\ Goto(a, "dialing", "unknown")
    /\ \E k \in Keys :
          /\ HostOf[k] = NextHost(a)
          /\ ~Accepts(a, k)
          /\ dialog' = [dialog EXCEPT ![a] = [key |-> k, expected |-> Expected(k)]]
    /\ path' = [path EXCEPT ![a] = <<>>]
    /\ UNCHANGED <<storeVars, dialogVars, crashes, historyVars>>

(* Unreachable, not authenticated, or out of time.                         *)
DialFailed(a) ==
    /\ Goto(a, "dialing", "failed")
    /\ path' = [path EXCEPT ![a] = <<>>]
    /\ CloseDialog(a)
    /\ UNCHANGED <<storeVars, dialog, pending, answer, crashes, historyVars>>

-----------------------------------------------------------------------------
(* connect_session registers the wait, then emits the event the server     *)
(* list shows; a test returns the key to its form.                         *)
Ask(a) ==
    /\ Goto(a, "unknown", "asking")
    /\ IF a \in Connects THEN pending' = pending \cup {a} /\ shown' = a
                         ELSE UNCHANGED <<pending, shown>>
    /\ UNCHANGED <<storeVars, path, dialog, answer, crashes, historyVars>>

(* HostKeyDialog answers once.                                             *)
Click(a, decision) ==
    /\ shown = a
    /\ shown' = None
    /\ answer' = [answer EXCEPT ![a] = decision]
    /\ approved' = IF decision = "trust" THEN approved \cup {dialog[a].key} ELSE approved
    /\ UNCHANGED <<storeVars, pc, path, dialog, pending, crashes, durable>>

(* The page is loaded anew: nothing brings the dialog back.                *)
Reload ==
    /\ shown # None
    /\ shown' = None
    /\ UNCHANGED <<storeVars, pc, path, dialog, pending, answer, crashes, historyVars>>

(* confirm_host_key: the answer resolves the wait, if there still is one.  *)
Deliver(a) ==
    /\ answer[a] # "none"
    /\ answer' = [answer EXCEPT ![a] = "none"]
    /\ IF a \in pending
       THEN /\ Goto(a, "asking", IF answer[a] = "trust" THEN "trusting" ELSE "failed")
            /\ pending' = pending \ {a}
            /\ IF answer[a] = "trust" THEN UNCHANGED shown ELSE CloseDialog(a)
       ELSE UNCHANGED <<pc, pending, shown>>
    /\ UNCHANGED <<storeVars, path, dialog, crashes, historyVars>>

(* Mutant: what nobody objects to is trusted.                              *)
TimeOutTrusts(a) ==
    /\ a \in pending
    /\ Goto(a, "asking", "trusting")
    /\ pending' = pending \ {a}
    /\ UNCHANGED <<storeVars, path, dialog, shown, answer, crashes, historyVars>>

(* Mutant: the wait has no limit.                                          *)
NeverTimeOut(a) == FALSE /\ UNCHANGED vars

(* wait_for_host_key_decision: the time limit is a refusal.                *)
TimeOut(a) ==
    /\ a \in pending
    /\ Goto(a, "asking", "failed")
    /\ pending' = pending \ {a}
    /\ CloseDialog(a)
    /\ UNCHANGED <<storeVars, path, dialog, answer, crashes, historyVars>>

(* The form's own dialog: trust_host_key, or nothing.                      *)
AnswerTest(a) ==
    /\ a \in Tests
    /\ \/ /\ Goto(a, "asking", "trusting")
          /\ approved' = approved \cup {dialog[a].key}
       \/ Goto(a, "asking", "failed") /\ UNCHANGED approved
    /\ UNCHANGED <<storeVars, path, dialog, dialogVars, crashes, durable>>

-----------------------------------------------------------------------------
(* A key takes the place of the one with its host and algorithm.           *)
With(store, k) == {j \in store : ~SameEntry(j, k)} \cup {k}

(* FileHostKeyStore::trust: into the map, and on to the file under one     *)
(* lock.                                                                   *)
Trust(a) ==
    /\ holder = None
    /\ Goto(a, "trusting", "persisting")
    /\ known' = With(known, dialog[a].key)
    /\ durable' = {j \in durable : ~SameEntry(j, dialog[a].key)}
    /\ holder' = a
    /\ UNCHANGED <<file, temp, path, dialog, dialogVars, crashes, approved>>

(* write_atomically: first beside the file, then into its place.           *)
WriteTemp(a) ==
    /\ Goto(a, "persisting", "renaming")
    /\ temp' = known
    /\ UNCHANGED <<known, file, holder, path, dialog, dialogVars, crashes, historyVars>>

(* connect_session dials again from the first hop, the form tests again.   *)
Rename(a) ==
    /\ Goto(a, "renaming", "dialing")
    /\ file' = temp
    /\ holder' = None
    /\ durable' = durable \cup {dialog[a].key}
    /\ dialog' = [dialog EXCEPT ![a] = None]
    /\ UNCHANGED <<known, temp, path, dialogVars, crashes, approved>>

(* Mutant: the failure is swallowed.                                       *)
PersistFailureIgnored(a) ==
    /\ Goto(a, "persisting", "dialing") \/ Goto(a, "renaming", "dialing")
    /\ holder' = None
    /\ UNCHANGED temp
    /\ durable' = durable \cup {dialog[a].key}
    /\ UNCHANGED <<known, file, path, dialog, dialogVars, crashes, approved>>

(* No directory, no space, no right: the attempt ends, the key remains in  *)
(* the map.                                                                *)
PersistFailed(a) ==
    /\ \/ Goto(a, "persisting", "failed") /\ temp' \in {temp, Torn}
       \/ Goto(a, "renaming", "failed") /\ UNCHANGED temp
    /\ holder' = None
    /\ CloseDialog(a)
    /\ UNCHANGED <<known, file, path, dialog, pending, answer, crashes, historyVars>>

(* The program ends at any point and is started again.                     *)
Crash ==
    /\ crashes < MaxCrashes
    /\ crashes' = crashes + 1
    /\ known' = file
    /\ holder' = None
    /\ temp' = temp \/ (temp' = Torn /\ \E a \in Attempts : pc[a] = "persisting")
    /\ pc' = [a \in Attempts |-> IF pc[a] = "idle" THEN "idle" ELSE "failed"]
    /\ path' = [a \in Attempts |-> <<>>] /\ dialog' = [a \in Attempts |-> None]
    /\ pending' = {} /\ shown' = None /\ answer' = [a \in Connects |-> "none"]
    /\ UNCHANGED <<file, historyVars>>

Step(a) ==
    \/ Dial(a) \/ PassHop(a) \/ StopAtHop(a) \/ DialFailed(a) \/ Ask(a)
    \/ Trust(a) \/ WriteTemp(a) \/ Rename(a) \/ PersistFailed(a)

Finished == (\A a \in Attempts : pc[a] \in {"connected", "failed"}) /\ UNCHANGED vars

Next ==
    \/ \E a \in Attempts : Step(a) \/ AnswerTest(a)
    \/ \E a \in Connects : \/ \E decision \in {"trust", "reject"} : Click(a, decision)
                           \/ Deliver(a) \/ TimeOut(a)
    \/ Reload \/ Crash \/ Finished

Spec == Init /\ [][Next]_vars

(* The hour of a wait elapses.                                             *)
FairSpec == Spec /\ \A a \in Connects : WF_vars(TimeOut(a))

-----------------------------------------------------------------------------
(* No key gets into the store, or its file, that a user has not seen in a  *)
(* dialog and trusted: not by a time-out, a lost dialog, an answer that    *)
(* was given to another question, or a restart.                            *)
OnlyApprovedKeys == known \cup file \subseteq approved

(* A connection stands only when every host of its chain, jump hosts       *)
(* included, has shown a key of its own that a user trusted.               *)
ConnectedThroughApproved ==
    \A a \in Attempts :
        /\ \A i \in DOMAIN path[a] : path[a][i] \in approved /\ HostOf[path[a][i]] = Chain[a][i]
        /\ pc[a] = "connected" => Len(path[a]) = Len(Chain[a])

(* A rotated key does not live on beside its successor (the doc of trust), *)
(* neither in memory nor in the file a restart reads.                      *)
OneKeyPerEntry == known \in Stores /\ file \in Stores

(* What was reported as trusted is known, and known again after a crash at *)
(* any point, until it is replaced.                                        *)
TrustSurvives == durable \subseteq known \cap file

(* A wait whose dialog was displaced, closed by another connection, or     *)
(* lost in a reload ends all the same.                                     *)
EveryWaitForKeyEnds == \A a \in Connects : pc[a] = "asking" ~> pc[a] # "asking"

(* Spec 0005, section 6: a changed key is never confirmed as simply as an  *)
(* unknown one; whoever replaces a key was told so.                        *)
ReplacedKnowingly ==
    [][\A a \in Attempts : pc[a] = "trusting" /\ pc'[a] = "persisting" =>
          \A j \in known \ known' : dialog[a].expected = j]_vars
=============================================================================
