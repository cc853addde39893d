------------------------ MODULE ServerProfiles_proofs -----------------------
(* Proofs about ServerProfiles, for any number of saves and deletions, any *)
(* logins and any plans.                                                   *)
EXTENDS ServerProfiles, SequenceTheorems, TLAPS

SavePC == {"new", "write", "undo", "clean", "key", "convert", "done"}
RemovalPC == {"new", "secrets", "row", "done", "refused"}
ImportPC == {"new", "group", "create", "insert", "rollback", "created", "failed"}

Save == [pc : SavePC, before : Row \cup {None}, input : Input \cup {None},
         todo : Seq(Slots), written : SUBSET Slots]
Removal == [pc : RemovalPC, id : Ids \cup {None}, before : Row \cup {None},
            left : SUBSET Slots]
Imported == [pc : ImportPC, plan : Plans \cup {<<>>}, next : Nat, made : Seq(Entries)]

TypeOK ==
    /\ servers \in [Ids -> Row \cup {None}]
    /\ groups \in BOOLEAN
    /\ keychain \in [Ids -> SUBSET Slots]
    /\ history \in Seq(Notes)
    /\ save \in [Saves -> Save]
    /\ removal \in [Deletes -> Removal]
    /\ import \in Imported
    /\ faulty \in SUBSET Ids

(* A deletion of this server has begun.                                    *)
Deleted(id) == \E d \in Deletes : removal[d].id = id

Sudo == {"sudo_password"}

(* The login an edit leads to.                                             *)
Goal(c) == Resolved(save[c].input, save[c].before.auth)

SaveOK(c) ==
    /\ Running(c) =>
          /\ save[c].before \in Row
          /\ \A other \in Saves : Running(other) => other = c
          /\ Edited \notin faulty => ~Deleted(Edited)
    /\ save[c].pc \in {"write", "undo", "clean"} => save[c].input \in Input
    /\ save[c].pc \in {"key", "convert"} => save[c].before.auth.kind = "identity_file"
    /\ save[c].pc \in {"write", "undo", "key", "convert"} /\ ~Deleted(Edited) =>
          servers[Edited].auth = save[c].before.auth
    /\ save[c].pc = "clean" /\ ~Deleted(Edited) => servers[Edited].auth = Goal(c)
    /\ save[c].pc = "write" =>
          /\ Range(save[c].todo) \subseteq Range(Fields(save[c].input.kind))
          /\ ~Deleted(Edited) => Goal(c).refs \subseteq keychain[Edited] \cup Range(save[c].todo)
    /\ save[c].pc = "convert" /\ ~Deleted(Edited) => "private_key" \in keychain[Edited]

(* What an edit may have put into the keychain, if nothing has failed.     *)
SaveClean(c) ==
    Edited \notin faulty =>
        /\ save[c].pc \in {"write", "undo"} =>
              /\ save[c].written \subseteq Goal(c).refs \cup Sudo
              /\ keychain[Edited] \subseteq save[c].before.auth.refs \cup save[c].written \cup Sudo
        /\ save[c].pc = "clean" =>
              keychain[Edited] \subseteq save[c].before.auth.refs \cup Goal(c).refs \cup Sudo
        /\ save[c].pc \in {"key", "convert"} => save[c].written = {}
        /\ save[c].pc = "key" => keychain[Edited] \subseteq save[c].before.auth.refs \cup Sudo
        /\ save[c].pc = "convert" =>
              keychain[Edited] \subseteq save[c].before.auth.refs \cup {"private_key"} \cup Sudo

SaveInv == \A c \in Saves : SaveOK(c) /\ SaveClean(c)

RemovalOK(d) ==
    /\ removal[d].pc = "new" => removal[d].id = None
    /\ removal[d].pc # "new" => removal[d].id \in Ids
    /\ removal[d].pc \in {"secrets", "row"} => removal[d].before \in Row
    /\ removal[d].id \notin faulty =>
        /\ removal[d].pc # "refused"
        /\ removal[d].pc = "secrets" =>
              keychain[removal[d].id] \subseteq removal[d].before.auth.refs \cup Sudo
        /\ removal[d].pc \in {"row", "done"} => keychain[removal[d].id] \subseteq removal[d].left
        /\ removal[d].pc = "done" => servers[removal[d].id] = None

RemovalInv ==
    /\ \A d \in Deletes : RemovalOK(d)
    /\ ~Deleted(Edited) => servers[Edited] # None

Pending(id) == import.pc = "insert" /\ id = Entry.id

(* A server nobody works on has the secrets it uses, and no others.        *)
CleanOK(id) ==
    /\ id \notin faulty
    /\ id = Edited => \A c \in Saves : ~Running(c)
    /\ \A d \in Deletes : Deleting(d) => removal[d].id # id
    /\ id \in Entries => ~Pending(id)
    => keychain[id] \ Sudo \subseteq
          IF servers[id] = None
          THEN UNION {removal[d].left : d \in {d \in Deletes : removal[d].id = id}}
          ELSE servers[id].auth.refs

CleanInv == \A id \in Ids : CleanOK(id)

(* Entries whose row is not there yet are known to nobody.                 *)
Unmade(id) ==
    /\ servers[id] = None
    /\ ~Deleted(id)
    /\ IF Pending(id) THEN keychain[id] = Entry.input.given ELSE keychain[id] = {}

(* Step i of the plan is done.                                             *)
MadeOK(i) ==
    LET e == import.plan[i]
    IN  /\ import.made[i] = e.id
        /\ ~Deleted(e.id) =>
              /\ servers[e.id] # None
              /\ servers[e.id].jump \in {e.jump} \cup (IF Deleted(e.jump) THEN {None} ELSE {})

Working == {"create", "insert", "created"}

ImportInv ==
    /\ import.pc # "new" => import.plan \in Plans
    /\ import.pc \in {"new", "group"} => import.made = <<>> /\ import.next = 1 /\ ~groups
    /\ import.pc \in {"create", "insert"} => import.next \in DOMAIN import.plan
    /\ import.pc = "created" => import.next = Len(import.plan) + 1
    /\ import.pc = "insert" =>
          Range(Required(Entry.input.kind)) \subseteq Entry.input.given
    /\ import.pc \in Working =>
          /\ Len(import.made) = import.next - 1
          /\ \A i \in DOMAIN import.made : MadeOK(i)
    /\ import.pc \in {"new", "group"} \cup Working =>
          \A id \in Entries \ Range(import.made) : Unmade(id)
    /\ Entries \cap faulty = {} =>
        /\ import.pc \in {"rollback", "failed"} =>
              \A id \in Entries \ Range(import.made) :
                  servers[id] = None /\ (~Deleted(id) => keychain[id] = {})
        /\ import.pc = "failed" => import.made = <<>> /\ ~groups

IInv == TypeOK /\ SaveInv /\ RemovalInv /\ CleanInv /\ ImportInv /\ LoginKept
-----------------------------------------------------------------------------
(* What the logins are made of.                                            *)

LEMMA KindFacts ==
    ASSUME NEW kind \in Kinds
    PROVE  /\ Range(Required(kind)) \subseteq Slots
           /\ Range(Optional(kind)) \subseteq Slots
           /\ "sudo_password" \notin Range(Required(kind)) \cup Range(Optional(kind))
           /\ Fields(kind) \in Seq(Slots)
           /\ Range(Fields(kind)) = Range(Required(kind)) \cup Range(Optional(kind)) \cup Sudo
<1>1. /\ Required(kind) \in Seq(Slots \ Sudo)
      /\ Optional(kind) \in Seq(Slots \ Sudo)
      /\ <<"sudo_password">> \in Seq(Slots)
  <2>1. Required(kind) \in {<<"password">>, <<"private_key">>,
                            <<"certificate", "certificate_key">>, <<>>}
    BY DEF Kinds, Required
  <2>2. Optional(kind) \in {<<"passphrase">>, <<>>}
    BY DEF Optional
  <2>3. /\ <<"password">> \in Seq(Slots \ Sudo) /\ <<"private_key">> \in Seq(Slots \ Sudo)
        /\ <<"certificate", "certificate_key">> \in Seq(Slots \ Sudo)
        /\ <<"passphrase">> \in Seq(Slots \ Sudo) /\ <<>> \in Seq(Slots \ Sudo)
        /\ <<"sudo_password">> \in Seq(Slots)
    BY DEF Slots, Sudo
  <2> QED
    BY <2>1, <2>2, <2>3
<1>2. /\ Range(Required(kind)) \subseteq Slots \ Sudo
      /\ Range(Optional(kind)) \subseteq Slots \ Sudo
  BY <1>1, RangeOfSeq
<1>3. /\ Required(kind) \in Seq(Slots)
      /\ Optional(kind) \in Seq(Slots)
  BY <1>1, SeqMonotonic, Slots \ Sudo \subseteq Slots
<1>4. /\ Optional(kind) \o <<"sudo_password">> \in Seq(Slots)
      /\ Required(kind) \o (Optional(kind) \o <<"sudo_password">>) \in Seq(Slots)
  BY <1>1, <1>3, ConcatProperties
<1>5. Fields(kind) = Required(kind) \o (Optional(kind) \o <<"sudo_password">>)
  BY <1>1, <1>3, ConcatAssociative DEF Fields
<1>6. Range(<<"sudo_password">>) = Sudo
  BY DEF Range, Sudo
<1>7. Range(Fields(kind)) = Range(Required(kind)) \cup (Range(Optional(kind)) \cup Sudo)
  <2>1. Range(Optional(kind) \o <<"sudo_password">>) = Range(Optional(kind)) \cup Sudo
    BY <1>1, <1>3, <1>6, RangeConcatenation, ZenonT(60)
  <2>2. Range(Required(kind) \o (Optional(kind) \o <<"sudo_password">>))
            = Range(Required(kind)) \cup Range(Optional(kind) \o <<"sudo_password">>)
    <3> DEFINE rest == Optional(kind) \o <<"sudo_password">>
    <3>1. Required(kind) \in Seq(Slots) /\ rest \in Seq(Slots)
      BY <1>3, <1>4
    <3> HIDE DEF rest
    <3>2. Range(Required(kind) \o rest) = Range(Required(kind)) \cup Range(rest)
      BY <3>1, RangeConcatenation
    <3> QED
      BY <3>2 DEF rest
  <2> QED
    BY <1>5, <2>1, <2>2
<1> QED
  BY <1>2, <1>4, <1>5, <1>7 DEF Sudo

LEMMA KeyFacts ==
    /\ Range(Required("private_key")) = {"private_key"}
    /\ Range(Optional("private_key")) = {"passphrase"}
    /\ Range(Required("identity_file")) = {}
    /\ Range(Optional("identity_file")) = {"passphrase"}
<1>1. Required("private_key") = <<"private_key">> /\ Required("identity_file") = <<>>
  BY DEF Required
<1>2. Optional("private_key") = <<"passphrase">> /\ Optional("identity_file") = <<"passphrase">>
  BY DEF Optional
<1>3. Range(<<"private_key">>) = {"private_key"} /\ Range(<<"passphrase">>) = {"passphrase"}
  BY DEF Range
<1>4. Range(<<>>) = {}
  BY DEF Range
<1> QED
  BY <1>1, <1>2, <1>3, <1>4

(* An edit leads to a login that needs nothing but what is given and what  *)
(* was there, and uses whatever is given.                                  *)
LEMMA ResolvedFacts ==
    ASSUME NEW input \in Input, NEW before \in Login
    PROVE  /\ Resolved(input, before) \in Login
           /\ input.given \subseteq Resolved(input, before).refs \cup Sudo
           /\ Resolved(input, before).refs \subseteq Range(Fields(input.kind))
           /\ \A slot \in Resolved(input, before).refs :
                 slot \in input.given \/ Missing(input, before, slot) \/ slot \in before.refs
<1>1. input.kind \in Kinds /\ input.given \subseteq Range(Fields(input.kind))
  BY DEF Input
<1>2. /\ Range(Required(before.kind)) \subseteq before.refs
      /\ before.refs \subseteq Slots
  BY DEF Login
<1> QED
  BY <1>1, <1>2, KindFacts DEF Resolved, Login, Missing

LEMMA FreshFacts ==
    ASSUME NEW input \in Input
    PROVE  /\ input.given \subseteq Resolved(input, NoLogin).refs \cup Sudo
           /\ Range(Required(input.kind)) \subseteq input.given =>
                 /\ Resolved(input, NoLogin) \in Login
                 /\ Resolved(input, NoLogin).refs \subseteq input.given
<1>1. input.kind \in Kinds /\ input.given \subseteq Range(Fields(input.kind)) /\ input.given \subseteq Slots
  BY DEF Input
<1>2. input.kind # "none"
  BY <1>1 DEF Kinds
<1> QED
  BY <1>1, <1>2, KindFacts DEF Resolved, Login, NoLogin

-----------------------------------------------------------------------------
(* What the sequences hold.                                                *)

LEMMA NothingInEmpty == Range(<<>>) = {}
  BY DEF Range

LEMMA RangeOfTail ==
    ASSUME NEW S, NEW s \in Seq(S), s # <<>>
    PROVE  /\ Tail(s) \in Seq(S) /\ Head(s) \in S
           /\ Range(s) = {Head(s)} \cup Range(Tail(s))
<1>1. /\ Head(s) \in S /\ Tail(s) \in Seq(S) /\ Len(Tail(s)) = Len(s) - 1
      /\ \A i \in 1..Len(Tail(s)) : Tail(s)[i] = s[i + 1]
  BY HeadTailProperties
<1>2. Len(s) \in Nat \ {0} /\ DOMAIN s = 1..Len(s) /\ Head(s) = s[1]
      /\ DOMAIN Tail(s) = 1..(Len(s) - 1)
  BY <1>1, LenProperties, EmptySeq
<1>3. Range(Tail(s)) \subseteq Range(s) /\ Head(s) \in Range(s)
  BY <1>1, <1>2 DEF Range
<1>4. ASSUME NEW i \in 1..Len(s), i # 1
      PROVE  s[i] \in Range(Tail(s))
  <2>1. i - 1 \in 1..(Len(s) - 1) /\ Tail(s)[i - 1] = s[i]
    BY <1>1, <1>2, <1>4
  <2> QED
    BY <1>2, <2>1 DEF Range
<1> QED
  BY <1>1, <1>2, <1>3, <1>4 DEF Range

LEMMA RangeOfAppend ==
    ASSUME NEW S, NEW s \in Seq(S), NEW e \in S
    PROVE  /\ Append(s, e) \in Seq(S) /\ Len(Append(s, e)) = Len(s) + 1
           /\ Range(Append(s, e)) = Range(s) \cup {e}
  BY AppendProperties, LenProperties DEF Range

LEMMA RangeOfFront ==
    ASSUME NEW S, NEW s \in Seq(S), s # <<>>
    PROVE  /\ Front(s) \in Seq(S) /\ Last(s) \in S /\ Last(s) \in Range(s)
           /\ Range(s) = {Last(s)} \cup Range(Front(s))
<1>1. Len(s) \in Nat \ {0} /\ DOMAIN s = 1..Len(s) /\ s \in [1..Len(s) -> S]
  BY LenProperties, EmptySeq
<1>2. /\ Front(s) \in Seq(S) /\ Len(Front(s)) = Len(s) - 1
      /\ \A i \in 1..(Len(s) - 1) : Front(s)[i] = s[i]
  BY <1>1, SubSeqProperties DEF Front
<1> QED
  BY <1>1, <1>2, LenProperties DEF Range, Last

-----------------------------------------------------------------------------
USE ProfilesAssumption

LEMMA InitIInv == Init => IInv
<1> SUFFICES ASSUME Init PROVE IInv
  OBVIOUS
<1>1. PICK auth \in Auths, sudo \in SUBSET Sudo :
        /\ servers = [id \in Ids |->
                        IF id = Edited THEN [auth |-> auth, notes |-> None, jump |-> None]
                        ELSE None]
        /\ keychain = [id \in Ids |-> IF id = Edited THEN auth.refs \cup sudo ELSE {}]
  BY DEF Init, Sudo
<1>2. auth \in Login /\ auth.refs \subseteq Slots /\ Sudo \subseteq Slots
  BY DEF Login, Sudo, Slots
<1>3. Edited \in Ids /\ Entries = Ids \ {Edited}
  BY DEF Ids
<1>4. /\ servers[Edited] \in Row /\ servers[Edited].auth = auth
      /\ keychain[Edited] = auth.refs \cup sudo
      /\ \A id \in Entries : servers[id] = None /\ keychain[id] = {}
  BY <1>1, <1>2, <1>3 DEF Row
<1>5. /\ \A c \in Saves : save[c].pc = "new" /\ ~Running(c)
      /\ \A d \in Deletes : removal[d].pc = "new" /\ removal[d].id = None
      /\ \A id \in Ids : ~Deleted(id)
      /\ import.pc = "new" /\ import.made = <<>> /\ import.next = 1
      /\ faulty = {} /\ groups = FALSE
  BY DEF Init, Idle, Running, Deleted
<1>6. TypeOK
  <2>1. servers \in [Ids -> Row \cup {None}]
    BY <1>1, <1>2 DEF Row
  <2>2. keychain \in [Ids -> SUBSET Slots]
    BY <1>1, <1>2
  <2>3. save \in [Saves -> Save] /\ removal \in [Deletes -> Removal]
    BY DEF Init, Idle, Save, Removal, SavePC, RemovalPC
  <2>4. import \in Imported /\ history \in Seq(Notes)
    BY DEF Init, Imported, ImportPC
  <2> QED
    BY <1>5, <2>1, <2>2, <2>3, <2>4 DEF TypeOK
<1>7. SaveInv
  BY <1>5 DEF SaveInv, SaveOK, SaveClean
<1>8. RemovalInv
  BY <1>4, <1>5 DEF RemovalInv, RemovalOK
<1>9. CleanInv
  BY <1>3, <1>4, <1>5 DEF CleanInv, CleanOK
<1>10. ImportInv
  BY <1>3, <1>4, <1>5 DEF ImportInv, Working, Unmade, Pending
<1>11. LoginKept
  BY <1>3, <1>4, <1>5 DEF LoginKept
<1> QED
  BY <1>6, <1>7, <1>8, <1>9, <1>10, <1>11 DEF IInv

-----------------------------------------------------------------------------
(* Steps outside the import: they may delete what was made, or take away a *)
(* jump host that is deleted, and leave alone what was not made.           *)
LEMMA ImportKept ==
    ASSUME IInv, UNCHANGED <<import, groups>>, faulty \subseteq faulty',
           \A id \in Ids : Deleted(id) => Deleted(id)',
           \A id \in Entries : servers[id] = None =>
               /\ servers'[id] = None
               /\ Deleted(id)' => Deleted(id)
               /\ ~Deleted(id) => keychain'[id] = keychain[id],
           \A id \in Entries : servers[id] # None /\ ~Deleted(id)' =>
               /\ servers'[id] # None
               /\ \/ servers'[id].jump = servers[id].jump
                  \/ /\ servers'[id].jump = None
                     /\ \E d \in Deletes : removal'[d].id = servers[id].jump
    PROVE  ImportInv'
<1> USE DEF IInv
<1>1. \A id \in Entries : Unmade(id) => Unmade(id)'
  BY DEF Unmade, Pending, Entry
<1>2. ASSUME import.pc \in Working, NEW i \in DOMAIN import.made, MadeOK(i)
      PROVE  MadeOK(i)'
  <2>1. import.made \in Seq(Entries) /\ import.plan \in Plans
    BY <1>2 DEF TypeOK, Imported, ImportInv, Working
  <2>2. i \in DOMAIN import.plan
    <3>1. Len(import.made) = import.next - 1
      BY <1>2 DEF ImportInv
    <3>2. import.next - 1 \in 0..Len(import.plan)
      BY <1>2, <2>1 DEF ImportInv, Working, TypeOK, Imported
    <3> QED
      BY <2>1, <3>1, <3>2
  <2>3. import.plan[i] \in Planned
    BY <2>1, <2>2
  <2> DEFINE e == import.plan[i]
  <2>4. e.id \in Entries /\ e.jump \in Ids \cup {None}
    BY <2>3 DEF Planned
  <2>5. /\ import.made[i] = e.id
        /\ ~Deleted(e.id) =>
              /\ servers[e.id] # None
              /\ servers[e.id].jump \in {e.jump} \cup (IF Deleted(e.jump) THEN {None} ELSE {})
    BY <1>2 DEF MadeOK
  <2>6. ASSUME ~Deleted(e.id)'
        PROVE  /\ servers'[e.id] # None
               /\ servers'[e.id].jump \in {e.jump} \cup (IF Deleted(e.jump)' THEN {None} ELSE {})
    <3>1. ~Deleted(e.id)
      BY <2>4, <2>6 DEF Ids
    <3>2. CASE servers'[e.id].jump = servers[e.id].jump
      BY <2>4, <2>5, <2>6, <3>1, <3>2
    <3>3. CASE /\ servers'[e.id].jump = None
               /\ \E d \in Deletes : removal'[d].id = servers[e.id].jump
      <4>1. servers[e.id].jump = e.jump => Deleted(e.jump)'
        BY <3>3 DEF Deleted
      <4> QED
        BY <2>4, <2>5, <2>6, <3>1, <3>3, <4>1
    <3> QED
      BY <2>4, <2>5, <2>6, <3>1, <3>2, <3>3
  <2> QED
    BY <2>5, <2>6 DEF MadeOK
<1>3. \A id \in Entries : servers[id] = None /\ (~Deleted(id) => keychain[id] = {})
          => servers'[id] = None /\ (~Deleted(id)' => keychain'[id] = {})
  BY DEF Ids
<1> QED
  BY <1>1, <1>2, <1>3 DEF ImportInv, Working, Entry

-----------------------------------------------------------------------------
(* Saves.  A step of a save touches nothing but that save and Edited.      *)

SaveFrame(c) ==
    /\ TypeOK'
    /\ \A other \in Saves \ {c} : save'[other] = save[other] /\ ~Running(other)
    /\ UNCHANGED <<groups, removal, import>>
    /\ \A id \in Entries : keychain'[id] = keychain[id] /\ servers'[id] = servers[id]
    /\ servers'[Edited] = None <=> servers[Edited] = None
    /\ faulty \subseteq faulty' /\ faulty' \subseteq faulty \cup {Edited}

LEMMA SaveStep ==
    ASSUME IInv, NEW c \in Saves, SaveFrame(c), SaveOK(c)', SaveClean(c)', CleanOK(Edited)',
           Deleted(Edited) => Edited \in faulty' \/ keychain'[Edited] \subseteq keychain[Edited],
           ~Deleted(Edited) => servers'[Edited].auth.refs \subseteq keychain'[Edited]
    PROVE  IInv'
<1> USE DEF IInv
<1>1. Edited \in Ids /\ Ids = Entries \cup {Edited}
  BY DEF Ids
<1>2. \A id \in Ids \cup {None} : Deleted(id)' <=> Deleted(id)
  BY DEF SaveFrame, Deleted
<1>3. SaveInv'
  <2>1. ASSUME NEW other \in Saves \ {c} PROVE SaveOK(other)' /\ SaveClean(other)'
    <3>1. save'[other].pc \in {"new", "done"}
      BY DEF SaveFrame, Running
    <3> QED
      BY <3>1 DEF SaveOK, SaveClean, Running
  <2> QED
    BY <2>1 DEF SaveInv
<1>4. RemovalInv'
  <2>1. ASSUME NEW d \in Deletes PROVE RemovalOK(d)'
    <3>1. removal'[d] = removal[d] /\ RemovalOK(d)
      BY DEF SaveFrame, RemovalInv
    <3>2. CASE removal[d].id = Edited
      <4>1. Deleted(Edited)
        BY <3>2 DEF Deleted
      <4> QED
        BY <3>1, <3>2, <4>1 DEF SaveFrame, RemovalOK
    <3>3. CASE removal[d].id \in Entries
      BY <3>1, <3>3 DEF SaveFrame, RemovalOK
    <3>4. CASE removal[d].id = None
      BY <3>1, <3>4 DEF RemovalOK
    <3> QED
      BY <1>1, <3>2, <3>3, <3>4 DEF TypeOK, Removal
  <2> QED
    BY <1>1, <1>2, <2>1 DEF RemovalInv, SaveFrame
<1>5. CleanInv'
  <2>1. ASSUME NEW id \in Entries PROVE CleanOK(id)'
    <3>1. CleanOK(id) /\ id # Edited
      BY <1>1 DEF CleanInv
    <3> QED
      BY <3>1 DEF CleanOK, SaveFrame, Deleting, Pending, Entry
  <2> QED
    BY <1>1, <2>1 DEF CleanInv
<1>6. ImportInv'
  BY <1>1, <1>2, ImportKept DEF SaveFrame
<1>7. LoginKept'
  BY <1>1, <1>2 DEF LoginKept, SaveFrame, Deleted
<1> QED
  BY <1>3, <1>4, <1>5, <1>6, <1>7 DEF SaveFrame

(* Edited before a save: nobody deletes it, and it has what it uses.       *)
LEMMA Quiet ==
    ASSUME IInv, servers[Edited] # None, Edited \notin faulty,
           \A c \in Saves : ~Running(c),
           \A d \in Deletes : ~(Deleting(d) /\ removal[d].id = Edited)
    PROVE  ~Deleted(Edited) /\ keychain[Edited] \subseteq servers[Edited].auth.refs \cup Sudo
<1>1. Edited \in Ids /\ Edited \notin Entries
  BY DEF Ids
<1>2. ASSUME NEW d \in Deletes PROVE removal[d].id # Edited
  <2>1. RemovalOK(d) /\ removal[d].pc \in RemovalPC
    BY DEF IInv, RemovalInv, TypeOK, Removal
  <2> QED
    BY <1>1, <2>1 DEF RemovalOK, Deleting, RemovalPC
<1>3. CleanOK(Edited)
  BY <1>1 DEF IInv, CleanInv
<1> QED
  BY <1>1, <1>2, <1>3 DEF Deleted, CleanOK

(* Edited while it is saved.                                               *)
LEMMA Saving ==
    ASSUME IInv, NEW c \in Saves, Running(c)
    PROVE  /\ SaveOK(c) /\ SaveClean(c)
           /\ save[c].before \in Row /\ save[c].before.auth \in Login
           /\ save[c].pc \in {"write", "undo", "clean", "key", "convert"}
           /\ save[c].todo \in Seq(Slots) /\ save[c].written \subseteq Slots
           /\ \A other \in Saves \ {c} : ~Running(other)
           /\ Deleted(Edited) => Edited \in faulty
           /\ ~Deleted(Edited) =>
                 /\ servers[Edited] # None /\ servers[Edited] \in Row
                 /\ servers[Edited].auth.refs \subseteq keychain[Edited]
           /\ save[c].pc \in {"write", "undo", "clean"} =>
                 save[c].input \in Input /\ Goal(c) \in Login
<1>1. Edited \in Ids /\ Edited \notin Entries
  BY DEF Ids
<1>2. SaveOK(c) /\ SaveClean(c)
  BY DEF IInv, SaveInv
<1>3. save[c].before \in Row /\ save[c].before.auth \in Login
  BY <1>2 DEF SaveOK, Row
<1>4. /\ save[c].pc \in {"write", "undo", "clean", "key", "convert"}
      /\ save[c].todo \in Seq(Slots) /\ save[c].written \subseteq Slots
  BY DEF IInv, TypeOK, Save, SavePC, Running
<1>5. ~Deleted(Edited) =>
          /\ servers[Edited] # None /\ servers[Edited] \in Row
          /\ servers[Edited].auth.refs \subseteq keychain[Edited]
  BY <1>1 DEF IInv, RemovalInv, TypeOK, LoginKept, Deleted
<1>6. save[c].pc \in {"write", "undo", "clean"} => save[c].input \in Input /\ Goal(c) \in Login
  BY <1>2, <1>3, ResolvedFacts DEF SaveOK, Goal
<1> QED
  BY <1>2, <1>3, <1>4, <1>5, <1>6 DEF SaveOK

LEMMA BeginEditStep ==
    ASSUME IInv, NEW c \in Saves, NEW input \in Inputs, BeginEdit(c, input)
    PROVE  IInv'
<1>1. /\ save[c].pc = "new" /\ servers[Edited] # None
      /\ \A other \in Saves : ~Running(other)
      /\ save' = [save EXCEPT ![c] =
                     [pc |-> "write", before |-> servers[Edited], input |-> input,
                      todo |-> Fields(input.kind), written |-> {}]]
      /\ UNCHANGED <<servers, groups, keychain, history, removal, import>>
      /\ faulty' = IF \E d \in Deletes : Deleting(d) /\ removal[d].id = Edited
                   THEN faulty \cup {Edited} ELSE faulty
  BY DEF BeginEdit, Fault
<1>2. /\ input \in Input /\ input.kind \in Kinds /\ Fields(input.kind) \in Seq(Slots)
      /\ Edited \in Ids /\ servers[Edited] \in Row /\ servers[Edited].auth \in Login
  BY <1>1, KindFacts DEF Input, Ids, IInv, TypeOK, Row
<1>3. TypeOK'
  <2>1. save' \in [Saves -> Save]
    BY <1>1, <1>2 DEF IInv, TypeOK, Save, SavePC
  <2> QED
    BY <1>1, <1>2, <2>1 DEF IInv, TypeOK
<1>4. Deleted(Edited)' <=> Deleted(Edited)
  BY <1>1 DEF Deleted
<1>5. Edited \notin faulty' =>
          ~Deleted(Edited) /\ keychain[Edited] \subseteq servers[Edited].auth.refs \cup Sudo
  BY <1>1, Quiet
<1>6. save'[c] = [pc |-> "write", before |-> servers[Edited], input |-> input,
                  todo |-> Fields(input.kind), written |-> {}]
  BY <1>1 DEF IInv, TypeOK
<1>7. Goal(c)' = Resolved(input, servers[Edited].auth)
  BY <1>6 DEF Goal
<1>8. Goal(c)'.refs \subseteq Range(Fields(input.kind))
  BY <1>2, <1>7, ResolvedFacts
<1>9. \A other \in Saves \ {c} : save'[other] = save[other] /\ ~Running(other) /\ ~Running(other)'
  BY <1>1 DEF IInv, TypeOK, Running
<1>10. SaveOK(c)'
  BY <1>1, <1>2, <1>4, <1>5, <1>6, <1>8, <1>9 DEF SaveOK
<1>11. SaveClean(c)'
  BY <1>1, <1>5, <1>6 DEF SaveClean
<1>12. Running(c)'
  BY <1>6 DEF Running
<1>13. CleanOK(Edited)'
  BY <1>12 DEF CleanOK
<1>14. SaveFrame(c)
  BY <1>1, <1>2, <1>3, <1>9 DEF SaveFrame
<1>15. ~Deleted(Edited) => servers'[Edited].auth.refs \subseteq keychain'[Edited]
  BY <1>1, <1>2 DEF IInv, LoginKept, Deleted
<1> QED
  BY <1>1, <1>10, <1>11, <1>13, <1>14, <1>15, SaveStep

(* A field that is passed over or written leaves the rest to be done.      *)
LEMMA FieldDone ==
    ASSUME IInv, NEW c \in Saves, save[c].pc = "write", save[c].todo # <<>>
    PROVE  /\ Running(c) /\ Tail(save[c].todo) \in Seq(Slots)
           /\ Head(save[c].todo) \in Slots
           /\ Range(save[c].todo) = {Head(save[c].todo)} \cup Range(Tail(save[c].todo))
  BY RangeOfTail, Saving DEF Running

(* Steps that leave servers and keychain alone, and those after which the  *)
(* save is over.                                                           *)
LEMMA SaveGoesOn ==
    ASSUME IInv, NEW c \in Saves, Running(c), NEW record \in Save,
           save' = [save EXCEPT ![c] = record],
           record.before = save[c].before, record.pc \notin {"new", "done"},
           UNCHANGED <<groups, history, removal, import>>,
           servers' \in [Ids -> Row \cup {None}], keychain' \in [Ids -> SUBSET Slots],
           \A id \in Entries : keychain'[id] = keychain[id] /\ servers'[id] = servers[id],
           servers'[Edited] = None <=> servers[Edited] = None,
           UNCHANGED faulty, SaveOK(c)', SaveClean(c)',
           ~Deleted(Edited) => servers'[Edited].auth.refs \subseteq keychain'[Edited]
    PROVE  IInv'
<1>1. TypeOK' /\ save'[c] = record
  BY DEF IInv, TypeOK
<1>2. \A other \in Saves \ {c} : save'[other] = save[other] /\ ~Running(other)
  BY Saving DEF IInv, TypeOK
<1>3. SaveFrame(c)
  BY <1>1, <1>2 DEF SaveFrame
<1>4. CleanOK(Edited)'
  BY <1>1 DEF CleanOK, Running
<1>5. Deleted(Edited) => Edited \in faulty'
  BY Saving
<1> QED
  BY <1>3, <1>4, <1>5, SaveStep

LEMMA IdleSave == [Idle EXCEPT !.pc = "done"] \in Save
<1> DEFINE empty == <<>>
<1>1. Idle = [pc |-> "new", before |-> None, input |-> None, todo |-> empty, written |-> {}]
  BY DEF Idle
<1>2. empty \in Seq(Slots)
  BY EmptySeq
<1> HIDE DEF empty
<1> QED
  BY <1>1, <1>2 DEF Save, SavePC

LEMMA SaveIsOver ==
    ASSUME IInv, NEW c \in Saves, Running(c), save' = Ended(c),
           UNCHANGED <<groups, history, removal, import>>,
           servers' \in [Ids -> Row \cup {None}], keychain' \in [Ids -> SUBSET Slots],
           \A id \in Entries : keychain'[id] = keychain[id] /\ servers'[id] = servers[id],
           servers'[Edited] = None <=> servers[Edited] = None,
           faulty' = faulty \/ faulty' = faulty \cup {Edited},
           ~Deleted(Edited) => servers'[Edited].auth.refs \subseteq keychain'[Edited],
           ~Deleted(Edited) /\ Edited \notin faulty' =>
               keychain'[Edited] \subseteq servers'[Edited].auth.refs \cup Sudo
    PROVE  IInv'
<1>1. Edited \in Ids
  BY DEF Ids
<1>2. [Idle EXCEPT !.pc = "done"] \in Save
  BY IdleSave
<1>3. TypeOK' /\ save'[c] = [Idle EXCEPT !.pc = "done"]
  BY <1>1, <1>2 DEF IInv, TypeOK, Ended
<1>4. \A other \in Saves \ {c} : save'[other] = save[other] /\ ~Running(other)
  BY Saving DEF IInv, TypeOK, Ended
<1>5. SaveFrame(c)
  BY <1>3, <1>4 DEF SaveFrame
<1>6. save'[c].pc = "done"
  BY <1>3 DEF Idle
<1>7. SaveOK(c)' /\ SaveClean(c)'
  BY <1>6 DEF SaveOK, SaveClean, Running
<1>8. Deleted(Edited) => Edited \in faulty
  BY Saving
<1>9. CleanOK(Edited)'
  <2>1. ~Deleted(Edited) => servers'[Edited] # None
    BY Saving
  <2> QED
    BY <1>8, <2>1 DEF CleanOK
<1> QED
  BY <1>5, <1>7, <1>8, <1>9, SaveStep

LEMMA FieldMissingStep == ASSUME IInv, NEW c \in Saves, FieldMissing(c) PROVE IInv'
<1>1. Running(c) /\ save[c].pc = "write"
  BY DEF FieldMissing, Running
<1>2. [save[c] EXCEPT !.pc = "undo"] \in Save
  <2>1. save[c] \in Save
    BY DEF IInv, TypeOK
  <2> QED
    BY <2>1 DEF Save, SavePC
<1>3. save'[c] = [save[c] EXCEPT !.pc = "undo"]
  BY DEF FieldMissing, IInv, TypeOK
<1>4. SaveOK(c)' /\ SaveClean(c)'
  <2>1. save'[c].before = save[c].before /\ save'[c].input = save[c].input
        /\ save'[c].pc = "undo" /\ save'[c].written = save[c].written /\ Goal(c)' = Goal(c)
    BY <1>2, <1>3 DEF IInv, TypeOK, Save, Goal
  <2>2. \A other \in Saves \ {c} : ~Running(other)'
    BY <1>1, Saving DEF FieldMissing, Running, IInv, TypeOK
  <2> QED
    BY <1>1, <2>1, <2>2, Saving DEF FieldMissing, SaveOK, SaveClean, Deleted
<1> QED
  BY <1>1, <1>2, <1>3, <1>4, Saving, SaveGoesOn DEF FieldMissing, IInv, TypeOK, Save

LEMMA KeepFieldStep == ASSUME IInv, NEW c \in Saves, KeepField(c) PROVE IInv'
<1>1. Running(c) /\ save[c].pc = "write" /\ save[c].todo # <<>>
  BY DEF KeepField, Running
<1> DEFINE slot == Head(save[c].todo)
           record == [save[c] EXCEPT !.todo = Tail(@)]
<1>2. /\ Tail(save[c].todo) \in Seq(Slots)
      /\ Range(save[c].todo) = {slot} \cup Range(Tail(save[c].todo))
  BY <1>1, FieldDone
<1>3. record \in Save /\ save'[c] = record
  BY <1>2 DEF KeepField, IInv, TypeOK, Save, SavePC
<1>4. /\ save'[c].before = save[c].before /\ save'[c].input = save[c].input
      /\ save'[c].pc = "write" /\ save'[c].written = save[c].written
      /\ save'[c].todo = Tail(save[c].todo) /\ Goal(c)' = Goal(c)
  BY <1>1, <1>3 DEF IInv, TypeOK, Save, Goal
<1>5. ~Deleted(Edited) /\ slot \in Goal(c).refs => slot \in keychain[Edited]
  <2>1. /\ slot \notin save[c].input.given
        /\ ~Missing(save[c].input, save[c].before.auth, slot)
    BY DEF KeepField
  <2>2. slot \in Goal(c).refs => slot \in save[c].before.auth.refs
    BY <1>1, <2>1, Saving, ResolvedFacts DEF Goal
  <2> QED
    BY <1>1, <2>2, Saving DEF SaveOK
<1>6. \A other \in Saves \ {c} : ~Running(other)'
  BY <1>1, Saving DEF KeepField, Running, IInv, TypeOK
<1>7. SaveOK(c)' /\ SaveClean(c)'
  BY <1>1, <1>2, <1>4, <1>5, <1>6, Saving, ZenonT(60) DEF KeepField, SaveOK, SaveClean, Deleted
<1> QED
  BY <1>1, <1>3, <1>4, <1>7, Saving, SaveGoesOn DEF KeepField, IInv, TypeOK

LEMMA WriteFieldStep == ASSUME IInv, NEW c \in Saves, WriteField(c) PROVE IInv'
<1>1. Running(c) /\ save[c].pc = "write" /\ save[c].todo # <<>>
  BY DEF WriteField, Running
<1> DEFINE slot == Head(save[c].todo)
           record == [save[c] EXCEPT !.todo = Tail(@), !.written = @ \cup {slot}]
<1>2. /\ Tail(save[c].todo) \in Seq(Slots) /\ slot \in Slots
      /\ Range(save[c].todo) = {slot} \cup Range(Tail(save[c].todo))
  BY <1>1, FieldDone
<1>3. record \in Save /\ save'[c] = record
  BY <1>1, <1>2, ZenonT(60) DEF WriteField, IInv, TypeOK, Save, SavePC
<1>4. /\ save'[c].before = save[c].before /\ save'[c].input = save[c].input
      /\ save'[c].pc = "write" /\ save'[c].written = save[c].written \cup {slot}
      /\ save'[c].todo = Tail(save[c].todo) /\ Goal(c)' = Goal(c)
  BY <1>1, <1>3 DEF IInv, TypeOK, Save, Goal
<1>5. slot \in Goal(c).refs \cup Sudo
  BY <1>1, Saving, ResolvedFacts DEF WriteField, Goal
<1>6. /\ keychain' \in [Ids -> SUBSET Slots]
      /\ keychain'[Edited] = keychain[Edited] \cup {slot}
      /\ \A id \in Entries : keychain'[id] = keychain[id]
  BY <1>2 DEF WriteField, IInv, TypeOK, Ids
<1>7. \A other \in Saves \ {c} : ~Running(other)'
  BY <1>1, Saving DEF WriteField, Running, IInv, TypeOK
<1>8. SaveOK(c)' /\ SaveClean(c)'
  BY <1>1, <1>2, <1>4, <1>5, <1>6, <1>7, Saving, ZenonT(60) DEF WriteField, SaveOK, SaveClean, Deleted
<1>9. /\ save' = [save EXCEPT ![c] = record]
      /\ UNCHANGED <<servers, groups, history, removal, import, faulty>>
      /\ servers' \in [Ids -> Row \cup {None}]
  BY DEF WriteField, IInv, TypeOK
<1>10. ~Deleted(Edited) => servers'[Edited].auth.refs \subseteq keychain'[Edited]
  BY <1>1, <1>6, <1>9, Saving
<1> HIDE DEF slot, record
<1> QED
  BY <1>1, <1>3, <1>4, <1>6, <1>8, <1>9, <1>10, SaveGoesOn

LEMMA WriteFailsStep == ASSUME IInv, NEW c \in Saves, WriteFails(c) PROVE IInv'
<1>1. Running(c) /\ save[c].pc = "write" /\ save[c].todo # <<>>
  BY DEF WriteFails, Running
<1> DEFINE slot == Head(save[c].todo)
           record == [save[c] EXCEPT !.pc = "undo", !.written = @ \cup {slot}]
<1>2. slot \in Slots
  BY <1>1, FieldDone
<1>3. record \in Save /\ save'[c] = record
  BY <1>1, <1>2 DEF WriteFails, IInv, TypeOK, Save, SavePC
<1>4. /\ save'[c].before = save[c].before /\ save'[c].input = save[c].input
      /\ save'[c].pc = "undo" /\ save'[c].written = save[c].written \cup {slot}
      /\ Goal(c)' = Goal(c)
  BY <1>1, <1>3 DEF IInv, TypeOK, Save, Goal
<1>5. slot \in Goal(c).refs \cup Sudo
  BY <1>1, Saving, ResolvedFacts DEF WriteFails, Goal
<1>6. /\ keychain' \in [Ids -> SUBSET Slots]
      /\ keychain[Edited] \subseteq keychain'[Edited]
      /\ keychain'[Edited] \subseteq keychain[Edited] \cup {slot}
      /\ \A id \in Entries : keychain'[id] = keychain[id]
  BY <1>2 DEF WriteFails, IInv, TypeOK, Ids
<1>7. \A other \in Saves \ {c} : ~Running(other)'
  BY <1>1, Saving DEF WriteFails, Running, IInv, TypeOK
<1>8. SaveOK(c)' /\ SaveClean(c)'
  BY <1>1, <1>2, <1>4, <1>5, <1>6, <1>7, Saving, ZenonT(60) DEF WriteFails, SaveOK, SaveClean, Deleted
<1>9. /\ save' = [save EXCEPT ![c] = record]
      /\ UNCHANGED <<servers, groups, history, removal, import, faulty>>
      /\ servers' \in [Ids -> Row \cup {None}]
  BY DEF WriteFails, IInv, TypeOK
<1>10. ~Deleted(Edited) => servers'[Edited].auth.refs \subseteq keychain'[Edited]
  BY <1>1, <1>6, <1>9, Saving
<1> HIDE DEF slot, record
<1> QED
  BY <1>1, <1>3, <1>4, <1>6, <1>8, <1>9, <1>10, SaveGoesOn

LEMMA StoreEditStep == ASSUME IInv, NEW c \in Saves, StoreEdit(c) PROVE IInv'
<1>1. Running(c) /\ save[c].pc = "write" /\ save[c].todo = <<>>
  BY DEF StoreEdit, Running
<1> DEFINE record == [save[c] EXCEPT !.pc = "clean"]
<1>2. record \in Save /\ save'[c] = record
  <2>1. save[c] \in Save
    BY DEF IInv, TypeOK
  <2> QED
    BY <2>1 DEF StoreEdit, IInv, TypeOK, Save, SavePC
<1>3. /\ save'[c].before = save[c].before /\ save'[c].input = save[c].input
      /\ save'[c].pc = "clean" /\ save'[c].written = save[c].written
      /\ Goal(c)' = Goal(c)
  BY <1>1, <1>2 DEF IInv, TypeOK, Save, Goal
<1>4. /\ servers'[Edited] = [save[c].before EXCEPT !.auth = Goal(c)]
      /\ servers'[Edited] \in Row /\ servers'[Edited].auth = Goal(c)
      /\ \A id \in Entries : servers'[id] = servers[id]
      /\ servers' \in [Ids -> Row \cup {None}]
  <2>1. save[c].before \in Row /\ Goal(c) \in Login
    BY <1>1, Saving
  <2>2. [save[c].before EXCEPT !.auth = Goal(c)] \in Row
    BY <2>1 DEF Row
  <2>3. servers' = [servers EXCEPT ![Edited] = [save[c].before EXCEPT !.auth = Goal(c)]]
    BY DEF StoreEdit, Goal
  <2> QED
    BY <2>1, <2>2, <2>3 DEF IInv, TypeOK, Ids, Row
<1>5. \A other \in Saves \ {c} : ~Running(other)'
  BY <1>1, Saving DEF StoreEdit, Running, IInv, TypeOK
<1>6. ~Deleted(Edited) => Goal(c).refs \subseteq keychain[Edited]
  BY <1>1, Saving, NothingInEmpty DEF SaveOK
<1>7. SaveOK(c)' /\ SaveClean(c)'
  BY <1>1, <1>3, <1>4, <1>5, Saving DEF StoreEdit, SaveOK, SaveClean, Deleted
<1>8. /\ save' = [save EXCEPT ![c] = record]
      /\ UNCHANGED <<keychain, groups, history, removal, import, faulty>>
      /\ keychain' \in [Ids -> SUBSET Slots]
      /\ servers[Edited] # None /\ servers'[Edited] # None
  BY <1>4, ZenonT(60) DEF StoreEdit, IInv, TypeOK
<1> HIDE DEF record
<1> QED
  BY <1>1, <1>2, <1>3, <1>4, <1>6, <1>7, <1>8, SaveGoesOn, ZenonT(60)

LEMMA StoreEditFailsStep == ASSUME IInv, NEW c \in Saves, StoreEditFails(c) PROVE IInv'
<1>1. Running(c) /\ save[c].pc = "write"
  BY DEF StoreEditFails, Running
<1>2. [save[c] EXCEPT !.pc = "undo"] \in Save
  <2>1. save[c] \in Save
    BY DEF IInv, TypeOK
  <2> QED
    BY <2>1 DEF Save, SavePC
<1>3. save'[c] = [save[c] EXCEPT !.pc = "undo"]
  BY DEF StoreEditFails, IInv, TypeOK
<1>4. SaveOK(c)' /\ SaveClean(c)'
  <2>1. save'[c].before = save[c].before /\ save'[c].input = save[c].input
        /\ save'[c].pc = "undo" /\ save'[c].written = save[c].written /\ Goal(c)' = Goal(c)
    BY <1>2, <1>3 DEF IInv, TypeOK, Save, Goal
  <2>2. \A other \in Saves \ {c} : ~Running(other)'
    BY <1>1, Saving DEF StoreEditFails, Running, IInv, TypeOK
  <2> QED
    BY <1>1, <2>1, <2>2, Saving DEF StoreEditFails, SaveOK, SaveClean, Deleted
<1> QED
  BY <1>1, <1>2, <1>3, <1>4, Saving, SaveGoesOn DEF StoreEditFails, IInv, TypeOK, Save

(* Deleting secrets leaves the others alone, and either works or counts as *)
(* a fault.                                                                *)
LEMMA DeletedRefs ==
    ASSUME TypeOK, NEW id \in Ids, NEW refs, DeleteRefs(id, refs)
    PROVE  /\ keychain' \in [Ids -> SUBSET Slots]
           /\ \A other \in Ids \ {id} : keychain'[other] = keychain[other]
           /\ keychain[id] \ refs \subseteq keychain'[id] /\ keychain'[id] \subseteq keychain[id]
           /\ \/ faulty' = faulty \cup {id}
              \/ faulty' = faulty /\ keychain'[id] = keychain[id] \ refs
<1>1. PICK kept \in SUBSET (refs \cap keychain[id]) :
        /\ keychain' = [keychain EXCEPT ![id] = (@ \ refs) \cup kept]
        /\ faulty' = IF kept # {} THEN faulty \cup {id} ELSE faulty
  BY DEF DeleteRefs, Fault
<1>2. keychain'[id] = (keychain[id] \ refs) \cup kept
  BY <1>1 DEF TypeOK
<1> QED
  BY <1>1, <1>2 DEF TypeOK

LEMMA CleanUpStep == ASSUME IInv, NEW c \in Saves, CleanUp(c) PROVE IInv'
<1>1. Running(c) /\ save[c].pc = "clean"
  BY DEF CleanUp, Running
<1>2. Edited \in Ids /\ Edited \notin Entries /\ Entries \subseteq Ids
  BY DEF Ids
<1>3. /\ DeleteRefs(Edited, save[c].before.auth.refs \ Goal(c).refs)
      /\ save' = Ended(c) /\ UNCHANGED <<servers, groups, history, removal, import>>
  BY DEF CleanUp, Goal
<1>4. /\ keychain' \in [Ids -> SUBSET Slots]
      /\ \A other \in Ids \ {Edited} : keychain'[other] = keychain[other]
      /\ keychain[Edited] \ (save[c].before.auth.refs \ Goal(c).refs) \subseteq keychain'[Edited]
      /\ \/ faulty' = faulty \cup {Edited}
         \/ /\ faulty' = faulty
            /\ keychain'[Edited] = keychain[Edited] \ (save[c].before.auth.refs \ Goal(c).refs)
  BY <1>2, <1>3, DeletedRefs DEF IInv
<1>5. /\ ~Deleted(Edited) => servers[Edited].auth = Goal(c)
      /\ Edited \notin faulty =>
            keychain[Edited] \subseteq save[c].before.auth.refs \cup Goal(c).refs \cup Sudo
  BY <1>1, Saving DEF SaveOK, SaveClean
<1>6. ~Deleted(Edited) => servers'[Edited].auth.refs \subseteq keychain'[Edited]
  BY <1>1, <1>3, <1>4, <1>5, Saving
<1>7. ~Deleted(Edited) /\ Edited \notin faulty' =>
          keychain'[Edited] \subseteq servers'[Edited].auth.refs \cup Sudo
  BY <1>3, <1>4, <1>5
<1>8. /\ \A id \in Entries : keychain'[id] = keychain[id] /\ servers'[id] = servers[id]
      /\ servers' \in [Ids -> Row \cup {None}]
  BY <1>2, <1>3, <1>4 DEF IInv, TypeOK
<1> QED
  BY <1>1, <1>3, <1>4, <1>6, <1>7, <1>8, SaveIsOver

LEMMA RollBackStep == ASSUME IInv, NEW c \in Saves, RollBack(c) PROVE IInv'
<1>1. Running(c) /\ save[c].pc = "undo"
  BY DEF RollBack, Running
<1>2. Edited \in Ids /\ Edited \notin Entries /\ Entries \subseteq Ids
  BY DEF Ids
<1> DEFINE refs == save[c].written \ (save[c].before.auth.refs \cup Sudo)
<1>3. /\ DeleteRefs(Edited, refs)
      /\ save' = Ended(c) /\ UNCHANGED <<servers, groups, history, removal, import>>
  BY DEF RollBack, Sudo
<1>4. /\ keychain' \in [Ids -> SUBSET Slots]
      /\ \A other \in Ids \ {Edited} : keychain'[other] = keychain[other]
      /\ keychain[Edited] \ refs \subseteq keychain'[Edited]
      /\ \/ faulty' = faulty \cup {Edited}
         \/ faulty' = faulty /\ keychain'[Edited] = keychain[Edited] \ refs
  BY <1>2, <1>3, DeletedRefs DEF IInv
<1>5. /\ ~Deleted(Edited) => servers[Edited].auth = save[c].before.auth
      /\ Edited \notin faulty =>
            keychain[Edited] \subseteq save[c].before.auth.refs \cup save[c].written \cup Sudo
  BY <1>1, Saving DEF SaveOK, SaveClean
<1>6. ~Deleted(Edited) => servers'[Edited].auth.refs \subseteq keychain'[Edited]
  BY <1>1, <1>3, <1>4, <1>5, Saving
<1>7. ~Deleted(Edited) /\ Edited \notin faulty' =>
          keychain'[Edited] \subseteq servers'[Edited].auth.refs \cup Sudo
  BY <1>3, <1>4, <1>5
<1>8. /\ \A id \in Entries : keychain'[id] = keychain[id] /\ servers'[id] = servers[id]
      /\ servers' \in [Ids -> Row \cup {None}]
  BY <1>2, <1>3, <1>4 DEF IInv, TypeOK
<1> HIDE DEF refs
<1> QED
  BY <1>1, <1>3, <1>4, <1>6, <1>7, <1>8, SaveIsOver

-----------------------------------------------------------------------------
(* The conversion of an identity file.                                     *)

LEMMA BeginConvertStep == ASSUME IInv, NEW c \in Saves, BeginConvert(c) PROVE IInv'
<1> DEFINE key == keychain[Edited] \cap {"private_key"}
           record == [Idle EXCEPT !.pc = "key", !.before = servers[Edited], !.written = key]
<1>1. /\ save[c].pc = "new" /\ servers[Edited] # None
      /\ \A other \in Saves : ~Running(other)
      /\ servers[Edited].auth.kind = "identity_file"
      /\ save' = [save EXCEPT ![c] = record]
      /\ UNCHANGED <<servers, groups, keychain, history, removal, import>>
      /\ faulty' = IF \E d \in Deletes : Deleting(d) /\ removal[d].id = Edited
                   THEN faulty \cup {Edited} ELSE faulty
  BY DEF BeginConvert, Fault
<1>2. /\ Edited \in Ids /\ servers[Edited] \in Row /\ servers[Edited].auth \in Login
      /\ key \subseteq Slots
  BY <1>1 DEF Ids, IInv, TypeOK, Row
<1>3. /\ record \in Save /\ record.pc = "key" /\ record.before = servers[Edited]
      /\ record.written = key
  <2> DEFINE empty == <<>>
  <2>1. Idle = [pc |-> "new", before |-> None, input |-> None, todo |-> empty, written |-> {}]
    BY DEF Idle
  <2>2. empty \in Seq(Slots)
    BY EmptySeq
  <2> HIDE DEF empty, key
  <2> QED
    BY <1>2, <2>1, <2>2 DEF Save, SavePC
<1> HIDE DEF record
<1>4. save'[c] = record /\ save' \in [Saves -> Save]
  BY <1>1, <1>3 DEF IInv, TypeOK
<1>5. TypeOK'
  BY <1>1, <1>2, <1>4 DEF IInv, TypeOK
<1>6. Deleted(Edited)' <=> Deleted(Edited)
  BY <1>1 DEF Deleted
<1>7. Edited \notin faulty' =>
          ~Deleted(Edited) /\ keychain[Edited] \subseteq servers[Edited].auth.refs \cup Sudo
  BY <1>1, Quiet
<1>8. "private_key" \notin servers[Edited].auth.refs \cup Sudo
  BY <1>1, <1>2, KeyFacts DEF Login, Sudo
<1>9. \A other \in Saves \ {c} : save'[other] = save[other] /\ ~Running(other) /\ ~Running(other)'
  BY <1>1 DEF IInv, TypeOK, Running
<1>10. SaveOK(c)'
  BY <1>1, <1>2, <1>3, <1>4, <1>6, <1>7, <1>9 DEF SaveOK
<1>11. SaveClean(c)'
  BY <1>1, <1>3, <1>4, <1>7, <1>8 DEF SaveClean
<1>12. Running(c)'
  BY <1>3, <1>4 DEF Running
<1>13. CleanOK(Edited)'
  BY <1>12 DEF CleanOK
<1>14. SaveFrame(c)
  BY <1>1, <1>2, <1>5, <1>9 DEF SaveFrame
<1>15. ~Deleted(Edited) => servers'[Edited].auth.refs \subseteq keychain'[Edited]
  BY <1>1, <1>2 DEF IInv, LoginKept, Deleted
<1> QED
  BY <1>1, <1>10, <1>11, <1>13, <1>14, <1>15, SaveStep

LEMMA ConvertRefusedStep == ASSUME IInv, NEW c \in Saves, ConvertRefused(c) PROVE IInv'
<1>1. Running(c) /\ save[c].pc = "key"
  BY DEF ConvertRefused, Running
<1>2. Edited \in Ids /\ Edited \notin Entries /\ Entries \subseteq Ids
  BY DEF Ids
<1>3. PICK stored \in SUBSET {"private_key"} :
        /\ keychain' = [keychain EXCEPT ![Edited] = @ \cup stored]
        /\ faulty' = IF stored # {} THEN faulty \cup {Edited} ELSE faulty
  BY DEF ConvertRefused, Fault
<1>4. save' = Ended(c) /\ UNCHANGED <<servers, groups, history, removal, import>>
  BY DEF ConvertRefused
<1>5. /\ keychain' \in [Ids -> SUBSET Slots]
      /\ \A id \in Entries : keychain'[id] = keychain[id]
      /\ keychain'[Edited] = keychain[Edited] \cup stored
  BY <1>2, <1>3 DEF IInv, TypeOK, Slots
<1>6. /\ ~Deleted(Edited) => servers[Edited].auth = save[c].before.auth
      /\ Edited \notin faulty => keychain[Edited] \subseteq save[c].before.auth.refs \cup Sudo
  BY <1>1, Saving DEF SaveOK, SaveClean
<1>7. ~Deleted(Edited) => servers'[Edited].auth.refs \subseteq keychain'[Edited]
  BY <1>1, <1>4, <1>5, Saving
<1>8. ~Deleted(Edited) /\ Edited \notin faulty' =>
          keychain'[Edited] \subseteq servers'[Edited].auth.refs \cup Sudo
  BY <1>3, <1>4, <1>5, <1>6
<1>9. servers' \in [Ids -> Row \cup {None}]
  BY <1>4 DEF IInv, TypeOK
<1>10. faulty' = faulty \/ faulty' = faulty \cup {Edited}
  BY <1>3
<1> QED
  BY <1>1, <1>4, <1>5, <1>7, <1>8, <1>9, <1>10, SaveIsOver

LEMMA WriteKeyStep == ASSUME IInv, NEW c \in Saves, WriteKey(c) PROVE IInv'
<1>1. Running(c) /\ save[c].pc = "key"
  BY DEF WriteKey, Running
<1> DEFINE record == [save[c] EXCEPT !.pc = "convert"]
<1>2. record \in Save /\ save'[c] = record
  <2>1. save[c] \in Save
    BY DEF IInv, TypeOK
  <2> QED
    BY <2>1 DEF WriteKey, IInv, TypeOK, Save, SavePC
<1>3. /\ save'[c].before = save[c].before /\ save'[c].pc = "convert"
      /\ save'[c].written = save[c].written
  BY <1>2 DEF IInv, TypeOK, Save
<1>4. /\ keychain' \in [Ids -> SUBSET Slots]
      /\ keychain'[Edited] = keychain[Edited] \cup {"private_key"}
      /\ \A id \in Entries : keychain'[id] = keychain[id]
  BY DEF WriteKey, IInv, TypeOK, Ids, Slots
<1>5. \A other \in Saves \ {c} : ~Running(other)'
  BY <1>1, Saving DEF WriteKey, Running, IInv, TypeOK
<1>6. SaveOK(c)' /\ SaveClean(c)'
  BY <1>1, <1>3, <1>4, <1>5, Saving DEF WriteKey, SaveOK, SaveClean, Deleted
<1>7. /\ save' = [save EXCEPT ![c] = record]
      /\ UNCHANGED <<servers, groups, history, removal, import, faulty>>
      /\ servers' \in [Ids -> Row \cup {None}]
  BY DEF WriteKey, IInv, TypeOK
<1>8. ~Deleted(Edited) => servers'[Edited].auth.refs \subseteq keychain'[Edited]
  BY <1>1, <1>4, <1>7, Saving
<1> HIDE DEF record
<1> QED
  BY <1>1, <1>2, <1>3, <1>4, <1>6, <1>7, <1>8, SaveGoesOn

LEMMA StoreConvertedStep == ASSUME IInv, NEW c \in Saves, StoreConverted(c) PROVE IInv'
<1>1. Running(c) /\ save[c].pc = "convert"
  BY DEF StoreConverted, Running
<1> DEFINE auth == [kind |-> "private_key", refs |-> save[c].before.auth.refs \cup {"private_key"}]
<1>2. save[c].before \in Row /\ save[c].before.auth \in Login
      /\ save[c].before.auth.kind = "identity_file"
  BY <1>1, Saving DEF SaveOK
<1>3. auth \in Login
  BY <1>2, KeyFacts DEF Login, Kinds, Slots
<1>4. /\ servers' = [servers EXCEPT ![Edited] = [save[c].before EXCEPT !.auth = auth]]
      /\ servers[Edited] # None /\ save' = Ended(c)
      /\ UNCHANGED <<groups, keychain, history, removal, import, faulty>>
  BY <1>2 DEF StoreConverted, Row, Login
<1>5. auth.refs = save[c].before.auth.refs \cup {"private_key"}
  OBVIOUS
<1> HIDE DEF auth
<1>6. /\ servers'[Edited] \in Row /\ servers'[Edited].auth = auth /\ servers'[Edited] # None
      /\ \A id \in Entries : servers'[id] = servers[id]
      /\ servers' \in [Ids -> Row \cup {None}]
  <2>1. /\ [save[c].before EXCEPT !.auth = auth] \in Row
        /\ [save[c].before EXCEPT !.auth = auth].auth = auth
    BY <1>2, <1>3 DEF Row
  <2> QED
    BY <1>4, <2>1 DEF IInv, TypeOK, Ids
<1>7. /\ ~Deleted(Edited) =>
            /\ servers[Edited].auth = save[c].before.auth /\ "private_key" \in keychain[Edited]
            /\ servers[Edited].auth.refs \subseteq keychain[Edited]
      /\ Edited \notin faulty =>
            keychain[Edited] \subseteq save[c].before.auth.refs \cup {"private_key"} \cup Sudo
  BY <1>1, Saving DEF SaveOK, SaveClean
<1>8. /\ ~Deleted(Edited) => servers'[Edited].auth.refs \subseteq keychain'[Edited]
      /\ ~Deleted(Edited) /\ Edited \notin faulty' =>
            keychain'[Edited] \subseteq servers'[Edited].auth.refs \cup Sudo
  BY <1>4, <1>5, <1>6, <1>7
<1>9. keychain' \in [Ids -> SUBSET Slots]
  BY <1>4 DEF IInv, TypeOK
<1> QED
  BY <1>1, <1>4, <1>6, <1>8, <1>9, SaveIsOver

LEMMA StoreConvertedFailsStep ==
    ASSUME IInv, NEW c \in Saves, StoreConvertedFails(c) PROVE IInv'
<1>1. Running(c) /\ save[c].pc = "convert"
  BY DEF StoreConvertedFails, Running
<1>2. Edited \in Ids /\ Edited \notin Entries /\ Entries \subseteq Ids
  BY DEF Ids
<1>3. /\ save[c].before.auth \in Login /\ save[c].before.auth.kind = "identity_file"
      /\ ~Deleted(Edited) =>
            /\ servers[Edited].auth = save[c].before.auth
            /\ servers[Edited].auth.refs \subseteq keychain[Edited]
      /\ Edited \notin faulty =>
            /\ save[c].written = {}
            /\ keychain[Edited] \subseteq save[c].before.auth.refs \cup {"private_key"} \cup Sudo
  BY <1>1, Saving DEF SaveOK, SaveClean
<1>4. "private_key" \notin save[c].before.auth.refs
  BY <1>3, KeyFacts DEF Login
<1>5. save' = Ended(c) /\ UNCHANGED <<servers, groups, history, removal, import>>
      /\ servers' \in [Ids -> Row \cup {None}]
  BY DEF StoreConvertedFails, IInv, TypeOK
<1>6. CASE save[c].written = {} /\ DeleteRefs(Edited, {"private_key"})
  <2>1. /\ keychain' \in [Ids -> SUBSET Slots]
        /\ \A other \in Ids \ {Edited} : keychain'[other] = keychain[other]
        /\ keychain[Edited] \ {"private_key"} \subseteq keychain'[Edited]
        /\ \/ faulty' = faulty \cup {Edited}
           \/ faulty' = faulty /\ keychain'[Edited] = keychain[Edited] \ {"private_key"}
    BY <1>2, <1>6, DeletedRefs DEF IInv
  <2>2. ~Deleted(Edited) => servers'[Edited].auth.refs \subseteq keychain'[Edited]
    BY <1>3, <1>4, <1>5, <2>1
  <2>3. ~Deleted(Edited) /\ Edited \notin faulty' =>
            keychain'[Edited] \subseteq servers'[Edited].auth.refs \cup Sudo
    BY <1>3, <1>5, <2>1
  <2>4. \A id \in Entries : keychain'[id] = keychain[id] /\ servers'[id] = servers[id]
    BY <1>2, <1>5, <2>1
  <2> QED
    BY <1>1, <1>5, <2>1, <2>2, <2>3, <2>4, SaveIsOver
<1>7. CASE /\ save[c].written # {} /\ UNCHANGED faulty
           /\ keychain' = [keychain EXCEPT ![Edited] = @ \cup {"private_key"}]
  <2>1. /\ keychain' \in [Ids -> SUBSET Slots]
        /\ keychain'[Edited] = keychain[Edited] \cup {"private_key"}
        /\ \A id \in Entries : keychain'[id] = keychain[id] /\ servers'[id] = servers[id]
    BY <1>2, <1>5, <1>7 DEF IInv, TypeOK, Slots
  <2>2. Edited \in faulty'
    BY <1>3, <1>7
  <2>3. ~Deleted(Edited) => servers'[Edited].auth.refs \subseteq keychain'[Edited]
    BY <1>3, <1>5, <2>1
  <2> QED
    BY <1>1, <1>5, <1>7, <2>1, <2>2, <2>3, SaveIsOver
<1> QED
  BY <1>6, <1>7 DEF StoreConvertedFails

-----------------------------------------------------------------------------
(* What the other calls leave alone.                                       *)

LEMMA SavesKept ==
    ASSUME IInv, UNCHANGED save, faulty \subseteq faulty',
           Deleted(Edited) => Deleted(Edited)',
           Deleted(Edited)' => \/ Edited \in faulty' \/ Deleted(Edited)
                               \/ \A c \in Saves : ~Running(c),
           keychain'[Edited] \subseteq keychain[Edited],
           ~Deleted(Edited)' =>
               /\ keychain[Edited] \ Sudo \subseteq keychain'[Edited]
               /\ servers'[Edited].auth = servers[Edited].auth
    PROVE  SaveInv'
<1> SUFFICES ASSUME NEW c \in Saves PROVE SaveOK(c)' /\ SaveClean(c)'
  BY DEF SaveInv
<1>1. SaveOK(c) /\ SaveClean(c)
  BY DEF IInv, SaveInv
<1>2. /\ Goal(c)' = Goal(c) /\ save'[c] = save[c]
      /\ \A other \in Saves : Running(other)' <=> Running(other)
  BY DEF Goal, Running
<1>3. save[c].pc = "write" => Goal(c).refs \cap Sudo = {}
  <2>1. save[c].pc = "write" => Goal(c) \in Login
    BY Saving DEF Running
  <2>2. \A auth \in Login : auth.refs \cap Sudo = {}
    BY KindFacts DEF Login, Sudo
  <2> QED
    BY <2>1, <2>2
<1>4. SaveOK(c)'
  <2>1. Running(c) => (Edited \notin faulty' => ~Deleted(Edited)')
    BY <1>1 DEF SaveOK
  <2>2. save[c].pc = "write" /\ ~Deleted(Edited)' =>
            Goal(c).refs \subseteq keychain'[Edited] \cup Range(save[c].todo)
    BY <1>1, <1>3 DEF SaveOK
  <2>3. save[c].pc = "convert" /\ ~Deleted(Edited)' => "private_key" \in keychain'[Edited]
    BY <1>1 DEF SaveOK, Sudo
  <2> QED
    BY <1>1, <1>2, <2>1, <2>2, <2>3 DEF SaveOK
<1>5. SaveClean(c)'
  BY <1>1, <1>2 DEF SaveClean
<1> QED
  BY <1>4, <1>5

LEMMA RemovalsKept ==
    ASSUME IInv, UNCHANGED removal, faulty \subseteq faulty',
           \A id \in Ids : Deleted(id) /\ id \notin faulty' =>
               /\ keychain'[id] \subseteq keychain[id]
               /\ servers[id] = None => servers'[id] = None,
           ~Deleted(Edited) => servers'[Edited] # None
    PROVE  RemovalInv'
<1>1. ASSUME NEW d \in Deletes PROVE RemovalOK(d)'
  <2>1. removal'[d] = removal[d] /\ RemovalOK(d) /\ removal[d].id \in Ids \cup {None}
    BY DEF IInv, RemovalInv, TypeOK, Removal
  <2>2. removal[d].id \in Ids => Deleted(removal[d].id)
    BY DEF Deleted
  <2> QED
    BY <2>1, <2>2 DEF RemovalOK
<1>2. Deleted(Edited)' <=> Deleted(Edited)
  BY DEF Deleted
<1> QED
  BY <1>1, <1>2 DEF RemovalInv

(* Notes and the sudo password concern Edited alone.                       *)
LEMMA EditedStep ==
    ASSUME IInv, UNCHANGED <<save, removal, import, groups, faulty>>, TypeOK',
           \A id \in Entries : keychain'[id] = keychain[id] /\ servers'[id] = servers[id],
           servers[Edited] # None, servers'[Edited] # None,
           servers'[Edited].auth = servers[Edited].auth,
           keychain'[Edited] \subseteq keychain[Edited],
           keychain[Edited] \ Sudo \subseteq keychain'[Edited]
    PROVE  IInv'
<1>1. Edited \in Ids /\ Ids = Entries \cup {Edited}
  BY DEF Ids
<1>2. \A id \in Ids \cup {None} : Deleted(id)' <=> Deleted(id)
  BY DEF Deleted
<1>3. SaveInv'
  BY <1>1, <1>2, SavesKept
<1>4. RemovalInv'
  BY <1>1, RemovalsKept
<1>5. CleanInv'
  <2>1. ASSUME NEW id \in Ids PROVE CleanOK(id)'
    <3>1. CleanOK(id)
      BY DEF IInv, CleanInv
    <3>2. \A c \in Saves : Running(c)' <=> Running(c)
      BY DEF Running
    <3>3. CASE id = Edited
      BY <1>1, <3>1, <3>2, <3>3 DEF CleanOK, Deleting
    <3>4. CASE id \in Entries
      BY <1>1, <3>1, <3>4 DEF CleanOK, Deleting, Pending, Entry
    <3> QED
      BY <1>1, <3>3, <3>4
  <2> QED
    BY <2>1 DEF CleanInv
<1>6. ImportInv'
  BY <1>1, <1>2, ImportKept
<1>7. LoginKept'
  <2>1. servers[Edited].auth.refs \cap Sudo = {}
    <3>1. servers[Edited].auth \in Login
      BY <1>1 DEF IInv, TypeOK, Row
    <3> QED
      BY <3>1, KindFacts DEF Login, Sudo
  <2> QED
    BY <1>1, <2>1 DEF IInv, LoginKept
<1> QED
  BY <1>3, <1>4, <1>5, <1>6, <1>7 DEF IInv

LEMMA NoteStep == ASSUME IInv, NEW note \in Notes, RecordNoteRevision(note) PROVE IInv'
<1>1. Edited \in Ids /\ Edited \notin Entries /\ servers[Edited] \in Row
  BY DEF Ids, IInv, TypeOK, RecordNoteRevision
<1>2. /\ [servers[Edited] EXCEPT !.notes = note] \in Row
      /\ [servers[Edited] EXCEPT !.notes = note].auth = servers[Edited].auth
  BY <1>1 DEF Row
<1>3. /\ servers' \in [Ids -> Row \cup {None}] /\ servers'[Edited] # None
      /\ servers'[Edited].auth = servers[Edited].auth
      /\ \A id \in Entries : servers'[id] = servers[id]
  BY <1>1, <1>2 DEF RecordNoteRevision, IInv, TypeOK, Ids
<1>4. history' \in Seq(Notes)
  BY AppendProperties DEF RecordNoteRevision, IInv, TypeOK
<1>5. TypeOK'
  BY <1>3, <1>4 DEF RecordNoteRevision, IInv, TypeOK
<1> QED
  BY <1>3, <1>5, EditedStep DEF RecordNoteRevision

LEMMA ClearSudoStep == ASSUME IInv, ClearSudoPassword PROVE IInv'
<1>1. Edited \in Ids /\ Edited \notin Entries
  BY DEF Ids
<1>2. /\ keychain' \in [Ids -> SUBSET Slots]
      /\ keychain'[Edited] = keychain[Edited] \ Sudo
      /\ \A id \in Entries : keychain'[id] = keychain[id]
  BY <1>1 DEF ClearSudoPassword, IInv, TypeOK, Ids, Sudo
<1>3. TypeOK'
  BY <1>2 DEF ClearSudoPassword, IInv, TypeOK
<1> QED
  BY <1>2, <1>3, EditedStep DEF ClearSudoPassword

-----------------------------------------------------------------------------
(* Deletions.                                                              *)

(* The entry being created has no row yet.                                 *)
LEMMA EntryUnmade ==
    ASSUME IInv, import.pc \in {"create", "insert"}
    PROVE  /\ import.plan \in Plans /\ import.next \in DOMAIN import.plan
           /\ Entry \in Planned /\ Entry.id \in Entries \ Range(import.made) /\ Unmade(Entry.id)
<1>1. /\ import.plan \in Plans /\ import.next \in DOMAIN import.plan
      /\ import.made \in Seq(Entries) /\ Len(import.made) = import.next - 1
      /\ \A i \in DOMAIN import.made : import.made[i] = import.plan[i].id
  BY DEF IInv, ImportInv, MadeOK, TypeOK, Imported, Working
<1>2. import.plan \in Seq(Planned) /\ Entry \in Planned /\ Entry.id \in Entries
  <2>1. import.plan \in Seq(Planned)
    BY <1>1
  <2>2. import.plan[import.next] \in Planned
    BY <1>1, <2>1
  <2> QED
    BY <2>1, <2>2 DEF Entry, Planned
<1>3. DOMAIN import.plan = 1..Len(import.plan) /\ DOMAIN import.made = 1..(import.next - 1)
      /\ Len(import.plan) \in Nat
  BY <1>1, <1>2, LenProperties
<1>4. ASSUME NEW i \in DOMAIN import.made PROVE import.made[i] # Entry.id
  <2>1. i \in DOMAIN import.plan /\ i # import.next
    BY <1>1, <1>3, <1>4
  <2>2. import.plan[i].id # import.plan[import.next].id
    BY <1>1, <2>1
  <2> QED
    BY <1>1, <2>2 DEF Entry
<1>5. Entry.id \notin Range(import.made)
  BY <1>4 DEF Range
<1> QED
  BY <1>1, <1>2, <1>5 DEF IInv, ImportInv, Working

Left(id) == UNION {removal[d].left : d \in {d \in Deletes : removal[d].id = id}}

(* A step of a deletion touches nothing but that deletion, its server, and *)
(* the jump hosts that lead there.                                         *)
LEMMA RemovalStep ==
    ASSUME IInv, NEW d \in Deletes, NEW id \in Ids, TypeOK', UNCHANGED <<save, import, groups>>,
           \A o \in Deletes \ {d} : removal'[o] = removal[o],
           removal'[d].id = id, removal[d].id \in {None, id},
           removal[d].id = None =>
               /\ servers[id] # None
               /\ id = Edited => Edited \in faulty' \/ \A c \in Saves : ~Running(c),
           faulty' = faulty \/ faulty' = faulty \cup {id},
           RemovalOK(d)', CleanOK(id)',
           keychain'[id] \subseteq keychain[id], servers[id] = None => servers'[id] = None,
           \A x \in Ids \ {id} :
               /\ keychain'[x] = keychain[x]
               /\ servers'[x] = None <=> servers[x] = None
               /\ servers[x] # None =>
                     /\ servers'[x].auth = servers[x].auth
                     /\ \/ servers'[x].jump = servers[x].jump
                        \/ servers'[x].jump = None /\ servers[x].jump = id
    PROVE  IInv'
<1>1. Ids = Entries \cup {Edited} /\ Edited \notin Entries
  BY DEF Ids
<1>2. /\ \A x \in Ids \ {id} : Deleted(x)' <=> Deleted(x)
      /\ Deleted(id)' /\ (Deleted(id) \/ removal[d].id = None)
  BY DEF Deleted
<1>3. ~Deleted(Edited) => servers[Edited] # None
  BY DEF IInv, RemovalInv
<1>4. SaveInv'
  <2>1. CASE id = Edited
    BY <1>2, <2>1, SavesKept
  <2>2. CASE id # Edited
    <3>1. /\ Deleted(Edited)' <=> Deleted(Edited)
          /\ keychain'[Edited] = keychain[Edited]
          /\ servers[Edited] # None => servers'[Edited].auth = servers[Edited].auth
      BY <1>1, <1>2, <2>2
    <3> QED
      BY <1>3, <3>1, SavesKept
  <2> QED
    BY <2>1, <2>2
<1>5. RemovalInv'
  <2>1. ASSUME NEW o \in Deletes \ {d} PROVE RemovalOK(o)'
    <3>1. removal'[o] = removal[o] /\ RemovalOK(o) /\ removal[o].id \in Ids \cup {None}
      BY DEF IInv, RemovalInv, TypeOK, Removal
    <3>2. CASE removal[o].id = id
      BY <3>1, <3>2 DEF RemovalOK
    <3>3. CASE removal[o].id # id
      BY <3>1, <3>3 DEF RemovalOK
    <3> QED
      BY <3>2, <3>3
  <2>2. ~Deleted(Edited)' => servers'[Edited] # None
    <3>1. ~Deleted(Edited)' => Edited # id /\ ~Deleted(Edited)
      BY <1>1, <1>2
    <3> QED
      BY <1>1, <1>3, <3>1
  <2> QED
    BY <2>1, <2>2, removal'[d].id = id DEF RemovalInv
<1>6. CleanInv'
  <2>1. ASSUME NEW x \in Ids \ {id} PROVE CleanOK(x)'
    <3>1. CleanOK(x) /\ x # None
      BY DEF IInv, CleanInv
    <3>2. \A o \in Deletes : removal'[o].id = x <=> removal[o].id = x
      BY <3>1
    <3>3. \A o \in Deletes : removal[o].id = x => removal'[o] = removal[o]
      BY <3>1
    <3>4. Left(x)' = Left(x)
      BY <3>2, <3>3 DEF Left
    <3>5. /\ \A c \in Saves : Running(c)' <=> Running(c)
          /\ \A o \in Deletes : removal[o].id = x => (Deleting(o)' <=> Deleting(o))
          /\ Pending(x)' <=> Pending(x)
      BY <3>3 DEF Running, Deleting, Pending, Entry
    <3> QED
      BY <3>1, <3>2, <3>4, <3>5 DEF CleanOK, Left
  <2> QED
    BY <2>1 DEF CleanInv
<1>7. ImportInv'
  <2>1. \A x \in Ids : Deleted(x) => Deleted(x)'
    BY <1>2
  <2>2. \A x \in Entries : servers[x] = None =>
            /\ servers'[x] = None /\ (Deleted(x)' => Deleted(x))
            /\ ~Deleted(x) => keychain'[x] = keychain[x]
    BY <1>1, <1>2 DEF Deleted
  <2>3. \A x \in Entries : servers[x] # None /\ ~Deleted(x)' =>
            /\ servers'[x] # None
            /\ \/ servers'[x].jump = servers[x].jump
               \/ /\ servers'[x].jump = None
                  /\ \E o \in Deletes : removal'[o].id = servers[x].jump
    <3>1. \A x \in Ids : ~Deleted(x)' => x # id
      BY <1>2
    <3> QED
      BY <1>1, <3>1
  <2> QED
    BY <2>1, <2>2, <2>3, ImportKept
<1>8. LoginKept'
  BY <1>2 DEF IInv, LoginKept, Deleted
<1> QED
  BY <1>4, <1>5, <1>6, <1>7, <1>8 DEF IInv

LEMMA BeginDeleteStep ==
    ASSUME IInv, NEW d \in Deletes, NEW id \in Ids, BeginDelete(d, id) PROVE IInv'
<1>1. /\ removal[d].pc = "new" /\ servers[id] # None
      /\ removal' = [removal EXCEPT ![d] =
                        [pc |-> "secrets", id |-> id, before |-> servers[id], left |-> {}]]
      /\ faulty' = IF \/ id = Edited /\ \E c \in Saves : Running(c)
                      \/ \E o \in Deletes : Deleting(o) /\ removal[o].id = id
                   THEN faulty \cup {id} ELSE faulty
      /\ UNCHANGED <<servers, groups, keychain, history, save, import>>
  BY DEF BeginDelete, Fault
<1>2. servers[id] \in Row /\ removal[d].id = None
  BY <1>1 DEF IInv, TypeOK, RemovalInv, RemovalOK
<1>3. /\ removal'[d] = [pc |-> "secrets", id |-> id, before |-> servers[id], left |-> {}]
      /\ \A o \in Deletes \ {d} : removal'[o] = removal[o]
      /\ removal' \in [Deletes -> Removal]
  BY <1>1, <1>2 DEF IInv, TypeOK, Removal, RemovalPC
<1>4. TypeOK'
  BY <1>1, <1>3 DEF IInv, TypeOK
<1>5. id \notin faulty' => keychain[id] \subseteq servers[id].auth.refs \cup Sudo
  <2>1. id \in Entries => ~Pending(id)
    BY <1>1, EntryUnmade DEF Pending, Unmade
  <2>2. CleanOK(id)
    BY DEF IInv, CleanInv
  <2> QED
    BY <1>1, <2>1, <2>2 DEF CleanOK
<1>6. RemovalOK(d)'
  BY <1>1, <1>2, <1>3, <1>5 DEF RemovalOK
<1>7. CleanOK(id)'
  BY <1>3 DEF CleanOK, Deleting
<1>8. id = Edited => Edited \in faulty' \/ \A c \in Saves : ~Running(c)
  BY <1>1
<1> QED
  BY <1>1, <1>2, <1>3, <1>4, <1>6, <1>7, <1>8, RemovalStep

LEMMA DeleteSecretsStep == ASSUME IInv, NEW d \in Deletes, DeleteSecrets(d) PROVE IInv'
<1>0. PICK id \in Ids : removal[d].id = id
  BY DEF DeleteSecrets, IInv, RemovalInv, RemovalOK
<1> DEFINE refs == removal[d].before.auth.refs \cup Sudo
<1>1. PICK kept \in SUBSET (refs \cap keychain[id]) :
        /\ keychain' = [keychain EXCEPT ![id] = (@ \ refs) \cup kept]
        /\ removal' = [removal EXCEPT ![d].pc = "row", ![d].left = kept]
  BY <1>0 DEF DeleteSecrets, Sudo
<1>2. removal[d].pc = "secrets" /\ UNCHANGED <<servers, groups, history, save, import, faulty>>
  BY DEF DeleteSecrets
<1>3. /\ RemovalOK(d) /\ removal[d] \in Removal /\ id \in Ids /\ id # None
      /\ removal[d].before \in Row
  BY <1>0, <1>2 DEF IInv, RemovalInv, RemovalOK, TypeOK
<1>4. /\ keychain'[id] = (keychain[id] \ refs) \cup kept /\ keychain[id] \subseteq Slots
      /\ \A x \in Ids \ {id} : keychain'[x] = keychain[x]
      /\ keychain' \in [Ids -> SUBSET Slots]
  BY <1>1, <1>3 DEF IInv, TypeOK
<1>5. /\ removal'[d].pc = "row" /\ removal'[d].left = kept /\ removal'[d].id = id
      /\ removal'[d].before = removal[d].before
      /\ \A o \in Deletes \ {d} : removal'[o] = removal[o]
      /\ removal' \in [Deletes -> Removal]
  <2>1. kept \subseteq Slots /\ removal[d] \in Removal
    BY <1>3, <1>4
  <2>2. [removal[d] EXCEPT !.pc = "row", !.left = kept] \in Removal
    BY <2>1 DEF Removal, RemovalPC
  <2>3. removal'[d] = [removal[d] EXCEPT !.pc = "row", !.left = kept]
    BY <1>1 DEF IInv, TypeOK
  <2> QED
    BY <1>0, <1>1, <2>1, <2>2, <2>3 DEF IInv, TypeOK, Removal
<1>6. TypeOK'
  BY <1>2, <1>4, <1>5 DEF IInv, TypeOK
<1>7. RemovalOK(d)'
  BY <1>0, <1>2, <1>3, <1>4, <1>5 DEF RemovalOK
<1>8. CleanOK(id)'
  <2>1. Deleting(d)' /\ removal'[d].id = id
    BY <1>5 DEF Deleting
  <2> QED
    BY <2>1 DEF CleanOK
<1>9. keychain'[id] \subseteq keychain[id]
  BY <1>4
<1> HIDE DEF refs
<1> QED
  BY <1>0, <1>2, <1>3, <1>4, <1>5, <1>6, <1>7, <1>8, <1>9, RemovalStep

LEMMA DeleteRowStep == ASSUME IInv, NEW d \in Deletes, DeleteRow(d) PROVE IInv'
<1>0. PICK id \in Ids : removal[d].id = id
  BY DEF DeleteRow, IInv, RemovalInv, RemovalOK
<1>1. /\ removal[d].pc = "row" /\ servers[id] # None
      /\ servers' = [x \in Ids |->
                        IF x = id THEN None
                        ELSE IF servers[x] = None THEN None
                        ELSE IF servers[x].jump = id
                        THEN [servers[x] EXCEPT !.jump = None] ELSE servers[x]]
      /\ removal' = [removal EXCEPT ![d].pc = "done"]
      /\ UNCHANGED <<groups, keychain, history, save, import, faulty>>
  BY <1>0 DEF DeleteRow
<1>2. /\ RemovalOK(d) /\ removal[d] \in Removal /\ id \in Ids /\ id # None
      /\ removal[d].before \in Row
  BY <1>0, <1>1 DEF IInv, RemovalInv, RemovalOK, TypeOK
<1>3. /\ servers'[id] = None
      /\ \A x \in Ids \ {id} :
            /\ servers'[x] \in Row \cup {None}
            /\ servers'[x] = None <=> servers[x] = None
            /\ servers[x] # None =>
                  /\ servers'[x].auth = servers[x].auth
                  /\ \/ servers'[x].jump = servers[x].jump
                     \/ servers'[x].jump = None /\ servers[x].jump = id
  <2>1. ASSUME NEW x \in Ids \ {id}, servers[x] # None
        PROVE  /\ servers'[x] \in Row /\ servers'[x].auth = servers[x].auth
               /\ \/ servers'[x].jump = servers[x].jump
                  \/ servers'[x].jump = None /\ servers[x].jump = id
    <3>1. servers[x] \in Row
      BY <2>1 DEF IInv, TypeOK
    <3>2. /\ [servers[x] EXCEPT !.jump = None] \in Row
          /\ [servers[x] EXCEPT !.jump = None].auth = servers[x].auth
          /\ [servers[x] EXCEPT !.jump = None].jump = None
      BY <3>1 DEF Row
    <3>3. servers'[x] = IF servers[x].jump = id THEN [servers[x] EXCEPT !.jump = None]
                        ELSE servers[x]
      BY <1>1, <2>1
    <3> QED
      BY <3>1, <3>2, <3>3
  <2>2. \A x \in Ids \ {id} : servers[x] = None => servers'[x] = None
    BY <1>1
  <2>3. servers'[id] = None
    BY <1>1, <1>2
  <2> QED
    BY <2>1, <2>2, <2>3
<1>4. servers' \in [Ids -> Row \cup {None}]
  <2>1. DOMAIN servers' = Ids /\ servers' = [x \in Ids |-> servers'[x]]
    BY <1>1
  <2> QED
    BY <1>3, <2>1
<1>5. /\ removal'[d].pc = "done" /\ removal'[d].left = removal[d].left /\ removal'[d].id = id
      /\ \A o \in Deletes \ {d} : removal'[o] = removal[o]
      /\ removal' \in [Deletes -> Removal]
  BY <1>0, <1>1, <1>2 DEF IInv, TypeOK, Removal, RemovalPC
<1>6. TypeOK'
  BY <1>1, <1>4, <1>5 DEF IInv, TypeOK
<1>7. RemovalOK(d)'
  BY <1>0, <1>1, <1>2, <1>3, <1>5 DEF RemovalOK
<1>8. CleanOK(id)'
  <2>1. id \notin faulty => keychain'[id] \subseteq removal'[d].left
    BY <1>0, <1>1, <1>2, <1>5 DEF RemovalOK
  <2>2. removal'[d].id = id /\ servers'[id] = None /\ faulty' = faulty
    BY <1>1, <1>3, <1>5
  <2> QED
    BY <2>1, <2>2 DEF CleanOK
<1> QED
  BY <1>0, <1>1, <1>2, <1>3, <1>5, <1>6, <1>7, <1>8, RemovalStep

LEMMA DeleteRowFailsStep == ASSUME IInv, NEW d \in Deletes, DeleteRowFails(d) PROVE IInv'
<1>0. PICK id \in Ids : removal[d].id = id
  BY DEF DeleteRowFails, IInv, RemovalInv, RemovalOK
<1>1. /\ removal[d].pc = "row" /\ faulty' = faulty \cup {id}
      /\ removal' = [removal EXCEPT ![d].pc = "refused"]
      /\ UNCHANGED <<servers, groups, keychain, history, save, import>>
  BY <1>0 DEF DeleteRowFails, Fault
<1>2. RemovalOK(d) /\ removal[d] \in Removal /\ id \in Ids /\ id # None
  BY <1>0, <1>1 DEF IInv, RemovalInv, RemovalOK, TypeOK
<1>3. /\ removal'[d].pc = "refused" /\ removal'[d].id = id
      /\ \A o \in Deletes \ {d} : removal'[o] = removal[o]
      /\ removal' \in [Deletes -> Removal]
  BY <1>0, <1>1, <1>2, ZenonT(60) DEF IInv, TypeOK, Removal, RemovalPC
<1>4. TypeOK'
  BY <1>1, <1>2, <1>3 DEF IInv, TypeOK
<1>5. RemovalOK(d)'
  BY <1>0, <1>1, <1>2, <1>3 DEF RemovalOK
<1>6. CleanOK(id)'
  <2>1. id \in faulty'
    BY <1>1
  <2> QED
    BY <1>1, <2>1 DEF CleanOK
<1> QED
  BY <1>0, <1>1, <1>2, <1>3, <1>4, <1>5, <1>6, RemovalStep

-----------------------------------------------------------------------------
(* The import.  Its steps touch nothing but the entries, and the jump host *)
(* of Edited.                                                              *)

LEMMA ImportStep ==
    ASSUME IInv, TypeOK', UNCHANGED <<save, removal>>,
           keychain'[Edited] = keychain[Edited],
           servers'[Edited] = None <=> servers[Edited] = None,
           servers[Edited] # None => servers'[Edited].auth = servers[Edited].auth,
           faulty \subseteq faulty', faulty' \subseteq faulty \cup Entries,
           \A id \in Entries : Deleted(id) /\ id \notin faulty' =>
               /\ keychain'[id] \subseteq keychain[id]
               /\ servers[id] = None => servers'[id] = None,
           \A id \in Entries : CleanOK(id)', ImportInv',
           \A id \in Entries :
               servers'[id] # None /\ ~Deleted(id) /\ import'.pc \notin {"rollback", "failed"}
                   => servers'[id].auth.refs \subseteq keychain'[id]
    PROVE  IInv'
<1>1. Ids = Entries \cup {Edited} /\ Edited \notin Entries
  BY DEF Ids
<1>2. Deleted(Edited)' <=> Deleted(Edited)
  BY DEF Deleted
<1>3. SaveInv'
  <2>1. ~Deleted(Edited) => servers[Edited] # None
    BY DEF IInv, RemovalInv
  <2> QED
    BY <1>2, <2>1, SavesKept
<1>4. RemovalInv'
  <2>1. ~Deleted(Edited) => servers'[Edited] # None
    BY DEF IInv, RemovalInv
  <2> QED
    BY <1>1, <2>1, RemovalsKept
<1>5. CleanInv'
  <2>1. CleanOK(Edited)
    BY <1>1 DEF IInv, CleanInv
  <2>2. \A c \in Saves : Running(c)' <=> Running(c)
    BY DEF Running
  <2>3. \A d \in Deletes : Deleting(d)' <=> Deleting(d)
    BY DEF Deleting
  <2>4. Edited \in faulty' <=> Edited \in faulty
    BY <1>1
  <2>5. CleanOK(Edited)'
    BY <1>1, <2>1, <2>2, <2>3, <2>4 DEF CleanOK
  <2> QED
    BY <1>1, <2>5 DEF CleanInv
<1>6. LoginKept'
  <2>1. servers[Edited] # None /\ ~Deleted(Edited) => servers[Edited].auth.refs \subseteq keychain[Edited]
    BY <1>1 DEF IInv, LoginKept, Deleted
  <2> QED
    BY <1>1, <2>1 DEF LoginKept, Deleted
<1> QED
  BY <1>3, <1>4, <1>5, <1>6 DEF IInv

(* The servers are what they were, and no secret is pending.               *)
LEMMA EntriesClean ==
    ASSUME IInv, UNCHANGED removal, faulty \subseteq faulty', NEW id \in Entries, ~Pending(id),
           keychain'[id] = keychain[id], servers'[id] = None <=> servers[id] = None,
           servers[id] # None => servers'[id].auth = servers[id].auth
    PROVE  CleanOK(id)'
<1>1. CleanOK(id) /\ id # Edited
  BY DEF IInv, CleanInv, Ids
<1> QED
  BY <1>1 DEF CleanOK, Deleting

LEMMA BeginImportStep == ASSUME IInv, NEW plan \in Plans, BeginImport(plan) PROVE IInv'
<1>1. /\ import.pc = "new" /\ import.made = <<>>
      /\ import' = [pc |-> "group", plan |-> plan, next |-> 1, made |-> <<>>]
      /\ UNCHANGED <<servers, groups, keychain, history, save, removal, faulty>>
  BY DEF BeginImport, IInv, ImportInv
<1>2. import' \in Imported
  BY <1>1, EmptySeq DEF Imported, ImportPC
<1>3. TypeOK'
  BY <1>1, <1>2 DEF IInv, TypeOK
<1>4. \A id \in Entries : ~Pending(id) /\ ~Pending(id)' /\ (Deleted(id)' <=> Deleted(id))
  BY <1>1 DEF Pending, Deleted
<1>5. \A id \in Entries : CleanOK(id)'
  BY <1>1, <1>4, EntriesClean
<1>6. \A id \in Entries : Unmade(id)
  BY <1>1, NothingInEmpty DEF IInv, ImportInv
<1>7. \A id \in Entries : Unmade(id)'
  BY <1>1, <1>4, <1>6 DEF Unmade
<1>8. ImportInv'
  BY <1>1, <1>7 DEF ImportInv, IInv, Working
<1>9. \A id \in Entries : servers'[id] = None
  BY <1>7 DEF Unmade
<1> QED
  BY <1>1, <1>3, <1>5, <1>8, <1>9, ImportStep

LEMMA CreateGroupStep == ASSUME IInv, CreateGroup PROVE IInv'
<1>1. /\ import.pc = "group" /\ import.made = <<>> /\ import.next = 1
      /\ import.plan \in Plans /\ groups' = TRUE
      /\ import' = [import EXCEPT !.pc = "create"]
      /\ UNCHANGED <<servers, keychain, history, save, removal, faulty>>
  BY DEF CreateGroup, IInv, ImportInv
<1>2. /\ import'.pc = "create" /\ import'.plan = import.plan /\ import'.made = import.made
      /\ import'.next = 1 /\ import' \in Imported
  BY <1>1 DEF IInv, TypeOK, Imported, ImportPC
<1>3. TypeOK'
  BY <1>1, <1>2 DEF IInv, TypeOK
<1>4. \A id \in Entries : ~Pending(id) /\ ~Pending(id)' /\ (Deleted(id)' <=> Deleted(id))
  BY <1>1, <1>2 DEF Pending, Deleted
<1>5. \A id \in Entries : CleanOK(id)'
  BY <1>1, <1>4, EntriesClean
<1>6. \A id \in Entries : Unmade(id)
  BY <1>1, NothingInEmpty DEF IInv, ImportInv
<1>7. \A id \in Entries : Unmade(id)'
  BY <1>1, <1>4, <1>6 DEF Unmade
<1>8. 1 \in DOMAIN import.plan
  BY <1>1, LenProperties, EmptySeq
<1>9. Len(<<>>) = 0 /\ DOMAIN <<>> = {}
  OBVIOUS
<1>10. ImportInv'
  BY <1>1, <1>2, <1>7, <1>8, <1>9 DEF ImportInv, Working
<1>11. \A id \in Entries : servers'[id] = None
  BY <1>7 DEF Unmade
<1> QED
  BY <1>1, <1>3, <1>5, <1>10, <1>11, ImportStep

LEMMA CreateGroupFailsStep == ASSUME IInv, CreateGroupFails PROVE IInv'
<1>1. /\ import.pc = "group" /\ import.made = <<>> /\ import.plan \in Plans /\ ~groups
      /\ import' = [import EXCEPT !.pc = "failed"]
      /\ UNCHANGED <<servers, groups, keychain, history, save, removal, faulty>>
  BY DEF CreateGroupFails, IInv, ImportInv
<1>2. /\ import'.pc = "failed" /\ import'.plan = import.plan /\ import'.made = import.made
      /\ import' \in Imported
  BY <1>1 DEF IInv, TypeOK, Imported, ImportPC
<1>3. TypeOK'
  BY <1>1, <1>2 DEF IInv, TypeOK
<1>4. \A id \in Entries : ~Pending(id)
  BY <1>1 DEF Pending
<1>5. \A id \in Entries : CleanOK(id)'
  BY <1>1, <1>4, EntriesClean
<1>6. \A id \in Entries : servers[id] = None /\ keychain[id] = {}
  BY <1>1, <1>4, NothingInEmpty DEF IInv, ImportInv, Unmade
<1>7. ImportInv'
  BY <1>1, <1>2, <1>6 DEF ImportInv, Working
<1> QED
  BY <1>1, <1>2, <1>3, <1>5, <1>6, <1>7, ImportStep

(* What is pending is Entry's, and everything not made is empty.           *)
LEMMA StoreSecretsStep == ASSUME IInv, StoreSecrets PROVE IInv'
<1>0. PICK e \in Entries : Entry.id = e
  BY EntryUnmade DEF StoreSecrets
<1>1. /\ import.pc = "create"
      /\ Range(Required(Entry.input.kind)) \subseteq Entry.input.given
      /\ keychain' = [keychain EXCEPT ![e] = Entry.input.given]
      /\ import' = [import EXCEPT !.pc = "insert"]
      /\ UNCHANGED <<servers, groups, history, save, removal, faulty>>
  BY <1>0 DEF StoreSecrets
<1>2. /\ import.plan \in Plans /\ import.next \in DOMAIN import.plan
      /\ Entry \in Planned /\ e \in Entries \ Range(import.made) /\ Unmade(e)
  BY <1>0, <1>1, EntryUnmade
<1>3. /\ import'.pc = "insert" /\ import'.plan = import.plan /\ import'.made = import.made
      /\ import'.next = import.next /\ import' \in Imported /\ Entry' = Entry
  BY <1>1 DEF IInv, TypeOK, Imported, ImportPC, Entry
<1>4. Entry.input.given \subseteq Slots /\ e \in Ids /\ e # Edited /\ Edited \in Ids
  BY <1>2 DEF Planned, Input, Ids
<1>5. /\ keychain'[e] = Entry.input.given /\ keychain' \in [Ids -> SUBSET Slots]
      /\ \A id \in Ids \ {e} : keychain'[id] = keychain[id]
  BY <1>1, <1>4 DEF IInv, TypeOK
<1>6. TypeOK'
  BY <1>1, <1>3, <1>5 DEF IInv, TypeOK
<1>7. /\ servers[e] = None /\ ~Deleted(e)
      /\ \A id \in Ids : (Deleted(id)' <=> Deleted(id))
      /\ \A id \in Ids : ~Pending(id)
      /\ \A id \in Ids : Pending(id)' <=> id = e
  BY <1>0, <1>1, <1>2, <1>3 DEF Unmade, Deleted, Pending
<1>8. \A id \in Entries : CleanOK(id)'
  <2>1. CleanOK(e)'
    BY <1>2, <1>4, <1>7 DEF CleanOK
  <2>2. \A id \in Entries \ {e} : CleanOK(id)'
    BY <1>1, <1>5, <1>7, EntriesClean DEF Ids
  <2> QED
    BY <2>1, <2>2
<1>9. \A id \in Entries \ Range(import.made) : Unmade(id)'
  <2>1. ASSUME NEW id \in Entries \ Range(import.made) PROVE Unmade(id)'
    <3>1. Unmade(id) /\ id \in Ids
      BY <1>1 DEF IInv, ImportInv, Working, Ids
    <3> QED
      BY <1>1, <1>3, <1>5, <1>7, <3>1 DEF Unmade
  <2> QED
    BY <2>1
<1>10. \A i \in DOMAIN import.made : MadeOK(i)'
  <2>1. \A i \in DOMAIN import.made : MadeOK(i)
    BY <1>1 DEF IInv, ImportInv, Working
  <2> QED
    BY <1>1, <1>3, <2>1 DEF MadeOK, Deleted
<1>11. Len(import.made) = import.next - 1
  BY <1>1 DEF IInv, ImportInv, Working
<1>12. Entries \cap faulty' = Entries \cap faulty
  BY <1>1
<1>13. ImportInv'
  BY <1>1, <1>2, <1>3, <1>9, <1>10, <1>11 DEF ImportInv, Working
<1>14. \A id \in Entries : servers'[id] # None /\ ~Deleted(id) =>
          servers'[id].auth.refs \subseteq keychain'[id]
  <2>1. ASSUME NEW id \in Entries, servers[id] # None, ~Deleted(id)
        PROVE  servers[id].auth.refs \subseteq keychain[id] /\ id # e /\ id \in Ids
    BY <1>1, <1>7, <2>1 DEF IInv, LoginKept, Deleted, Ids
  <2> QED
    BY <1>1, <1>5, <2>1
<1>15. \A id \in Entries : Deleted(id) => keychain'[id] \subseteq keychain[id]
  BY <1>5, <1>7 DEF Ids
<1> QED
  BY <1>1, <1>4, <1>5, <1>6, <1>8, <1>13, <1>14, <1>15, ImportStep

(* The import gives up at an entry: its slots are cleared, or the keychain *)
(* has failed.                                                             *)
LEMMA GiveUp ==
    ASSUME IInv, import.pc \in {"create", "insert"}, NEW kept \in SUBSET Slots,
           keychain' = [keychain EXCEPT ![Entry.id] = kept],
           faulty' = IF kept # {} THEN faulty \cup {Entry.id} ELSE faulty,
           import' = [import EXCEPT !.pc = "rollback"],
           UNCHANGED <<servers, groups, history, save, removal>>
    PROVE  IInv'
<1>0. PICK e \in Entries : Entry.id = e
  BY EntryUnmade
<1>1. /\ import.plan \in Plans /\ e \in Entries \ Range(import.made) /\ Unmade(e)
  BY <1>0, EntryUnmade
<1>2. /\ import'.pc = "rollback" /\ import'.plan = import.plan /\ import'.made = import.made
      /\ import' \in Imported
  BY DEF IInv, TypeOK, Imported, ImportPC
<1>3. e \in Ids /\ e # Edited /\ Edited \in Ids
  BY <1>1 DEF Ids
<1>4. /\ keychain'[e] = kept /\ keychain' \in [Ids -> SUBSET Slots]
      /\ \A id \in Ids \ {e} : keychain'[id] = keychain[id]
  BY <1>0, <1>3 DEF IInv, TypeOK
<1>5. /\ faulty \subseteq faulty' /\ faulty' \subseteq faulty \cup {e}
      /\ e \notin faulty' => kept = {}
  BY <1>0
<1>6. TypeOK'
  BY <1>2, <1>3, <1>4, <1>5 DEF IInv, TypeOK
<1>7. /\ servers[e] = None /\ ~Deleted(e)
      /\ \A id \in Ids : (Deleted(id)' <=> Deleted(id))
      /\ \A id \in Ids \ {e} : ~Pending(id)
  BY <1>0, <1>1 DEF Unmade, Deleted, Pending
<1>8. \A id \in Entries : CleanOK(id)'
  <2>1. CleanOK(e)'
    BY <1>4, <1>5 DEF CleanOK
  <2>2. \A id \in Entries \ {e} : CleanOK(id)'
    BY <1>4, <1>5, <1>7, EntriesClean DEF Ids
  <2> QED
    BY <2>1, <2>2
<1>9. ASSUME Entries \cap faulty' = {}, NEW id \in Entries \ Range(import.made)
      PROVE  servers'[id] = None /\ keychain'[id] = {}
  <2>1. Unmade(id) /\ id \in Ids
    BY DEF IInv, ImportInv, Working, Ids
  <2>2. CASE id = e
    BY <1>1, <1>4, <1>5, <1>7, <1>9, <2>2
  <2>3. CASE id # e
    BY <1>4, <1>7, <2>1, <2>3 DEF Unmade
  <2> QED
    BY <2>2, <2>3
<1>10. ImportInv'
  BY <1>1, <1>2, <1>9 DEF ImportInv, Working
<1>11. \A id \in Entries : Deleted(id) => keychain'[id] \subseteq keychain[id]
  BY <1>4, <1>7 DEF Ids
<1> QED
  BY <1>1, <1>2, <1>3, <1>4, <1>5, <1>6, <1>8, <1>10, <1>11, ImportStep

LEMMA StoreSecretsFailsStep == ASSUME IInv, StoreSecretsFails PROVE IInv'
<1>1. PICK kept \in SUBSET Entry.input.given :
        /\ keychain' = [keychain EXCEPT ![Entry.id] = kept]
        /\ Fault(Entry.id, kept # {})
  BY DEF StoreSecretsFails
<1>2. /\ import.pc = "create" /\ import' = [import EXCEPT !.pc = "rollback"]
      /\ UNCHANGED <<servers, groups, history, save, removal>>
  BY DEF StoreSecretsFails
<1>3. kept \in SUBSET Slots
  BY <1>2, EntryUnmade DEF Planned, Input
<1> QED
  BY <1>1, <1>2, <1>3, GiveUp DEF Fault

LEMMA InsertFailsStep == ASSUME IInv, InsertFails PROVE IInv'
<1>1. PICK kept \in SUBSET (Slots \cap keychain[Entry.id]) :
        /\ keychain' = [keychain EXCEPT ![Entry.id] = (@ \ Slots) \cup kept]
        /\ Fault(Entry.id, kept # {})
  BY DEF InsertFails, DeleteRefs
<1>2. /\ import.pc = "insert" /\ import' = [import EXCEPT !.pc = "rollback"]
      /\ UNCHANGED <<servers, groups, history, save, removal>>
  BY DEF InsertFails
<1>3. Entry.id \in Ids
  BY <1>2, EntryUnmade DEF Ids
<1>4. keychain[Entry.id] \subseteq Slots
  BY <1>3 DEF IInv, TypeOK
<1>5. keychain' = [keychain EXCEPT ![Entry.id] = kept]
  <2>1. (keychain[Entry.id] \ Slots) \cup kept = kept
    BY <1>4
  <2> QED
    BY <1>1, <2>1
<1> QED
  BY <1>1, <1>2, <1>5, GiveUp DEF Fault

LEMMA InsertStep == ASSUME IInv, Insert PROVE IInv'
<1>0. PICK e \in Entries : Entry.id = e
  BY EntryUnmade DEF Insert
<1> DEFINE auth == Resolved(Entry.input, NoLogin)
           row == [auth |-> auth, notes |-> None, jump |-> JumpHost]
<1>1. /\ import.pc = "insert"
      /\ servers' = [servers EXCEPT ![e] = row]
      /\ import' = [import EXCEPT !.pc = IF import.next = Len(import.plan) THEN "created" ELSE "create",
                                  !.next = @ + 1, !.made = Append(@, e)]
      /\ UNCHANGED <<groups, keychain, history, save, removal, faulty>>
  BY <1>0 DEF Insert
<1>2. /\ import.plan \in Plans /\ import.next \in DOMAIN import.plan
      /\ Entry \in Planned /\ e \notin Range(import.made)
      /\ servers[e] = None /\ ~Deleted(e) /\ keychain[e] = Entry.input.given
  BY <1>0, <1>1, EntryUnmade DEF Unmade, Pending
<1>3. /\ import.plan \in Seq(Planned) /\ DOMAIN import.plan = 1..Len(import.plan)
      /\ Len(import.plan) \in Nat /\ import.next \in Nat
      /\ import.made \in Seq(Entries) /\ Len(import.made) = import.next - 1
      /\ DOMAIN import.made = 1..(import.next - 1)
      /\ \A i \in DOMAIN import.made : MadeOK(i)
  BY <1>1, <1>2, LenProperties DEF IInv, TypeOK, Imported, ImportInv, Working
<1>4. JumpHost = Entry.jump
  <2>1. ASSUME Entry.jump \in Entries PROVE Entry.jump \in Range(import.made)
    <3>1. PICK j \in 1..(import.next - 1) : import.plan[j].id = Entry.jump
      BY <1>2, <2>1 DEF Entry
    <3>2. import.made[j] = Entry.jump
      BY <1>3, <3>1 DEF MadeOK
    <3> QED
      BY <1>3, <3>1, <3>2 DEF Range
  <2> QED
    BY <2>1 DEF JumpHost
<1>5. /\ auth \in Login /\ auth.refs \subseteq keychain[e] /\ keychain[e] \subseteq auth.refs \cup Sudo
  <2>1. Entry.input \in Input /\ Range(Required(Entry.input.kind)) \subseteq Entry.input.given
    BY <1>1, <1>2 DEF Planned, IInv, ImportInv
  <2> QED
    BY <1>2, <2>1, FreshFacts
<1> HIDE DEF auth
<1>6. /\ row \in Row /\ row # None /\ row.auth = auth /\ row.jump = Entry.jump
  BY <1>2, <1>4, <1>5 DEF Row, Planned
<1> HIDE DEF row
<1>7. e \in Ids /\ e # Edited /\ Edited \in Ids
  BY DEF Ids
<1>8. /\ servers'[e] = row /\ servers' \in [Ids -> Row \cup {None}]
      /\ \A id \in Ids \ {e} : servers'[id] = servers[id]
  BY <1>1, <1>6, <1>7 DEF IInv, TypeOK
<1>9. /\ Append(import.made, e) \in Seq(Entries)
      /\ Len(Append(import.made, e)) = import.next
      /\ Range(Append(import.made, e)) = Range(import.made) \cup {e}
      /\ DOMAIN Append(import.made, e) = 1..import.next
      /\ \A i \in 1..(import.next - 1) : Append(import.made, e)[i] = import.made[i]
      /\ Append(import.made, e)[import.next] = e
  BY <1>3, RangeOfAppend, AppendProperties, LenProperties
<1>10. /\ import'.pc = IF import.next = Len(import.plan) THEN "created" ELSE "create"
       /\ import'.plan = import.plan /\ import'.made = Append(import.made, e)
       /\ import'.next = import.next + 1 /\ import' \in Imported
  <2> DEFINE made == Append(import.made, e)
             pc == IF import.next = Len(import.plan) THEN "created" ELSE "create"
             next == import.next + 1
  <2>1. import \in Imported /\ made \in Seq(Entries) /\ pc \in ImportPC /\ next \in Nat
    BY <1>3, <1>9 DEF IInv, TypeOK, ImportPC
  <2>2. import' = [import EXCEPT !.pc = pc, !.next = next, !.made = made]
    BY <1>1
  <2> HIDE DEF made, pc, next
  <2>3. /\ import'.pc = pc /\ import'.plan = import.plan /\ import'.made = made
        /\ import'.next = next /\ import' \in Imported
    BY <2>1, <2>2 DEF Imported
  <2> QED
    BY <2>3 DEF made, pc, next
<1>11. TypeOK'
  BY <1>1, <1>8, <1>10 DEF IInv, TypeOK
<1>12. /\ \A id \in Ids : (Deleted(id)' <=> Deleted(id))
       /\ \A id \in Ids \ {e} : ~Pending(id)
       /\ \A id : ~Pending(id)'
  BY <1>0, <1>1, <1>10 DEF Deleted, Pending
<1>13. \A id \in Entries : CleanOK(id)'
  <2>1. CleanOK(e)'
    BY <1>1, <1>5, <1>6, <1>8 DEF CleanOK
  <2>2. \A id \in Entries \ {e} : CleanOK(id)'
    BY <1>1, <1>8, <1>12, EntriesClean DEF Ids
  <2> QED
    BY <2>1, <2>2
<1>14. ASSUME NEW i \in 1..import.next PROVE MadeOK(i)'
  <2>1. CASE i = import.next
    <3>1. import'.plan[i] = Entry /\ import'.made[i] = e
      BY <1>9, <1>10, <2>1 DEF Entry
    <3> QED
      BY <1>0, <1>6, <1>8, <3>1 DEF MadeOK
  <2>2. CASE i # import.next
    <3>1. i \in 1..(import.next - 1) /\ i \in DOMAIN import.plan
      BY <1>2, <1>3, <2>2
    <3>2. import.plan[i].id # e
      BY <1>0, <1>2, <2>2, <3>1 DEF Entry
    <3>3. MadeOK(i) /\ import.plan[i].id \in Ids
      <4>1. import.plan[i] \in Planned
        BY <1>3, <3>1
      <4> QED
        BY <1>3, <3>1, <4>1 DEF Planned, Ids
    <3>4. servers'[import.plan[i].id] = servers[import.plan[i].id]
      BY <1>8, <3>2, <3>3
    <3>5. import'.plan[i] = import.plan[i] /\ import'.made[i] = import.made[i]
      BY <1>9, <1>10, <3>1
    <3> QED
      BY <1>1, <3>3, <3>4, <3>5 DEF MadeOK, Deleted
  <2> QED
    BY <2>1, <2>2
<1>15. ASSUME NEW id \in Entries \ Range(Append(import.made, e)) PROVE Unmade(id)'
  <2>1. id # e /\ id \in Ids /\ Unmade(id)
    BY <1>1, <1>9 DEF IInv, ImportInv, Working, Ids
  <2> QED
    BY <1>1, <1>8, <1>12, <2>1 DEF Unmade
<1>16. /\ import'.pc = "created" => import'.next = Len(import'.plan) + 1
       /\ import'.pc = "create" => import'.next \in DOMAIN import'.plan
       /\ import'.pc \in {"created", "create"}
       /\ Len(import'.made) = import'.next - 1
  BY <1>2, <1>3, <1>9, <1>10
<1>17. /\ \A i \in DOMAIN import'.made : MadeOK(i)'
       /\ \A id \in Entries \ Range(import'.made) : Unmade(id)'
  BY <1>9, <1>10, <1>14, <1>15
<1>18. ImportInv'
  BY <1>2, <1>10, <1>16, <1>17 DEF ImportInv, Working
<1>19. \A id \in Entries : servers'[id] # None /\ ~Deleted(id) =>
          servers'[id].auth.refs \subseteq keychain'[id]
  <2>1. ASSUME NEW id \in Entries \ {e}, servers[id] # None, ~Deleted(id)
        PROVE  servers[id].auth.refs \subseteq keychain[id]
    BY <1>1, <2>1 DEF IInv, LoginKept, Deleted, Ids
  <2> QED
    BY <1>1, <1>5, <1>6, <1>8, <2>1 DEF Ids
<1>20. \A id \in Entries : Deleted(id) /\ servers[id] = None => servers'[id] = None
  BY <1>2, <1>8 DEF Ids
<1> QED
  BY <1>1, <1>7, <1>8, <1>11, <1>13, <1>18, <1>19, <1>20, ImportStep

LEMMA RollBackServerStep == ASSUME IInv, RollBackServer PROVE IInv'
<1>0. import.made \in Seq(Entries) /\ import.made # <<>>
  BY DEF RollBackServer, IInv, TypeOK, Imported
<1>1. PICK e \in Entries : Last(import.made) = e
  BY <1>0, RangeOfFront
<1>2. PICK kept \in SUBSET keychain[e], deleted \in BOOLEAN :
        /\ keychain' = [keychain EXCEPT ![e] = kept]
        /\ servers' = IF ~deleted THEN servers
                      ELSE [x \in Ids |->
                              IF x = e THEN None
                              ELSE IF servers[x] # None /\ servers[x].jump = e
                              THEN [servers[x] EXCEPT !.jump = None] ELSE servers[x]]
        /\ faulty' = IF kept # {} \/ ~deleted THEN faulty \cup {e} ELSE faulty
  BY <1>1 DEF RollBackServer, Fault
<1>3. /\ import.pc = "rollback" /\ import' = [import EXCEPT !.made = Front(@)]
      /\ UNCHANGED <<groups, history, save, removal>>
  BY DEF RollBackServer
<1>4. e \in Ids /\ e # Edited /\ Edited \in Ids
  BY DEF Ids
<1>5. /\ import'.pc = "rollback" /\ import'.plan = import.plan /\ import'.made = Front(import.made)
      /\ import' \in Imported
      /\ Range(import.made) = {e} \cup Range(Front(import.made))
  BY <1>0, <1>1, <1>3, RangeOfFront DEF IInv, TypeOK, Imported
<1>6. /\ keychain'[e] = kept /\ kept \subseteq keychain[e]
      /\ keychain' \in [Ids -> SUBSET Slots]
      /\ \A id \in Ids \ {e} : keychain'[id] = keychain[id]
  BY <1>2, <1>4 DEF IInv, TypeOK
<1>7. ASSUME NEW x \in Ids \ {e}
      PROVE  /\ servers'[x] \in Row \cup {None}
             /\ servers'[x] = None <=> servers[x] = None
             /\ servers[x] # None => servers'[x].auth = servers[x].auth
  <2>1. CASE servers'[x] = servers[x]
    BY <2>1 DEF IInv, TypeOK
  <2>2. CASE servers'[x] # servers[x]
    <3>1. servers[x] # None /\ servers'[x] = [servers[x] EXCEPT !.jump = None]
      BY <1>2, <2>2
    <3>2. servers[x] \in Row
      BY <3>1 DEF IInv, TypeOK
    <3>3. /\ [servers[x] EXCEPT !.jump = None] \in Row
          /\ [servers[x] EXCEPT !.jump = None].auth = servers[x].auth
      BY <3>2 DEF Row
    <3> QED
      BY <3>1, <3>3
  <2> QED
    BY <2>1, <2>2
<1>8. /\ servers'[e] \in Row \cup {None} /\ (servers[e] = None => servers'[e] = None)
      /\ e \notin faulty' => servers'[e] = None /\ kept = {}
  BY <1>2, <1>4 DEF IInv, TypeOK
<1>9. servers' \in [Ids -> Row \cup {None}]
  <2>1. DOMAIN servers' = Ids /\ servers' = [x \in DOMAIN servers' |-> servers'[x]]
    BY <1>2 DEF IInv, TypeOK
  <2> QED
    BY <1>7, <1>8, <2>1
<1>10. faulty \subseteq faulty' /\ faulty' \subseteq faulty \cup {e}
  BY <1>2
<1>11. TypeOK'
  BY <1>3, <1>4, <1>5, <1>6, <1>9, <1>10 DEF IInv, TypeOK
<1>12. \A id \in Ids : ~Pending(id) /\ (Deleted(id)' <=> Deleted(id))
  BY <1>3 DEF Pending, Deleted
<1>13. \A id \in Entries : CleanOK(id)'
  <2>1. CleanOK(e)'
    BY <1>6, <1>8 DEF CleanOK
  <2>2. \A id \in Entries \ {e} : CleanOK(id)'
    BY <1>3, <1>6, <1>7, <1>10, <1>12, EntriesClean DEF Ids
  <2> QED
    BY <2>1, <2>2
<1>14. ASSUME Entries \cap faulty' = {}, NEW id \in Entries \ Range(Front(import.made))
       PROVE  servers'[id] = None /\ (~Deleted(id)' => keychain'[id] = {})
  <2>1. CASE id = e
    BY <1>6, <1>8, <1>14, <2>1
  <2>2. CASE id # e
    <3>1. Entries \cap faulty = {} /\ id \in Entries \ Range(import.made) /\ id \in Ids
      BY <1>5, <1>10, <1>14, <2>2 DEF Ids
    <3>2. servers[id] = None /\ (~Deleted(id) => keychain[id] = {})
      BY <1>3, <3>1 DEF IInv, ImportInv
    <3> QED
      BY <1>6, <1>7, <1>12, <2>2, <3>1, <3>2
  <2> QED
    BY <2>1, <2>2
<1>15. import.plan \in Plans
  BY <1>3 DEF IInv, ImportInv
<1>16. ImportInv'
  BY <1>5, <1>14, <1>15 DEF ImportInv, Working
<1>17. \A id \in Entries : Deleted(id) =>
          keychain'[id] \subseteq keychain[id] /\ (servers[id] = None => servers'[id] = None)
  BY <1>6, <1>7, <1>8 DEF Ids
<1> QED
  BY <1>3, <1>4, <1>5, <1>6, <1>7, <1>10, <1>11, <1>13, <1>16, <1>17, ImportStep

LEMMA RollBackGroupStep == ASSUME IInv, RollBackGroup PROVE IInv'
<1>1. /\ import.pc = "rollback" /\ import.made = <<>> /\ import.plan \in Plans
      /\ groups' = FALSE /\ import' = [import EXCEPT !.pc = "failed"]
      /\ UNCHANGED <<servers, keychain, history, save, removal, faulty>>
  BY DEF RollBackGroup, IInv, ImportInv
<1>2. /\ import'.pc = "failed" /\ import'.plan = import.plan /\ import'.made = import.made
      /\ import' \in Imported
  BY <1>1 DEF IInv, TypeOK, Imported, ImportPC
<1>3. TypeOK'
  BY <1>1, <1>2 DEF IInv, TypeOK
<1>4. \A id \in Entries : ~Pending(id) /\ (Deleted(id)' <=> Deleted(id))
  BY <1>1 DEF Pending, Deleted
<1>5. \A id \in Entries : CleanOK(id)'
  BY <1>1, <1>4, EntriesClean
<1>6. Entries \cap faulty = {} =>
        \A id \in Entries \ Range(import.made) :
            servers[id] = None /\ (~Deleted(id) => keychain[id] = {})
  BY <1>1 DEF IInv, ImportInv
<1>7. ImportInv'
  BY <1>1, <1>2, <1>4, <1>6 DEF ImportInv, Working
<1> QED
  BY <1>1, <1>2, <1>3, <1>5, <1>7, ImportStep

(* An import that has begun has an entry that may count as faulty.         *)
LEMMA PlanHasEntry == \A plan \in Plans : Entries # {}
<1> SUFFICES ASSUME NEW plan \in Plans PROVE Entries # {}
  OBVIOUS
<1>1. plan \in Seq(Planned) /\ plan # <<>>
  OBVIOUS
<1>2. Head(plan) \in Planned
  BY <1>1
<1> QED
  BY <1>2 DEF Planned

LEMMA RollBackGroupFailsStep == ASSUME IInv, RollBackGroupFails PROVE IInv'
<1>1. /\ import.pc = "rollback" /\ import.made = <<>> /\ import.plan \in Plans
      /\ import' = [import EXCEPT !.pc = "failed"] /\ faulty' = faulty \cup Entries
      /\ UNCHANGED <<servers, groups, keychain, history, save, removal>>
  BY DEF RollBackGroupFails, IInv, ImportInv
<1>2. /\ import'.pc = "failed" /\ import'.plan = import.plan /\ import'.made = import.made
      /\ import' \in Imported
  BY <1>1 DEF IInv, TypeOK, Imported, ImportPC
<1>3. TypeOK'
  BY <1>1, <1>2 DEF IInv, TypeOK, Ids
<1>4. \A id \in Entries : CleanOK(id)'
  BY <1>1 DEF CleanOK
<1>5. Entries \cap faulty' # {}
  BY <1>1, PlanHasEntry
<1>6. ImportInv'
  BY <1>1, <1>2, <1>5 DEF ImportInv, Working
<1> QED
  BY <1>1, <1>2, <1>3, <1>4, <1>6, ImportStep

-----------------------------------------------------------------------------
(* The program is killed: whatever was being worked on counts as faulty,   *)
(* and everything else is as the invariant says.                           *)
LEMMA CrashStep == ASSUME IInv, Crash PROVE IInv'
<1>1. /\ \A c \in Saves : save'[c] = IF Running(c) THEN [Idle EXCEPT !.pc = "done"] ELSE save[c]
      /\ \A d \in Deletes :
            removal'[d] = IF Deleting(d) THEN [removal[d] EXCEPT !.pc = "refused"] ELSE removal[d]
      /\ import' = IF import.pc \in {"new", "created", "failed"} THEN import
                   ELSE [import EXCEPT !.pc = "failed"]
      /\ faulty' = faulty \cup Busy
      /\ UNCHANGED <<servers, groups, keychain, history>>
  BY DEF Crash
<1>2. /\ \A c \in Saves : Running(c) => Edited \in faulty'
      /\ \A d \in Deletes : Deleting(d) => removal[d].id \in faulty'
      /\ import.pc \notin {"new", "created", "failed"} => Entries \subseteq faulty'
      /\ faulty \subseteq faulty'
  BY <1>1 DEF Busy
<1>3. \A c \in Saves : save'[c].pc \in {"new", "done"} /\ ~Running(c)'
  BY <1>1 DEF Running, Idle
<1>4. \A d \in Deletes :
        /\ removal'[d].id = removal[d].id /\ removal'[d].left = removal[d].left
        /\ removal'[d].before = removal[d].before /\ ~Deleting(d)'
        /\ removal'[d] \in Removal
        /\ removal'[d] = removal[d] \/ (Deleting(d) /\ removal'[d].pc = "refused")
  <2>1. ASSUME NEW d \in Deletes, Deleting(d)
        PROVE  /\ removal'[d] = [removal[d] EXCEPT !.pc = "refused"]
               /\ removal[d] \in Removal
    BY <1>1, <2>1 DEF IInv, TypeOK
  <2>2. ASSUME NEW d \in Deletes, ~Deleting(d) PROVE removal'[d] = removal[d] /\ ~Deleting(d)'
    BY <1>1, <2>2 DEF Deleting
  <2>3. ASSUME NEW d \in Deletes, Deleting(d)
        PROVE  /\ removal'[d].id = removal[d].id /\ removal'[d].left = removal[d].left
               /\ removal'[d].before = removal[d].before /\ removal'[d].pc = "refused"
               /\ removal'[d] \in Removal /\ ~Deleting(d)'
    BY <2>1, <2>3, ZenonT(60) DEF Removal, RemovalPC, Deleting
  <2>4. ASSUME NEW d \in Deletes, ~Deleting(d)
        PROVE  /\ removal'[d].id = removal[d].id /\ removal'[d].left = removal[d].left
               /\ removal'[d].before = removal[d].before /\ removal'[d] = removal[d]
               /\ removal'[d] \in Removal /\ ~Deleting(d)'
    <3>1. removal[d] \in Removal
      BY DEF IInv, TypeOK
    <3> QED
      BY <2>2, <2>4, <3>1
  <2> SUFFICES ASSUME NEW d \in Deletes
               PROVE  /\ removal'[d].id = removal[d].id /\ removal'[d].left = removal[d].left
                      /\ removal'[d].before = removal[d].before /\ ~Deleting(d)'
                      /\ removal'[d] \in Removal
                      /\ removal'[d] = removal[d] \/ (Deleting(d) /\ removal'[d].pc = "refused")
    OBVIOUS
  <2>5. CASE Deleting(d)
    BY <2>3, <2>5
  <2>6. CASE ~Deleting(d)
    BY <2>4, <2>6
  <2> QED
    BY <2>5, <2>6
<1>5. \A id : Deleted(id)' <=> Deleted(id)
  BY <1>4 DEF Deleted
<1>6. /\ import' \in Imported
      /\ \/ import' = import
         \/ import'.pc = "failed" /\ import.pc \notin {"new", "created", "failed"}
  <2>1. import \in Imported /\ "failed" \in ImportPC
    BY DEF IInv, TypeOK, ImportPC
  <2>2. /\ [import EXCEPT !.pc = "failed"] \in Imported
        /\ [import EXCEPT !.pc = "failed"].pc = "failed"
    BY <2>1 DEF Imported
  <2>3. CASE import.pc \in {"new", "created", "failed"}
    BY <1>1, <2>1, <2>3
  <2>4. CASE import.pc \notin {"new", "created", "failed"}
    <3>1. import' = [import EXCEPT !.pc = "failed"]
      BY <1>1, <2>4
    <3> QED
      BY <2>2, <2>4, <3>1
  <2> QED
    BY <2>3, <2>4
<1>7. TypeOK'
  <2>1. \A d \in Deletes : Deleting(d) => removal[d].id \in Ids
    BY DEF IInv, RemovalInv, RemovalOK, Deleting
  <2>2. Busy \subseteq Ids
    BY <2>1 DEF Busy, Ids
  <2>3. [Idle EXCEPT !.pc = "done"] \in Save
    BY IdleSave
  <2>4. save' \in [Saves -> Save]
    BY <2>3 DEF Crash, IInv, TypeOK
  <2>5. removal' \in [Deletes -> Removal]
    <3>1. removal' = [d \in Deletes |-> removal'[d]]
      BY DEF Crash
    <3> QED
      BY <1>4, <3>1
  <2> QED
    BY <1>1, <1>6, <2>2, <2>4, <2>5 DEF IInv, TypeOK
<1>8. SaveInv'
  BY <1>3 DEF SaveInv, SaveOK, SaveClean
<1>9. RemovalInv'
  <2>1. ASSUME NEW d \in Deletes PROVE RemovalOK(d)'
    <3>1. RemovalOK(d)
      BY DEF IInv, RemovalInv
    <3>2. CASE removal'[d] = removal[d]
      BY <1>1, <1>2, <3>1, <3>2 DEF RemovalOK
    <3>3. CASE Deleting(d) /\ removal'[d].pc = "refused"
      BY <1>2, <1>4, <3>1, <3>3 DEF RemovalOK, Deleting
    <3> QED
      BY <1>4, <3>2, <3>3
  <2> QED
    BY <1>1, <1>5, <2>1 DEF IInv, RemovalInv
<1>10. CleanInv'
  <2>1. ASSUME NEW id \in Ids, id \notin faulty' PROVE CleanOK(id)'
    <3>1. CleanOK(id)
      BY DEF IInv, CleanInv
    <3>2. /\ id \notin faulty /\ (id = Edited => \A c \in Saves : ~Running(c))
          /\ \A d \in Deletes : Deleting(d) => removal[d].id # id
          /\ id \in Entries => ~Pending(id)
      BY <1>2, <2>1 DEF Pending
    <3>3. Left(id)' = Left(id)
      <4>1. {d \in Deletes : removal'[d].id = id} = {d \in Deletes : removal[d].id = id}
        BY <1>4
      <4> QED
        BY <1>4, <4>1 DEF Left
    <3> QED
      BY <1>1, <3>1, <3>2, <3>3 DEF CleanOK, Left
  <2>2. ASSUME NEW id \in Ids, id \in faulty' PROVE CleanOK(id)'
    BY <2>2 DEF CleanOK
  <2> QED
    BY <2>1, <2>2 DEF CleanInv
<1>11. ImportInv'
  <2>1. CASE import' = import
    <3>1. \A id \in Entries : servers[id] = None =>
              servers'[id] = None /\ ~Deleted(id)' = ~Deleted(id)
      BY <1>1, <1>5
    <3> QED
      BY <1>1, <1>2, <1>4, <1>5, <2>1, ImportKept
  <2>2. CASE import'.pc = "failed" /\ import.pc \notin {"new", "created", "failed"}
    <3>1. import.plan \in Plans /\ import'.plan = import.plan
      BY <1>1, <2>2 DEF IInv, ImportInv, TypeOK, Imported
    <3>2. Entries \cap faulty' # {}
      BY <1>2, <2>2, <3>1, PlanHasEntry
    <3> QED
      BY <2>2, <3>1, <3>2 DEF ImportInv, Working
  <2> QED
    BY <1>6, <2>1, <2>2
<1>12. LoginKept'
  BY <1>1, <1>4, <1>6 DEF IInv, LoginKept
<1> QED
  BY <1>7, <1>8, <1>9, <1>10, <1>11, <1>12 DEF IInv

LEMMA StutterStep == ASSUME IInv, UNCHANGED vars PROVE IInv'
<1>1. UNCHANGED <<servers, groups, keychain, history, save, removal, import, faulty>>
  BY DEF vars
<1>2. TypeOK' /\ LoginKept'
  BY <1>1 DEF IInv, TypeOK, LoginKept
<1>3. SaveInv'
  BY <1>1, ZenonT(60) DEF IInv, SaveInv, SaveOK, SaveClean, Running, Deleted, Goal
<1>4. RemovalInv'
  BY <1>1 DEF IInv, RemovalInv, RemovalOK, Deleted
<1>5. CleanInv'
  BY <1>1 DEF IInv, CleanInv, CleanOK, Running, Deleting, Pending, Entry
<1>6. ImportInv'
  BY <1>1 DEF IInv, ImportInv, MadeOK, Unmade, Pending, Entry, Deleted
<1> QED
  BY <1>2, <1>3, <1>4, <1>5, <1>6 DEF IInv

LEMMA Stepwise == IInv /\ [Next]_vars => IInv'
<1> SUFFICES ASSUME IInv, [Next]_vars PROVE IInv'
  OBVIOUS
<1>1. ASSUME NEW c \in Saves, Edit(c) PROVE IInv'
  BY <1>1, FieldMissingStep, KeepFieldStep, WriteFieldStep, WriteFailsStep, StoreEditStep,
     StoreEditFailsStep, CleanUpStep, RollBackStep DEF Edit
<1>2. ASSUME NEW c \in Saves, Convert(c) PROVE IInv'
  BY <1>2, BeginConvertStep, ConvertRefusedStep, WriteKeyStep, StoreConvertedStep,
     StoreConvertedFailsStep DEF Convert
<1>3. ASSUME NEW c \in Saves, NEW input \in Inputs, BeginEdit(c, input) PROVE IInv'
  BY <1>3, BeginEditStep
<1>4. ASSUME NEW d \in Deletes, Delete(d) PROVE IInv'
  BY <1>4, DeleteSecretsStep, DeleteRowStep, DeleteRowFailsStep DEF Delete
<1>5. ASSUME NEW d \in Deletes, NEW id \in Ids, BeginDelete(d, id) PROVE IInv'
  BY <1>5, BeginDeleteStep
<1>6. ASSUME NEW note \in Notes, RecordNoteRevision(note) PROVE IInv'
  BY <1>6, NoteStep
<1>7. ASSUME NEW plan \in Plans, BeginImport(plan) PROVE IInv'
  BY <1>7, BeginImportStep
<1>8. CASE Import
  BY <1>8, CreateGroupStep, CreateGroupFailsStep, StoreSecretsStep, StoreSecretsFailsStep,
     InsertStep, InsertFailsStep, RollBackServerStep, RollBackGroupStep, RollBackGroupFailsStep
     DEF Import
<1>9. CASE ClearSudoPassword
  BY <1>9, ClearSudoStep
<1>10. CASE Crash
  BY <1>10, CrashStep
<1>11. CASE UNCHANGED vars
  BY <1>11, StutterStep
<1> QED
  BY <1>1, <1>2, <1>3, <1>4, <1>5, <1>6, <1>7, <1>8, <1>9, <1>10, <1>11 DEF Next

-----------------------------------------------------------------------------
LEMMA Inductive == Spec => []IInv
  BY InitIInv, Stepwise, PTL DEF Spec

(* Whatever is saved, deleted and imported at once, rows, slots and calls  *)
(* stay what the code means them to be (types.rs, server_credentials.rs).  *)
THEOREM TypeCorrect == Spec => []TypeOK
<1>1. IInv => TypeOK
  BY DEF IInv
<1> QED
  BY <1>1, Inductive, PTL

(* The secrets a server's row refers to are in the keychain, whatever      *)
(* fails in update_server, convert_identity_file_to_keychain or            *)
(* create_server, until delete_server or a rollback takes the server away. *)
THEOREM WayInKept == Spec => []LoginKept
<1>1. IInv => LoginKept
  BY DEF IInv
<1> QED
  BY <1>1, Inductive, PTL

(* What update_server, delete_server and apply_import leave in the         *)
(* keychain is used by a server, where no deletion has failed.             *)
THEOREM NothingLeftOver == Spec => []NothingOrphaned
<1>1. IInv => NothingOrphaned
  <2>1. ASSUME IInv, NEW id \in Ids \ faulty, Idling(id)
        PROVE  keychain[id] \ {"sudo_password"} \subseteq
                  IF servers[id] = None
                  THEN UNION {removal[d].left : d \in {d \in Deletes : removal[d].id = id}}
                  ELSE servers[id].auth.refs
    <3>1. CleanOK(id)
      BY <2>1 DEF IInv, CleanInv
    <3>2. id \in Entries => ~Pending(id)
      BY <2>1 DEF Idling, Pending
    <3> QED
      BY <2>1, <3>1, <3>2 DEF CleanOK, Idling, Sudo
  <2> QED
    BY <2>1 DEF NothingOrphaned
<1> QED
  BY <1>1, Inductive, PTL

(* apply_import creates all of its plan, or rollback() leaves nothing.     *)
THEOREM ImportComplete == Spec => []ImportAllOrNothing
<1>1. ASSUME IInv, Entries \cap faulty = {}, import.pc = "failed"
      PROVE  ~groups /\ \A id \in Entries :
                servers[id] = None /\ (~Deleted(id) => keychain[id] = {})
  BY <1>1, NothingInEmpty DEF IInv, ImportInv
<1>2. ASSUME IInv, import.pc = "created", NEW i \in DOMAIN import.plan PROVE MadeOK(i)
  <2>1. import.plan \in Plans /\ Len(import.made) = import.next - 1
        /\ import.next = Len(import.plan) + 1 /\ import.made \in Seq(Entries)
        /\ \A j \in DOMAIN import.made : MadeOK(j)
    BY <1>2 DEF IInv, ImportInv, Working, TypeOK, Imported
  <2>2. import.plan \in Seq(Planned)
    BY <2>1
  <2>3. DOMAIN import.plan = 1..Len(import.plan) /\ DOMAIN import.made = 1..Len(import.made)
        /\ Len(import.plan) \in Nat
    BY <2>1, <2>2, LenProperties
  <2> QED
    BY <2>1, <2>3
<1>3. \A id : id \in {removal[d].id : d \in Deletes} <=> Deleted(id)
  BY DEF Deleted
<1>4. IInv => ImportAllOrNothing
  BY <1>1, <1>2, <1>3 DEF ImportAllOrNothing, MadeOK
<1> QED
  BY <1>4, Inductive, PTL

(* delete_server names every secret that stays in its result.              *)
THEOREM DeletionTells == Spec => []DeleteTells
<1>1. IInv => DeleteTells
  BY DEF IInv, RemovalInv, RemovalOK, DeleteTells
<1> QED
  BY <1>1, Inductive, PTL
=============================================================================
