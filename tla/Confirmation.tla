---------------------------- MODULE Confirmation ----------------------------
(***************************************************************************)
(* What a confirmation promises to the user, without register, channels or *)
(* locks: a question is open from the moment it is asked; at most one      *)
(* answer is accepted, and only while it is open; it closes once, either   *)
(* with exactly the accepted answer or without any.                        *)
(***************************************************************************)
CONSTANTS Questions, Decisions, NoDecision

VARIABLES state, accepted, result

vars == <<state, accepted, result>>

Init ==
    /\ state = [q \in Questions |-> "unasked"]
    /\ accepted = [q \in Questions |-> NoDecision]
    /\ result = [q \in Questions |-> NoDecision]

Ask(q) ==
    /\ state[q] = "unasked"
    /\ state' = [state EXCEPT ![q] = "open"]
    /\ UNCHANGED <<accepted, result>>

Accept(q, d) ==
    /\ state[q] = "open"
    /\ accepted[q] = NoDecision
    /\ accepted' = [accepted EXCEPT ![q] = d]
    /\ UNCHANGED <<state, result>>

CloseDecided(q) ==
    /\ state[q] = "open"
    /\ accepted[q] # NoDecision
    /\ state' = [state EXCEPT ![q] = "closed"]
    /\ result' = [result EXCEPT ![q] = accepted[q]]
    /\ UNCHANGED accepted

(* Time limit, abort, or replacement.  An answer accepted in the same      *)
(* instant is not acted upon: closing undecided is always the safe side.   *)
CloseUndecided(q) ==
    /\ state[q] = "open"
    /\ state' = [state EXCEPT ![q] = "closed"]
    /\ UNCHANGED <<accepted, result>>

Next ==
    \E q \in Questions :
        \/ Ask(q)
        \/ \E d \in Decisions : Accept(q, d)
        \/ CloseDecided(q)
        \/ CloseUndecided(q)

Spec == Init /\ [][Next]_vars
=============================================================================
