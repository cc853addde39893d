-------------------------- MODULE MCServerProfiles --------------------------
(* Instances for TLC.                                                      *)
EXTENDS ServerProfiles, TLC

CONSTANTS e1, e2

Auth(kind, refs) == [kind |-> kind, refs |-> refs]
Sent(kind, given) == [kind |-> kind, given |-> given]

SomeAuths ==
    {Auth("password", {"password"}), Auth("certificate", {"certificate", "certificate_key"}),
     Auth("identity_file", {"passphrase"})}

SomeInputs ==
    {Sent("password", {"password", "sudo_password"}), Sent("private_key", {"passphrase"}),
     Sent("private_key", {"private_key", "passphrase"}), Sent("certificate", {"certificate"}),
     Sent("identity_file", {})}

Step(id, input, jump) == [id |-> id, input |-> input, jump |-> jump]

(* A jump host from the list, and a planned one.                           *)
Chained ==
    {<<Step(e1, Sent("private_key", {"private_key"}), Edited),
       Step(e2, Sent("password", {"password", "sudo_password"}), e1)>>}

PasswordOnly == {Auth("password", {"password"})}
Unchanged == {Sent("password", {})}

(* Bound: three calls of the five meet.                                    *)
ThreeCalls ==
    Cardinality({c \in Saves : save[c].pc # "new"}) + Cardinality({d \in Deletes : removal[d].pc # "new"})
        + Len(history) + (IF import.pc = "new" THEN 0 ELSE 1) <= 3

Interchangeable == Permutations(Saves)
=============================================================================
