---------------------------- MODULE MCActionExec ----------------------------
(* Instances for TLC: one item for each way through the decisions, and for *)
(* each kind.                                                              *)
EXTENDS ActionExec, TLC

Plain == [kind |-> "command", verdict |-> "auto", secret |-> FALSE, modifying |-> FALSE,
          red |-> FALSE, sudo |-> "none"]
Modifying == [Plain EXCEPT !.modifying = TRUE]
Denied == [Plain EXCEPT !.verdict = "deny"]
Red == [Modifying EXCEPT !.red = TRUE]
Sudo == [Plain EXCEPT !.sudo = "plain"]
Read == [Plain EXCEPT !.kind = "read"]
Write == [Modifying EXCEPT !.kind = "write"]
Note == [Plain EXCEPT !.kind = "note"]

Standard == [policy |-> "standard", redAlways |-> FALSE, sudoPassword |-> FALSE,
             secondOpinion |-> FALSE, injectionCheck |-> FALSE]
Strict == [Standard EXCEPT !.policy = "strict", !.redAlways = TRUE, !.secondOpinion = TRUE,
                           !.sudoPassword = TRUE]
Balanced == [Strict EXCEPT !.policy = "balanced"]
Checked == [Standard EXCEPT !.injectionCheck = TRUE]

EveryReason == {Plain, Denied, Red, Sudo}
WithTransfers == {Plain, Sudo, Read, Write, Note}

EverySetting == {Balanced, Checked}
OnlyStrict == {Strict}
=============================================================================
