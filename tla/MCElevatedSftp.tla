--------------------------- MODULE MCElevatedSftp ---------------------------
(* Model checking of ElevatedSftp.                                         *)
EXTENDS ElevatedSftp

CONSTANTS c1, c2, w1, w2, root

(* A command that changes and one that reads with the rights of root, and  *)
(* one through the normal channel; the other user is one to switch to.     *)
MCRequests ==
    {[user |-> root, changes |-> TRUE], [user |-> root, changes |-> FALSE],
     [user |-> None, changes |-> FALSE]}

(* The calls of a kind are alike: they begin in one order.                 *)
BeginInOrder ==
    /\ cmd[c1].state = "idle" => cmd[c2].state = "idle"
    /\ switch[w1].state = "idle" => switch[w2].state = "idle"
=============================================================================
