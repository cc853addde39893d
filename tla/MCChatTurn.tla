----------------------------- MODULE MCChatTurn -----------------------------
(* Instances for TLC.                                                      *)
EXTENDS ChatTurn, TLC

CONSTANTS m1, m2, m3

MCSenders == {m1, m2, m3}

(* Senders are interchangeable: it is enough to look at behaviours in      *)
(* which they enter in one order.                                          *)
EnterInOrder == (pc[m1] = "new" => pc[m2] = "new") /\ (pc[m2] = "new" => pc[m3] = "new")
=============================================================================
