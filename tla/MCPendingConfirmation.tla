----------------------- MODULE MCPendingConfirmation ------------------------
(* An instance for TLC: two waits that register under the same key.        *)
EXTENDS PendingConfirmation, TLC

CONSTANTS w1, w2, k1

SharedKey == (w1 :> k1) @@ (w2 :> k1)
=============================================================================
