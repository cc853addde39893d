----------------------------- MODULE MCHostKeys -----------------------------
(* Instances for TLC: a connection of the user by way of a jump host, one  *)
(* of an MCP client and a connection test to that jump host, which has two *)
(* keys of one algorithm and may have one of another.                      *)
EXTENDS HostKeys

CONSTANTS user, mcp, test, jump, target, old, new, other, targets

HostOfKey == [k \in Keys |-> IF k = targets THEN target ELSE jump]
AlgorithmOfKey == [k \in Keys |-> IF k = other THEN "rsa" ELSE "ed25519"]
Chains == [a \in Attempts |-> IF a = user THEN <<jump, target>> ELSE <<jump>>]
=============================================================================
