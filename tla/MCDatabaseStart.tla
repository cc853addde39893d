-------------------------- MODULE MCDatabaseStart --------------------------
(* Instances for TLC.  Three keys suffice for one found at the first start *)
(* and two generated, or two found and one generated.                      *)
EXTENDS DatabaseStart, TLC

AnyKey == Permutations(Keys)
=============================================================================
