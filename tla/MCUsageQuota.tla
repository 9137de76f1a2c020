----------------------------- MODULE MCUsageQuota ------------------------------
(***************************************************************************)
(* A minute of two seconds and an hour of five.                            *)
(***************************************************************************)
EXTENDS UsageQuota, TLC

ShortLengths == [w \in Window |-> IF w = "minute" THEN 2 ELSE 5]
SmallLimits == [w \in Window |-> IF w = "minute" THEN 2 ELSE 3]

Symmetric == Permutations(Session)
=============================================================================
