---------------------------- MODULE MCSettlement ----------------------------
(***************************************************************************)
(* Settlement for TLC.  BpsScale is 20, so that a fee of 1 is the 5 % and  *)
(* a share of 14 the 70 % of DEFAULT_POLICY; the other policies make the   *)
(* cap bind sooner and the minimum bite.                                   *)
(***************************************************************************)
EXTENDS Settlement, TLC

CONSTANTS a, b, c, v

AllSuppliers == {a, b, c}
Renaming == Permutations(AllSuppliers)

\* Odd and even sums, and the smallest ones, where fee and shares round to 0.
Units == {0, 1, 2, 3, 7, 13, 20, 21, 40}
FeePolicies == {0, 1, 7}
SharePolicies == {5, 14, 20}
MinPolicies == {1, 4}
=============================================================================
