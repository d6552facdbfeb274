---------------------------- MODULE MCGapBounty ----------------------------
(***************************************************************************)
(* GapBounty for TLC: two users who may each be requester, verifier,       *)
(* supplier and recipient, with the contract's address between theirs so   *)
(* that it can stand anywhere in a payout vector.                          *)
(***************************************************************************)
EXTENDS GapBounty

MCUsers == {1, 3}
MCContract == 2

Nobody == {}
AllUsers == MCUsers
OneRequester == {1}
TheRequester == {1}
OneBlockable == {3}
OneVerifier == {3}
AnyVerifier == {0, 1, 2, 3}
OnlyContract == {2}
=============================================================================
