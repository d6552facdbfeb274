---------------------------- MODULE MCGapService ----------------------------
(***************************************************************************)
(* GapService for TLC: three submissions, of which u1 and u2 have the same *)
(* content and u2 and u3 come from the same root domain.                   *)
(***************************************************************************)
EXTENDS GapService, TLC

CONSTANTS g1, g2, u1, u2, u3, r1, r2

OneGap == {g1}
TwoGaps == {g1, g2}
TwoUrls == {u1, u2}
ThreeUrls == {u1, u2, u3}
TwoCalls == {r1, r2}
Renaming == Permutations(TwoCalls)

Content == u1 :> 1 @@ u2 :> 1 @@ u3 :> 3
Domain == u1 :> 1 @@ u2 :> 2 @@ u3 :> 2
OneUnit == [g \in Gaps |-> 1]
OneAndTwo == g1 :> 1 @@ g2 :> 2
NoUrls == {}
LiveOnly == {"live"}
NotLive == {"simulation", "local"}
NoneOrTwo == {[sources |-> 0, independent |-> TRUE, unique |-> FALSE],
              [sources |-> 2, independent |-> FALSE, unique |-> TRUE]}
NoRequirement == {[sources |-> 0, independent |-> FALSE, unique |-> TRUE]}
=============================================================================
