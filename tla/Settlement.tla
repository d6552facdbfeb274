----------------------------- MODULE Settlement -----------------------------
(***************************************************************************)
(* buildSettlementPlan (packages/settlement/src/settle.ts): how a bounty   *)
(* is divided among the suppliers of accepted evidence.                    *)
(*                                                                         *)
(* The function is sequential.  Its inputs are the initial states and each *)
(* pass of its allocation loop is a step, so that what the loop keeps true *)
(* and that it ends can be stated and proved.  Amounts are integers in     *)
(* USDC base units (bigint in the code: no overflow).  A submission is its *)
(* supplier and its quality, the quality being qualityScore of an accepted *)
(* evaluation and 0 when there is none; its id is its position.  A share   *)
(* of a sum is taken in parts of BpsScale, 10000 in the code.              *)
(***************************************************************************)
EXTENDS Integers, Sequences, FiniteSets, FiniteSetsExt, Functions

CONSTANTS Suppliers,     \* supplier addresses, lower-cased
          Verifier,      \* the policy's verifierAddress
          BpsScale,
          Bounties,      \* the bountyUnits considered
          MaxQuality,    \* bound: the largest quality of a submission
          MaxSubs,       \* bound: submissions to a bounty
          FeeBps,        \* the verifierFeeBps of the policies considered
          ShareBps,      \* the maxShareBps of the policies considered
          MinUnits       \* the minPayoutUnits of the policies considered

ASSUME PolicyAssumption ==
  /\ BpsScale \in Nat \ {0}
  /\ FeeBps \subseteq 0..BpsScale
  /\ ShareBps \subseteq 1..BpsScale
  /\ MinUnits \subseteq Nat

ASSUME InputAssumption ==
  /\ IsFiniteSet(Suppliers)
  /\ Bounties \subseteq Nat
  /\ MaxQuality \in Nat /\ MaxSubs \in Nat

VARIABLES bounty,      \* bountyUnits
          subs,        \* the submissions with their evaluations, in order
          feeBps, shareBps, minUnits,   \* the policy
          pc,          \* "allocate", "pay", "done", or the error thrown
          round,       \* passes made
          live,        \* recipients whose share may still change
          locked,      \* recipients whose share is the cap
          tentative,   \* recipient -> units of the last pass, for its domain
          payouts,     \* the lines of the plan
          refund       \* the plan's refundUnits

input == <<bounty, subs, feeBps, shareBps, minUnits>>
work == <<live, locked, tentative>>
plan == <<payouts, refund>>
vars == <<input, pc, round, work, plan>>

-----------------------------------------------------------------------------
(* What the function computes before the loop.                              *)

SubsOf(r) == {i \in DOMAIN subs : subs[i].supplier = r /\ subs[i].quality > 0}

\* All accepted evidence of a supplier counts as one candidate.
Quality(r) == SumFunction([i \in SubsOf(r) |-> subs[i].quality])

Candidates == {r \in Suppliers : SubsOf(r) # {}}

\* The submission that stands for a candidate in the orders and in the plan.
First(r) == Min(SubsOf(r))

\* Forgets the scale of basis points.
VerifierFeeBug == bounty * feeBps

VerifierFee == (bounty * feeBps) \div BpsScale
Distributable == bounty - VerifierFee
Cap == (Distributable * shareBps) \div BpsScale

-----------------------------------------------------------------------------
(* One pass of the loop.                                                    *)

Pool == Distributable - Cap * Cardinality(locked)
TotalQuality == SumFunction([r \in live |-> Quality(r)])

Floor(r) == (Pool * Quality(r)) \div TotalQuality
Remainder(r) == (Pool * Quality(r)) % TotalQuality
Leftover == Pool - SumFunction([r \in live |-> Floor(r)])

\* The order of byRem: larger remainder first, ties by first submission.
Before(s, r) ==
  \/ Remainder(s) > Remainder(r)
  \/ Remainder(s) = Remainder(r) /\ First(s) < First(r)

\* Gives the odd units to the smallest remainders.
BonusToSmallestBug(r) == Cardinality({s \in live : Before(r, s)}) < Leftover

\* Keeps the odd units.
NoBonusBug(r) == FALSE

\* The largest remainders get one unit of the leftover each.
Bonus(r) == Cardinality({s \in live : Before(s, r)}) < Leftover

Share(r) == Floor(r) + (IF Bonus(r) THEN 1 ELSE 0)

\* Compares with the cap before the odd unit is added.
OverCapBug == {r \in live : Floor(r) > Cap}

OverCap == {r \in live : Share(r) > Cap}
BelowMin == {r \in live \ OverCap : Share(r) < minUnits}

Exhausted == live = {} \/ TotalQuality <= 0 \/ Pool <= 0

\* The loop ends with a pass that changes nothing, or when nothing is left to share.
Converged == Exhausted \/ (OverCap = {} /\ BelowMin = {})

\* Forgets to take a dropped recipient off the list.
SurvivorsBug == live \ OverCap

Survivors == live \ (OverCap \cup BelowMin)

\* The counter of the loop runs up to candidates.length + 1.
LastRound == Cardinality(Candidates) + 1

Pass ==
  /\ pc = "allocate"
  /\ IF Exhausted
       THEN UNCHANGED work
       ELSE /\ live' = Survivors
            /\ locked' = locked \cup OverCap
            /\ tentative' = [r \in Survivors |-> Share(r)]
  /\ pc' = IF Converged THEN "pay"
           ELSE IF round < LastRound THEN "allocate" ELSE "did_not_converge"
  /\ round' = round + 1
  /\ UNCHANGED <<input, plan>>

-----------------------------------------------------------------------------
(* The plan.                                                                *)

\* locked.get(c) ?? tentative.get(c), 0 when there is neither
Amount(c) ==
  IF c \in locked THEN Cap ELSE IF c \in DOMAIN tentative THEN tentative[c] ELSE 0

Line(submission, recipient, units) ==
  [submission |-> submission, recipient |-> recipient, units |-> units]

SupplierLines ==
  {Line(First(c), c, Amount(c)) : c \in {d \in Candidates : Amount(d) > 0}}

VerifierLines ==
  IF VerifierFee > 0 THEN {Line(0, Verifier, VerifierFee)} ELSE {}

SumOf(lines) == SumFunction([l \in lines |-> l.units])

\* Gives the verifier's fee to the requester as well.
ResidueBug == bounty - SumOf(SupplierLines)

Residue == bounty - SumOf(SupplierLines) - VerifierFee

Pay ==
  /\ pc = "pay"
  /\ payouts' = SupplierLines \cup VerifierLines
  /\ refund' = Residue
  /\ pc' = IF Residue < 0 THEN "overflowed_bounty"
           ELSE IF SumOf(SupplierLines \cup VerifierLines) + Residue # bounty
             THEN "invariant_violated" ELSE "done"
  /\ UNCHANGED <<input, round, work>>

Submission == [supplier : Suppliers, quality : 0..MaxQuality]

Init ==
  /\ bounty \in Bounties
  /\ subs \in UNION {[1..n -> Submission] : n \in 0..MaxSubs}
  /\ feeBps \in FeeBps
  /\ shareBps \in ShareBps
  /\ minUnits \in MinUnits
  /\ pc = "allocate"
  /\ round = 0
  /\ live = Candidates
  /\ locked = {}
  /\ tentative = [r \in {} |-> 0]
  /\ payouts = {}
  /\ refund = 0

Next == Pass \/ Pay

Spec == Init /\ [][Next]_vars

-----------------------------------------------------------------------------
(* Correctness.                                                             *)

TypeOK ==
  /\ bounty \in Bounties
  /\ feeBps \in FeeBps /\ shareBps \in ShareBps /\ minUnits \in MinUnits
  /\ pc \in {"allocate", "pay", "done",
             "did_not_converge", "overflowed_bounty", "invariant_violated"}
  /\ round \in Nat
  /\ live \subseteq Candidates
  /\ locked \subseteq Candidates
  /\ DOMAIN tentative \subseteq Candidates
  /\ \A l \in payouts : l.recipient \in Suppliers \cup {Verifier} /\ l.units \in Nat
  /\ refund \in Nat

(* The loop always ends within the count it allows itself: "allocation did  *)
(* not converge" is never thrown.                                           *)
Converges == pc # "did_not_converge"

(* Payouts, fee and refund add up to the bounty exactly, whatever was       *)
(* rounded, capped and dropped: the two checks at the end never throw.      *)
SumsExact == pc \notin {"overflowed_bounty", "invariant_violated"}

(* No supplier gets more than the cap, and none less than the minimum       *)
(* unless the cap itself is lower: a share at the cap is not dropped.       *)
SharesBounded ==
  pc = "done" =>
    \A l \in payouts \ VerifierLines :
      ~(l.units > Cap) /\ (l.units = Cap \/ ~(l.units < minUnits))

(* Better evidence is never paid less: locking at the cap, dropping small   *)
(* shares and handing out odd units in several passes keep the order of the *)
(* qualities.                                                               *)
MonotoneInQuality ==
  pc = "done" =>
    \A r, s \in Candidates : Quality(r) > Quality(s) => Amount(r) >= Amount(s)

(* Money goes back to the requester only when no supplier could take it:    *)
(* each is at the cap or gets nothing.                                      *)
ResidueForced ==
  pc = "done" /\ refund > 0 => \A c \in Candidates : c \in locked \/ Amount(c) = 0
=============================================================================
