------------------------------- MODULE Keryx --------------------------------
(***************************************************************************)
(* A research pipeline that buys missing evidence through the adapter of   *)
(* examples/keryx-adapter/src/adapter.ts: it detects a claim without an    *)
(* independent source, opens a gap for it, awaits the receipt, merges what *)
(* was accepted and starts again, also when it was given nothing.  The     *)
(* pipeline itself is the caller's, as the adapter's comments describe it. *)
(***************************************************************************)
EXTENDS Naturals, Sequences, FiniteSets, FiniteSetsExt

CONSTANTS ClaimCount,     \* the claims are 1..ClaimCount, in the order of the question
          Threshold,      \* coverageThresholdBps
          MaxGaps         \* bound: gaps opened

\* Of the constants, for those who instantiate this module.
KeryxAssumption == ClaimCount \in Nat /\ Threshold \in 0..10000 /\ MaxGaps \in Nat

Claims == 1..ClaimCount

VARIABLES pool,       \* the evidence at hand: the claim, and if the source is independent
          gaps,       \* the gaps opened, in order: their claim and what became of them
          pc,         \* "detect", "poll", "receipt", "answer"
          overdue,    \* the wait has lasted longer than its timeout
          nulls       \* claim -> how often awaitGap gave null, or a call threw

vars == <<pool, gaps, pc, overdue, nulls>>

Evidence == [claim : Claims, independent : BOOLEAN]

Init ==
  /\ pool \in SUBSET Evidence
  /\ gaps = <<>>
  /\ pc = "detect"
  /\ overdue = FALSE
  /\ nulls = [c \in Claims |-> 0]

-----------------------------------------------------------------------------
Unsupported == {c \in Claims : [claim |-> c, independent |-> TRUE] \notin pool}

\* Math.round, of a share of the claims in basis points.
CoverageBps ==
  IF ClaimCount = 0 THEN 10000
  ELSE (20000 * (ClaimCount - Cardinality(Unsupported)) + ClaimCount) \div (2 * ClaimCount)

Insufficient == Unsupported # {} /\ CoverageBps < Threshold

Target == Min(Unsupported)

Gap == gaps[Len(gaps)]

\* What became of a gap: "settled" has accepted evidence, "empty" has none.
Endings == {"settled", "empty", "expired", "cancelled"}

Answer ==
  /\ pc = "detect" /\ ~Insufficient
  /\ pc' = "answer"
  /\ UNCHANGED <<pool, gaps, overdue, nulls>>

\* createGap, whose answer may be lost: the gap is there, and the pipeline starts again.
OpenGap ==
  /\ pc = "detect" /\ Insufficient /\ Len(gaps) < MaxGaps
  /\ gaps' = Append(gaps, [claim |-> Target, state |-> "live"])
  /\ overdue' = FALSE
  /\ \/ pc' = "poll" /\ UNCHANGED nulls
     \/ pc' = "detect" /\ nulls' = [nulls EXCEPT ![Target] = @ + 1]
  /\ UNCHANGED pool

StartsAgain ==
  /\ pc' = "detect"
  /\ nulls' = [nulls EXCEPT ![Gap.claim] = @ + 1]
  /\ UNCHANGED <<pool, gaps, overdue>>

\* waitForEvidence returns.
Ended ==
  /\ pc = "poll" /\ Gap.state \in Endings
  /\ pc' = "receipt"
  /\ UNCHANGED <<pool, gaps, overdue, nulls>>

\* waitForEvidence throws: the first poll that fails, as much as its timeout.
PollFails == pc = "poll" /\ StartsAgain

TimesOut == pc = "poll" /\ Gap.state = "live" /\ overdue /\ StartsAgain

\* The gap has no receipt, or this call fails.
NoReceipt == pc = "receipt" /\ StartsAgain

\* Of unknown provenance.
MergedBug(claim) == {[claim |-> claim, independent |-> FALSE]}

\* mergeEvidence takes every accepted source for an independent one.
Merged(claim) == {[claim |-> claim, independent |-> TRUE]}

Merge ==
  /\ pc = "receipt" /\ Gap.state \in {"settled", "empty"}
  /\ pool' = IF Gap.state = "settled" THEN pool \cup Merged(Gap.claim) ELSE pool
  /\ pc' = "detect"
  /\ UNCHANGED <<gaps, overdue, nulls>>

\* The market ends a gap, whoever waits for it.
End(i) ==
  /\ gaps[i].state = "live"
  /\ \E state \in Endings : gaps' = [gaps EXCEPT ![i].state = state]
  /\ UNCHANGED <<pool, pc, overdue, nulls>>

Overdue == pc = "poll" /\ ~overdue /\ overdue' = TRUE /\ UNCHANGED <<pool, gaps, pc, nulls>>

Next ==
  \/ Answer \/ OpenGap \/ Ended \/ PollFails \/ TimesOut \/ NoReceipt \/ Merge \/ Overdue
  \/ \E i \in DOMAIN gaps : End(i)

Spec == Init /\ [][Next]_vars

-----------------------------------------------------------------------------
(* Correctness.                                                             *)

TypeOK ==
  /\ pool \subseteq Evidence
  /\ \A i \in DOMAIN gaps : gaps[i].claim \in Claims /\ gaps[i].state \in Endings \cup {"live"}
  /\ pc \in {"detect", "poll", "receipt", "answer"}
  /\ pc \in {"poll", "receipt"} => gaps # <<>>
  /\ overdue \in BOOLEAN
  /\ \A c \in Claims : nulls[c] \in Nat

(* The pipeline pays for a claim again only if it was told of no receipt    *)
(* before: what it merges is what detectGap looks for.  (Each null may well *)
(* hide a gap that is settled later, and paid.)                             *)
PaidOncePerClaim ==
  \A c \in Claims :
    Cardinality({i \in DOMAIN gaps : gaps[i].claim = c /\ gaps[i].state = "settled"})
      <= 1 + nulls[c]
=============================================================================
