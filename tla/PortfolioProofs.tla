--------------------------- MODULE PortfolioProofs ---------------------------
(***************************************************************************)
(* What Portfolio promises of paid evidence and of the documents that      *)
(* prove a settlement, for every set of pages, every requirements, every   *)
(* opinion of a provider and every budget.  What the plan keeps is proved  *)
(* in SettlementProofs, of which SP is the instance that S is of           *)
(* Settlement.                                                             *)
(***************************************************************************)
EXTENDS Portfolio, FiniteSetTheorems, TLAPS

SP == INSTANCE SettlementProofs WITH
        Bounties <- {Budget}, FeeBps <- {VerifierFeeBps}, ShareBps <- {MaxShareBps},
        MinUnits <- {MinPayoutUnits}, MaxQuality <- ScoreScale, MaxSubs <- MaxDossier

-----------------------------------------------------------------------------
(* The plan.                                                                *)

\* The two instances are the same plan.
LEMMA SameSteps == [S!Next]_(S!vars) = [SP!Next]_(SP!vars)
  BY DEF S!SubsOf, SP!SubsOf, S!Quality, SP!Quality, S!Candidates, SP!Candidates,
         S!First, SP!First, S!VerifierFee, SP!VerifierFee, S!Distributable,
         SP!Distributable, S!Cap, SP!Cap, S!Pool, SP!Pool, S!TotalQuality,
         SP!TotalQuality, S!Floor, SP!Floor, S!Remainder, SP!Remainder, S!Leftover,
         SP!Leftover, S!Before, SP!Before, S!Bonus, SP!Bonus, S!Share, SP!Share,
         S!OverCap, SP!OverCap, S!BelowMin, SP!BelowMin, S!Exhausted, SP!Exhausted,
         S!Converged, SP!Converged, S!Survivors, SP!Survivors, S!LastRound,
         SP!LastRound, S!Pass, SP!Pass, S!Amount, SP!Amount, S!Line, SP!Line,
         S!SupplierLines, SP!SupplierLines, S!VerifierLines, SP!VerifierLines, S!SumOf,
         SP!SumOf, S!Residue, SP!Residue, S!Pay, SP!Pay, S!Next, SP!Next, S!vars,
         SP!vars, S!input, SP!input, S!work, SP!work, S!plan, SP!plan, S!SumFunction,
         SP!SumFunction, S!SumFunctionOnSet, SP!SumFunctionOnSet, S!FoldFunctionOnSet,
         SP!FoldFunctionOnSet, S!MapThenFoldSet, SP!MapThenFoldSet, S!Cardinality,
         SP!Cardinality, S!IsFiniteSet, SP!IsFiniteSet, S!Min, SP!Min

\* It starts in the same states.
LEMMA SameStart == S!Init = SP!Init
  BY DEF S!Init, SP!Init, S!Submission, SP!Submission,
         S!Candidates, SP!Candidates, S!SubsOf, SP!SubsOf

\* It has the same lines.
LEMMA SameLines ==
  /\ S!SupplierLines = SP!SupplierLines /\ S!VerifierLines = SP!VerifierLines
  /\ S!VerifierFee = SP!VerifierFee /\ S!Distributable = SP!Distributable
  /\ S!Candidates = SP!Candidates /\ \A r : S!SubsOf(r) = SP!SubsOf(r)
  BY DEF S!SupplierLines, SP!SupplierLines, S!VerifierLines, SP!VerifierLines,
         S!VerifierFee, SP!VerifierFee, S!Distributable, SP!Distributable,
         S!Candidates, SP!Candidates, S!SubsOf, SP!SubsOf, S!Amount, SP!Amount, S!Line,
         SP!Line, S!First, SP!First, S!Min, SP!Min, S!Cap, SP!Cap

\* Sums and finite sets are the same everywhere.
LEMMA SameSums ==
  /\ \A f : SumFunction(f) = SP!SumFunction(f)
  /\ \A lines : S!SumOf(lines) = SP!SumOf(lines)
  /\ \A T : IsFiniteSet(T) = SP!IsFiniteSet(T)
<1>1. \A f : SumFunction(f) = SP!SumFunction(f)
  BY DEF SumFunction, SP!SumFunction, SumFunctionOnSet, SP!SumFunctionOnSet,
         FoldFunctionOnSet, SP!FoldFunctionOnSet, MapThenFoldSet, SP!MapThenFoldSet
<1>2. \A lines : S!SumOf(lines) = SP!SumOf(lines)
  BY DEF S!SumOf, SP!SumOf,
         S!SumFunction, SP!SumFunction, S!SumFunctionOnSet, SP!SumFunctionOnSet,
         S!FoldFunctionOnSet, SP!FoldFunctionOnSet, S!MapThenFoldSet, SP!MapThenFoldSet
<1>3. \A T : IsFiniteSet(T) = SP!IsFiniteSet(T)
  BY DEF IsFiniteSet, SP!IsFiniteSet
<1>4. QED
  BY <1>1, <1>2, <1>3

\* What Settlement assumes holds of the budget's plan.
LEMMA PlanAssumptions == SP!PolicyAssumption /\ SP!InputAssumption
<1>1. IsFiniteSet(Suppliers)
  <2> DEFINE f == [p \in Pages |-> p.supplier]
  <2>1. f \in Surjection(Pages, Suppliers)
    BY DEF Suppliers, Surjection
  <2>2. QED
    BY <2>1, DossierAssumption, FS_Surjection
<1>2. QED
  BY <1>1, SameSums, DossierAssumption, ScoreAssumption, BudgetAssumption
     DEF SP!PolicyAssumption, SP!InputAssumption

\* The invariant of the plan holds when it starts and is kept.
LEMMA PlanInvInit == S!Init => SP!SettlementInv
  BY SP!SettlementInvInit, PlanAssumptions, SameStart
     DEF SP!SettlementInvInit, SP!PolicyAssumption, SP!InputAssumption

\* What SettlementProofs proves of a step of the plan, for this plan.
LEMMA PlanInvStep == SP!SettlementInv /\ [S!Next]_(S!vars) => SP!SettlementInv'
  BY SP!SettlementInvStep, PlanAssumptions, SameSteps
     DEF SP!SettlementInvStep, SP!PolicyAssumption, SP!InputAssumption

\* What the other modules' proofs need of it.
LEMMA PlanFacts ==
  /\ SP!SettlementInv => pc \in {"allocate", "pay", "done"} /\ (pc # "done" => payouts = {})
  /\ SP!SettlementInv /\ pc = "done" =>
       /\ payouts = S!SupplierLines \cup S!VerifierLines
       /\ refund \in Nat /\ S!VerifierFee \in Nat /\ S!Distributable + S!VerifierFee = bounty
       /\ S!SumOf(payouts) + refund = bounty
       /\ S!SumOf(payouts) = S!SumOf(S!SupplierLines) + S!VerifierFee
       /\ S!SumOf(S!VerifierLines) = S!VerifierFee
       /\ IsFiniteSet(S!SupplierLines)
       /\ \A l \in S!SupplierLines :
            /\ l.units \in Nat /\ l.recipient \in S!Candidates
            /\ l.submission \in Nat \ {0} /\ l.submission \in S!SubsOf(l.recipient)
       /\ \A l, m \in S!SupplierLines : l.submission = m.submission => l = m
       /\ S!Distributable \in Nat /\ S!SumOf(payouts) \in Nat /\ feeBps \in 0..BpsScale
       /\ \A l \in S!SupplierLines : (l.units * BpsScale) \div S!Distributable \in 0..BpsScale
<1>1. SP!SettlementInv => pc \in {"allocate", "pay", "done"} /\ (pc # "done" => payouts = {})
  BY SP!PlanMade, PlanAssumptions
     DEF SP!PlanMade, SP!PolicyAssumption, SP!InputAssumption
<1>2. SP!SettlementInv /\ pc = "done" =>
        /\ payouts = SP!SupplierLines \cup SP!VerifierLines
        /\ refund \in Nat /\ SP!VerifierFee \in Nat /\ SP!Distributable + SP!VerifierFee = bounty
        /\ SP!SumOf(payouts) + refund = bounty
        /\ SP!SumOf(payouts) = SP!SumOf(SP!SupplierLines) + SP!VerifierFee
        /\ SP!SumOf(SP!VerifierLines) = SP!VerifierFee
        /\ SP!IsFiniteSet(SP!SupplierLines)
        /\ \A l \in SP!SupplierLines :
             /\ l.units \in Nat /\ l.recipient \in SP!Candidates
             /\ l.submission \in Nat \ {0} /\ l.submission \in SP!SubsOf(l.recipient)
        /\ \A l, m \in SP!SupplierLines : l.submission = m.submission => l = m
  BY SP!PlanIsExact, PlanAssumptions
     DEF SP!PlanIsExact, SP!PolicyAssumption, SP!InputAssumption
<1>3. SP!SettlementInv /\ pc = "done" =>
        /\ SP!Distributable \in Nat /\ SP!SumOf(payouts) \in Nat /\ feeBps \in 0..BpsScale
        /\ \A l \in SP!SupplierLines :
             (l.units * BpsScale) \div SP!Distributable \in 0..BpsScale
  BY SP!PlanShares, PlanAssumptions
     DEF SP!PlanShares, SP!PolicyAssumption, SP!InputAssumption
<1>4. QED
  BY <1>1, <1>2, <1>3, SameLines, SameSums

\* Lines of different submissions, looked up by submission, are all found once.
LEMMA LinesListed ==
  ASSUME NEW lines, IsFiniteSet(lines), \A l \in lines : l.units \in Nat,
         \A l, m \in lines : l.submission = m.submission => l = m,
         NEW A, IsFiniteSet(A), \A l \in lines : l.submission \in A
  PROVE  /\ \A l \in lines : S!SumOf({m \in lines : m.submission = l.submission}) = l.units
         /\ \A i \in A : \/ \E l \in lines : l.submission = i
                         \/ S!SumOf({m \in lines : m.submission = i}) = 0
         /\ SumFunction([i \in A |-> S!SumOf({m \in lines : m.submission = i})])
              = S!SumOf(lines)
<1>1. /\ \A l \in lines : SP!SumOf({m \in lines : m.submission = l.submission}) = l.units
      /\ \A i \in A : \/ \E l \in lines : l.submission = i
                      \/ SP!SumOf({m \in lines : m.submission = i}) = 0
      /\ SP!SumFunction([i \in A |-> SP!SumOf({m \in lines : m.submission = i})])
           = SP!SumOf(lines)
  BY SP!LinesListed, PlanAssumptions, SameSums
     DEF SP!LinesListed, SP!PolicyAssumption, SP!InputAssumption
<1>2. [i \in A |-> S!SumOf({m \in lines : m.submission = i})]
        = [i \in A |-> SP!SumOf({m \in lines : m.submission = i})]
  BY SameSums
<1>3. QED
  BY <1>1, <1>2, SameSums

-----------------------------------------------------------------------------
(* The scores.                                                              *)

\* A factor in thousandths is that many of them, and a score.
LEMMA PerMilleOf ==
  ASSUME NEW n \in 0..1000
  PROVE  /\ PerMille(n) = n * (ScoreScale \div 1000) /\ PerMille(n) \in Score
<1> DEFINE k == ScoreScale \div 1000
<1>1. ScoreScale = 1000 * k /\ k \in Nat
  BY ScoreAssumption
<1>2. n * ScoreScale = 1000 * (n * k) /\ n * k \in Nat
  BY <1>1
<1>3. PerMille(n) = n * k
  BY <1>2 DEF PerMille
<1>4. n * k <= 1000 * k
  BY <1>1
<1>5. QED
  BY <1>1, <1>2, <1>3, <1>4 DEF Score

\* More thousandths are more.
LEMMA PerMilleGrows ==
  ASSUME NEW m \in 0..1000, NEW n \in 0..1000, m >= n
  PROVE  PerMille(m) >= PerMille(n)
<1> DEFINE k == ScoreScale \div 1000
<1>1. k \in Nat
  BY ScoreAssumption
<1>2. PerMille(m) = m * k /\ PerMille(n) = n * k
  BY PerMilleOf
<1> HIDE DEF k
<1>3. m * k >= n * k
  BY <1>1
<1>4. QED
  BY <1>2, <1>3

\* A product of scores is a score, and no smaller than whole bounds of its
\* factors make it.
LEMMA TimesOf ==
  ASSUME NEW q \in Score, NEW factor \in Score
  PROVE  /\ Times(q, factor) \in Score
         /\ \A a, b, m \in Nat :
              q >= a /\ factor >= b * (ScoreScale \div 1000) /\ a * b >= 1000 * m
                => Times(q, factor) >= m
<1> DEFINE k == ScoreScale \div 1000
<1>1. ScoreScale = 1000 * k /\ k \in Nat \ {0} /\ ScoreScale \in Nat \ {0}
  BY ScoreAssumption
<1>2. q \in Nat /\ factor \in Nat /\ q <= ScoreScale /\ factor <= ScoreScale
  BY <1>1 DEF Score
<1>3. Times(q, factor) \in Score
  <2>1. q * factor \in Nat /\ q * factor <= ScoreScale * ScoreScale
    BY <1>1, <1>2
  <2>2. (q * factor) \div ScoreScale \in 0..ScoreScale
    BY <1>1, <2>1
  <2>3. QED
    BY <2>2 DEF Times, Score
<1>4. ASSUME NEW a \in Nat, NEW b \in Nat, NEW m \in Nat,
             q >= a, factor >= b * k, a * b >= 1000 * m
      PROVE  Times(q, factor) >= m
  <2> HIDE DEF k
  <2>1. b * k \in Nat /\ a * b \in Nat
    BY <1>1
  <2>2. q * factor >= a * (b * k)
    <3>1. q * factor >= a * factor
      BY <1>2, <1>4
    <3>2. a * factor >= a * (b * k)
      BY <1>2, <1>4, <2>1
    <3>3. QED
      BY <1>2, <2>1, <3>1, <3>2
  <2>3. a * (b * k) = (a * b) * k
    BY <1>1
  <2>4. (a * b) * k >= (1000 * m) * k
    BY <1>1, <1>4, <2>1
  <2>5. (1000 * m) * k = m * ScoreScale
    BY <1>1
  <2>6. q * factor >= m * ScoreScale
    BY <1>1, <1>2, <2>1, <2>2, <2>3, <2>4, <2>5
  <2>7. (q * factor) \div ScoreScale >= m
    BY <1>1, <1>2, <2>6
  <2>8. QED
    BY <2>7 DEF Times
<1>5. QED
  BY <1>3, <1>4

\* Within the window freshness is a score, of a half at least.
LEMMA DecayedOf ==
  ASSUME NEW age \in Nat, Window \in Nat \ {0}, age < Window
  PROVE  Decayed(age) \in PerMille(500)..ScoreScale
<1> DEFINE k == ScoreScale \div 1000
           w == Window
           n == 2 * (10 * w - 4 * age) * ScoreScale + 10 * w
<1>1. ScoreScale = 1000 * k /\ k \in Nat \ {0} /\ ScoreScale \in Nat \ {0}
  BY ScoreAssumption
<1>2. PerMille(500) = 500 * k
  BY PerMilleOf
<1>3. 10 * w - 4 * age \in 6 * w .. 10 * w
  OBVIOUS
<1>4. /\ (10 * w - 4 * age) * ScoreScale >= (6 * w) * ScoreScale
      /\ (10 * w - 4 * age) * ScoreScale <= (10 * w) * ScoreScale
  BY <1>1, <1>3
<1>5. n >= (20 * w) * (500 * k) /\ n <= (20 * w) * ScoreScale + 10 * w
  BY <1>1, <1>4
<1>6. n \in Int /\ 20 * w \in Nat \ {0}
  BY <1>1
<1>7. n \div (20 * w) >= 500 * k
  BY <1>1, <1>5, <1>6
<1>8. n \div (20 * w) <= ScoreScale
  BY <1>1, <1>5, <1>6
<1>9. n \div (20 * w) \in Int
  BY <1>6
<1>10. QED
  BY <1>1, <1>2, <1>7, <1>8, <1>9 DEF Decayed

-----------------------------------------------------------------------------
(* What an evaluation says.                                                 *)

EvaluationSet ==
  [accepted : BOOLEAN, support : Score, provenance : Score, independence : Score,
   novelty : Score, freshness : Score, wordy : BOOLEAN, age : Int]

\* What is so of the evaluation of s after prior, whenever it was judged.
Fair(e, s, prior) ==
  /\ e.accepted =>
       /\ required.maxAge # 0 => e.age \in -FutureTolerance..required.maxAge
       /\ required.unique => ~SameContent(s, prior)
  /\ e.provenance >= PerMille(200)
  /\ e.independence >= PerMille(300)
  /\ ~SameContent(s, prior) => e.novelty >= PerMille(600)
  /\ s.published = NoDate \/ e.age \in 0..(Window - 1) => e.freshness >= PerMille(500)

\* The bounds of the gaps are numbers.
LEMMA WindowOf ==
  ASSUME required \in Requirements
  PROVE  required.maxAge \in Nat /\ Window \in Nat \ {0}
  BY DossierAssumption DEF Window

\* An evaluation, made at any time, has the types and is fair.
LEMMA EvaluationOf ==
  ASSUME required \in Requirements, now \in Nat,
         NEW s \in Pages, NEW prior, NEW opinion \in Opinions
  PROVE  /\ Evaluation(s, prior, opinion) \in EvaluationSet
         /\ Fair(Evaluation(s, prior, opinion), s, prior)
<1> DEFINE e == Evaluation(s, prior, opinion)
<1>1. required.maxAge \in Nat /\ Window \in Nat \ {0}
  BY WindowOf
<1>2. s.source \in SourceTypes /\ s.published \in Int \cup {NoDate}
  BY DossierAssumption
<1>3. opinion.support \in Score /\ 0 \in Score
  BY ScoreAssumption DEF Score
<1>4. \A n \in 0..1000 : PerMille(n) \in Score
  BY PerMilleOf
<1>6. Provenance(s) \in Score /\ Provenance(s) >= PerMille(200)
  <2>1. PICK n \in 200..1000 : Provenance(s) = PerMille(n)
    BY <1>2 DEF Provenance, SourceTypes
  <2>2. n \in 0..1000 /\ 200 \in 0..1000 /\ n >= 200
    OBVIOUS
  <2>3. PerMille(n) >= PerMille(200)
    BY <2>2, PerMilleGrows
  <2>4. PerMille(n) \in Score
    BY <1>4, <2>2
  <2>5. QED
    BY <2>1, <2>3, <2>4
<1>7. Independence(s, prior) \in Score /\ Independence(s, prior) >= PerMille(300)
  <2>1. PICK n \in 300..1000 : Independence(s, prior) = PerMille(n)
    BY DEF Independence
  <2>2. n \in 0..1000 /\ 300 \in 0..1000 /\ n >= 300
    OBVIOUS
  <2>3. PerMille(n) >= PerMille(300)
    BY <2>2, PerMilleGrows
  <2>4. PerMille(n) \in Score
    BY <1>4, <2>2
  <2>5. QED
    BY <2>1, <2>3, <2>4
<1>8. /\ Novelty(s, prior) \in Score
      /\ ~SameContent(s, prior) => Novelty(s, prior) >= PerMille(600)
  <2>1. CASE SameContent(s, prior)
    BY <1>4, <2>1 DEF Novelty
  <2>2. CASE ~SameContent(s, prior)
    <3>1. PICK n \in 600..1000 : Novelty(s, prior) = PerMille(n)
      BY <2>2 DEF Novelty
    <3>2. n \in 0..1000 /\ 600 \in 0..1000 /\ n >= 600
      OBVIOUS
    <3>3. PerMille(n) >= PerMille(600)
      BY <3>2, PerMilleGrows
    <3>4. PerMille(n) \in Score
      BY <1>4, <3>2
    <3>5. QED
      BY <3>1, <3>3, <3>4
  <2>3. QED
    BY <2>1, <2>2
<1>9. s.published # NoDate => Age(s) \in Int
  BY <1>2 DEF Age
<1>10. /\ Freshness(s) \in Score
       /\ s.published = NoDate => Freshness(s) = PerMille(500)
       /\ s.published # NoDate /\ Age(s) \in 0..(Window - 1) => Freshness(s) >= PerMille(500)
  <2>1. CASE s.published = NoDate
    BY <1>4, <2>1 DEF Freshness
  <2>2. CASE s.published # NoDate /\ Age(s) \in 0..(Window - 1)
    <3>1. Freshness(s) = Decayed(Age(s))
      BY <1>1, <2>2 DEF Freshness
    <3>2. Decayed(Age(s)) \in PerMille(500)..ScoreScale
      BY <1>1, <2>2, DecayedOf
    <3>3. PerMille(500) \in Nat /\ ScoreScale \in Nat
      BY <1>4, ScoreAssumption DEF Score
    <3>4. QED
      BY <2>2, <3>1, <3>2, <3>3 DEF Score
  <2>3. CASE s.published # NoDate /\ Age(s) \notin 0..(Window - 1)
    <3>1. Freshness(s) = 0
      BY <1>1, <1>9, <2>3 DEF Freshness
    <3>2. QED
      BY <1>3, <2>3, <3>1
  <2>4. QED
    BY <2>1, <2>2, <2>3
<1>11. e.age \in Int /\ (s.published # NoDate => e.age = Age(s))
  BY <1>9 DEF Evaluation
<1>12. e.accepted \in BOOLEAN /\ e.wordy \in BOOLEAN
  BY DEF Evaluation, PassesChecks, Convinced, Wordy
<1>13. e \in EvaluationSet
  BY <1>3, <1>6, <1>7, <1>8, <1>10, <1>11, <1>12 DEF Evaluation, EvaluationSet
<1>14. e.accepted => PassesChecks(s, prior)
  BY DEF Evaluation
<1>15. PassesChecks(s, prior) =>
         /\ required.unique => ~SameContent(s, prior)
         /\ required.maxAge # 0 =>
              s.published # NoDate /\ Age(s) \in -FutureTolerance..required.maxAge
  BY DEF PassesChecks, Timely
<1>16. /\ e.provenance = Provenance(s) /\ e.independence = Independence(s, prior)
       /\ e.novelty = Novelty(s, prior) /\ e.freshness = Freshness(s)
  BY DEF Evaluation
<1>17. PerMille(500) \in Int
  BY <1>4 DEF Score
<1> HIDE DEF e
<1>18. Fair(e, s, prior)
  BY <1>6, <1>7, <1>8, <1>10, <1>11, <1>14, <1>15, <1>16, <1>17 DEF Fair
<1>19. QED
  BY <1>13, <1>18 DEF e

-----------------------------------------------------------------------------
(* The invariant.                                                           *)

Earlier(i) == {dossier[j] : j \in 1..(i - 1)}

\* The submissions judged and what they count for are those of the dossier.
Typed ==
  /\ required \in Requirements
  /\ dossier \in Dossiers
  /\ now \in 0..MaxTime
  /\ evaluations \in Seq(EvaluationSet) /\ Len(evaluations) <= Len(dossier)
  /\ subs \in Seq(S!Submission) /\ Len(subs) = Len(evaluations)
  /\ bounty = Budget /\ feeBps = VerifierFeeBps
  /\ shareBps = MaxShareBps /\ minUnits = MinPayoutUnits

Recorded ==
  \A i \in 1..Len(evaluations) :
    /\ Fair(evaluations[i], dossier[i], Earlier(i))
    /\ subs[i] = [supplier |-> dossier[i].supplier, quality |-> Counts(evaluations[i])]

\* The plan is begun only when all is judged.
Settling == pc \notin {"evaluate", "insufficient"}

Phased ==
  ~Settling => /\ round = 0 /\ locked = {} /\ tentative = <<>>
               /\ payouts = {} /\ refund = 0

\* A receipt's fields, with the hash and the transaction it has at a time.
Filled(hash, tx) ==
  [bountyId |-> GapId, requestHash |-> SpecHash(GapAt("detected")), claim |-> Claim,
   accepted |-> BareReceipt.accepted, rejected |-> BareReceipt.rejected,
   total |-> Plan.total, refund |-> Plan.refund, fee |-> Plan.fee,
   settlementTx |-> tx, settlementHash |-> Plan.settlementHash, receiptHash |-> hash]

Handed(tx) == Filled(ReceiptHash(BareReceipt), tx)

\* The receipt is that of the plan, and the schema took it.
Receipted ==
  Issued => /\ pc = "done" /\ ReceiptSchema(BareReceipt)
            /\ \E tx \in {NoTx, Tx} : receipt = Handed(tx)

\* Dossiers are sequences of pages.
LEMMA DossierIs ==
  ASSUME dossier \in Dossiers
  PROVE  /\ Len(dossier) \in 0..MaxDossier
         /\ \A i \in 1..Len(dossier) : dossier[i] \in Pages /\ dossier[i].supplier \in Suppliers
<1>1. PICK n \in 0..MaxDossier : dossier \in [1..n -> Pages]
  BY DEF Dossiers
<1>2. n \in Nat
  BY DossierAssumption
<1>3. Len(dossier) = n
  BY <1>1, <1>2
<1>4. QED
  BY <1>1, <1>3 DEF Suppliers

\* The quality of an evaluation is a score.
LEMMA QualityOf ==
  ASSUME NEW e \in EvaluationSet
  PROVE  Counts(e) \in Score
<1>1. /\ e.support \in Score /\ e.provenance \in Score /\ e.independence \in Score
      /\ e.novelty \in Score /\ e.freshness \in Score
  BY DEF EvaluationSet
<1>2. QualityScore(e) \in Score
  BY <1>1, TimesOf DEF QualityScore
<1>3. 0 \in Score
  BY ScoreAssumption DEF Score
<1>4. QED
  BY <1>2, <1>3 DEF Counts

\* Judging the next submission adds its evaluation and what it counts for.
LEMMA JudgeStep ==
  ASSUME Typed, Recorded, NEW opinion \in Opinions, Judge(opinion)
  PROVE  Typed' /\ Recorded'
<1> DEFINE n == Len(evaluations) + 1
           s == dossier[n]
           e == Evaluation(s, Prior, opinion)
           q == [supplier |-> s.supplier, quality |-> Counts(e)]
<1>1. /\ evaluations \in Seq(EvaluationSet) /\ subs \in Seq(S!Submission)
      /\ Len(subs) = Len(evaluations) /\ Len(evaluations) \in Nat
  BY DEF Typed
<1>2. Len(evaluations) < Len(dossier) /\ Len(dossier) \in Nat
  BY DossierIs, DossierAssumption DEF Judge, Typed
<1>3. s \in Pages /\ s.supplier \in Suppliers
  BY <1>1, <1>2, DossierIs DEF Typed
<1>4. e \in EvaluationSet /\ Fair(e, s, Prior)
  BY <1>3, EvaluationOf, DossierAssumption DEF Typed
<1>5. evaluations' = Append(evaluations, e)
  BY DEF Judge
<1> HIDE DEF e, s
<1>6. Last(evaluations') = e
  BY <1>1, <1>4, <1>5 DEF Last
<1>7. subs' = Append(subs, q)
  BY <1>6 DEF Judge, s
<1>8. q \in S!Submission
  <2>1. Counts(e) \in 0..ScoreScale
    BY <1>4, QualityOf DEF Score
  <2>2. QED
    BY <1>3, <2>1 DEF S!Submission
<1>9. Prior = Earlier(n)
  BY <1>1 DEF Prior, Earlier
<1>10. UNCHANGED <<required, dossier, now, bounty, feeBps, shareBps, minUnits>>
  BY DEF Judge, gap, input
<1>11. Typed'
  <2>1. evaluations' \in Seq(EvaluationSet) /\ Len(evaluations') = n
    BY <1>1, <1>4, <1>5
  <2>2. subs' \in Seq(S!Submission) /\ Len(subs') = n
    BY <1>1, <1>7, <1>8
  <2>3. S!Submission' = S!Submission
    BY DEF S!Submission
  <2>4. QED
    BY <1>1, <1>2, <1>10, <2>1, <2>2, <2>3 DEF Typed
<1>12. ASSUME NEW i \in 1..Len(evaluations')
       PROVE  /\ Fair(evaluations'[i], dossier[i], Earlier(i))
              /\ subs'[i] = [supplier |-> dossier[i].supplier, quality |-> Counts(evaluations'[i])]
  <2>1. Len(evaluations') = n
    BY <1>1, <1>4, <1>5
  <2>2. CASE i = n
    <3>1. evaluations'[i] = e /\ subs'[i] = q
      BY <1>1, <1>5, <1>7, <2>2
    <3>2. QED
      BY <1>4, <1>9, <2>2, <3>1 DEF s
  <2>3. CASE i # n
    <3>1. i \in 1..Len(evaluations)
      BY <1>1, <1>12, <2>1, <2>3
    <3>2. evaluations'[i] = evaluations[i] /\ subs'[i] = subs[i]
      BY <1>1, <1>5, <1>7, <3>1
    <3>3. QED
      BY <3>1, <3>2 DEF Recorded
  <2>4. QED
    BY <2>2, <2>3
<1>13. \A x, t, prior : Fair(x, t, prior)' = Fair(x, t, prior)
  BY <1>10 DEF Fair, Window, SameContent, PerMille
<1>14. \A i : Earlier(i)' = Earlier(i)
  BY <1>10 DEF Earlier
<1>15. Recorded'
  BY <1>10, <1>12, <1>13, <1>14 DEF Recorded
<1>16. QED
  BY <1>11, <1>15

\* The plan is begun as Settlement begins it, with what was judged.
LEMMA BuildPlanStep ==
  ASSUME Typed, Phased, BuildPlan
  PROVE  Settling' => S!Init'
<1> SUFFICES ASSUME Settling' PROVE S!Init'
  OBVIOUS
<1>1. /\ pc = "evaluate" /\ Len(evaluations) = Len(dossier) /\ pc' = "allocate"
      /\ live' = S!Candidates
      /\ UNCHANGED <<input, subs, round, locked, tentative, plan>>
  BY DEF BuildPlan, Judged, Settling
<1>2. /\ bounty' = Budget /\ feeBps' = VerifierFeeBps
      /\ shareBps' = MaxShareBps /\ minUnits' = MinPayoutUnits
  BY <1>1 DEF Typed, input
<1>3. /\ round' = 0 /\ locked' = {} /\ tentative' = <<>> /\ payouts' = {} /\ refund' = 0
  BY <1>1 DEF Phased, Settling, plan
<1>4. tentative' = [r \in {} |-> 0]
  BY <1>3
<1>5. Len(subs) \in 0..MaxDossier /\ subs \in [1..Len(subs) -> S!Submission]
  BY <1>1, DossierIs DEF Typed
<1>6. subs' \in UNION {[1..n -> S!Submission] : n \in 0..MaxDossier}
  BY <1>1, <1>5
<1>7. S!Candidates' = S!Candidates
  BY <1>1 DEF S!Candidates, S!SubsOf
<1>8. S!Submission' = S!Submission
  BY DEF S!Submission
<1>9. QED
  BY <1>1, <1>2, <1>3, <1>4, <1>6, <1>7, <1>8 DEF S!Init

\* The plan's fields.
LEMMA PlanIs ==
  /\ Plan.bountyId = GapId /\ Plan.distributable = S!Distributable /\ Plan.fee = S!VerifierFee
  /\ Plan.payouts = payouts /\ Plan.refund = refund
  /\ Plan.total = S!SumOf({l \in payouts : l.submission # 0}) + S!VerifierFee
  /\ Plan.settlementHash = SettlementHash(BarePlan)
  /\ SettlementHash(Plan) = SettlementHash(BarePlan)
  BY DEF Plan, BarePlan, SettlementHash, HashOf

\* The receipt as it is built, hashed and anchored; the hash is of what all
\* three have.
LEMMA ReceiptIs ==
  /\ BareReceipt = Filled(Zeros, NoTx) /\ Receipt = Handed(NoTx)
  /\ \A hash, tx : ReceiptHash(Filled(hash, tx)) = ReceiptHash(BareReceipt)
  /\ \A hash, tx : [Filled(hash, tx) EXCEPT !.settlementTx = Tx] = Filled(hash, Tx)
<1>1. BareReceipt = Filled(Zeros, NoTx)
  BY DEF BareReceipt, Filled
<1>2. \A hash, tx, other : [Filled(hash, tx) EXCEPT !.receiptHash = other] = Filled(other, tx)
  BY DEF Filled
<1>3. \A hash, tx, other : [Filled(hash, tx) EXCEPT !.settlementTx = other] = Filled(hash, other)
  BY DEF Filled
<1>4. \A hash, tx : ReceiptHash(Filled(hash, tx)) = ReceiptHash(BareReceipt)
  <2>1. ASSUME NEW hash, NEW tx
        PROVE  ReceiptHash(Filled(hash, tx)) = HashOf(Filled(Zeros, NoTx))
    <3>1. [Filled(hash, tx) EXCEPT !.receiptHash = Zeros] = Filled(Zeros, tx)
      BY <1>2
    <3>2. [Filled(Zeros, tx) EXCEPT !.settlementTx = NoTx] = Filled(Zeros, NoTx)
      BY <1>3
    <3>3. QED
      BY <3>1, <3>2 DEF ReceiptHash
  <2>2. QED
    BY <1>1, <2>1
<1>5. Receipt = Handed(NoTx)
  BY <1>1, <1>2 DEF Receipt, Handed
<1>6. QED
  BY <1>1, <1>3, <1>4, <1>5

\* What the receipt lists does not change after the plan is made.
LEMMA ReceiptKept ==
  ASSUME UNCHANGED <<required, evaluations, dossier, payouts, refund, bounty, feeBps>>
  PROVE  /\ BareReceipt' = BareReceipt
         /\ ReceiptSchema(BareReceipt)' = ReceiptSchema(BareReceipt)
         /\ \A tx : Handed(tx)' = Handed(tx)
<1>1. Accepted' = Accepted /\ (DOMAIN evaluations)' = DOMAIN evaluations
  BY DEF Accepted
<1>2. S!VerifierFee' = S!VerifierFee /\ S!Distributable' = S!Distributable
  BY DEF S!VerifierFee, S!Distributable
<1>3. Plan' = Plan
  BY <1>2 DEF Plan, BarePlan
<1>4. \A i : PayoutOf(i)' = PayoutOf(i)
  BY <1>3 DEF PayoutOf, SupplierPayouts
<1>5. GapAt("detected")' = GapAt("detected")
  BY DEF GapAt
<1>6. BareReceipt' = BareReceipt
  BY <1>1, <1>3, <1>4, <1>5 DEF BareReceipt
<1>7. ReceiptSchema(BareReceipt)' = ReceiptSchema(BareReceipt)
  BY <1>6 DEF ReceiptSchema
<1>8. \A tx : Handed(tx)' = Handed(tx)
  BY <1>3, <1>5, <1>6 DEF Handed, Filled
<1>9. QED
  BY <1>6, <1>7, <1>8

\* What was judged stays judged.
LEMMA RecordsKept ==
  ASSUME Typed, Recorded,
         UNCHANGED <<required, dossier, evaluations, subs, bounty, feeBps, shareBps, minUnits>>,
         now' \in 0..MaxTime
  PROVE  Typed' /\ Recorded'
<1>1. \A x, t, prior : Fair(x, t, prior)' = Fair(x, t, prior)
  BY DEF Fair, Window, SameContent, PerMille
<1>2. \A i : Earlier(i)' = Earlier(i)
  BY DEF Earlier
<1>3. Recorded'
  BY <1>1, <1>2 DEF Recorded
<1>4. S!Submission' = S!Submission
  BY DEF S!Submission
<1>5. Typed'
  BY <1>4 DEF Typed
<1>6. QED
  BY <1>3, <1>5

Records == Typed /\ Recorded /\ Phased /\ Receipted

\* Every step keeps the records; the plan begins, or goes on, as Settlement's.
LEMMA RecordsStep ==
  ASSUME Records, [Next]_vars
  PROVE  Records' /\ (Settling' => S!Init' \/ (Settling /\ [S!Next]_(S!vars)))
<1>0. Typed /\ Recorded /\ Phased /\ Receipted /\ now \in 0..MaxTime /\ MaxTime \in Nat
  BY DossierAssumption DEF Records, Typed
<1>1. ASSUME NEW opinion \in Opinions, Judge(opinion)
      PROVE  Records' /\ ~Settling'
  <2>1. /\ pc = "evaluate"
        /\ UNCHANGED <<receipt, pc, round, locked, tentative, payouts, refund>>
    BY <1>1 DEF Judge, plan
  <2>2. Typed' /\ Recorded'
    BY <1>0, <1>1, JudgeStep
  <2>3. QED
    BY <1>0, <2>1, <2>2 DEF Records, Phased, Receipted, Settling, Issued
<1>2. CASE Tick
  <2>1. /\ pc = "evaluate" /\ now' \in 0..MaxTime
        /\ UNCHANGED <<receipt, pc, round, locked, tentative, payouts, refund>>
        /\ UNCHANGED <<required, dossier, evaluations, subs, bounty, feeBps, shareBps, minUnits>>
    BY <1>0, <1>2 DEF Tick, gap, settlement, input, plan
  <2>2. Typed' /\ Recorded'
    BY <1>0, <2>1, RecordsKept
  <2>3. Records' /\ ~Settling'
    BY <1>0, <2>1, <2>2 DEF Records, Phased, Receipted, Settling, Issued
  <2>4. QED
    BY <2>3
<1>3. CASE BuildPlan
  <2>1. /\ pc = "evaluate" /\ now' = now /\ pc' \in {"insufficient", "allocate"}
        /\ UNCHANGED <<receipt, round, locked, tentative, payouts, refund>>
        /\ UNCHANGED <<required, dossier, evaluations, subs, bounty, feeBps, shareBps, minUnits>>
    BY <1>3 DEF BuildPlan, Judged, gap, input, plan
  <2>2. Typed' /\ Recorded'
    BY <1>0, <2>1, RecordsKept
  <2>3. Records'
    BY <1>0, <2>1, <2>2 DEF Records, Phased, Receipted, Settling, Issued
  <2>4. QED
    BY <1>0, <1>3, <2>3, BuildPlanStep
<1>4. CASE Settle
  <2>1. /\ pc \in {"allocate", "pay"} /\ pc' \notin {"evaluate", "insufficient"}
        /\ UNCHANGED S!input
    BY <1>4 DEF Settle, S!Next, S!Pass, S!Pay
  <2>2. UNCHANGED <<required, dossier, now, evaluations, receipt>>
    BY <1>4 DEF Settle, gap
  <2>3. UNCHANGED <<bounty, subs, feeBps, shareBps, minUnits>>
    BY <2>1 DEF S!input
  <2>4. Typed' /\ Recorded'
    BY <1>0, <2>2, <2>3, RecordsKept
  <2>5. Phased' /\ Receipted' /\ Settling
    BY <1>0, <2>1, <2>2 DEF Phased, Receipted, Settling, Issued
  <2>6. S!Next
    BY <1>4 DEF Settle
  <2>7. QED
    BY <2>4, <2>5, <2>6 DEF Records
<1>5. ASSUME BuildReceipt \/ Anchor
      PROVE  Records' /\ Settling /\ Settling' /\ UNCHANGED S!vars
  <2>1. /\ pc = "done" /\ UNCHANGED <<required, dossier, now, evaluations, settlement>>
    BY <1>0, <1>5 DEF BuildReceipt, Anchor, gap, Receipted
  <2>2. UNCHANGED <<bounty, subs, feeBps, shareBps, minUnits, pc, round, live, locked,
                    tentative, payouts, refund>>
    BY <2>1 DEF settlement, input, plan
  <2>3. Typed' /\ Recorded'
    BY <1>0, <2>1, <2>2, RecordsKept
  <2>4. /\ ReceiptSchema(BareReceipt)' = ReceiptSchema(BareReceipt)
        /\ \A tx : Handed(tx)' = Handed(tx)
    BY <2>1, <2>2, ReceiptKept
  <2>5. ASSUME Issued'
        PROVE  ReceiptSchema(BareReceipt) /\ \E tx \in {NoTx, Tx} : receipt' = Handed(tx)
    <3>1. CASE BuildReceipt
      BY <2>5, <3>1, ReceiptIs DEF BuildReceipt, Issued
    <3>2. CASE Anchor
      <4>1. PICK tx \in {NoTx, Tx} : receipt = Handed(tx)
        BY <1>0, <3>2 DEF Anchor, Receipted
      <4>2. receipt' = Handed(Tx)
        BY <3>2, <4>1, ReceiptIs DEF Anchor, Handed
      <4>3. QED
        BY <1>0, <3>2, <4>2 DEF Anchor, Receipted
    <3>3. QED
      BY <1>5, <3>1, <3>2
  <2>6. Receipted'
    BY <2>1, <2>2, <2>4, <2>5 DEF Receipted
  <2>7. Phased' /\ Settling /\ Settling'
    BY <1>0, <2>1, <2>2 DEF Phased, Settling
  <2>8. UNCHANGED S!vars
    BY <2>2 DEF S!vars, S!input, S!work, S!plan
  <2>9. QED
    BY <2>3, <2>6, <2>7, <2>8 DEF Records
<1>6. CASE UNCHANGED vars
  <2>1. UNCHANGED <<required, dossier, now, evaluations, receipt, bounty, subs, feeBps,
                    shareBps, minUnits, pc, round, live, locked, tentative, payouts, refund>>
    BY <1>6 DEF vars, gap, settlement, input, plan
  <2>2. Typed' /\ Recorded'
    BY <1>0, <2>1, RecordsKept
  <2>3. /\ ReceiptSchema(BareReceipt)' = ReceiptSchema(BareReceipt)
        /\ \A tx : Handed(tx)' = Handed(tx)
    BY <2>1, ReceiptKept
  <2>4. Phased' /\ Receipted' /\ (Settling' => Settling)
    BY <1>0, <2>1, <2>3 DEF Phased, Receipted, Settling, Issued
  <2>5. UNCHANGED S!vars
    BY <2>1 DEF S!vars, S!input, S!work, S!plan
  <2>6. QED
    BY <2>2, <2>4, <2>5 DEF Records
<1>7. QED
  BY <1>1, <1>2, <1>3, <1>4, <1>5, <1>6 DEF Next

\* Nothing is recorded at first.
LEMMA RecordsInit == Init => Records /\ ~Settling
<1> SUFFICES ASSUME Init PROVE Records /\ ~Settling
  OBVIOUS
<1>1. evaluations = <<>> /\ subs = <<>> /\ Len(evaluations) = 0 /\ Len(subs) = 0
  BY DEF Init
<1>2. Len(dossier) \in Nat /\ now \in 0..MaxTime
  BY DossierIs, DossierAssumption DEF Init
<1>3. Typed /\ Recorded
  BY <1>1, <1>2 DEF Init, Typed, Recorded
<1>4. QED
  BY <1>3 DEF Init, Records, Phased, Receipted, Settling, Issued

\* The records and the plan's invariant, in every state.
LEMMA PortfolioInv == Spec => [](Records /\ (Settling => SP!SettlementInv))
<1>1. Records /\ [Next]_vars
        => Records' /\ (Settling' => S!Init' \/ (Settling /\ [S!Next]_(S!vars)))
  BY RecordsStep
<1>2. QED
  BY <1>1, RecordsInit, PlanInvInit, PlanInvStep, PTL DEF Spec

-----------------------------------------------------------------------------
(* What follows.                                                            *)

\* The lines paid to suppliers are the plan's, each of accepted evidence that
\* its supplier submitted.
LEMMA PaidLines ==
  ASSUME Records, Settling => SP!SettlementInv
  PROVE  /\ pc # "done" => payouts = {}
         /\ pc = "done" =>
              SupplierPayouts = S!SupplierLines /\ FeePayouts(Plan) = S!VerifierLines
         /\ \A l \in SupplierPayouts :
              /\ l.submission \in Accepted /\ l.units \in Nat
              /\ l.recipient = dossier[l.submission].supplier
<1>1. pc # "done" => payouts = {}
  BY PlanFacts DEF Records, Phased, Settling
<1>2. ASSUME pc = "done"
      PROVE  /\ SupplierPayouts = S!SupplierLines /\ FeePayouts(Plan) = S!VerifierLines
             /\ \A l \in S!SupplierLines :
                  /\ l.submission \in Accepted /\ l.units \in Nat
                  /\ l.recipient = dossier[l.submission].supplier
  <2>1. /\ payouts = S!SupplierLines \cup S!VerifierLines
        /\ \A l \in S!SupplierLines :
             /\ l.units \in Nat /\ l.submission \in Nat \ {0}
             /\ l.submission \in S!SubsOf(l.recipient)
    BY <1>2, PlanFacts DEF Settling
  <2>2. \A l \in S!VerifierLines : l.submission = 0
    BY DEF S!VerifierLines, S!Line
  <2>3. SupplierPayouts = S!SupplierLines /\ FeePayouts(Plan) = S!VerifierLines
    BY <2>1, <2>2, PlanIs DEF SupplierPayouts, EvidencePayouts, FeePayouts
  <2>4. DOMAIN subs = 1..Len(evaluations) /\ DOMAIN evaluations = 1..Len(evaluations)
    BY DEF Records, Typed
  <2>5. ASSUME NEW l \in S!SupplierLines
        PROVE  l.submission \in Accepted /\ l.recipient = dossier[l.submission].supplier
    <3> DEFINE i == l.submission
    <3>1. i \in 1..Len(evaluations) /\ subs[i].supplier = l.recipient /\ subs[i].quality > 0
      BY <2>1, <2>4 DEF S!SubsOf
    <3>2. subs[i] = [supplier |-> dossier[i].supplier, quality |-> Counts(evaluations[i])]
      BY <3>1 DEF Records, Recorded
    <3>3. evaluations[i].accepted
      BY <3>1, <3>2 DEF Counts
    <3>4. QED
      BY <2>4, <3>1, <3>2, <3>3 DEF Accepted
  <2>6. QED
    BY <2>1, <2>3, <2>5
<1>3. QED
  BY <1>1, <1>2, PlanIs DEF SupplierPayouts, EvidencePayouts

\* The types follow from the records.
LEMMA InvIsTyped == Records /\ (Settling => SP!SettlementInv) => TypeOK
<1> SUFFICES ASSUME Records, Settling => SP!SettlementInv PROVE TypeOK
  OBVIOUS
<1>1. /\ evaluations \in Seq(EvaluationSet) /\ subs \in Seq(S!Submission)
      /\ required \in Requirements /\ dossier \in Dossiers /\ now \in 0..MaxTime
      /\ Len(evaluations) <= Len(dossier) /\ Len(subs) = Len(evaluations)
  BY DEF Records, Typed
<1>2. Range(evaluations) \subseteq EvaluationSet /\ Range(subs) \subseteq S!Submission
  BY <1>1 DEF Range
<1>3. \A e \in EvaluationSet :
        /\ e.accepted \in BOOLEAN /\ e.wordy \in BOOLEAN /\ e.age \in Int
        /\ \A f \in Factors : e[f] \in Score
  BY DEF EvaluationSet, Factors
<1>4. pc \in {"evaluate", "insufficient", "allocate", "pay", "done"}
  BY PlanFacts DEF Settling
<1>5. QED
  BY <1>1, <1>2, <1>3, <1>4 DEF TypeOK

\* What is paid is accepted, and was timely and no copy.
LEMMA InvPaysForGood == Records /\ (Settling => SP!SettlementInv) => PaidForGoodEvidence
<1> SUFFICES ASSUME Records, Settling => SP!SettlementInv, NEW l \in SupplierPayouts
             PROVE  /\ evaluations[l.submission].accepted
                    /\ required.maxAge # 0 =>
                         evaluations[l.submission].age \in -FutureTolerance..required.maxAge
                    /\ required.unique =>
                         \A i \in 1..(l.submission - 1) :
                           dossier[i].content # dossier[l.submission].content
  BY DEF PaidForGoodEvidence
<1> DEFINE n == l.submission
<1>1. n \in DOMAIN evaluations /\ evaluations[n].accepted
  BY PaidLines DEF Accepted
<1>2. n \in 1..Len(evaluations)
  BY <1>1 DEF Records, Typed
<1>3. Fair(evaluations[n], dossier[n], Earlier(n))
  BY <1>2 DEF Records, Recorded
<1>4. QED
  BY <1>1, <1>3 DEF Fair, SameContent, Earlier

\* The smallest factors leave something of 70 units of support.
LEMMA QualityLeft ==
  ASSUME NEW e \in EvaluationSet, e.support >= 70,
         e.provenance >= PerMille(200), e.independence >= PerMille(300),
         e.novelty >= PerMille(600), e.freshness >= PerMille(500)
  PROVE  QualityScore(e) >= 1
<1> DEFINE k == ScoreScale \div 1000
           q1 == Times(e.support, e.provenance)
           q2 == Times(q1, e.independence)
           q3 == Times(q2, e.novelty)
           q4 == Times(q3, e.freshness)
<1>1. /\ e.support \in Score /\ e.provenance \in Score /\ e.independence \in Score
      /\ e.novelty \in Score /\ e.freshness \in Score
  BY DEF EvaluationSet
<1>2. /\ PerMille(200) = 200 * k /\ PerMille(300) = 300 * k
      /\ PerMille(600) = 600 * k /\ PerMille(500) = 500 * k
  BY PerMilleOf
<1>3. q1 \in Score /\ q1 >= 14
  <2>1. 70 * 200 >= 1000 * 14
    OBVIOUS
  <2>2. QED
    BY <1>1, <1>2, <2>1, TimesOf
<1> HIDE DEF q1
<1>4. q2 \in Score /\ q2 >= 4
  <2>1. 14 * 300 >= 1000 * 4
    OBVIOUS
  <2>2. QED
    BY <1>1, <1>2, <1>3, <2>1, TimesOf
<1> HIDE DEF q2
<1>5. q3 \in Score /\ q3 >= 2
  <2>1. 4 * 600 >= 1000 * 2
    OBVIOUS
  <2>2. QED
    BY <1>1, <1>2, <1>4, <2>1, TimesOf
<1> HIDE DEF q3
<1>6. q4 >= 1
  <2>1. 2 * 500 >= 1000 * 1
    OBVIOUS
  <2>2. QED
    BY <1>1, <1>2, <1>5, <2>1, TimesOf
<1>7. QED
  BY <1>6 DEF QualityScore, q1, q2, q3, q4

\* Accepted evidence without an excuse counts.
LEMMA InvCounts == Records => AcceptedCounts
<1> SUFFICES ASSUME Records, NEW i \in Accepted,
                    ~(dossier[i].published # NoDate /\ evaluations[i].age \notin 0..(Window - 1)),
                    ~(~required.unique
                        /\ \E j \in 1..(i - 1) : dossier[j].content = dossier[i].content),
                    ~(evaluations[i].support < 70)
             PROVE  subs[i].quality # 0
  BY DEF AcceptedCounts
<1> DEFINE e == evaluations[i]
<1>1. /\ i \in 1..Len(evaluations) /\ e.accepted /\ e \in EvaluationSet
  BY DEF Accepted, Records, Typed
<1>2. /\ Fair(e, dossier[i], Earlier(i))
      /\ subs[i] = [supplier |-> dossier[i].supplier, quality |-> Counts(e)]
  BY <1>1 DEF Records, Recorded
<1>3. ~SameContent(dossier[i], Earlier(i))
  BY <1>1, <1>2 DEF Fair, SameContent, Earlier
<1>4. /\ e.provenance >= PerMille(200) /\ e.independence >= PerMille(300)
      /\ e.novelty >= PerMille(600) /\ e.freshness >= PerMille(500)
  BY <1>2, <1>3 DEF Fair
<1>5. e.support >= 70
  BY <1>1, ScoreAssumption DEF EvaluationSet, Score
<1>6. QualityScore(e) >= 1
  BY <1>1, <1>4, <1>5, QualityLeft
<1>7. QualityScore(e) # 0
  BY <1>6
<1>8. QED
  BY <1>1, <1>2, <1>7 DEF Counts

\* The receipt gives each accepted submission its supplier and the units of its
\* payout.
LEMMA EvidenceListed ==
  /\ DOMAIN BareReceipt.accepted = Accepted
  /\ DOMAIN BareReceipt.rejected = DOMAIN evaluations \ Accepted
  /\ \A i \in Accepted : /\ BareReceipt.accepted[i].supplier = dossier[i].supplier
                         /\ BareReceipt.accepted[i].units = PayoutOf(i)
<1>1. /\ BareReceipt.accepted =
           [i \in Accepted |-> [supplier |-> dossier[i].supplier,
                                scores |-> Scores(evaluations[i]), units |-> PayoutOf(i)]]
      /\ BareReceipt.rejected =
           [i \in DOMAIN evaluations \ Accepted |-> [wordy |-> evaluations[i].wordy]]
  BY DEF BareReceipt
<1>2. ASSUME NEW i \in Accepted
      PROVE  /\ BareReceipt.accepted[i].supplier = dossier[i].supplier
             /\ BareReceipt.accepted[i].units = PayoutOf(i)
  <2> DEFINE u == PayoutOf(i)  s == dossier[i].supplier  f == Scores(evaluations[i])
  <2>1. BareReceipt.accepted[i] = [supplier |-> s, scores |-> f, units |-> u]
    BY <1>1
  <2> HIDE DEF u, s, f
  <2>2. BareReceipt.accepted[i].supplier = s /\ BareReceipt.accepted[i].units = u
    BY <2>1
  <2>3. QED
    BY <2>2 DEF u, s
<1>3. DOMAIN BareReceipt.accepted = Accepted
  BY <1>1
<1>4. DOMAIN BareReceipt.rejected = DOMAIN evaluations \ Accepted
  BY <1>1
<1>5. QED
  BY <1>2, <1>3, <1>4

\* What the server hands out has the fields of the receipt it built.
LEMMA HandedIs ==
  ASSUME NEW tx
  PROVE  /\ Handed(tx).accepted = BareReceipt.accepted
         /\ Handed(tx).rejected = BareReceipt.rejected
         /\ Handed(tx).total = Plan.total /\ Handed(tx).refund = Plan.refund
         /\ Handed(tx).fee = Plan.fee /\ Handed(tx).settlementHash = Plan.settlementHash
         /\ Handed(tx).bountyId = GapId /\ Handed(tx).claim = Claim
         /\ Handed(tx).requestHash = SpecHash(GapAt("detected"))
         /\ Handed(tx).receiptHash = ReceiptHash(BareReceipt)
         /\ ReceiptHash(Handed(tx)) = ReceiptHash(BareReceipt)
         /\ ReceiptSchema(BareReceipt) => ReceiptSchema(Handed(tx))
<1>1. /\ Handed(tx).accepted = BareReceipt.accepted
      /\ Handed(tx).rejected = BareReceipt.rejected
      /\ Handed(tx).total = Plan.total /\ Handed(tx).refund = Plan.refund
      /\ Handed(tx).fee = Plan.fee /\ Handed(tx).settlementHash = Plan.settlementHash
      /\ Handed(tx).bountyId = GapId /\ Handed(tx).claim = Claim
      /\ Handed(tx).requestHash = SpecHash(GapAt("detected"))
      /\ Handed(tx).receiptHash = ReceiptHash(BareReceipt)
  BY DEF Handed, Filled
<1>2. ReceiptHash(Handed(tx)) = ReceiptHash(BareReceipt)
  BY ReceiptIs DEF Handed
<1>3. /\ BareReceipt.total = Plan.total /\ BareReceipt.refund = Plan.refund
      /\ BareReceipt.fee = Plan.fee
  BY DEF BareReceipt
<1>4. ReceiptSchema(BareReceipt) => ReceiptSchema(Handed(tx))
  BY <1>1, <1>3 DEF ReceiptSchema
<1>5. QED
  BY <1>1, <1>2, <1>4

\* The hashes and names by which gap, plan and receipt are one settlement's.
LEMMA HandedIsBound ==
  ASSUME NEW status, NEW tx
  PROVE  Bound(GapAt(status), Plan, Handed(tx))
<1>1. SpecHash(GapAt(status)) = SpecHash(GapAt("detected"))
  BY DEF SpecHash, GapAt
<1>2. /\ GapAt(status).id = GapId /\ GapAt(status).claim = Claim
      /\ GapAt(status).requirements.claim = Claim
  BY DEF GapAt
<1>3. QED
  BY <1>1, <1>2, PlanIs, HandedIs DEF Bound

\* Each check of verifyBundle passes on the gap, the plan and the receipt.
LEMMA InvVerifies == Records /\ (Settling => SP!SettlementInv) => BundleVerifies
<1> SUFFICES ASSUME Records, Settling => SP!SettlementInv, Issued, NEW status \in Statuses
             PROVE  VerifyBundle(GapAt(status), Plan, receipt)
  BY DEF BundleVerifies
<1> DEFINE g == GapAt(status)
<1>1. PICK tx \in {NoTx, Tx} : receipt = Handed(tx)
  BY DEF Records, Receipted
<1>2. pc = "done" /\ ReceiptSchema(BareReceipt)
  BY DEF Records, Receipted
<1>3. /\ refund \in Nat /\ S!VerifierFee \in Nat /\ S!Distributable + S!VerifierFee = Budget
      /\ S!SumOf(payouts) + refund = Budget
      /\ S!SumOf(payouts) = S!SumOf(S!SupplierLines) + S!VerifierFee
      /\ S!SumOf(S!VerifierLines) = S!VerifierFee
      /\ payouts = S!SupplierLines \cup S!VerifierLines
      /\ IsFiniteSet(S!SupplierLines)
      /\ \A l, m \in S!SupplierLines : l.submission = m.submission => l = m
      /\ S!Distributable \in Nat /\ S!SumOf(payouts) \in Nat /\ feeBps \in 0..BpsScale
      /\ \A l \in S!SupplierLines :
           l.submission # 0 /\ (l.units * BpsScale) \div S!Distributable \in 0..BpsScale
  BY <1>2, PlanFacts DEF Settling, Records, Typed
<1>4. /\ SupplierPayouts = S!SupplierLines /\ FeePayouts(Plan) = S!VerifierLines
      /\ \A l \in SupplierPayouts :
           /\ l.submission \in Accepted /\ l.units \in Nat
           /\ l.recipient = dossier[l.submission].supplier
  BY <1>2, PaidLines
<1>5. EvidencePayouts(Plan) = S!SupplierLines /\ {l \in payouts : l.submission # 0} = S!SupplierLines
  BY <1>4, PlanIs DEF SupplierPayouts, EvidencePayouts
<1>6. IsFiniteSet(Accepted)
  <2>1. Len(evaluations) \in Nat /\ Accepted \subseteq 1..Len(evaluations)
    BY DEF Accepted, Records, Typed
  <2>2. IsFiniteSet(1..Len(evaluations))
    BY <2>1, FS_Interval
  <2>3. QED
    BY <2>1, <2>2, FS_Subset
<1>7. /\ \A l \in SupplierPayouts : PayoutOf(l.submission) = l.units
      /\ \A i \in Accepted : (\E l \in SupplierPayouts : l.submission = i) \/ PayoutOf(i) = 0
      /\ SumFunction([i \in Accepted |-> PayoutOf(i)]) = S!SumOf(SupplierPayouts)
  BY <1>3, <1>4, <1>6, LinesListed DEF PayoutOf
<1>8. /\ Plan.total = S!SumOf(payouts) /\ Plan.fee = S!VerifierFee /\ Plan.refund = refund
      /\ Plan.distributable = S!Distributable /\ Plan.payouts = payouts
  BY <1>3, <1>5, PlanIs
<1>9. /\ receipt.accepted = BareReceipt.accepted /\ receipt.rejected = BareReceipt.rejected
      /\ receipt.total = Plan.total /\ receipt.refund = Plan.refund /\ receipt.fee = Plan.fee
      /\ ReceiptHash(receipt) = receipt.receiptHash /\ ReceiptSchema(receipt)
  BY <1>1, <1>2, HandedIs
<1>10. GapSchema(g)
  BY BudgetAssumption DEF GapSchema, GapAt
<1>11. PlanSchema(Plan)
  <2>1. \A l \in S!VerifierLines : l.submission = 0 /\ l.units = S!VerifierFee
    BY DEF S!VerifierLines, S!Line
  <2>2. \A l \in payouts : l.units \in Nat
    BY <1>3, <1>4, <2>1
  <2>3. \A l \in payouts : ShareOf(Plan, l) \in 0..BpsScale
    BY <1>3, <1>8, <2>1 DEF ShareOf
  <2>4. Plan.total \in Nat
    BY <1>3, <1>8
  <2>5. QED
    BY <1>3, <1>8, <2>2, <2>3, <2>4 DEF PlanSchema
<1>12. VerifyReceipt(receipt)
  <2>1. [i \in DOMAIN receipt.accepted |-> receipt.accepted[i].units]
          = [i \in Accepted |-> PayoutOf(i)]
    BY <1>9, EvidenceListed
  <2>2. SumFunction([i \in DOMAIN receipt.accepted |-> receipt.accepted[i].units])
          = S!SumOf(SupplierPayouts)
    BY <1>7, <2>1
  <2>3. DOMAIN receipt.accepted \cap DOMAIN receipt.rejected = {}
    BY <1>9, EvidenceListed
  <2>4. QED
    BY <1>3, <1>4, <1>8, <1>9, <2>2, <2>3 DEF VerifyReceipt
<1>13. Bound(g, Plan, receipt)
  BY <1>1, HandedIsBound
<1>14. BudgetSpent(g, Plan) /\ TotalsAgree(Plan, receipt)
  <2>1. g.budget = Budget
    BY DEF GapAt
  <2>2. QED
    BY <1>3, <1>8, <1>9, <2>1 DEF BudgetSpent, TotalsAgree
<1>15. FeesGoToVerifier(g, Plan, receipt)
  <2>1. (\A l \in S!VerifierLines : l.recipient = Verifier) /\ g.verifier = Verifier
    BY DEF S!VerifierLines, S!Line, GapAt
  <2>2. QED
    BY <1>3, <1>4, <1>8, <1>9, <2>1 DEF FeesGoToVerifier
<1>16. PayoutsMatch(Plan, receipt)
  <2>1. EvidencePayouts(Plan) = SupplierPayouts
    BY DEF SupplierPayouts
  <2>2. \A l, m \in SupplierPayouts : l.submission = m.submission => l = m
    BY <1>3, <1>4
  <2>3. \A l \in SupplierPayouts :
          /\ l.submission \in DOMAIN receipt.accepted
          /\ receipt.accepted[l.submission].supplier = l.recipient
          /\ receipt.accepted[l.submission].units = l.units
    BY <1>4, <1>7, <1>9, EvidenceListed
  <2>4. \A i \in DOMAIN receipt.accepted :
          receipt.accepted[i].units = 0 \/ \E l \in SupplierPayouts : l.submission = i
    BY <1>7, <1>9, EvidenceListed
  <2>5. QED
    BY <2>1, <2>2, <2>3, <2>4 DEF PayoutsMatch
<1>17. QED
  BY <1>10, <1>11, <1>12, <1>13, <1>14, <1>15, <1>16 DEF VerifyBundle

\* Scores, dates and the plan's state have their types, the scores after four
\* roundings and truncations too (TypeOK): evaluateSubmission, the score
\* functions and buildPlan.
THEOREM PortfolioTypeCorrect == Spec => []TypeOK
  BY PortfolioInv, InvIsTyped, PTL

\* Nobody is paid for evidence that was refused, stale or copied when judged
\* (PaidForGoodEvidence), however late the plan is built.
THEOREM RefusedIsUnpaid == Spec => []PaidForGoodEvidence
  BY PortfolioInv, InvPaysForGood, PTL

\* Accepted evidence counts in the settlement, with the exceptions that
\* AcceptedCounts lists: the truncations of qualityScore leave something of any
\* support of 70 units (of a million in the code) or more.
THEOREM AcceptedIsCounted == Spec => []AcceptedCounts
  BY PortfolioInv, InvCounts, PTL

\* What buildPlan and buildReceipt make of the same evaluations passes every
\* check of verifyBundle (BundleVerifies), schemas and hashes too, in any status
\* of the gap and with or without the transaction added after the hashing.
\* buildReceipt makes nothing where a reason is too long for its schema.
THEOREM AnybodyCanVerify == Spec => []BundleVerifies
  BY PortfolioInv, InvVerifies, PTL
=============================================================================
