----------------------------- MODULE Portfolio -----------------------------
(***************************************************************************)
(* From the submissions to a gap to the documents that prove its           *)
(* settlement: the verifier (packages/verifier), the plan (Settlement),    *)
(* the receipt (buildReceipt of apps/api/src/service.ts) and the checks a  *)
(* third party runs on them (packages/protocol/src/verify.ts).             *)
(*                                                                         *)
(* The submissions are judged one after the other, time passing between    *)
(* them, by one evaluateGap (what several do at a time is in GapService).  *)
(* A submission is what its supplier declared and the server derived from  *)
(* it; its id is its position.  Scores are parts of ScoreScale, 1000000 in *)
(* the code, and a semantic provider may answer anything its schema lets   *)
(* through.  Of texts only what depends on their length is kept: the names *)
(* of a page that make a reason longer than the receipt's schema takes.  A *)
(* hash is that of one document only.                                      *)
(***************************************************************************)
EXTENDS Integers, Sequences, FiniteSets, FiniteSetsExt, SequencesExt

CONSTANTS Pages,          \* the submissions considered, of different canonical URLs
          MaxDossier,     \* bound: submissions to the gap
          Requirements,   \* the requirements considered
          Opinions,       \* the verdicts of semantic providers considered
          ScoreScale,
          NoDate,         \* in place of a publishedAt that is not given
          FutureTolerance,\* how far in the future max_source_age lets a date be
          DefaultMaxAge,  \* freshnessScore's window when the gap sets none
          MaxTime,        \* bound: the time judging takes
          GapId, Claim,   \* the gap's id and its claim
          NoTx, Tx,       \* no settlementTx, and the one finalize returns
          NoReceipt,      \* no receipt yet
          Refused,        \* buildReceipt threw: the request fails
          Verifier, BpsScale, Budget, VerifierFeeBps, MaxShareBps, MinPayoutUnits

SourceTypes ==
  {"official", "primary", "independent", "aggregated", "wiki", "social", "unknown"}

ASSUME DossierAssumption ==
  /\ IsFiniteSet(Pages) /\ MaxDossier \in Nat /\ MaxTime \in Nat
  /\ \A p \in Pages : p.source \in SourceTypes /\ p.published \in Int \cup {NoDate}
  /\ \A r \in Requirements : r.maxAge \in Nat /\ r.wordy \in BOOLEAN
  /\ FutureTolerance \in Nat /\ DefaultMaxAge \in Nat \ {0}

\* The factors are given in thousandths.
ASSUME ScoreAssumption ==
  /\ ScoreScale \in Nat \ {0} /\ ScoreScale % 1000 = 0
  /\ \A o \in Opinions : o.support \in 0..ScoreScale

ASSUME BudgetAssumption ==
  /\ Budget \in Nat /\ BpsScale \in Nat \ {0}
  /\ VerifierFeeBps \in 0..BpsScale /\ MaxShareBps \in 1..BpsScale /\ MinPayoutUnits \in Nat

VARIABLES required,       \* the gap's requirements
          dossier,        \* its submissions, in order
          now,
          evaluations,    \* the evaluation of each submission judged so far
          receipt         \* the receipt, NoReceipt or Refused

\* The settlement plan's.
VARIABLES bounty, subs, feeBps, shareBps, minUnits,
          pc, round, live, locked, tentative, payouts, refund

Suppliers == {p.supplier : p \in Pages}

S == INSTANCE Settlement WITH
       Bounties <- {Budget}, FeeBps <- {VerifierFeeBps}, ShareBps <- {MaxShareBps},
       MinUnits <- {MinPayoutUnits}, MaxQuality <- ScoreScale, MaxSubs <- MaxDossier

gap == <<required, dossier>>
input == <<bounty, feeBps, shareBps, minUnits>>
plan == <<payouts, refund>>
settlement == <<input, subs, pc, round, live, locked, tentative, plan>>
vars == <<gap, now, evaluations, receipt, settlement>>

-----------------------------------------------------------------------------
(* runDeterministicChecks.                                                  *)

Age(s) == now - s.published

Listed(s, list) == s.domains \cap list # {}

SameContent(s, prior) == \E p \in prior : p.content = s.content
SameDomain(s, prior) == \E p \in prior : p.root = s.root

Timely(s) ==
  /\ required.maxAge # 0 \/ required.minPublished # NoDate => s.published # NoDate
  /\ required.minPublished # NoDate => s.published >= required.minPublished
  /\ required.maxAge # 0 => Age(s) \in -FutureTolerance..required.maxAge

\* Submissions of one gap have different URLs, so that only contents can collide.
PassesChecks(s, prior) ==
  /\ required.unique => ~SameContent(s, prior)
  /\ required.allowlist # {} => Listed(s, required.allowlist)
  /\ ~Listed(s, required.blocklist)
  /\ Timely(s)
  /\ required.allowed # {} => s.source \in required.allowed
  /\ s.source \notin required.banned
  /\ required.primary => s.source \in {"primary", "official"}
  /\ required.cited => s.cited
  /\ required.independent => ~SameDomain(s, prior)

\* The reasons of failed checks repeat dates and hosts, whole: with a long one
\* a reason has more characters than the receipt may hold.
Wordy(s, prior) ==
  \/ "host" \in s.long /\ required.allowlist # {} /\ ~Listed(s, required.allowlist)
  \/ "host" \in s.long /\ Listed(s, required.blocklist)
  \/ /\ "date" \in s.long \/ required.wordy
     /\ required.minPublished # NoDate /\ s.published # NoDate
     /\ s.published < required.minPublished
  \/ "root" \in s.long /\ required.independent /\ SameDomain(s, prior)

-----------------------------------------------------------------------------
(* The scores, and the quality they multiply to.                            *)

PerMille(n) == (n * ScoreScale) \div 1000

Provenance(s) ==
  PerMille(CASE s.source = "official" -> 950
             [] s.source = "primary" -> 900
             [] s.source = "independent" -> 800
             [] s.source = "aggregated" -> 400
             [] s.source = "wiki" -> 500
             [] s.source = "social" -> 200
             [] s.source = "unknown" -> 300)

Independence(s, prior) ==
  PerMille(CASE SameDomain(s, prior) -> 300
             [] ~SameDomain(s, prior) /\ s.source = "official" -> 700
             [] ~SameDomain(s, prior) /\ s.source = "primary" -> 850
             [] ~SameDomain(s, prior) /\ s.source = "independent" -> 900
             [] OTHER -> 500)

\* Takes a page of a known domain for a copy.
NoveltyBug(s, prior) ==
  PerMille(IF SameContent(s, prior) \/ SameDomain(s, prior) THEN 0 ELSE 900)

Novelty(s, prior) ==
  PerMille(IF SameContent(s, prior) THEN 0 ELSE IF SameDomain(s, prior) THEN 600 ELSE 900)

Window == IF required.maxAge # 0 THEN required.maxAge ELSE DefaultMaxAge

\* 1 - 0.4 * age / window, rounded half up.
Decayed(age) ==
  (2 * (10 * Window - 4 * age) * ScoreScale + 10 * Window) \div (20 * Window)

\* Gives a date in the future more than everything.
FreshnessBug(s) ==
  IF s.published = NoDate THEN PerMille(500)
  ELSE IF Age(s) >= Window THEN 0 ELSE Decayed(Age(s))

Freshness(s) ==
  IF s.published = NoDate THEN PerMille(500)
  ELSE IF Age(s) < 0 \/ Age(s) >= Window THEN 0 ELSE Decayed(Age(s))

Times(q, factor) == (q * factor) \div ScoreScale

\* Truncated after each factor.
QualityScore(e) ==
  Times(Times(Times(Times(e.support, e.provenance), e.independence), e.novelty), e.freshness)

-----------------------------------------------------------------------------
(* evaluateSubmission.  A provider is asked only after the checks passed.   *)

Convinced(opinion) ==
  opinion.support >= required.minSupport /\ opinion.relation # "contradicts"

Evaluation(s, prior, opinion) ==
  [accepted |-> PassesChecks(s, prior) /\ Convinced(opinion),
   support |-> IF PassesChecks(s, prior) THEN opinion.support ELSE 0,
   provenance |-> Provenance(s),
   independence |-> Independence(s, prior),
   novelty |-> Novelty(s, prior),
   freshness |-> Freshness(s),
   wordy |-> Wordy(s, prior),
   age |-> IF s.published = NoDate THEN 0 ELSE Age(s)]

\* Whatever was judged before, accepted or not.
Prior == {dossier[i] : i \in DOMAIN evaluations}

\* Forgets the verdict.
CountsBug(e) == QualityScore(e)

\* What an evaluation counts for in the plan.
Counts(e) == IF e.accepted THEN QualityScore(e) ELSE 0

Judge(opinion) ==
  LET s == dossier[Len(evaluations) + 1]
  IN  /\ pc = "evaluate"
      /\ Len(evaluations) < Len(dossier)
      /\ evaluations' = Append(evaluations, Evaluation(s, Prior, opinion))
      /\ subs' = Append(subs, [supplier |-> s.supplier, quality |-> Counts(Last(evaluations'))])
      /\ UNCHANGED <<gap, now, receipt, input, pc, round, live, locked, tentative, plan>>

\* Time passes while a provider is awaited.
Tick ==
  /\ pc = "evaluate"
  /\ now < MaxTime
  /\ now' = now + 1
  /\ UNCHANGED <<gap, evaluations, receipt, settlement>>

-----------------------------------------------------------------------------
(* buildPlan: enough domains among the accepted, then the settlement.       *)

Accepted == {i \in DOMAIN evaluations : evaluations[i].accepted}

Sources == {dossier[i].root : i \in Accepted}

Judged == pc = "evaluate" /\ Len(evaluations) = Len(dossier)

BuildPlan ==
  /\ Judged
  /\ pc' = IF Cardinality(Sources) < required.sources THEN "insufficient" ELSE "allocate"
  /\ live' = S!Candidates
  /\ UNCHANGED <<gap, now, evaluations, receipt, input, subs, round, locked, tentative, plan>>

Settle ==
  /\ S!Next
  /\ UNCHANGED <<gap, now, evaluations, receipt>>

-----------------------------------------------------------------------------
(* The documents, and the hashes that bind them to each other.              *)

Statuses ==
  {"detected", "funded", "open", "submissions", "verified", "settled", "consumed",
   "expired", "cancelled"}

\* keccak256 of a canonical text: no two documents have the same.
HashOf(document) == <<"keccak256", document>>

\* In place of a hash not computed yet, and of a field that a hash leaves out.
Zeros == "0x00"

\* The gap, which but for its status stays what createGap made of it.
GapAt(status) ==
  [id |-> GapId, claim |-> Claim, requirements |-> [claim |-> Claim, evidence |-> required],
   budget |-> Budget, verifier |-> Verifier, status |-> status]

SpecHash(g) == HashOf([g EXCEPT !.status = Zeros])

SettlementHash(p) == HashOf([p EXCEPT !.settlementHash = Zeros])

\* Hashes where the hash is anchored with the rest.
ReceiptHashBug(r) == HashOf([r EXCEPT !.receiptHash = Zeros])

\* settlementTx is not known when the hash is anchored.
ReceiptHash(r) ==
  LET unhashed == [r EXCEPT !.receiptHash = Zeros]
  IN  HashOf([unhashed EXCEPT !.settlementTx = NoTx])

EvidencePayouts(p) == {l \in p.payouts : l.submission # 0}   \* 0 is "verifier-fee"
FeePayouts(p) == p.payouts \ EvidencePayouts(p)

\* The plan before its hash is known, and with it.
BarePlan ==
  [bountyId |-> GapId, distributable |-> S!Distributable, fee |-> S!VerifierFee,
   payouts |-> payouts, total |-> S!SumOf({l \in payouts : l.submission # 0}) + S!VerifierFee,
   refund |-> refund, settlementHash |-> Zeros]

Plan == [BarePlan EXCEPT !.settlementHash = SettlementHash(BarePlan)]

-----------------------------------------------------------------------------
(* What the schemas demand of them that the program could fail to give.     *)

Score == 0..ScoreScale
Factors == {"support", "provenance", "independence", "novelty", "freshness"}
Scores(e) == [f \in Factors |-> e[f]]

GapSchema(g) == g.budget \in Nat /\ g.status \in Statuses

\* The shareBps of a line, of the whole bounty for the fee.
ShareOf(p, l) ==
  IF l.submission = 0 THEN feeBps ELSE (l.units * BpsScale) \div p.distributable

PlanSchema(p) ==
  /\ {p.distributable, p.fee, p.total, p.refund} \subseteq Nat
  /\ \A l \in p.payouts : l.units \in Nat /\ ShareOf(p, l) \in 0..BpsScale

\* No reason has more than 256 characters.
ReceiptSchema(r) ==
  /\ {r.total, r.refund, r.fee} \subseteq Nat
  /\ \A i \in DOMAIN r.accepted :
       /\ r.accepted[i].units \in Nat
       /\ \A f \in Factors : r.accepted[i].scores[f] \in Score
  /\ \A i \in DOMAIN r.rejected : ~r.rejected[i].wordy

-----------------------------------------------------------------------------
(* buildReceipt, which parses the receipt before it hashes it.              *)

SupplierPayouts == EvidencePayouts(Plan)

\* payoutBySub.get(s.id)?.amountUnits ?? "0"
PayoutOf(i) == S!SumOf({l \in SupplierPayouts : l.submission = i})

BareReceipt ==
  [bountyId |-> GapId, requestHash |-> SpecHash(GapAt("detected")), claim |-> Claim,
   accepted |-> [i \in Accepted |->
                   [supplier |-> dossier[i].supplier, scores |-> Scores(evaluations[i]),
                    units |-> PayoutOf(i)]],
   rejected |-> [i \in DOMAIN evaluations \ Accepted |-> [wordy |-> evaluations[i].wordy]],
   total |-> Plan.total, refund |-> Plan.refund, fee |-> Plan.fee,
   settlementTx |-> NoTx, settlementHash |-> Plan.settlementHash, receiptHash |-> Zeros]

Receipt == [BareReceipt EXCEPT !.receiptHash = ReceiptHash(BareReceipt)]

BuildReceipt ==
  /\ pc = "done"
  /\ receipt = NoReceipt
  /\ receipt' = IF ReceiptSchema(BareReceipt) THEN Receipt ELSE Refused
  /\ UNCHANGED <<gap, now, evaluations, settlement>>

Issued == receipt \notin {NoReceipt, Refused}

\* finalize has anchored the hash and answers with its transaction.
Anchor ==
  /\ Issued
  /\ receipt.settlementTx = NoTx
  /\ receipt' = [receipt EXCEPT !.settlementTx = Tx]
  /\ UNCHANGED <<gap, now, evaluations, settlement>>

-----------------------------------------------------------------------------
(* verifyReceipt and verifyBundle.  Ids are unique in a list by its being   *)
(* a function of them.                                                      *)

VerifyReceipt(r) ==
  /\ ReceiptSchema(r)
  /\ ReceiptHash(r) = r.receiptHash
  /\ DOMAIN r.accepted \cap DOMAIN r.rejected = {}
  /\ SumFunction([i \in DOMAIN r.accepted |-> r.accepted[i].units]) + r.fee = r.total

Bound(g, p, r) ==
  /\ SpecHash(g) = r.requestHash
  /\ SettlementHash(p) = r.settlementHash /\ p.settlementHash = r.settlementHash
  /\ g.id = p.bountyId /\ g.id = r.bountyId
  /\ g.claim = r.claim /\ g.requirements.claim = g.claim

BudgetSpent(g, p) ==
  S!SumOf(p.payouts) + p.refund = g.budget /\ p.distributable + p.fee = g.budget

TotalsAgree(p, r) ==
  /\ S!SumOf(p.payouts) = p.total
  /\ p.total = r.total /\ p.refund = r.refund /\ p.fee = r.fee

FeesGoToVerifier(g, p, r) ==
  /\ S!SumOf(FeePayouts(p)) = r.fee
  /\ \A l \in FeePayouts(p) : l.recipient = g.verifier

\* Plan and receipt name the same submissions, recipients and units.
PayoutsMatch(p, r) ==
  /\ \A l, m \in EvidencePayouts(p) : l.submission = m.submission => l = m
  /\ \A l \in EvidencePayouts(p) :
       /\ l.submission \in DOMAIN r.accepted
       /\ r.accepted[l.submission].supplier = l.recipient
       /\ r.accepted[l.submission].units = l.units
  /\ \A i \in DOMAIN r.accepted :
       r.accepted[i].units = 0 \/ \E l \in EvidencePayouts(p) : l.submission = i

VerifyBundle(g, p, r) ==
  /\ GapSchema(g) /\ PlanSchema(p) /\ VerifyReceipt(r)
  /\ Bound(g, p, r) /\ BudgetSpent(g, p) /\ TotalsAgree(p, r)
  /\ FeesGoToVerifier(g, p, r) /\ PayoutsMatch(p, r)

-----------------------------------------------------------------------------
Dossiers ==
  {d \in UNION {[1..n -> Pages] : n \in 0..MaxDossier} : IsInjective(d)}

Init ==
  /\ required \in Requirements
  /\ dossier \in Dossiers
  /\ now = 0
  /\ evaluations = <<>>
  /\ receipt = NoReceipt
  /\ bounty = Budget /\ subs = <<>>
  /\ feeBps = VerifierFeeBps /\ shareBps = MaxShareBps /\ minUnits = MinPayoutUnits
  /\ pc = "evaluate"
  /\ round = 0
  /\ live = {} /\ locked = {} /\ tentative = <<>>
  /\ payouts = {} /\ refund = 0

Next ==
  \/ \E opinion \in Opinions : Judge(opinion)
  \/ Tick
  \/ BuildPlan
  \/ Settle
  \/ BuildReceipt
  \/ Anchor

Spec == Init /\ [][Next]_vars

-----------------------------------------------------------------------------
(* Correctness.                                                             *)

TypeOK ==
  /\ required \in Requirements
  /\ dossier \in Dossiers
  /\ now \in 0..MaxTime
  /\ Len(evaluations) <= Len(dossier)
  /\ \A e \in Range(evaluations) :
       /\ e.accepted \in BOOLEAN /\ e.wordy \in BOOLEAN /\ e.age \in Int
       /\ \A f \in Factors : e[f] \in Score
  /\ Len(subs) = Len(evaluations)
  /\ \A q \in Range(subs) : q \in S!Submission
  /\ pc \in {"evaluate", "insufficient", "allocate", "pay", "done"}

(* What the server hands out, anybody can verify: the gap in whatever       *)
(* status it is by then, the plan and the receipt pass every check of       *)
(* verifyBundle (packages/protocol/src/verify.ts), with and without the     *)
(* transaction added to the receipt after it was hashed, also when the      *)
(* evidence of one supplier is aggregated, dropped, or counts for nothing.  *)
(* A receipt is handed out only if buildReceipt makes one: where a reason   *)
(* of a refusal is too long for the schema it throws (Refused), and the gap *)
(* is not settled.                                                          *)
BundleVerifies ==
  Issued => \A status \in Statuses : VerifyBundle(GapAt(status), Plan, receipt)

(* Nobody is paid for refused evidence: a supplier with a payout has an     *)
(* accepted submission, judged when it was neither dated in the future      *)
(* beyond the tolerance nor older than the gap allows, and no copy of an    *)
(* earlier one where copies are refused.                                    *)
PaidForGoodEvidence ==
  \A l \in SupplierPayouts :
    /\ evaluations[l.submission].accepted
    /\ required.maxAge # 0 =>
         evaluations[l.submission].age \in -FutureTolerance..required.maxAge
    /\ required.unique =>
         \A i \in 1..(l.submission - 1) : dossier[i].content # dossier[l.submission].content

(* Accepted evidence counts for something, unless it is dated in the future *)
(* or no younger than the whole window (both pass the check on the age, and *)
(* freshnessScore gives them nothing), is a copy where copies are taken, or *)
(* was accepted with so little support, where no more is asked for, that    *)
(* truncating after each factor leaves nothing: with 70 units of support    *)
(* the smallest factors still leave one.                                    *)
AcceptedCounts ==
  \A i \in Accepted :
    subs[i].quality = 0 =>
      \/ dossier[i].published # NoDate /\ evaluations[i].age \notin 0..(Window - 1)
      \/ ~required.unique /\ \E j \in 1..(i - 1) : dossier[j].content = dossier[i].content
      \/ evaluations[i].support < 70
=============================================================================
