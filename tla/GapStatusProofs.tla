--------------------------- MODULE GapStatusProofs ---------------------------
(***************************************************************************)
(* Theorems about the statuses that GapService shows, for any gaps, URLs,  *)
(* requirements, number of handlers at a time and number of settlements.   *)
(* They rest on the invariant TypeInv of GapServiceProofs.                 *)
(***************************************************************************)
EXTENDS GapServiceProofs

\* The last of the three writes of a settlement of g.
Settles(c, g) ==
  /\ calls[c].gap = g
  /\ \E r \in Receipts : Settle(c, g, r, 3)
  /\ \/ Plan(c, 3) /\ bountyId[g] = NoBounty /\ mode # "live"
     \/ Finalized(c, 3)

\* How a status becomes x.
Becomes(g, x) ==
  \/ x = status[g]
  \/ status[g] = "none" /\ x \in {"detected", "open"}
  \/ status[g] \in Live /\ x = "expired"
  \/ status[g] \in {"open", "submissions", "funded", "verified"} /\ x = "submissions"
  \/ status[g] \in {"open", "submissions"} /\ x = "verified"
  \/ status[g] \in Live \cup {"expired"} /\ x = "cancelled"
  \/ status[g] = "settled" /\ x = "consumed"
  \/ UnderWay(g) /\ x \in {"open", "verified", "expired", "cancelled"}
  \/ UnderWay(g) /\ x = "settled" /\ \E c \in Calls : Settles(c, g)

OneStatus ==
  status' = status \/ \E g \in Gaps, x \in Statuses :
    status' = [status EXCEPT ![g] = x] /\ Becomes(g, x)

-----------------------------------------------------------------------------
(* How statuses change.                                                     *)

\* Seeing a gap leaves its status or expires it; so does concluding what was seen.
LEMMA SeenBecomes ==
  ASSUME StoreTyped, NEW g \in Gaps
  PROVE  /\ Becomes(g, Seen(g)) /\ Becomes(g, Conclusion(Seen(g)))
         /\ Seen(g) \in Statuses /\ Conclusion(Seen(g)) \in Statuses
<1>1. /\ Seen(g) \in Statuses /\ Conclusion(Seen(g)) \in Statuses
      /\ Seen(g) = status[g] \/ (Seen(g) = "expired" /\ status[g] \in Live)
  BY SeenIsStatus
<1>2. Conclusion("expired") = "expired"
  BY DEF Conclusion
<1>3. Becomes(g, Seen(g))
  BY <1>1 DEF Becomes
<1>4. Becomes(g, Conclusion(Seen(g)))
  <2>1. CASE Seen(g) = status[g]
    BY <2>1 DEF Becomes, Conclusion
  <2>2. CASE Seen(g) = "expired" /\ status[g] \in Live
    BY <1>2, <2>2 DEF Becomes
  <2>3. QED
    BY <1>1, <2>1, <2>2
<1>5. QED
  BY <1>1, <1>3, <1>4

\* The handlers that are under way.
LEMMA UnderWayIs ==
  ASSUME NEW c \in Calls,
         calls[c].pc \in {"evaluated", "funding", "finalizing", "cancelling"}
  PROVE  UnderWay(calls[c].gap)
  BY DEF UnderWay

\* A handler that settles.
LEMMA SettleSets ==
  ASSUME TypeInv, NEW c \in Calls, NEW done \in 1..3,
         \/ Plan(c, done) /\ bountyId[calls[c].gap] = NoBounty
         \/ Finalized(c, done)
  PROVE  OneStatus
<1> DEFINE g == calls[c].gap
<1>1. /\ UnderWay(g) /\ g \in Gaps
      /\ \E r \in Receipts : Settle(c, g, r, done)
      /\ \/ Plan(c, done) /\ bountyId[g] = NoBounty /\ mode # "live"
         \/ Finalized(c, done)
  <2>1. CASE Plan(c, done) /\ bountyId[g] = NoBounty
    <3>1. calls[c].pc = "evaluated" /\ Settle(c, g, nextReceipt, done) /\ mode # "live"
      BY <2>1 DEF Plan
    <3>2. nextReceipt \in Receipts /\ g \in Gaps
      BY <2>1, <3>1, PlanMade DEF TypeInv, HandlersShaped
    <3>3. QED
      BY <2>1, <3>1, <3>2, UnderWayIs
  <2>2. CASE Finalized(c, done)
    <3>1. calls[c].pc = "finalizing" /\ Settle(c, g, calls[c].receipt, done)
      BY <2>2 DEF Finalized, Returns
    <3>2. calls[c].receipt \in Receipts /\ g \in Gaps
      BY <3>1 DEF TypeInv, HandlersShaped
    <3>3. QED
      BY <2>2, <3>1, <3>2, UnderWayIs
  <2>3. QED
    BY <2>1, <2>2
<1>2. PICK r \in Receipts : Settle(c, g, r, done)
  BY <1>1
<1>3. StoreTyped
  BY DEF TypeInv
<1>4. CASE done # 3
  BY <1>1, <1>2, <1>3, <1>4, ProofsSaved DEF OneStatus
<1>5. CASE done = 3
  <2>1. status' = [status EXCEPT ![g] = "settled"]
    <3>1. Saved(done).status <=> done >= 3
      BY Zenon DEF Saved
    <3>2. QED
      BY <1>2, <1>5, <3>1 DEF Settle
  <2>2. Settles(c, g)
    BY <1>1, <1>5 DEF Settles
  <2>3. QED
    BY <1>1, <2>1, <2>2 DEF OneStatus, Becomes, Statuses
<1>6. QED
  BY <1>4, <1>5

\* Every step changes at most one status, in one of these ways.
LEMMA OneStatusStep == TypeInv /\ [Next]_vars => OneStatus
<1> SUFFICES ASSUME TypeInv, [Next]_vars PROVE OneStatus
  OBVIOUS
<1> StoreTyped /\ HandlersShaped
  BY DEF TypeInv
<1> {"detected", "open", "submissions", "verified", "settled", "consumed", "expired",
     "cancelled"} \subseteq Statuses
  BY DEF Statuses, Live
<1>1. ASSUME NEW g \in Gaps, NEW x \in Statuses, Becomes(g, x), Writes(g, x)
      PROVE  OneStatus
  BY <1>1 DEF Writes, OneStatus
<1>2. ASSUME NEW c \in Calls, NEW g \in Gaps, NEW done \in 1..2, Create(c, g, done)
      PROVE  OneStatus
  BY <1>2 DEF Create, OneStatus, Becomes
<1>3. ASSUME NEW c \in Calls, NEW done \in 1..2, Funded(c, done) PROVE OneStatus
  <2>1. calls[c].pc = "funding" /\ calls[c].gap \in Gaps
    BY <1>3 DEF Funded, Returns, HandlersShaped
  <2>2. Writes(calls[c].gap, "open")
    BY <1>3 DEF Funded, Writes
  <2>3. QED
    BY <1>1, <2>1, <2>2, UnderWayIs DEF Becomes
<1>4. ASSUME NEW g \in Gaps, NEW u \in Urls, NEW done \in 1..2, Submit(g, u, done)
      PROVE  OneStatus
  BY <1>4 DEF Submit, OneStatus, Becomes
<1>5. ASSUME NEW c \in Calls, NEW g \in Gaps, NEW thenPlan \in BOOLEAN,
             StartEvaluation(c, g, thenPlan)
      PROVE  OneStatus
  <2>1. Writes(g, Seen(g)) \/ Writes(g, Conclusion(Seen(g)))
    BY <1>5 DEF StartEvaluation, Writes
  <2>2. QED
    BY <1>1, <2>1, SeenBecomes
<1>6. ASSUME NEW c \in Calls, NEW verdict, NEW done \in 1..2, VerdictArrives(c, verdict, done)
      PROVE  OneStatus
  <2>1. /\ calls[c].pc = "evaluating" /\ calls[c].gap \in Gaps
        /\ done \in 1..(IF calls[c].todo \ {Min(calls[c].todo)} = {}
                             /\ calls[c].seen \in {"submissions", "open"} THEN 2 ELSE 1)
        /\ status' = IF done = 2 THEN [status EXCEPT ![calls[c].gap] = "verified"] ELSE status
    BY <1>6 DEF VerdictArrives, Returns, HandlersShaped
  <2>2. CASE done = 2
    <3>1. UnderWay(calls[c].gap)
      BY <2>1, <2>2 DEF UnderWay
    <3>2. QED
      BY <2>1, <2>2, <3>1 DEF OneStatus, Becomes
  <2>3. QED
    BY <2>1, <2>2 DEF OneStatus
<1>7. ASSUME NEW c \in Calls, PlanFails(c) \/ \E done \in 1..3 : Plan(c, done)
      PROVE  OneStatus
  <2>1. calls[c].gap \in Gaps
    BY <1>7 DEF PlanFails, Plan, HandlersShaped
  <2>2. CASE Writes(calls[c].gap, Seen(calls[c].gap))
    BY <1>1, <2>1, <2>2, SeenBecomes
  <2>3. CASE ~Writes(calls[c].gap, Seen(calls[c].gap))
    BY <1>7, <2>3, SettleSets DEF PlanFails, Plan, Writes
  <2>4. QED
    BY <2>2, <2>3
<1>8. ASSUME NEW c \in Calls, NEW done \in 1..3, Finalized(c, done) PROVE OneStatus
  BY <1>8, SettleSets
<1>9. ASSUME NEW c \in Calls, NEW g \in Gaps, Cancel(c, g) PROVE OneStatus
  <2>1. status[g] \in Live \cup {"expired"}
    BY <1>9 DEF Cancel, Seen
  <2>2. Becomes(g, "expired") /\ Becomes(g, "cancelled")
    BY <2>1 DEF Becomes
  <2>3. QED
    BY <1>1, <1>9, <2>2 DEF Cancel, Writes
<1>10. ASSUME NEW c \in Calls, Cancelled(c) PROVE OneStatus
  <2>1. calls[c].pc = "cancelling" /\ calls[c].gap \in Gaps
    BY <1>10 DEF Cancelled, Returns, HandlersShaped
  <2>2. QED
    BY <1>1, <1>10, <2>1, UnderWayIs DEF Cancelled, Writes, Becomes
<1>11. ASSUME NEW g \in Gaps, Consume(g) PROVE OneStatus
  BY <1>11 DEF Consume, Seen, OneStatus, Becomes
<1>12. ASSUME NEW g \in Gaps, Read(g) PROVE OneStatus
  BY <1>1, <1>12, SeenBecomes DEF Read, Writes
<1>13. ASSUME NEW c \in Calls,
              Approved(c) \/ VerdictCollides(c) \/ Throws(c) \/ Transaction(c)
       PROVE  status' = status
  BY <1>13 DEF Approved, VerdictCollides, Throws, Transaction, Send, MineApprove,
     MineCreateBounty, MineFinalize, MineCancel, MineReverted, MineRefused, store
<1>14. CASE Crash \/ UNCHANGED vars \/ \E g \in Gaps : DeadlinePasses(g)
  BY <1>14 DEF Crash, DeadlinePasses, vars, store, OneStatus
<1>15. QED
  BY <1>2, <1>3, <1>4, <1>5, <1>6, <1>7, <1>8, <1>9, <1>10, <1>11, <1>12, <1>13, <1>14
     DEF Next, Request, Handler, Evaluate, Finalize, OneStatus

-----------------------------------------------------------------------------
(* The table of statuses.                                                   *)

\* No gap is shown as funded: the handlers go from detected to open.
NotFunded == \A g \in Gaps : status[g] # "funded"

\* No handler writes that status.
LEMMA NotFundedStep == TypeInv /\ NotFunded /\ [Next]_vars => NotFunded'
<1> SUFFICES ASSUME TypeInv, NotFunded, [Next]_vars PROVE NotFunded'
  OBVIOUS
<1>1. OneStatus /\ StoreTyped
  BY OneStatusStep DEF TypeInv
<1>2. ASSUME NEW g \in Gaps, NEW x \in Statuses, Becomes(g, x) PROVE x # "funded"
  BY <1>2 DEF Becomes, NotFunded
<1>3. QED
  BY <1>1, <1>2 DEF OneStatus, NotFunded, StoreTyped

\* What the table says of the changes that happen.
LEMMA TableAllows ==
  /\ \A from \in Live \ {"funded"} : Allowed(from, "expired") /\ Allowed(from, "cancelled")
  /\ Allowed("expired", "cancelled") /\ Allowed("settled", "consumed")
  /\ Allowed("open", "submissions") /\ Allowed("verified", "submissions")
  /\ Allowed("open", "verified") /\ Allowed("submissions", "verified")
  BY DEF Allowed, CanTransition, Transitions, Live

(* The statuses follow the table of lifecycle.ts (FollowsTable), unless a   *)
(* handler that awaits something changes them, for any number of handlers:  *)
(* the only status the handlers pass over, funded, is never shown.          *)
THEOREM StatusesFollowTable == Spec => FollowsTable
<1>1. Init => NotFunded
  BY DEF Init, NotFunded
<1>2. TypeInv /\ NotFunded /\ [Next]_vars =>
        [\A g \in Gaps : status'[g] # status[g] /\ status[g] # "none" =>
           Allowed(status[g], status'[g]) \/ UnderWay(g)]_vars
  <2> SUFFICES ASSUME TypeInv, NotFunded, [Next]_vars, NEW g \in Gaps,
                      status'[g] # status[g], status[g] # "none"
               PROVE  Allowed(status[g], status'[g]) \/ UnderWay(g)
    OBVIOUS
  <2>1. OneStatus /\ StoreTyped
    BY OneStatusStep DEF TypeInv
  <2>2. Becomes(g, status'[g])
    BY <2>1 DEF OneStatus, StoreTyped
  <2>3. status[g] # "funded"
    BY DEF NotFunded
  <2>4. QED
    BY <2>2, <2>3, TableAllows DEF Becomes
<1>3. QED
  BY <1>1, <1>2, NotFundedStep, TypeInvHolds, PTL DEF Spec, FollowsTable

-----------------------------------------------------------------------------
(* What a settled gap has to show.                                          *)

\* A gap that becomes settled.
LEMMA SettledStep ==
  ASSUME TypeInv, [Next]_vars, NEW g \in Gaps, status'[g] \in {"settled", "consumed"}
  PROVE  \/ status[g] \in {"settled", "consumed"}
         \/ \E c \in Calls : Settles(c, g)
<1>1. OneStatus /\ StoreTyped
  BY OneStatusStep DEF TypeInv
<1>2. Becomes(g, status'[g]) \/ status'[g] = status[g]
  BY <1>1 DEF OneStatus, StoreTyped
<1>3. QED
  BY <1>2 DEF Becomes, Live

\* Plans and receipts are only ever added.
LEMMA ProofsStay ==
  ASSUME TypeInv, [Next]_vars, NEW g \in Gaps, plans[g] # <<>>, receipts[g] # <<>>
  PROVE  plans'[g] # <<>> /\ receipts'[g] # <<>>
<1> StoreTyped
  BY DEF TypeInv
<1>1. CASE UNCHANGED proofs
  BY <1>1 DEF proofs
<1>2. ASSUME NEW c \in Calls, NEW done \in 1..3, Plan(c, done) \/ Finalized(c, done)
      PROVE  UNCHANGED proofs \/ \E h \in Gaps, r \in Receipts : Settle(c, h, r, done)
  <2>1. CASE Plan(c, done)
    <3>1. calls[c].pc = "evaluated" /\ nextReceipt \in Receipts
      BY <2>1, PlanMade
    <3>2. UNCHANGED proofs \/ Settle(c, calls[c].gap, nextReceipt, done)
      BY <2>1 DEF Plan
    <3>3. QED
      BY <3>1, <3>2 DEF TypeInv, HandlersShaped
  <2>2. CASE Finalized(c, done)
    <3>1. calls[c].pc = "finalizing" /\ Settle(c, calls[c].gap, calls[c].receipt, done)
      BY <2>2 DEF Finalized, Returns
    <3>2. QED
      BY <3>1 DEF TypeInv, HandlersShaped
  <2>3. QED
    BY <1>2, <2>1, <2>2
<1>3. ASSUME NEW c \in Calls, NEW done \in 1..3, NEW h \in Gaps, NEW r \in Receipts,
             Settle(c, h, r, done)
      PROVE  plans'[g] # <<>> /\ receipts'[g] # <<>>
  BY <1>3, ProofsSaved
<1>4. QED
  BY <1>1, <1>2, <1>3, StoreChanges

(* A gap that is shown as settled has a plan and a receipt                  *)
(* (SettledHasProof), wherever the process dies: the status is written      *)
(* last.                                                                    *)
THEOREM SettledGapsHaveProof == Spec => []SettledHasProof
<1>1. Init => SettledHasProof
  BY DEF Init, SettledHasProof
<1>2. TypeInv /\ SettledHasProof /\ [Next]_vars => SettledHasProof'
  <2> SUFFICES ASSUME TypeInv, SettledHasProof, [Next]_vars, NEW g \in Gaps,
                      status'[g] \in {"settled", "consumed"}
               PROVE  plans'[g] # <<>> /\ receipts'[g] # <<>>
    BY DEF SettledHasProof
  <2>1. CASE status[g] \in {"settled", "consumed"}
    BY <2>1, ProofsStay DEF SettledHasProof
  <2>2. ASSUME NEW c \in Calls, Settles(c, g) PROVE plans'[g] # <<>> /\ receipts'[g] # <<>>
    <3>1. PICK r \in Receipts : Settle(c, g, r, 3)
      BY <2>2 DEF Settles
    <3>2. QED
      BY <3>1, ProofsSaved DEF TypeInv
  <2>3. QED
    BY <2>1, <2>2, SettledStep
<1>3. QED
  BY <1>1, <1>2, TypeInvHolds, PTL DEF Spec

-----------------------------------------------------------------------------
(* The evidence behind a settled gap.                                       *)

\* Sources stay: verdicts are final.
LEMMA SourcesStay ==
  ASSUME TypeInv, [Next]_vars, NEW g \in Gaps, EnoughSources(g)
  PROVE  EnoughSources(g)'
<1> DEFINE A == {DomainOf[u] : u \in Accepted(g)}
           B == {DomainOf[u] : u \in Accepted(g)'}
<1>1. required' = required /\ required.sources \in Nat
  BY StoreChanges, ServiceAssumption DEF config, TypeInv, StoreTyped
<1>2. Accepted(g) \subseteq Accepted(g)'
  <2>1. ASSUME NEW h \in Gaps, NEW u \in Urls, NEW done, Submit(h, u, done)
        PROVE  Accepted(g) \subseteq Accepted(g)'
    BY <2>1, SubmissionStored DEF TypeInv, Accepted
  <2>2. ASSUME NEW c \in Calls, NEW verdict \in {"accepted", "rejected"}, NEW done,
               VerdictArrives(c, verdict, done)
        PROVE  Accepted(g) \subseteq Accepted(g)'
    BY <2>2, VerdictStored DEF Accepted
  <2>3. QED
    BY <2>1, <2>2, StoreChanges DEF documents, Accepted
<1>3. IsFiniteSet(B)
  <2> DEFINE f == [u \in Accepted(g)' |-> DomainOf[u]]
  <2>1. IsFiniteSet(Accepted(g)')
    BY ServiceAssumption, FS_Subset DEF Accepted
  <2>2. f \in Surjection(Accepted(g)', B)
    BY DEF Surjection
  <2> HIDE DEF f, B
  <2>3. QED
    BY <2>1, <2>2, FS_Surjection
<1>4. A \in SUBSET B
  BY <1>2
<1> HIDE DEF A, B
<1>5. /\ IsFiniteSet(A) /\ Cardinality(A) <= Cardinality(B)
      /\ Cardinality(A) \in Nat /\ Cardinality(B) \in Nat
  BY <1>3, <1>4, FS_Subset, FS_CardinalityType
<1>6. Cardinality(A) >= required.sources
  BY DEF EnoughSources, A
<1>7. Cardinality(B) >= required'.sources
  BY <1>1, <1>5, <1>6
<1>8. QED
  BY <1>7 DEF EnoughSources, B

\* A finalize that has its plan counted enough sources.
PlannedOnSources ==
  \A c \in Calls : calls[c].pc = "finalizing" => EnoughSources(calls[c].gap)

\* A plan is made only from enough sources, and its evaluations stay.
LEMMA PlannedOnSourcesStep == TypeInv /\ PlannedOnSources /\ [Next]_vars => PlannedOnSources'
<1> SUFFICES ASSUME TypeInv, PlannedOnSources, [Next]_vars, NEW c \in Calls,
                    calls'[c].pc = "finalizing"
             PROVE  EnoughSources(calls[c].gap)'
  BY DEF PlannedOnSources
<1>1. PICK g \in Gaps : g = calls'[c].gap
  BY HandlersShapedStep DEF HandlersShaped
<1>2. EnoughSources(g)
  <2>1. CASE Kept(c)
    BY <1>1, <2>1, IdleIsHandler DEF Kept, PlannedOnSources
  <2>2. CASE GoesOn(c)
    BY <1>1, <2>2, GoOnKeeps
  <2>3. CASE \E h \in Gaps : Begins(c, h)
    BY <2>3, BeginKeeps DEF TypeInv
  <2>4. QED
    BY <2>1, <2>2, <2>3, HandlersStep
<1>3. EnoughSources(g)'
  BY <1>2, SourcesStay
<1>4. QED
  BY <1>1, <1>3 DEF EnoughSources, Accepted

(* Behind a settled gap there is evidence from as many domains as it asked  *)
(* for (SettledHasSources), however long the contract takes to answer: what *)
(* buildPlan counted can only grow.                                         *)
THEOREM SettledGapsHaveSources == Spec => []SettledHasSources
<1> DEFINE Inv == PlannedOnSources /\ SettledHasSources
<1>1. Init => Inv
  BY IdleIsHandler DEF Init, PlannedOnSources, SettledHasSources
<1>2. TypeInv /\ Inv /\ [Next]_vars => Inv'
  <2> SUFFICES ASSUME TypeInv, PlannedOnSources, SettledHasSources, [Next]_vars
               PROVE  SettledHasSources'
    BY PlannedOnSourcesStep
  <2>1. ASSUME NEW g \in Gaps, status'[g] \in {"settled", "consumed"} PROVE EnoughSources(g)
    <3>1. CASE status[g] \in {"settled", "consumed"}
      BY <3>1 DEF SettledHasSources, EnoughSources
    <3>2. ASSUME NEW c \in Calls, Settles(c, g) PROVE EnoughSources(g)
      BY <3>2 DEF Settles, Plan, Finalized, Returns, PlannedOnSources
    <3>3. QED
      BY <2>1, <3>1, <3>2, SettledStep
  <2>2. ASSUME NEW g \in Gaps, status'[g] \in {"settled", "consumed"} PROVE EnoughSources(g)'
    BY <2>1, <2>2, SourcesStay
  <2>3. QED
    BY <2>2 DEF SettledHasSources, EnoughSources
<1>3. QED
  BY <1>1, <1>2, TypeInvHolds, PTL DEF Spec

-----------------------------------------------------------------------------
(* The money behind a settled gap.                                          *)

Closed == {"Settled", "Cancelled"}

\* Bounties are created once and closed once; their sums do not change.
LEMMA EscrowStep ==
  ASSUME TypeInv, [Next]_vars, NEW id \in BountyIds, escrow[id] # "None"
  PROVE  /\ escrow'[id] # "None" /\ amount'[id] = amount[id]
         /\ escrow[id] \in Closed => escrow'[id] \in Closed
<1> ChainTyped /\ HandlersTyped
  BY DEF TypeInv
<1>1. \A c \in Calls : calls[c].bounty \in BountyIds
  BY DEF HandlersTyped, HandlerRecord
<1>2. CASE UNCHANGED <<money, specOf, allowance>>
  BY <1>2 DEF money
<1>3. ASSUME NEW c \in Calls, MineApprove(c) PROVE UNCHANGED <<escrow, amount>>
  BY <1>3 DEF MineApprove, money
<1>4. ASSUME NEW c \in Calls, MineFinalize(c)
      PROVE  \E other \in BountyIds :
               escrow' = [escrow EXCEPT ![other] = "Settled"] /\ UNCHANGED amount
  BY <1>1, <1>4 DEF MineFinalize, E!Settle
<1>5. ASSUME NEW c \in Calls, MineCancel(c)
      PROVE  \E other \in BountyIds :
               escrow' = [escrow EXCEPT ![other] = "Cancelled"] /\ UNCHANGED amount
  BY <1>1, <1>5 DEF MineCancel, E!Reclaim
<1>6. ASSUME NEW c \in Calls, MineCreateBounty(c)
      PROVE  \E other : /\ escrow[other] = "None"
                        /\ escrow' = [escrow EXCEPT ![other] = "Open"]
                        /\ amount' = [amount EXCEPT ![other] = Budget[calls[c].gap]]
  BY <1>6 DEF MineCreateBounty, E!Fund
<1>7. QED
  BY <1>2, <1>3, <1>4, <1>5, <1>6, ChainChanges DEF ChainTyped, E!TypeOK, Closed

\* A gap keeps the bounty it has.
LEMMA BountyStays ==
  ASSUME TypeInv, [Next]_vars, NEW g \in Gaps, bountyId[g] # NoBounty
  PROVE  bountyId'[g] = bountyId[g]
  BY BountyIdStep DEF TypeInv, CreatedOnce, StoreTyped

\* Only transactions change the pool.
LEMMA PoolStep ==
  ASSUME [Next]_vars
  PROVE  mempool' = mempool \/ \E c \in Calls : Transaction(c)
<1>1. ASSUME NEW g \in Gaps, Request(g) PROVE mempool' = mempool
  <2>1. ASSUME NEW c \in Calls,
               (\E done \in 1..2 : Create(c, g, done)) \/ Evaluate(c, g) \/ Finalize(c, g)
                 \/ Cancel(c, g)
        PROVE  mempool' = mempool
    BY <2>1 DEF Create, Evaluate, Finalize, StartEvaluation, Cancel, chain
  <2>2. ASSUME NEW u \in Urls, NEW done \in 1..2, Submit(g, u, done) PROVE mempool' = mempool
    BY <2>2 DEF Submit, chain
  <2>3. ASSUME Consume(g) \/ Read(g) PROVE mempool' = mempool
    BY <2>3 DEF Consume, Read, chain
  <2>4. QED
    BY <1>1, <2>1, <2>2, <2>3 DEF Request
<1>2. ASSUME NEW c \in Calls, Handler(c) PROVE mempool' = mempool
  <2>1. ASSUME Approved(c) \/ VerdictCollides(c) \/ PlanFails(c) \/ Cancelled(c) \/ Throws(c)
        PROVE  mempool' = mempool
    BY <2>1 DEF Approved, VerdictCollides, PlanFails, Cancelled, Throws, chain
  <2>2. ASSUME NEW done, Funded(c, done) \/ Plan(c, done) \/ Finalized(c, done)
        PROVE  mempool' = mempool
    BY <2>2 DEF Funded, Plan, Finalized, chain
  <2>3. ASSUME NEW verdict, NEW done, VerdictArrives(c, verdict, done)
        PROVE  mempool' = mempool
    BY <2>3 DEF VerdictArrives, chain
  <2>4. QED
    BY <1>2, <2>1, <2>2, <2>3 DEF Handler
<1>3. Crash \/ UNCHANGED vars \/ (\E g \in Gaps : DeadlinePasses(g)) => mempool' = mempool
  BY DEF Crash, DeadlinePasses, vars, chain
<1>4. QED
  BY <1>1, <1>2, <1>3 DEF Next

\* Sending and mining do change it.
LEMMA PoolChanges ==
  ASSUME TypeInv, NEW c \in Calls, mempool' = mempool
  PROVE  ~Sends(c) /\ ~\E outcome \in {"mined", "reverted"}, id \in BountyIds :
                         Mined(c, outcome, id)
<1> QueueMatches
  BY DEF TypeInv
<1>1. ASSUME Sends(c) PROVE FALSE
  <2>1. mempool = Append(mempool, c) /\ mempool \in Seq(Calls)
    BY <1>1 DEF Sends, QueueMatches
  <2>2. Len(mempool) = Len(mempool) + 1 /\ Len(mempool) \in Nat
    BY <2>1, AppendProperties, LenProperties
  <2>3. QED
    BY <2>2
<1>2. ASSUME NEW outcome, NEW id, Mined(c, outcome, id) PROVE FALSE
  <2> DEFINE i == CHOOSE j \in DOMAIN mempool : mempool[j] = c
  <2>1. calls[c].tx = "pending" /\ mempool' = RemoveAt(mempool, i)
    BY <1>2 DEF Mined
  <2>2. i \in 1..Len(mempool) /\ mempool[i] = c
    BY <2>1, LenProperties DEF QueueMatches
  <2> HIDE DEF i
  <2>3. ~\E k \in 1..Len(mempool') : mempool'[k] = c
    BY <2>1, <2>2, RemovedFromPool
  <2>4. QED
    BY <2>2, <2>3
<1>3. QED
  BY <1>1, <1>2

\* The record of a handler's transaction that is mined.
LEMMA MinedRecord ==
  ASSUME HandlersTyped, NEW c \in Calls, NEW outcome \in {"mined", "reverted"},
         Mined(c, outcome, calls[c].bounty)
  PROVE  \/ calls'[c] = Idle
         \/ /\ calls'[c].pc = calls[c].pc /\ calls'[c].gap = calls[c].gap
            /\ calls'[c].bounty = calls[c].bounty /\ calls'[c].total = calls[c].total
            /\ calls'[c].tx = outcome
<1>1. calls[c] \in HandlerRecord
  BY DEF HandlersTyped
<1>2. calls'[c] = IF calls[c].alive
        THEN [calls[c] EXCEPT !.tx = outcome, !.bounty = calls[c].bounty] ELSE Idle
  BY DEF Mined, HandlersTyped
<1> DEFINE q == [calls[c] EXCEPT !.tx = outcome]
<1>3. /\ q = [calls[c] EXCEPT !.tx = outcome]
      /\ calls'[c] = [q EXCEPT !.bounty = calls[c].bounty] \/ calls'[c] = Idle
  BY <1>2, Zenon
<1> HIDE DEF q
<1>4. /\ q \in HandlerRecord /\ q.pc = calls[c].pc /\ q.gap = calls[c].gap
      /\ q.total = calls[c].total /\ q.tx = outcome
  BY <1>1, <1>3 DEF HandlerRecord
<1>5. QED
  BY <1>1, <1>3, <1>4 DEF HandlerRecord

\* Where the record of a finalize on the contract comes from.
LEMMA FinalizingStep ==
  ASSUME TypeInv, [Next]_vars, NEW c \in Calls, calls'[c].pc = "finalizing"
  PROVE  \/ GoesOn(c)
         \/ /\ calls[c].pc = "finalizing" /\ calls'[c].gap = calls[c].gap
            /\ calls'[c].bounty = calls[c].bounty /\ calls'[c].total = calls[c].total
            /\ \/ calls'[c].tx = calls[c].tx
               \/ Succeeds(c) /\ calls'[c].tx = "pending"
               \/ MineFinalize(c) /\ calls'[c].tx = "mined"
               \/ MineReverted(c) /\ calls'[c].tx = "reverted"
               \/ MineRefused(c) /\ calls'[c].tx = "reverted"
<1> HandlersTyped /\ StoreTyped
  BY DEF TypeInv
<1>1. Idle.pc # "finalizing"
  BY IdleIsHandler
<1>2. ~\E g \in Gaps : Begins(c, g)
  BY BeginKeeps
<1>3. CASE mempool' = mempool
  <2>1. Rests(c) \/ GoesOn(c)
    BY <1>2, <1>3, OneMovesStep, PoolChanges DEF OneMoves, Step, Rests
  <2>2. QED
    BY <1>1, <2>1, RestKeeps
<1>4. ASSUME NEW d \in Calls, Transaction(d), d # c PROVE calls'[c] = calls[c]
  BY <1>4 DEF Transaction, Send, Mined, MineApprove, MineCreateBounty, MineFinalize,
     MineCancel, MineReverted, MineRefused, HandlersTyped
<1>5. CASE Transaction(c)
  <2>1. CASE Send(c)
    <3>1. Succeeds(c) /\ calls'[c] = [calls[c] EXCEPT !.tx = "pending"]
      BY <2>1 DEF Send, HandlersTyped
    <3>2. QED
      BY <3>1 DEF HandlersTyped, HandlerRecord
  <2>2. CASE MineFinalize(c)
    BY <1>1, <2>2, MinedRecord DEF MineFinalize
  <2>3. CASE MineReverted(c)
    BY <1>1, <2>3, MinedRecord DEF MineReverted
  <2>4. CASE MineCancel(c)
    BY <1>1, <2>4, MinedRecord DEF MineCancel
  <2>5. CASE MineApprove(c) \/ MineCreateBounty(c)
    <3>1. calls[c].pc \in {"approving", "funding"}
      BY <2>5 DEF MineApprove, MineCreateBounty
    <3>2. Kept(c) \/ GoesOn(c)
      BY <1>2, HandlersStep
    <3>3. QED
      BY <1>1, <3>1, <3>2 DEF Kept
  <2>6. CASE MineRefused(c)
    BY <1>1, <2>6, MinedRecord DEF MineRefused
  <2>7. QED
    BY <1>5, <2>1, <2>2, <2>3, <2>4, <2>5, <2>6 DEF Transaction
<1>6. QED
  BY <1>3, <1>4, <1>5, PoolStep

\* The bounty is closed, or the token has refused to pay out of it.
ClosedOrRefused(id) == escrow[id] \in Closed \/ id \in refused

\* A bounty does not reopen, nor is a refusal forgotten.
LEMMA ClosedStays ==
  ASSUME TypeInv, [Next]_vars, NEW id \in BountyIds, ClosedOrRefused(id)
  PROVE  ClosedOrRefused(id)'
<1>1. refused \subseteq refused'
  BY RefusedStep DEF TypeInv, ChainTyped
<1>2. QED
  BY <1>1, EscrowStep DEF ClosedOrRefused, Closed

\* A finalize sends what its bounty covers; once it is answered the bounty is closed,
\* by it or by another, or the token refused it.
BackedPlans ==
  \A c \in Calls : calls[c].pc = "finalizing" =>
    /\ bountyId[calls[c].gap] \in BountyIds /\ calls[c].bounty = bountyId[calls[c].gap]
    /\ calls[c].tx = "pending" =>
         escrow[calls[c].bounty] # "None" /\ calls[c].total \in 1..amount[calls[c].bounty]
    /\ Answered(c) => ClosedOrRefused(calls[c].bounty)

\* A closed bounty never opens again, whoever's transaction closed it.
LEMMA BackedPlansStep == TypeInv /\ BackedPlans /\ [Next]_vars => BackedPlans'
<1> SUFFICES ASSUME TypeInv, BackedPlans, [Next]_vars, NEW c \in Calls,
                    calls'[c].pc = "finalizing"
             PROVE  /\ bountyId'[calls'[c].gap] \in BountyIds
                    /\ calls'[c].bounty = bountyId'[calls'[c].gap]
                    /\ calls'[c].tx = "pending" =>
                         /\ escrow'[calls'[c].bounty] # "None"
                         /\ calls'[c].total \in 1..amount'[calls'[c].bounty]
                    /\ calls'[c].tx \in {"mined", "reverted"} =>
                         \/ escrow'[calls'[c].bounty] \in Closed
                         \/ calls'[c].bounty \in refused'
  BY DEF BackedPlans, Answered, ClosedOrRefused
<1> ChainTyped /\ HandlersTyped /\ HandlersShaped
  BY DEF TypeInv
<1>1. NoBounty \notin BountyIds
  BY IdsExist
<1>2. CASE GoesOn(c)
  <2>1. calls[c].gap \in Gaps
    BY <1>2 DEF GoesOn, HandlersShaped
  <2>2. /\ calls'[c].gap = calls[c].gap /\ calls'[c].tx = "none"
        /\ bountyId[calls[c].gap] \in BountyIds /\ calls'[c].bounty = bountyId[calls[c].gap]
    BY <1>2, GoOnKeeps
  <2>3. QED
    BY <1>1, <2>1, <2>2, BountyStays
<1>3. CASE calls[c].pc = "finalizing" /\ ~GoesOn(c)
  <2> DEFINE b == calls[c].bounty
             g == calls[c].gap
  <2>1. /\ g \in Gaps /\ bountyId[g] \in BountyIds /\ b = bountyId[g]
        /\ calls[c].tx = "pending" => escrow[b] # "None" /\ calls[c].total \in 1..amount[b]
        /\ calls[c].tx \in {"mined", "reverted"} => ClosedOrRefused(b)
    BY <1>3 DEF BackedPlans, HandlersShaped, Answered
  <2>2. /\ calls'[c].gap = g /\ calls'[c].bounty = b /\ calls'[c].total = calls[c].total
        /\ bountyId'[g] = bountyId[g]
    BY <1>1, <1>3, <2>1, FinalizingStep, BountyStays
  <2>3. CASE calls'[c].tx = calls[c].tx
    BY <2>1, <2>2, <2>3, EscrowStep, ClosedStays DEF ClosedOrRefused
  <2>4. CASE Succeeds(c) /\ calls'[c].tx = "pending"
    <3>1. escrow[b] = "Open" /\ calls[c].total \in 1..amount[b]
      BY <1>3, <2>4 DEF Succeeds
    <3>2. QED
      BY <2>1, <2>2, <2>4, <3>1, EscrowStep
  <2>5. CASE MineFinalize(c) /\ calls'[c].tx = "mined"
    <3>1. escrow'[b] = "Settled"
      BY <2>1, <2>5 DEF MineFinalize, E!Settle, ChainTyped, E!TypeOK
    <3>2. QED
      BY <2>1, <2>2, <2>5, <3>1 DEF Closed
  <2>6. CASE MineReverted(c) /\ calls'[c].tx = "reverted"
    <3>1. calls[c].tx = "pending" /\ ~Succeeds(c)
      BY <2>6 DEF MineReverted, Mined
    <3>2. escrow[b] # "Open" /\ escrow[b] # "None"
      BY <1>3, <2>1, <3>1 DEF Succeeds
    <3>3. escrow[b] \in Closed
      BY <2>1, <3>2 DEF Closed, ChainTyped, E!TypeOK
    <3>4. QED
      BY <2>1, <2>2, <2>6, <3>3, EscrowStep DEF Closed
  <2>7. CASE MineRefused(c) /\ calls'[c].tx = "reverted"
    <3>1. b \in refused'
      BY <1>3, <2>7 DEF MineRefused
    <3>2. QED
      BY <2>1, <2>2, <2>7, <3>1
  <2>8. QED
    BY <1>3, <2>3, <2>4, <2>5, <2>6, <2>7, FinalizingStep
<1>4. QED
  BY <1>2, <1>3, FinalizingStep

\* On a live network the bounty of a settled gap is there and is closed, or the token has
\* refused to pay out of it.
SettledIsClosed ==
  mode = "live" => \A g \in Gaps : status[g] \in {"settled", "consumed"} =>
    bountyId[g] \in BountyIds /\ ClosedOrRefused(bountyId[g])

(* A settled gap of a live network leaves money in escrow only when the     *)
(* token refused a payout (NoMoneyLeftBehind), although the handler does    *)
(* not look at whether its transaction reverted: it had been sent when the  *)
(* bounty covered it, so only the closing of the bounty and the token can   *)
(* make it revert.                                                          *)
THEOREM SettledGapsLeaveNoMoney == Spec => []NoMoneyLeftBehind
<1> DEFINE Inv == BackedPlans /\ SettledIsClosed
<1>1. Init => Inv
  BY IdleIsHandler DEF Init, BackedPlans, SettledIsClosed
<1>2. TypeInv /\ Inv /\ [Next]_vars => Inv'
  <2> SUFFICES ASSUME TypeInv, BackedPlans, SettledIsClosed, [Next]_vars,
                      mode' = "live", NEW g \in Gaps, status'[g] \in {"settled", "consumed"}
               PROVE  bountyId'[g] \in BountyIds /\ (ClosedOrRefused(bountyId[g]))'
    BY BackedPlansStep DEF SettledIsClosed
  <2>1. mode = "live"
    BY StoreChanges DEF config
  <2>2. bountyId[g] \in BountyIds /\ ClosedOrRefused(bountyId[g])
    <3>1. CASE status[g] \in {"settled", "consumed"}
      BY <2>1, <3>1 DEF SettledIsClosed
    <3>2. ASSUME NEW c \in Calls, Settles(c, g)
          PROVE  bountyId[g] \in BountyIds /\ ClosedOrRefused(bountyId[g])
      <4>1. calls[c].gap = g /\ calls[c].pc = "finalizing" /\ Answered(c)
        BY <2>1, <3>2 DEF Settles, Finalized, Returns
      <4>2. QED
        BY <4>1 DEF BackedPlans
    <3>3. QED
      BY <3>1, <3>2, SettledStep
  <2>3. bountyId'[g] = bountyId[g]
    BY <2>2, IdsExist, BountyStays
  <2>4. PICK id \in BountyIds : id = bountyId[g]
    BY <2>2
  <2>5. ClosedOrRefused(id)'
    BY <2>2, <2>4, ClosedStays
  <2>6. QED
    BY <2>2, <2>3, <2>4, <2>5 DEF ClosedOrRefused
<1>3. Inv => NoMoneyLeftBehind
  BY DEF SettledIsClosed, NoMoneyLeftBehind, ClosedOrRefused, Closed
<1>4. QED
  BY <1>1, <1>2, <1>3, TypeInvHolds, PTL DEF Spec

-----------------------------------------------------------------------------
(* The escrow the server uses is the one the contracts implement.           *)

\* A transaction that is mined funds, settles or reclaims one bounty, within the range of
\* the abstract escrow, or changes no money; nothing else does.
LEMMA MoneyStep == TypeInv /\ [Next]_vars => [E!Next]_(E!vars)
<1> SUFFICES ASSUME TypeInv, [Next]_vars PROVE [E!Next]_(E!vars)
  OBVIOUS
<1> ChainTyped /\ HandlersTyped /\ HandlersShaped
  BY DEF TypeInv
<1>1. CASE UNCHANGED <<money, specOf, allowance>>
  BY <1>1 DEF money, E!vars
<1>2. ASSUME NEW c \in Calls, MineApprove(c) PROVE UNCHANGED E!vars
  BY <1>2 DEF MineApprove, money, E!vars
<1>3. ASSUME NEW c \in Calls, MineCreateBounty(c) PROVE E!Next
  <2>1. calls[c].pc = "funding" /\ calls[c].tx = "pending" /\ calls[c].gap \in Gaps
    BY <1>3 DEF MineCreateBounty, Mined, HandlersShaped
  <2>2. NextBountyId \in BountyIds /\ Budget[calls[c].gap] \in 1..MaxAmount
    BY <2>1, NextIdFresh, ServiceAssumption
  <2>3. E!Fund(NextBountyId, Budget[calls[c].gap])
    BY <1>3 DEF MineCreateBounty
  <2> QED
    BY <2>2, <2>3 DEF E!Next
<1>4. ASSUME NEW c \in Calls, MineFinalize(c) PROVE E!Next
  <2>1. /\ calls[c].pc = "finalizing" /\ calls[c].bounty \in BountyIds
        /\ calls[c].receipt \in Receipts
    BY <1>4 DEF MineFinalize, HandlersShaped, HandlersTyped, HandlerRecord
  <2>2. calls[c].total \in 0..MaxAmount
    BY DEF HandlersTyped, HandlerRecord
  <2>3. E!Settle(calls[c].bounty, calls[c].total, calls[c].receipt)
    BY <1>4 DEF MineFinalize
  <2> QED
    BY <2>1, <2>2, <2>3 DEF E!Next
<1>5. ASSUME NEW c \in Calls, MineCancel(c) PROVE E!Next
  <2>1. calls[c].bounty \in BountyIds /\ E!Reclaim(calls[c].bounty)
    BY <1>5 DEF MineCancel, HandlersTyped, HandlerRecord
  <2> QED
    BY <2>1 DEF E!Next
<1> QED
  BY <1>1, <1>2, <1>3, <1>4, <1>5, ChainChanges

\* Whatever handlers, crashes, retries and the pool make of transactions, the money
\* behind the gaps moves only as Escrow says, which is all that GapBounty is shown to do:
\* the server never needs a bounty id that is not free, nor settles with a receipt that
\* is none.
THEOREM ServiceUsesEscrow == Spec => E!Spec
<1>1. Init => E!Init
  BY DEF Init
<1> QED
  BY <1>1, MoneyStep, TypeInvHolds, PTL DEF Spec, E!Spec
=============================================================================
