----------------------------- MODULE GapService -----------------------------
(***************************************************************************)
(* The API of gap402 (apps/api: server.ts, service.ts, store.ts) between   *)
(* its clients and the chain.                                              *)
(*                                                                         *)
(* The server is one JavaScript thread: a handler runs undisturbed from    *)
(* one await to the next, and each such stretch is one action here.  At an *)
(* await (a model's verdict, an RPC answer, a mined transaction) the other *)
(* handlers run, the deadline may pass, the awaited call may throw and the *)
(* process may die; it may also die between two writes of one stretch,     *)
(* each write being a transaction of its own in SQLite.                    *)
(*                                                                         *)
(* A submission is its canonical URL, a gap its id; a settlement plan and  *)
(* the receipt built from it share a number.  The contracts appear as the  *)
(* abstract Escrow, which GapBounty implements.  packages/sdk/src/chain.ts *)
(* sends their transactions through viem: viem refuses to send a           *)
(* transaction that would revert now, and reports a transaction that       *)
(* reverts when it is mined like one that does not.  It reverts when the   *)
(* contract's state has changed, or when the token then has the sender or  *)
(* a recipient of a transfer on its blocklist, which may change at any     *)
(* time and is not the gap's doing (SetBlocked of GapBounty).              *)
(***************************************************************************)
EXTENDS Integers, Sequences, FiniteSets, SequencesExt

CONSTANTS Gaps,
          NoGap,
          Urls,           \* canonical URLs of submissions
          ContentOf,      \* URL -> the content hash submitted with it
          DomainOf,       \* URL -> its root domain
          Budget,         \* gap -> budgetUnits
          MaxAmount,      \* bound: the largest budget
          Requirements,   \* the requirements considered: minIndependentSources as
                          \* sources, requireIndependentSources as independent,
                          \* rejectDuplicates as unique
          Modes,          \* the deployments considered
          Calls,          \* bound: handlers running at a time
          MaxReceipts     \* bound: finalize calls that get as far as a plan

ASSUME ServiceAssumption ==
  /\ NoGap \notin Gaps /\ Gaps # {}
  /\ IsFiniteSet(Gaps) /\ IsFiniteSet(Urls)
  /\ MaxAmount \in Nat /\ Budget \in [Gaps -> 1..MaxAmount]
  /\ Requirements \subseteq [sources : Nat, independent : BOOLEAN, unique : BOOLEAN]
  /\ Modes \subseteq {"simulation", "local", "live"}
  /\ MaxReceipts \in Nat

BountyIds == 0..(Cardinality(Gaps) - 1)
NoBounty == Cardinality(Gaps)
Receipts == 1..MaxReceipts
NoReceipt == 0

VARIABLES mode,         \* "simulation" has no contract, "local" is a test network
          required,     \* the requirements of the gaps
          \* the store
          status,       \* gap -> its status, "none" when there is no row
          bountyId,     \* gap -> runtime.chainBountyId
          submissions,  \* gap -> the URLs submitted, in order
          evaluations,  \* gap -> URL -> its verdict
          plans,        \* gap -> the plans saved, in order
          receipts,     \* gap -> the receipts saved, in order
          \* the server
          calls,        \* the handlers running
          late,         \* the gaps whose deadline has passed
          nextReceipt,
          \* the chain
          mempool,      \* the calls whose transactions are pending, in the order sent
          escrow,       \* bounty id -> state of the contract's bounty
          amount, paid, refunded,
          anchored,     \* bounty id -> its receipt in the registry
          specOf,       \* bounty id -> the gap whose specHash it was created with
          allowance,    \* what GapBounty may draw from the requester
          refused       \* history: the bounties of which the token refused a payout

config == <<mode, required>>
documents == <<submissions, evaluations>>
proofs == <<plans, receipts>>
store == <<status, bountyId, documents, proofs>>
money == <<escrow, amount, paid, refunded, anchored>>
chain == <<mempool, money, specOf, allowance, refused>>
vars == <<config, store, calls, late, nextReceipt, chain>>

E == INSTANCE Escrow WITH
       Ids <- BountyIds, status <- escrow, receipt <- anchored

Live == {"detected", "funded", "open", "submissions", "verified"}
Statuses == Live \cup {"none", "settled", "consumed", "expired", "cancelled"}

\* TRANSITIONS, which no handler consults.
Transitions ==
  [detected |-> {"funded", "expired", "cancelled"},
   funded |-> {"open", "expired", "cancelled"},
   open |-> {"submissions", "verified", "expired", "cancelled"},
   submissions |-> {"verified", "expired", "cancelled"},
   verified |-> {"submissions", "settled", "expired"},
   settled |-> {"consumed"},
   consumed |-> {},
   expired |-> {"cancelled"},
   cancelled |-> {}]

CanTransition(from, to) == to \in Transitions[from]

Steps == {"evaluating", "evaluated", "approving", "funding", "finalizing", "cancelling"}

\* A handler that has not started, or has answered.
Idle ==
  [pc |-> "idle", gap |-> NoGap,
   alive |-> FALSE,    \* false once it threw with its transaction under way
   thenPlan |-> FALSE, \* the evaluation is that of finalize
   seen |-> "none",    \* evaluateGap's copy of the gap's status
   todo |-> {},        \* the positions of its submissions still to evaluate
   prior |-> {},       \* its prior submissions
   receipt |-> NoReceipt,
   total |-> 0,        \* what its plan pays
   bounty |-> 0,       \* the bounty of its transaction
   tx |-> "none"]      \* its transaction: "none", "pending", "mined", "reverted"

Started(g, step) == [Idle EXCEPT !.pc = step, !.gap = g, !.alive = TRUE]

Init ==
  /\ mode \in Modes
  /\ required \in Requirements
  /\ status = [g \in Gaps |-> "none"]
  /\ bountyId = [g \in Gaps |-> NoBounty]
  /\ submissions = [g \in Gaps |-> <<>>]
  /\ evaluations = [g \in Gaps |-> [u \in Urls |-> "none"]]
  /\ plans = [g \in Gaps |-> <<>>]
  /\ receipts = [g \in Gaps |-> <<>>]
  /\ calls = [c \in Calls |-> Idle]
  /\ late = {}
  /\ nextReceipt = 1
  /\ mempool = <<>>
  /\ E!Init
  /\ specOf = [id \in BountyIds |-> NoGap]
  /\ allowance = 0
  /\ refused = {}

-----------------------------------------------------------------------------
(* Shared pieces.                                                           *)

\* Expires what is closed as well.
SeenBug(g) == IF g \in late THEN "expired" ELSE status[g]

\* getGap: a live gap past its deadline is seen, and stored, as expired.
Seen(g) == IF g \in late /\ status[g] \in Live THEN "expired" ELSE status[g]

\* The process dies.  A transaction already sent is mined all the same.
Crashed ==
  [c \in Calls |->
    IF calls[c].tx = "pending" THEN [calls[c] EXCEPT !.alive = FALSE] ELSE Idle]

\* A stretch of the handler of c makes `all` writes, and the process dies if it
\* makes only `done` of them.
AfterWrites(c, done, all, next) ==
  calls' = IF done = all THEN [calls EXCEPT ![c] = next] ELSE Crashed

\* The thread is free to take the next request or answer: it is not between the
\* end of evaluateGap and the rest of finalize, which is the very next thing it does.
ThreadFree == \A c \in Calls : calls[c].pc # "evaluated"

CanStart(c) == ThreadFree /\ calls[c] = Idle

\* The handler of c is at this await, which returns.
Returns(c, step) == ThreadFree /\ calls[c].alive /\ calls[c].pc = step

\* Does not wait for the receipt of its transaction.
AnsweredBug(c) == calls[c].tx # "none"

\* waitForTransactionReceipt returns, whatever the receipt's status says.
Answered(c) == calls[c].tx \in {"mined", "reverted"}

-----------------------------------------------------------------------------
(* POST /api/gaps.                                                          *)

Create(c, g, done) ==
  /\ CanStart(c)
  /\ status[g] = "none"
  /\ IF mode = "simulation"
       THEN /\ status' = [status EXCEPT ![g] = IF done = 2 THEN "open" ELSE "detected"]
            /\ AfterWrites(c, done, 2, Idle)
       ELSE /\ done = 1
            /\ status' = [status EXCEPT ![g] = "detected"]
            /\ calls' = [calls EXCEPT ![c] = Started(g, "approving")]
  /\ UNCHANGED <<config, bountyId, documents, proofs, late, nextReceipt, chain>>

\* `await chain.approveUsdc` returns.
Approved(c) ==
  /\ Returns(c, "approving")
  /\ Answered(c)
  /\ calls' = [calls EXCEPT ![c] = Started(calls[c].gap, "funding")]
  /\ UNCHANGED <<config, store, late, nextReceipt, chain>>

\* `await chain.createBounty` returns the id in the logs, 0 when there are none;
\* the runtime is written, then the status.
Funded(c, done) ==
  LET g == calls[c].gap
  IN  /\ Returns(c, "funding")
      /\ Answered(c)
      /\ bountyId' = [bountyId EXCEPT ![g] = calls[c].bounty]
      /\ status' = IF done = 2 THEN [status EXCEPT ![g] = "open"] ELSE status
      /\ AfterWrites(c, done, 2, Idle)
      /\ UNCHANGED <<config, documents, proofs, late, nextReceipt, chain>>

-----------------------------------------------------------------------------
(* POST /api/gaps/:id/submissions.  A URL submitted before is answered from *)
(* the store.                                                               *)

Submit(g, u, done) ==
  /\ ThreadFree
  /\ g \notin late
  /\ status[g] \in {"open", "submissions", "funded", "verified"}
  /\ u \notin ToSet(submissions[g])
  /\ submissions' = [submissions EXCEPT ![g] = Append(@, u)]
  /\ status' = IF done = 2 THEN [status EXCEPT ![g] = "submissions"] ELSE status
  /\ calls' = IF done = 2 THEN calls ELSE Crashed
  /\ UNCHANGED <<config, bountyId, evaluations, proofs, late, nextReceipt, chain>>

-----------------------------------------------------------------------------
(* evaluateGap, for POST /api/gaps/:id/evaluate and for finalize.           *)

Evaluated(g) == {u \in Urls : evaluations[g][u] # "none"}
Accepted(g) == {u \in Urls : evaluations[g][u] = "accepted"}

\* The loop ends by setting the status, by the copy of it made at the start.
Conclusion(seen) == IF seen \in {"submissions", "open"} THEN "verified" ELSE seen

\* Where the handler goes when evaluateGap returns.
Return(g, thenPlan) == IF thenPlan THEN Started(g, "evaluated") ELSE Idle

\* Starts from nothing instead of what was evaluated by earlier calls.
PriorBug(g) == {}

\* The submissions that later ones must not repeat.
Prior(g) == Evaluated(g)

StartEvaluation(c, g, thenPlan) ==
  LET todo == {i \in DOMAIN submissions[g] : submissions[g][i] \notin Evaluated(g)}
  IN  /\ CanStart(c)
      /\ status[g] # "none"
      /\ IF todo # {}
           THEN /\ status' = [status EXCEPT ![g] = Seen(g)]
                /\ calls' = [calls EXCEPT ![c] =
                     [Started(g, "evaluating") EXCEPT
                        !.thenPlan = thenPlan, !.seen = Seen(g),
                        !.todo = todo, !.prior = Prior(g)]]
           ELSE /\ status' = [status EXCEPT ![g] =
                     IF submissions[g] = <<>> THEN Seen(g) ELSE Conclusion(Seen(g))]
                /\ calls' = [calls EXCEPT ![c] = Return(g, thenPlan)]
      /\ UNCHANGED <<config, bountyId, documents, proofs, late, nextReceipt, chain>>

\* runDeterministicChecks: not_duplicate and independent_domain, if asked for.
Repeats(u, prior) ==
  \E v \in prior :
    \/ required.unique /\ ContentOf[u] = ContentOf[v]
    \/ required.independent /\ DomainOf[u] = DomainOf[v]

\* A verdict that is no repetition may be anything: the other checks and the
\* semantic provider decide.
Verdicts(u, prior) == IF Repeats(u, prior) THEN {"rejected"} ELSE {"accepted", "rejected"}

\* Replaces the evaluation that is there.
AlreadyStoredBug(g, u) == FALSE

\* The unique index on the submission of an evaluation.
AlreadyStored(g, u) == evaluations[g][u] # "none"

\* The submission whose verdict the handler awaits.
NextUp(c) == submissions[calls[c].gap][Min(calls[c].todo)]

\* A verdict arrives and is stored; the last one sets the status.
VerdictArrives(c, verdict, done) ==
  LET k == calls[c]
      u == NextUp(c)
      rest == k.todo \ {Min(k.todo)}
      next == [k EXCEPT !.todo = rest, !.prior = @ \cup {u}]
      writes == IF rest = {} /\ k.seen \in {"submissions", "open"} THEN 2 ELSE 1
  IN  /\ Returns(c, "evaluating")
      /\ verdict \in Verdicts(u, k.prior)
      /\ ~AlreadyStored(k.gap, u)
      /\ done \in 1..writes
      /\ evaluations' = [evaluations EXCEPT ![k.gap][u] = verdict]
      /\ status' = IF done = 2 THEN [status EXCEPT ![k.gap] = "verified"] ELSE status
      /\ AfterWrites(c, done, writes,
           IF rest = {} THEN Return(k.gap, k.thenPlan) ELSE next)
      /\ UNCHANGED <<config, bountyId, submissions, proofs, late, nextReceipt, chain>>

\* Another handler has stored a verdict on the same submission: the index refuses
\* this one and the handler throws.
VerdictCollides(c) ==
  /\ Returns(c, "evaluating")
  /\ AlreadyStored(calls[c].gap, NextUp(c))
  /\ calls' = [calls EXCEPT ![c] = Idle]
  /\ UNCHANGED <<config, store, late, nextReceipt, chain>>

-----------------------------------------------------------------------------
(* POST /api/gaps/:id/finalize.                                             *)

Finalize(c, g) ==
  /\ Seen(g) \notin {"settled", "consumed", "cancelled", "expired"}
  /\ StartEvaluation(c, g, TRUE)

Evaluate(c, g) == StartEvaluation(c, g, FALSE)

\* Counts submissions instead of the domains they come from.
EnoughSourcesBug(g) == Cardinality(Accepted(g)) >= required.sources

EnoughSources(g) == Cardinality({DomainOf[u] : u \in Accepted(g)}) >= required.sources

\* Sets the status before the documents are saved.
SavedBug(done) == [plan |-> done >= 2, receipt |-> done >= 3, status |-> done >= 1]

\* Which of the three writes of a settlement are made.
Saved(done) == [plan |-> done >= 1, receipt |-> done >= 2, status |-> done >= 3]

\* savePlan, saveReceipt, setStatus.  (markRuntime only notes the transaction.)
Settle(c, g, r, done) ==
  /\ plans' = IF Saved(done).plan THEN [plans EXCEPT ![g] = Append(@, r)] ELSE plans
  /\ receipts' = IF Saved(done).receipt THEN [receipts EXCEPT ![g] = Append(@, r)] ELSE receipts
  /\ status' = IF Saved(done).status THEN [status EXCEPT ![g] = "settled"] ELSE status
  /\ AfterWrites(c, done, 3, Idle)

\* evaluateGap has returned: the plan and the receipt are built; with no bounty on
\* the chain they are saved at once, except on a live network, which refuses.  The
\* plan pays any part of the budget: nothing when all shares round to zero, the fee
\* alone when no submission is accepted.
Plan(c, done) ==
  LET g == calls[c].gap
  IN  /\ calls[c].pc = "evaluated"
      /\ EnoughSources(g)
      /\ nextReceipt <= MaxReceipts
      /\ nextReceipt' = nextReceipt + 1
      /\ IF bountyId[g] # NoBounty
           THEN /\ done = 3
                /\ \E total \in 0..Budget[g] :
                     calls' = [calls EXCEPT ![c] =
                       [Started(g, "finalizing") EXCEPT
                          !.receipt = nextReceipt, !.total = total, !.bounty = bountyId[g]]]
                /\ status' = [status EXCEPT ![g] = Seen(g)]
                /\ UNCHANGED proofs
           ELSE mode # "live" /\ Settle(c, g, nextReceipt, done)
      /\ UNCHANGED <<config, bountyId, documents, late, chain>>

\* buildPlan throws, or the live network refuses.
PlanFails(c) ==
  LET g == calls[c].gap
  IN  /\ calls[c].pc = "evaluated"
      /\ ~EnoughSources(g) \/ (mode = "live" /\ bountyId[g] = NoBounty)
      /\ status' = [status EXCEPT ![g] = Seen(g)]
      /\ calls' = [calls EXCEPT ![c] = Idle]
      /\ UNCHANGED <<config, bountyId, documents, proofs, late, nextReceipt, chain>>

\* `await chain.finalize` returns.
Finalized(c, done) ==
  /\ Returns(c, "finalizing")
  /\ Answered(c)
  /\ Settle(c, calls[c].gap, calls[c].receipt, done)
  /\ UNCHANGED <<config, bountyId, documents, late, nextReceipt, chain>>

-----------------------------------------------------------------------------
(* POST /api/gaps/:id/cancel and /consume, and the reads.                   *)

Cancel(c, g) ==
  /\ CanStart(c)
  /\ Seen(g) = "expired"
  /\ IF bountyId[g] # NoBounty
       THEN /\ status' = [status EXCEPT ![g] = "expired"]
            /\ calls' = [calls EXCEPT ![c] =
                 [Started(g, "cancelling") EXCEPT !.bounty = bountyId[g]]]
       ELSE status' = [status EXCEPT ![g] = "cancelled"] /\ UNCHANGED calls
  /\ UNCHANGED <<config, bountyId, documents, proofs, late, nextReceipt, chain>>

\* `await chain.cancel` returns.
Cancelled(c) ==
  /\ Returns(c, "cancelling")
  /\ Answered(c)
  /\ status' = [status EXCEPT ![calls[c].gap] = "cancelled"]
  /\ calls' = [calls EXCEPT ![c] = Idle]
  /\ UNCHANGED <<config, bountyId, documents, proofs, late, nextReceipt, chain>>

Consume(g) ==
  /\ ThreadFree
  /\ Seen(g) = "settled"
  /\ status' = [status EXCEPT ![g] = "consumed"]
  /\ UNCHANGED <<config, bountyId, documents, proofs, calls, late, nextReceipt, chain>>

\* Any request that reads the gap, those that are then refused included.
Read(g) ==
  /\ ThreadFree
  /\ Seen(g) # status[g]
  /\ status' = [status EXCEPT ![g] = Seen(g)]
  /\ UNCHANGED <<config, bountyId, documents, proofs, calls, late, nextReceipt, chain>>

-----------------------------------------------------------------------------
(* What goes wrong.                                                         *)

\* What is awaited throws: the semantic provider, the RPC node or the wait for the
\* transaction.  The handler answers 500.
Throws(c) ==
  /\ ThreadFree
  /\ calls[c].alive
  /\ calls' = [calls EXCEPT ![c] =
       IF @.tx = "pending" THEN [@ EXCEPT !.alive = FALSE] ELSE Idle]
  /\ UNCHANGED <<config, store, late, nextReceipt, chain>>

Crash ==
  /\ calls' = Crashed
  /\ UNCHANGED <<config, store, late, nextReceipt, chain>>

\* A gap's deadline passes, for the server's clock and for the block time.
DeadlinePasses(g) ==
  /\ status[g] # "none"
  /\ g \notin late
  /\ late' = late \cup {g}
  /\ UNCHANGED <<config, store, calls, nextReceipt, chain>>

-----------------------------------------------------------------------------
(* The transactions.                                                        *)

\* Bounties ever created: the contract's nextBountyId.
NextBountyId == Cardinality({id \in BountyIds : escrow[id] # "None"})

\* Takes the money whatever was approved.
CoveredBug(g) == TRUE

\* transferFrom's check; the requester's balance is taken to be large enough.
Covered(g) == allowance >= Budget[g]

\* The transaction of c would succeed in the current state of the contract, if the
\* token makes its transfers.
Succeeds(c) ==
  LET k == calls[c]
  IN  \/ k.pc = "approving"
      \/ k.pc = "funding" /\ k.gap \notin late /\ Covered(k.gap)
      \/ k.pc = "finalizing" /\ escrow[k.bounty] = "Open"
                             /\ k.total \in 1..amount[k.bounty]
      \/ k.pc = "cancelling" /\ escrow[k.bounty] = "Open" /\ specOf[k.bounty] \in late

\* viem estimates the gas of the transaction, which succeeds, and sends it.  (When the
\* token would refuse now, the handler throws.)
Send(c) ==
  /\ calls[c].alive
  /\ calls[c].pc \in {"approving", "funding", "finalizing", "cancelling"}
  /\ calls[c].tx = "none"
  /\ Succeeds(c)
  /\ calls' = [calls EXCEPT ![c].tx = "pending"]
  /\ mempool' = Append(mempool, c)
  /\ UNCHANGED <<config, store, late, nextReceipt, money, specOf, allowance, refused>>

\* finalize is signed with the verifier's key, the others with the requester's.
Signer(c) == IF calls[c].pc = "finalizing" THEN "verifier" ELSE "requester"

\* The transaction of c is mined with this outcome, on this bounty: those of one
\* signer are mined in the order of their nonces.
Mined(c, outcome, id) ==
  LET i == CHOOSE j \in DOMAIN mempool : mempool[j] = c
  IN  /\ calls[c].tx = "pending"
      /\ \A j \in 1..(i - 1) : Signer(mempool[j]) # Signer(c)
      /\ mempool' = RemoveAt(mempool, i)
      /\ calls' = [calls EXCEPT ![c] =
           IF @.alive THEN [@ EXCEPT !.tx = outcome, !.bounty = id] ELSE Idle]

MineApprove(c) ==
  /\ calls[c].pc = "approving"
  /\ allowance' = Budget[calls[c].gap]
  /\ Mined(c, "mined", 0)
  /\ UNCHANGED <<config, store, late, nextReceipt, money, specOf, refused>>

MineCreateBounty(c) ==
  LET g == calls[c].gap
  IN  /\ calls[c].pc = "funding"
      /\ Succeeds(c)
      /\ E!Fund(NextBountyId, Budget[g])
      /\ specOf' = [specOf EXCEPT ![NextBountyId] = g]
      /\ allowance' = allowance - Budget[g]
      /\ Mined(c, "mined", NextBountyId)
      /\ UNCHANGED <<config, store, late, nextReceipt, refused>>

MineFinalize(c) ==
  /\ calls[c].pc = "finalizing"
  /\ Succeeds(c)
  /\ E!Settle(calls[c].bounty, calls[c].total, calls[c].receipt)
  /\ Mined(c, "mined", calls[c].bounty)
  /\ UNCHANGED <<config, store, late, nextReceipt, specOf, allowance, refused>>

MineCancel(c) ==
  /\ calls[c].pc = "cancelling"
  /\ Succeeds(c)
  /\ E!Reclaim(calls[c].bounty)
  /\ Mined(c, "mined", calls[c].bounty)
  /\ UNCHANGED <<config, store, late, nextReceipt, specOf, allowance, refused>>

\* The chain has changed since the transaction was sent: it is mined and reverts.
MineReverted(c) ==
  /\ Mined(c, "reverted", calls[c].bounty)
  /\ ~Succeeds(c)
  /\ UNCHANGED <<config, store, late, nextReceipt, money, specOf, allowance, refused>>

\* The token refuses a transfer of the transaction when it is mined: it reverts, and
\* nothing else changes.
MineRefused(c) ==
  /\ calls[c].pc \in {"funding", "finalizing", "cancelling"}
  /\ Mined(c, "reverted", calls[c].bounty)
  /\ Succeeds(c)
  /\ refused' = IF calls[c].pc = "finalizing" THEN refused \cup {calls[c].bounty} ELSE refused
  /\ UNCHANGED <<config, store, late, nextReceipt, money, specOf, allowance>>

-----------------------------------------------------------------------------
Handler(c) ==
  \/ Approved(c)
  \/ \E done \in 1..2 : Funded(c, done)
  \/ \E verdict \in {"accepted", "rejected"}, done \in 1..2 : VerdictArrives(c, verdict, done)
  \/ VerdictCollides(c)
  \/ \E done \in 1..3 : Plan(c, done) \/ Finalized(c, done)
  \/ PlanFails(c)
  \/ Cancelled(c)
  \/ Throws(c)

Transaction(c) ==
  \/ Send(c)
  \/ MineApprove(c) \/ MineCreateBounty(c) \/ MineFinalize(c) \/ MineCancel(c)
  \/ MineReverted(c) \/ MineRefused(c)

Request(g) ==
  \/ \E c \in Calls, done \in 1..2 : Create(c, g, done)
  \/ \E c \in Calls : Evaluate(c, g) \/ Finalize(c, g) \/ Cancel(c, g)
  \/ \E u \in Urls, done \in 1..2 : Submit(g, u, done)
  \/ Consume(g)
  \/ Read(g)

Next ==
  \/ \E g \in Gaps : Request(g) \/ DeadlinePasses(g)
  \/ \E c \in Calls : Handler(c) \/ Transaction(c)
  \/ Crash

Spec == Init /\ [][Next]_vars

-----------------------------------------------------------------------------
(* Correctness.                                                             *)

TypeOK ==
  /\ mode \in Modes /\ required \in Requirements
  /\ status \in [Gaps -> Statuses]
  /\ bountyId \in [Gaps -> BountyIds \cup {NoBounty}]
  /\ \A g \in Gaps : submissions[g] \in Seq(Urls)
  /\ evaluations \in [Gaps -> [Urls -> {"none", "accepted", "rejected"}]]
  /\ \A g \in Gaps : plans[g] \in Seq(Receipts) /\ receipts[g] \in Seq(Receipts)
  /\ \A c \in Calls :
       /\ calls[c].pc \in Steps \cup {"idle"}
       /\ calls[c].gap \in Gaps \cup {NoGap}
       /\ calls[c].alive \in BOOLEAN /\ calls[c].thenPlan \in BOOLEAN
       /\ calls[c].seen \in Statuses
       /\ calls[c].todo \subseteq Nat /\ calls[c].prior \subseteq Urls
       /\ calls[c].receipt \in Receipts \cup {NoReceipt}
       /\ calls[c].total \in 0..MaxAmount
       /\ calls[c].bounty \in BountyIds
       /\ calls[c].tx \in {"none", "pending", "mined", "reverted"}
       /\ (calls[c].tx = "pending") <=> (c \in ToSet(mempool))
  /\ mempool \in Seq(Calls)
  /\ late \subseteq Gaps
  /\ nextReceipt \in 1..(MaxReceipts + 1)
  /\ E!TypeOK
  /\ specOf \in [BountyIds -> Gaps \cup {NoGap}]
  /\ allowance \in 0..MaxAmount
  /\ refused \subseteq BountyIds

(* However many evaluations of a gap run at a time, fail half way and are   *)
(* repeated, no two accepted submissions have the same content or the same *)
(* root domain, if the gap asks for that (evaluateGap's list of prior       *)
(* submissions, store.ts's unique index).                                   *)
AcceptedAreIndependent ==
  \A g \in Gaps : \A u, v \in Accepted(g) :
    u # v => /\ required.unique => ContentOf[u] # ContentOf[v]
             /\ required.independent => DomainOf[u] # DomainOf[v]

(* A verdict, once stored, is the verdict: a second evaluation under way at *)
(* the same time does not replace it (idx_rows_eval_sub).                   *)
VerdictsFinal ==
  [][\A g \in Gaps, u \in Urls :
       evaluations[g][u] # "none" => evaluations'[g][u] = evaluations[g][u]]_vars

(* A gap that is shown as settled has a plan and a receipt to show for it,  *)
(* wherever the process died on the way (the order of the writes in the     *)
(* finalize handler).                                                       *)
SettledHasProof ==
  \A g \in Gaps : status[g] \in {"settled", "consumed"} => plans[g] # <<>> /\ receipts[g] # <<>>

(* Behind a gap that is shown as settled there are accepted submissions     *)
(* from as many domains as it asked for, whatever was evaluated between     *)
(* buildPlan's count and the last write.                                    *)
SettledHasSources ==
  \A g \in Gaps : status[g] \in {"settled", "consumed"} =>
    Cardinality({DomainOf[u] : u \in Accepted(g)}) >= required.sources

(* On a live network a settled gap leaves money in its escrow only when the *)
(* token refused one of its payouts as the transaction was mined, which     *)
(* chain.ts does not notice: a finalize that was mined too late and         *)
(* reverted for any other reason did so since another transaction had       *)
(* closed the bounty.  (Where the token refused, the gap is shown as        *)
(* settled while its bounty is open: see SettledIsAnchored.)                *)
NoMoneyLeftBehind ==
  mode = "live" =>
    \A g \in Gaps : status[g] \in {"settled", "consumed"} =>
      escrow[bountyId[g]] \in {"Settled", "Cancelled"} \/ bountyId[g] \in refused

(* docs/protocol.md: "funded/open - USDC escrowed onchain; accepting        *)
(* submissions".                                                            *)
OpenIsEscrowed ==
  mode # "simulation" =>
    \A g \in Gaps \ late : status[g] = "open" =>
      bountyId[g] # NoBounty /\ escrow[bountyId[g]] # "None" /\ specOf[bountyId[g]] = g

(* docs/protocol.md: "settled - payouts executed, receipt anchored".        *)
SettledIsAnchored ==
  mode = "live" =>
    \A g \in Gaps : status[g] = "settled" => anchored[bountyId[g]] = Last(receipts[g])

(* docs/protocol.md: "cancelled - requester cancelled after deadline;       *)
(* escrow refunded".                                                        *)
CancelledIsRefunded ==
  mode = "live" =>
    \A g \in Gaps : status[g] = "cancelled" =>
      ~\E id \in BountyIds : specOf[id] = g /\ escrow[id] = "Open"

\* A handler of g that started earlier is between two awaits.
UnderWay(g) ==
  \E c \in Calls :
    /\ calls[c].gap = g
    /\ \/ calls[c].pc = "evaluating" /\ calls[c].seen \in {"open", "submissions"}
       \/ calls[c].pc \in {"evaluated", "funding", "finalizing", "cancelling"}

\* What the table allows, expiring on the way included.
Allowed(from, to) ==
  CanTransition(from, to) \/ (CanTransition(from, "expired") /\ CanTransition("expired", to))

(* The statuses follow the table of lifecycle.ts, which no handler looks    *)
(* at: a request to a settled or cancelled gap does not open it again.      *)
(* Only a handler that has awaited something since it looked at the status  *)
(* may leave the table.                                                     *)
FollowsTable ==
  [][\A g \in Gaps :
       status'[g] # status[g] /\ status[g] # "none" =>
         Allowed(status[g], status'[g]) \/ UnderWay(g)]_vars
=============================================================================
