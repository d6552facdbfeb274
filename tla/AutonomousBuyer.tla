-------------------------- MODULE AutonomousBuyer --------------------------
(***************************************************************************)
(* The reference buyer (examples/autonomous-buyer/src/buyer.ts) with the   *)
(* HTTP client it uses (packages/sdk/src/client.ts): calls of              *)
(* ensureEvidence that run at a time, each opening a gap of its own, and   *)
(* share one cap on what the buyer spends.                                 *)
(*                                                                         *)
(* The buyer is one JavaScript thread: a call runs from one await to the   *)
(* next, and each such stretch is one action.  A gap is named by the call  *)
(* that opens it.  Of the market behind the API, which GapService models   *)
(* in full, there is here what the buyer can see and what happens to its   *)
(* money: the gap's status and receipt, and its escrow.  A receipt is the  *)
(* units it says were paid; that it verifies and is of this gap is taken   *)
(* for granted, as is that the rest of the budget is its refund.           *)
(***************************************************************************)
EXTENDS Integers, FiniteSets

CONSTANTS Calls,
          Budgets,           \* the budgetUnits asked for
          MaxTotalUnits, MaxBountyUnits, AutoPayBelowUnits   \* the BudgetPolicy

ASSUME BuyerAssumption ==
  /\ IsFiniteSet(Calls)
  /\ Budgets \subseteq Nat
  /\ MaxTotalUnits \in Nat /\ MaxBountyUnits \in Nat /\ AutoPayBelowUnits \in Nat

VARIABLES spent,     \* the buyer's count of what it may have spent
          pc,        \* call -> where it is
          budget,    \* call -> its budget
          timeUp,    \* the calls that have waited longer than waitTimeoutMs
          status,    \* gap -> its status, "none" before it exists
          escrow,    \* gap -> state of its bounty in the contract
          paid,      \* gap -> units its settlement paid out
          receipt,   \* gap -> units paid by the receipt the API shows for it
          read       \* call -> units paid by the receipt it took its refund from

ledger == <<spent, read>>
call == <<pc, budget, timeUp>>
market == <<status, escrow, paid, receipt>>
vars == <<ledger, call, market>>

NoReceipt == -1

Final == {"settled", "consumed", "cancelled", "expired"}

Init ==
  /\ spent = 0
  /\ pc = [c \in Calls |-> "idle"]
  /\ budget = [c \in Calls |-> 0]
  /\ timeUp = {}
  /\ status = [c \in Calls |-> "none"]
  /\ escrow = [c \in Calls |-> "None"]
  /\ paid = [c \in Calls |-> 0]
  /\ receipt = [c \in Calls |-> NoReceipt]
  /\ read = [c \in Calls |-> NoReceipt]

-----------------------------------------------------------------------------
(* ensureEvidence.                                                          *)

Goes(c, from, to) == pc[c] = from /\ pc' = [pc EXCEPT ![c] = to]

\* Called; the estimate of the coverage is awaited.
Ask(c, units) ==
  /\ Goes(c, "idle", "estimating")
  /\ budget' = [budget EXCEPT ![c] = units]
  /\ UNCHANGED <<ledger, timeUp, market>>

\* Looks at what is spent, not at what would be.
AffordableBug(units) == spent < MaxTotalUnits

Affordable(units) == spent + units <= MaxTotalUnits

WithinPolicy(units) ==
  /\ units > 0
  /\ units <= AutoPayBelowUnits
  /\ units <= MaxBountyUnits
  /\ Affordable(units)

\* The evidence suffices, or the policy refuses.
Decline(c) ==
  /\ Goes(c, "estimating", "answered")
  /\ UNCHANGED <<ledger, budget, timeUp, market>>

\* The budget is reserved and the request sent, with no await between the checks
\* and the reservation.
Reserve(c) ==
  /\ Goes(c, "estimating", "funding")
  /\ WithinPolicy(budget[c])
  /\ spent' = spent + budget[c]
  /\ UNCHANGED <<read, budget, timeUp, market>>

\* createGap returns.
Created(c) ==
  /\ Goes(c, "funding", "waiting")
  /\ status[c] \notin {"none", "detected"}
  /\ UNCHANGED <<ledger, budget, timeUp, market>>

\* waitForEvidence sees a final status.
SeesFinal(c) ==
  /\ Goes(c, "waiting", "reading")
  /\ status[c] \in Final
  /\ UNCHANGED <<ledger, budget, timeUp, market>>

\* Polls for ever.
GivesUpBug(c) == FALSE

\* The clock is looked at after a poll that saw no final status.
GivesUp(c) == c \in timeUp /\ status[c] \notin Final

TimesOut(c) ==
  /\ Goes(c, "waiting", "failed")
  /\ GivesUp(c)
  /\ UNCHANGED <<ledger, budget, timeUp, market>>

\* getReceiptByBounty returns: a refund is available again.
TakesRefund(c) ==
  /\ Goes(c, "reading", "merging")
  /\ receipt[c] # NoReceipt
  /\ spent' = spent - (budget[c] - receipt[c])
  /\ read' = [read EXCEPT ![c] = receipt[c]]
  /\ UNCHANGED <<budget, timeUp, market>>

\* There is no receipt: the reservation is kept.
FindsNoReceipt(c) ==
  /\ Goes(c, "reading", "merging")
  /\ receipt[c] = NoReceipt
  /\ UNCHANGED <<ledger, budget, timeUp, market>>

\* The coverage with the new evidence has been estimated.
Answers(c) ==
  /\ Goes(c, "merging", "answered")
  /\ UNCHANGED <<ledger, budget, timeUp, market>>

\* An estimate throws or a request fails; of the one for a gap nobody knows whether
\* it has arrived.  The reservation is kept.
Throws(c) ==
  /\ \/ \E step \in {"estimating", "waiting", "reading", "merging"} : Goes(c, step, "failed")
     \/ Goes(c, "funding", "lost")
  /\ UNCHANGED <<ledger, budget, timeUp, market>>

TimePasses(c) ==
  /\ pc[c] = "waiting"
  /\ c \notin timeUp
  /\ timeUp' = timeUp \cup {c}
  /\ UNCHANGED <<ledger, pc, budget, market>>

-----------------------------------------------------------------------------
(* The market, with what GapService found it can do.                        *)

InMarket(g, before, after) ==
  status[g] \in before /\ status' = [status EXCEPT ![g] = after]

\* The request arrives, possibly after the buyer has given up on it.
Detect(g) ==
  /\ pc[g] \in {"funding", "lost"}
  /\ InMarket(g, {"none"}, "detected")
  /\ UNCHANGED <<ledger, call, escrow, paid, receipt>>

\* createBounty is mined.
Fund(g) ==
  /\ status[g] = "detected"
  /\ escrow[g] = "None"
  /\ escrow' = [escrow EXCEPT ![g] = "Open"]
  /\ UNCHANGED <<ledger, call, status, paid, receipt>>

\* ... or has reverted: the gap opens all the same.
Open(g) ==
  /\ InMarket(g, {"detected"}, "open")
  /\ UNCHANGED <<ledger, call, escrow, paid, receipt>>

\* finalize is mined.
Settle(g, units) ==
  /\ escrow[g] = "Open"
  /\ escrow' = [escrow EXCEPT ![g] = "Settled"]
  /\ paid' = [paid EXCEPT ![g] = units]
  /\ UNCHANGED <<ledger, call, status, receipt>>

\* A finalize whose transaction was mined saves its receipt: that of the settlement,
\* or any other if its transaction reverted.
SaveReceipt(g, units) ==
  /\ status[g] \notin {"none", "detected"}
  /\ escrow[g] # "Open"
  /\ receipt' = [receipt EXCEPT ![g] = units]
  /\ UNCHANGED <<ledger, call, status, escrow, paid>>

ShowSettled(g) ==
  /\ receipt[g] # NoReceipt
  /\ InMarket(g, {"open", "expired", "cancelled", "consumed"}, "settled")
  /\ UNCHANGED <<ledger, call, escrow, paid, receipt>>

Consume(g) ==
  /\ InMarket(g, {"settled"}, "consumed")
  /\ UNCHANGED <<ledger, call, escrow, paid, receipt>>

\* An evaluation that awaited over the change sets the status it would have had.
Revive(g) ==
  /\ InMarket(g, Final, "open")
  /\ UNCHANGED <<ledger, call, escrow, paid, receipt>>

Expire(g) ==
  /\ InMarket(g, {"detected", "open"}, "expired")
  /\ UNCHANGED <<ledger, call, escrow, paid, receipt>>

\* cancel is mined.
Reclaim(g) ==
  /\ escrow[g] = "Open"
  /\ status[g] = "expired"
  /\ escrow' = [escrow EXCEPT ![g] = "Cancelled"]
  /\ UNCHANGED <<ledger, call, status, paid, receipt>>

ShowCancelled(g) ==
  /\ InMarket(g, {"expired"}, "cancelled")
  /\ UNCHANGED <<ledger, call, escrow, paid, receipt>>

-----------------------------------------------------------------------------
Progress(c) ==
  \/ Decline(c) \/ Reserve(c)
  \/ Created(c)
  \/ SeesFinal(c) \/ TimesOut(c)
  \/ TakesRefund(c) \/ FindsNoReceipt(c)
  \/ Answers(c)

Market(g) ==
  \/ Detect(g) \/ Fund(g) \/ Open(g)
  \/ \E units \in 1..budget[g] : Settle(g, units) \/ SaveReceipt(g, units)
  \/ ShowSettled(g) \/ Consume(g) \/ Revive(g)
  \/ Expire(g) \/ Reclaim(g) \/ ShowCancelled(g)

Next ==
  \E c \in Calls :
    \/ \E units \in Budgets : Ask(c, units)
    \/ Progress(c)
    \/ Throws(c)
    \/ TimePasses(c)
    \/ Market(c)

Spec == Init /\ [][Next]_vars

\* The request for a gap is answered or fails.
Ends(c) == pc[c] = "funding" /\ Throws(c)

\* What is awaited comes back, and time passes.  Nothing is assumed of the market, nor
\* that a failure saves a call from waiting.
FairSpec ==
  Spec /\ \A c \in Calls : WF_vars(Progress(c) \/ Ends(c)) /\ WF_vars(TimePasses(c))

-----------------------------------------------------------------------------
(* Correctness.                                                             *)

TypeOK ==
  /\ spent \in 0..MaxTotalUnits
  /\ pc \in [Calls -> {"idle", "estimating", "funding", "waiting", "reading", "merging",
                       "answered", "failed", "lost"}]
  /\ budget \in [Calls -> Budgets \cup {0}]
  /\ timeUp \subseteq Calls
  /\ status \in [Calls -> Final \cup {"none", "detected", "open"}]
  /\ escrow \in [Calls -> {"None", "Open", "Settled", "Cancelled"}]
  /\ \A g \in Calls :
       /\ paid[g] \in 0..budget[g]
       /\ {receipt[g], read[g]} \subseteq 0..budget[g] \cup {NoReceipt}

\* What a gap has taken out of the buyer's account so far.
Outflow(g) ==
  IF escrow[g] = "Open" THEN budget[g] ELSE IF escrow[g] = "Settled" THEN paid[g] ELSE 0

\* All the units that are out, each with the call that pays it.
OutflowUnits == UNION {{g} \X (1..Outflow(g)) : g \in Calls}

\* The receipt that was read is that of the settlement on the chain.
ReadAnchored(g) ==
  read[g] # NoReceipt => escrow[g] = "Settled" /\ paid[g] = read[g]

(* BudgetPolicy.maxTotalUnits is a hard cap on the buyer's money, however   *)
(* many calls run at a time, fail after their gap was funded or are         *)
(* overtaken by it, if the receipts it reads are those anchored on the      *)
(* chain.  (It checks them offline only, and GapService's SettledIsAnchored *)
(* shows that the API may hand out one that is not.)                        *)
CapHolds ==
  (\A g \in Calls : ReadAnchored(g)) => Cardinality(OutflowUnits) <= MaxTotalUnits

(* A call of ensureEvidence comes to its end whatever becomes of its gap:   *)
(* also when it is never settled, cancelled or expired                      *)
(* (waitForEvidence's timeout).                                             *)
CallsReturn ==
  \A c \in Calls : pc[c] = "estimating" ~> pc[c] \in {"answered", "failed", "lost"}
=============================================================================
