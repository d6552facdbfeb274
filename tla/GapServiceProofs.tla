-------------------------- MODULE GapServiceProofs --------------------------
(***************************************************************************)
(* Theorems about GapService, for any gaps, URLs, requirements, number of  *)
(* handlers at a time and number of settlements.                           *)
(***************************************************************************)
EXTENDS GapService, FiniteSetTheorems, SequenceTheorems, TLAPS

HandlerRecord ==
  [pc : Steps \cup {"idle"}, gap : Gaps \cup {NoGap}, alive : BOOLEAN,
   thenPlan : BOOLEAN, seen : Statuses, todo : SUBSET Nat, prior : SUBSET Urls,
   receipt : Receipts \cup {NoReceipt}, total : 0..MaxAmount, bounty : BountyIds,
   tx : {"none", "pending", "mined", "reverted"}]

-----------------------------------------------------------------------------
(* Facts about the constants and about fresh handlers.                      *)

\* There is a first bounty id.
LEMMA IdsExist ==
  /\ Cardinality(Gaps) \in Nat \ {0}
  /\ 0 \in BountyIds /\ BountyIds \subseteq Nat /\ NoBounty \notin BountyIds
<1>1. Cardinality(Gaps) \in Nat /\ Cardinality(Gaps) # 0
  BY ServiceAssumption, FS_CardinalityType, FS_EmptySet
<1>2. QED
  BY <1>1 DEF BountyIds, NoBounty

\* A handler that has not started is one.
LEMMA IdleIsHandler ==
  /\ Idle \in HandlerRecord
  /\ Idle.pc = "idle" /\ Idle.tx = "none" /\ Idle.alive = FALSE
  BY IdsExist, ServiceAssumption DEF Idle, HandlerRecord, Statuses, Receipts, NoReceipt

\* So is one that has.
LEMMA StartedIsHandler ==
  ASSUME NEW g \in Gaps, NEW step \in Steps
  PROVE  /\ Started(g, step) \in HandlerRecord
         /\ Started(g, step).pc = step /\ Started(g, step).gap = g
         /\ Started(g, step).tx = "none" /\ Started(g, step).alive = TRUE
  BY IdleIsHandler DEF Started, HandlerRecord, Idle

-----------------------------------------------------------------------------
(* What becomes of the handlers in a step.                                  *)

HandlersTyped == calls \in [Calls -> HandlerRecord]

\* Only a handler that sends transactions has one.
HandlersShaped ==
  \A c \in Calls :
    /\ calls[c].pc # "idle" => calls[c].gap \in Gaps /\ status[calls[c].gap] # "none"
    /\ calls[c].pc \in {"idle", "evaluating", "evaluated"} => calls[c].tx = "none"
    /\ calls[c].pc = "finalizing" => calls[c].receipt \in Receipts

\* It goes on as it was, or ends and leaves at most its transaction.
Rests(c) ==
  \/ calls'[c] = calls[c]
  \/ IF calls[c].tx = "pending" THEN calls'[c] = [calls[c] EXCEPT !.alive = FALSE]
                                ELSE calls'[c] = Idle

\* Its next record when it is the one handler whose turn it is.
Begins(c, g) ==
  /\ calls[c] = Idle
  /\ \/ status[g] = "none" /\ status'[g] = "detected" /\ calls'[c] = Started(g, "approving")
     \/ status[g] # "none" /\ calls'[c] = Started(g, "evaluated")
     \/ status[g] # "none" /\ bountyId[g] # NoBounty
          /\ calls'[c] = [Started(g, "cancelling") EXCEPT !.bounty = bountyId[g]]
     \/ status[g] # "none" /\ \E thenPlan \in BOOLEAN, todo \in SUBSET Nat :
          /\ todo = {i \in DOMAIN submissions[g] : submissions[g][i] \notin Evaluated(g)}
          /\ todo # {}
          /\ calls'[c] = [Started(g, "evaluating") EXCEPT
               !.thenPlan = thenPlan, !.seen = Seen(g), !.todo = todo, !.prior = Prior(g)]

GoesOn(c) ==
  \/ calls[c].pc = "approving" /\ Answered(c) /\ calls'[c] = Started(calls[c].gap, "funding")
  \/ calls[c].pc = "evaluating" /\ calls'[c] = Started(calls[c].gap, "evaluated")
  \/ /\ calls[c].pc = "evaluating" /\ calls[c].todo # {Min(calls[c].todo)}
     /\ evaluations'[calls[c].gap][NextUp(c)] # "none"
     /\ calls'[c] = [calls[c] EXCEPT !.todo = @ \ {Min(@)}, !.prior = @ \cup {NextUp(c)}]
  \/ /\ calls[c].pc = "evaluated" /\ EnoughSources(calls[c].gap)
     /\ bountyId[calls[c].gap] # NoBounty /\ nextReceipt \in Receipts
     /\ \E total \in 0..Budget[calls[c].gap] :
          calls'[c] = [Started(calls[c].gap, "finalizing") EXCEPT
            !.receipt = nextReceipt, !.total = total, !.bounty = bountyId[calls[c].gap]]

Sends(c) ==
  /\ calls[c].pc \in {"approving", "funding", "finalizing", "cancelling"}
  /\ calls[c].tx = "none" /\ Succeeds(c)
  /\ calls'[c] = [calls[c] EXCEPT !.tx = "pending"]
  /\ mempool' = Append(mempool, c)

Step(c) ==
  /\ \A d \in Calls \ {c} : calls'[d] = calls[d]
  /\ \/ mempool' = mempool /\ (GoesOn(c) \/ \E g \in Gaps : Begins(c, g))
     \/ Sends(c)
     \/ \E outcome \in {"mined", "reverted"}, id \in BountyIds :
          Mined(c, outcome, id)

\* Only one handler's turn it is, or none's.
OneMoves ==
  \/ mempool' = mempool /\ \A c \in Calls : Rests(c)
  \/ \E c \in Calls : Step(c)

\* A dead process leaves all handlers at rest.
LEMMA CrashedRest == 
  ASSUME HandlersTyped, calls' = Crashed
  PROVE  \A c \in Calls : Rests(c)
  BY DEF HandlersTyped, Crashed, Rests

\* A handler that ends, not between sending and the mining of a transaction.
LEMMA EndRests ==
  ASSUME HandlersTyped, NEW c \in Calls, calls[c].tx # "pending",
         calls' = [calls EXCEPT ![c] = Idle]
  PROVE  \A d \in Calls : Rests(d)
  BY DEF HandlersTyped, Rests

StoreTyped ==
  /\ mode \in Modes /\ required \in Requirements
  /\ status \in [Gaps -> Statuses]
  /\ bountyId \in [Gaps -> BountyIds \cup {NoBounty}]
  /\ submissions \in [Gaps -> Seq(Urls)]
  /\ evaluations \in [Gaps -> [Urls -> {"none", "accepted", "rejected"}]]
  /\ plans \in [Gaps -> Seq(Receipts)] /\ receipts \in [Gaps -> Seq(Receipts)]
  /\ late \subseteq Gaps
  /\ nextReceipt \in 1..(MaxReceipts + 1)

\* The first n submissions of g.
First(g, n) == {submissions[g][i] : i \in 1..n}

\* Verdicts are stored in the order of the submissions, which are all different.
VerdictsInOrder ==
  \A g \in Gaps :
    /\ \A i, j \in 1..Len(submissions[g]) : submissions[g][i] = submissions[g][j] => i = j
    /\ \E n \in 0..Len(submissions[g]) : Evaluated(g) = First(g, n)

\* An evaluation has the verdicts on the first m submissions and goes on to the l-th.
AtPosition(c, m, l) ==
  LET g == calls[c].gap
  IN  /\ m < l /\ l <= Len(submissions[g])
      /\ calls[c].todo = (m + 1)..l
      /\ calls[c].prior = First(g, m) /\ First(g, m) \subseteq Evaluated(g)

HandlersInOrder ==
  \A c \in Calls : calls[c].pc = "evaluating" => \E m, l \in Nat : AtPosition(c, m, l)

ChainTyped ==
  /\ E!TypeOK
  /\ specOf \in [BountyIds -> Gaps \cup {NoGap}]
  /\ allowance \in 0..MaxAmount
  /\ refused \subseteq BountyIds

\* A pending transaction is once in the pool.
QueueMatches ==
  /\ mempool \in Seq(Calls)
  /\ \A i, j \in 1..Len(mempool) : mempool[i] = mempool[j] => i = j
  /\ \A c \in Calls : calls[c].tx = "pending" <=> \E i \in 1..Len(mempool) : mempool[i] = c

Created == {id \in BountyIds : escrow[id] # "None"}
Creates(c) == calls[c].pc \in {"approving", "funding"}

\* A gap is created once, hence at most one bounty is; ids do not run out.
CreatedOnce ==
  /\ \A id \in Created : specOf[id] \in Gaps /\ status[specOf[id]] # "none"
  /\ \A id, other \in Created : specOf[id] = specOf[other] => id = other
  /\ \A c, d \in Calls :
       Creates(c) /\ Creates(d) /\ calls[c].gap = calls[d].gap => c = d
  /\ \A c \in Calls : Creates(c) => bountyId[calls[c].gap] = NoBounty
  /\ \A c \in Calls : Creates(c) /\ (calls[c].pc = "approving" \/ ~Answered(c)) =>
       \A id \in Created : specOf[id] # calls[c].gap
  /\ \A g \in Gaps : status[g] = "none" => bountyId[g] = NoBounty

TypeInv ==
  /\ StoreTyped /\ HandlersTyped /\ HandlersShaped /\ VerdictsInOrder /\ HandlersInOrder
  /\ ChainTyped /\ QueueMatches /\ CreatedOnce

\* The next submission of an evaluation is one, and what then is left.
LEMMA NextUpIs ==
  ASSUME StoreTyped, NEW c \in Calls, calls[c].gap \in Gaps,
         NEW m \in Nat, NEW l \in Nat, AtPosition(c, m, l)
  PROVE  /\ Min(calls[c].todo) = m + 1
         /\ m + 1 \in 1..Len(submissions[calls[c].gap])
         /\ NextUp(c) = submissions[calls[c].gap][m + 1]
         /\ NextUp(c) \in Urls
         /\ calls[c].todo \ {Min(calls[c].todo)} = (m + 2)..l
<1> DEFINE T == (m + 1)..l
           g == calls[c].gap
<1>1. calls[c].todo = T /\ m + 1 \in T /\ Len(submissions[g]) \in Nat /\ l <= Len(submissions[g])
  BY LenProperties DEF AtPosition, StoreTyped
<1>2. m + 1 \in T /\ \A y \in T : m + 1 <= y
  BY <1>1
<1>3. \A x \in T : (\A y \in T : x <= y) => x = m + 1
  BY <1>2
<1>4. Min(T) = m + 1
  BY <1>2, <1>3 DEF Min
<1>5. m + 1 \in 1..Len(submissions[g])
  BY <1>1
<1>6. submissions[g][m + 1] \in Urls
  BY <1>5, ElementOfSeq DEF StoreTyped
<1>7. T \ {m + 1} = (m + 2)..l
  OBVIOUS
<1>8. QED
  BY <1>1, <1>4, <1>5, <1>6, <1>7 DEF NextUp

\* A stretch that makes all its writes or dies.
LEMMA WritesRestOrGoOn ==
  ASSUME HandlersTyped, NEW c \in Calls, NEW done, NEW all, NEW next,
         calls[c].tx # "pending", AfterWrites(c, done, all, next)
  PROVE  \/ \A d \in Calls : Rests(d)
         \/ calls' = [calls EXCEPT ![c] = next]
  BY CrashedRest DEF AfterWrites

\* There is an id left for a gap whose bounty is not yet created: the created ones
\* belong to as many other gaps.
LEMMA NextIdFresh ==
  ASSUME TypeInv, NEW c \in Calls, calls[c].pc = "funding", calls[c].tx = "pending"
  PROVE  NextBountyId \in BountyIds
<1> DEFINE g == calls[c].gap
           f == [id \in Created |-> specOf[id]]
<1>1. g \in Gaps /\ CreatedOnce /\ Creates(c) /\ ~Answered(c)
  BY DEF TypeInv, HandlersShaped, Creates, Answered
<1>2. /\ \A id \in Created : specOf[id] \in Gaps \ {g}
      /\ \A id, other \in Created : specOf[id] = specOf[other] => id = other
  BY <1>1 DEF CreatedOnce
<1>3. f \in Injection(Created, Gaps \ {g})
  BY <1>2 DEF Injection, IsInjective
<1>4. IsFiniteSet(Gaps \ {g}) /\ Cardinality(Gaps \ {g}) = Cardinality(Gaps) - 1
  BY <1>1, ServiceAssumption, FS_RemoveElement
<1>5. IsFiniteSet(Created) /\ Cardinality(Created) <= Cardinality(Gaps) - 1
  BY <1>3, <1>4, FS_Injection
<1>6. Cardinality(Created) \in Nat
  BY <1>5, FS_CardinalityType
<1>7. QED
  BY <1>5, <1>6, IdsExist DEF NextBountyId, Created, BountyIds

\* A status that is there before an evaluation stays one.
LEMMA EvaluationMoves ==
  ASSUME StoreTyped, HandlersTyped, NEW c \in Calls, NEW g \in Gaps, NEW thenPlan \in BOOLEAN,
         StartEvaluation(c, g, thenPlan)
  PROVE  OneMoves
<1> DEFINE todo == {i \in DOMAIN submissions[g] : submissions[g][i] \notin Evaluated(g)}
<1>1. todo \in SUBSET Nat
  BY LenProperties DEF StoreTyped
<1>2. calls[c] = Idle /\ status[g] # "none" /\ mempool' = mempool
  BY DEF StartEvaluation, CanStart, chain
<1>3. CASE todo # {}
  <2>1. calls' = [calls EXCEPT ![c] =
             [Started(g, "evaluating") EXCEPT
                !.thenPlan = thenPlan, !.seen = Seen(g), !.todo = todo, !.prior = Prior(g)]]
    BY <1>3 DEF StartEvaluation
  <2>2. Begins(c, g)
    BY <1>1, <1>2, <1>3, <2>1 DEF Begins, HandlersTyped
  <2>3. QED
    BY <1>2, <2>1, <2>2 DEF OneMoves, Step, HandlersTyped
<1>4. CASE todo = {}
  <2>1. calls' = [calls EXCEPT ![c] = Return(g, thenPlan)]
    BY <1>4 DEF StartEvaluation
  <2>2. CASE thenPlan
    <3>1. calls' = [calls EXCEPT ![c] = Started(g, "evaluated")]
      BY <2>1, <2>2 DEF Return
    <3>2. Begins(c, g)
      BY <1>2, <3>1 DEF Begins, HandlersTyped
    <3>3. QED
      BY <1>2, <3>1, <3>2 DEF OneMoves, Step, HandlersTyped
  <2>3. CASE ~thenPlan
    <3>1. calls' = [calls EXCEPT ![c] = Idle]
      BY <2>1, <2>3 DEF Return
    <3>2. QED
      BY <1>2, <3>1, EndRests, IdleIsHandler DEF OneMoves
  <2>4. QED
    BY <2>2, <2>3
<1>5. QED
  BY <1>3, <1>4

\* A verdict sends its handler on, or to its end.
LEMMA VerdictMoves ==
  ASSUME TypeInv, NEW c \in Calls, NEW verdict \in {"accepted", "rejected"}, NEW done,
         VerdictArrives(c, verdict, done)
  PROVE  OneMoves
<1> DEFINE k == calls[c]
           rest == k.todo \ {Min(k.todo)}
           next == [k EXCEPT !.todo = rest, !.prior = @ \cup {NextUp(c)}]
           all == IF rest = {} /\ k.seen \in {"submissions", "open"} THEN 2 ELSE 1
           then == IF rest = {} THEN Return(k.gap, k.thenPlan) ELSE next
<1>1. k.pc = "evaluating" /\ mempool' = mempool /\ AfterWrites(c, done, all, then)
  BY DEF VerdictArrives, Returns, chain
<1>2. k.tx # "pending" /\ k.gap \in Gaps
  BY <1>1 DEF TypeInv, HandlersShaped
<1>3. CASE \A d \in Calls : Rests(d)
  BY <1>1, <1>3 DEF OneMoves
<1>4. CASE calls' = [calls EXCEPT ![c] = then]
  <2> USE DEF TypeInv
  <2>1. \A d \in Calls \ {c} : calls'[d] = calls[d]
    BY <1>4 DEF HandlersTyped
  <2>2. calls'[c] = then
    BY <1>4 DEF HandlersTyped
  <2>3. CASE then = Idle
    BY <1>1, <1>2, <1>4, <2>3, EndRests DEF OneMoves
  <2>4. CASE then # Idle
    <3>1. then = Started(k.gap, "evaluated") \/ (rest # {} /\ then = next)
      BY <2>4 DEF Return
    <3>2. NextUp(c) \in Urls
      BY <1>1, <1>2, NextUpIs DEF HandlersInOrder
    <3>3. evaluations' = [evaluations EXCEPT ![k.gap][NextUp(c)] = verdict]
      BY DEF VerdictArrives
    <3>4. evaluations'[k.gap][NextUp(c)] = verdict
      BY <1>2, <3>2, <3>3 DEF StoreTyped
    <3>5. GoesOn(c)
      BY <1>1, <2>2, <3>1, <3>4 DEF GoesOn
    <3>6. QED
      BY <1>1, <2>1, <3>5 DEF OneMoves, Step
  <2>5. QED
    BY <2>3, <2>4
<1>5. QED
  BY <1>1, <1>2, <1>3, <1>4, WritesRestOrGoOn DEF TypeInv

\* What a plan is made from.
LEMMA PlanMade ==
  ASSUME StoreTyped, NEW c \in Calls, NEW done, Plan(c, done)
  PROVE  /\ calls[c].pc = "evaluated" /\ EnoughSources(calls[c].gap)
         /\ nextReceipt \in Receipts /\ mempool' = mempool
<1>1. calls[c].pc = "evaluated" /\ EnoughSources(calls[c].gap) /\ nextReceipt <= MaxReceipts
  BY DEF Plan
<1>2. mempool' = mempool
  BY DEF Plan, chain
<1>3. nextReceipt \in Receipts
  BY <1>1, ServiceAssumption DEF StoreTyped, Receipts
<1>4. QED
  BY <1>1, <1>2, <1>3

\* The plan sends its handler on to the contract, or to its end.
LEMMA PlanMoves ==
  ASSUME StoreTyped, HandlersTyped, HandlersShaped,
         NEW c \in Calls, NEW done \in 1..3, Plan(c, done)
  PROVE  OneMoves
<1> DEFINE g == calls[c].gap
<1>1. /\ calls[c].pc = "evaluated" /\ EnoughSources(g)
      /\ nextReceipt \in Receipts /\ mempool' = mempool
  BY PlanMade
<1>2. calls[c].tx # "pending"
  BY <1>1 DEF HandlersShaped
<1>3. CASE bountyId[g] # NoBounty
  <2>1. PICK total \in 0..Budget[g] :
          calls' = [calls EXCEPT ![c] =
            [Started(g, "finalizing") EXCEPT
               !.receipt = nextReceipt, !.total = total, !.bounty = bountyId[g]]]
    BY <1>3 DEF Plan
  <2>2. GoesOn(c)
    BY <1>1, <1>3, <2>1 DEF GoesOn, HandlersTyped
  <2>3. QED
    BY <1>1, <2>1, <2>2 DEF OneMoves, Step, HandlersTyped
<1>4. CASE bountyId[g] = NoBounty
  <2>1. AfterWrites(c, done, 3, Idle)
    BY <1>4 DEF Plan, Settle
  <2>2. QED
    BY <1>1, <1>2, <2>1, WritesRestOrGoOn, EndRests DEF OneMoves
<1>5. QED
  BY <1>3, <1>4

\* A transaction is mined, or fails when it is.
LEMMA TransactionMoves ==
  ASSUME TypeInv, NEW c \in Calls, Transaction(c)
  PROVE  OneMoves
<1> HandlersTyped
  BY DEF TypeInv
<1>1. ASSUME NEW outcome \in {"mined", "reverted"}, NEW id \in BountyIds,
             Mined(c, outcome, id)
      PROVE  OneMoves
  <2>1. \A d \in Calls \ {c} : calls'[d] = calls[d]
    BY <1>1 DEF Mined, HandlersTyped
  <2>2. QED
    BY <1>1, <2>1 DEF OneMoves, Step
<1>2. CASE Send(c)
  BY <1>2 DEF Send, OneMoves, Step, Sends, HandlersTyped
<1>3. calls[c].bounty \in BountyIds /\ 0 \in BountyIds
  BY IdsExist DEF HandlersTyped, HandlerRecord
<1>4. CASE \/ MineApprove(c) \/ MineFinalize(c) \/ MineCancel(c)
           \/ MineReverted(c) \/ MineRefused(c)
  BY <1>1, <1>3, <1>4 DEF MineApprove, MineFinalize, MineCancel, MineReverted, MineRefused
<1>5. CASE MineCreateBounty(c)
  <2>1. Mined(c, "mined", NextBountyId) /\ calls[c].pc = "funding" /\ calls[c].tx = "pending"
    BY <1>5 DEF MineCreateBounty, Mined
  <2>2. QED
    BY <1>1, <2>1, NextIdFresh
<1>6. QED
  BY <1>2, <1>4, <1>5 DEF Transaction

\* Every step is the turn of at most one handler.
LEMMA OneMovesStep == TypeInv /\ [Next]_vars => OneMoves
<1> SUFFICES ASSUME TypeInv, [Next]_vars PROVE OneMoves
  OBVIOUS
<1> USE DEF TypeInv
<1>1. ASSUME NEW c \in Calls, NEW g \in Gaps, NEW done \in 1..2, Create(c, g, done)
      PROVE  OneMoves
  <2>1. calls[c] = Idle /\ status[g] = "none" /\ mempool' = mempool /\ calls[c].tx # "pending"
    BY <1>1, IdleIsHandler DEF Create, CanStart, chain
  <2>2. \/ AfterWrites(c, done, 2, Idle)
        \/ /\ calls' = [calls EXCEPT ![c] = Started(g, "approving")]
           /\ status' = [status EXCEPT ![g] = "detected"]
    BY <1>1 DEF Create
  <2>3. CASE /\ calls' = [calls EXCEPT ![c] = Started(g, "approving")]
             /\ status' = [status EXCEPT ![g] = "detected"]
    <3>1. status'[g] = "detected"
      BY <2>3 DEF StoreTyped
    <3>2. Begins(c, g)
      BY <2>1, <2>3, <3>1 DEF Begins, HandlersTyped
    <3>3. QED
      BY <2>1, <2>3, <3>2 DEF OneMoves, Step, HandlersTyped
  <2>4. QED
    BY <2>1, <2>2, <2>3, WritesRestOrGoOn, EndRests DEF OneMoves
<1>2. ASSUME NEW c \in Calls, Approved(c) PROVE OneMoves
  <2>1. GoesOn(c) /\ mempool' = mempool /\ \A d \in Calls \ {c} : calls'[d] = calls[d]
    BY <1>2 DEF Approved, Returns, GoesOn, HandlersTyped, chain
  <2>2. QED
    BY <2>1 DEF OneMoves, Step
<1>3. ASSUME NEW c \in Calls, NEW done \in 1..2, Funded(c, done) PROVE OneMoves
  <2>1. calls[c].tx # "pending" /\ mempool' = mempool /\ AfterWrites(c, done, 2, Idle)
    BY <1>3 DEF Funded, Answered, chain
  <2>2. QED
    BY <2>1, WritesRestOrGoOn, EndRests DEF OneMoves
<1>4. ASSUME NEW g \in Gaps, NEW u \in Urls, NEW done \in 1..2, Submit(g, u, done)
      PROVE  OneMoves
  BY <1>4, CrashedRest DEF Submit, OneMoves, Rests, chain
<1>5. ASSUME NEW c \in Calls, NEW g \in Gaps, Evaluate(c, g) \/ Finalize(c, g)
      PROVE  OneMoves
  BY <1>5, EvaluationMoves DEF Evaluate, Finalize
<1>6. ASSUME NEW c \in Calls, NEW verdict \in {"accepted", "rejected"}, NEW done \in 1..2,
             VerdictArrives(c, verdict, done)
      PROVE  OneMoves
  BY <1>6, VerdictMoves
<1>7. ASSUME NEW c \in Calls, VerdictCollides(c) \/ PlanFails(c) PROVE OneMoves
  <2>1. calls[c].pc \in {"evaluating", "evaluated"} /\ mempool' = mempool
        /\ calls' = [calls EXCEPT ![c] = Idle]
    BY <1>7 DEF VerdictCollides, PlanFails, Returns, chain
  <2>2. calls[c].tx # "pending"
    BY <2>1 DEF HandlersShaped
  <2>3. QED
    BY <2>1, <2>2, EndRests DEF OneMoves
<1>8. ASSUME NEW c \in Calls, NEW done \in 1..3, Plan(c, done) PROVE OneMoves
  BY <1>8, PlanMoves
<1>9. ASSUME NEW c \in Calls, NEW done \in 1..3, Finalized(c, done) PROVE OneMoves
  <2>1. calls[c].tx # "pending" /\ mempool' = mempool /\ AfterWrites(c, done, 3, Idle)
    BY <1>9 DEF Finalized, Settle, Answered, chain
  <2>2. QED
    BY <2>1, WritesRestOrGoOn, EndRests DEF OneMoves
<1>10. ASSUME NEW c \in Calls, NEW g \in Gaps, Cancel(c, g) PROVE OneMoves
  <2>1. calls[c] = Idle /\ mempool' = mempool /\ status[g] # "none"
    BY <1>10 DEF Cancel, CanStart, Seen, Live, chain
  <2>2. CASE bountyId[g] # NoBounty
    <3>1. calls' = [calls EXCEPT ![c] =
                     [Started(g, "cancelling") EXCEPT !.bounty = bountyId[g]]]
      BY <1>10, <2>2 DEF Cancel
    <3>2. Begins(c, g)
      BY <2>1, <2>2, <3>1 DEF Begins, HandlersTyped
    <3>3. QED
      BY <2>1, <3>1, <3>2 DEF OneMoves, Step, HandlersTyped
  <2>3. CASE bountyId[g] = NoBounty
    BY <1>10, <2>1, <2>3 DEF Cancel, OneMoves, Rests
  <2>4. QED
    BY <2>2, <2>3
<1>11. ASSUME NEW c \in Calls, Cancelled(c) PROVE OneMoves
  <2>1. calls[c].tx # "pending" /\ mempool' = mempool /\ calls' = [calls EXCEPT ![c] = Idle]
    BY <1>11 DEF Cancelled, Answered, chain
  <2>2. QED
    BY <2>1, EndRests DEF OneMoves
<1>12. ASSUME NEW g \in Gaps, Consume(g) \/ Read(g) \/ DeadlinePasses(g) PROVE OneMoves
  BY <1>12 DEF Consume, Read, DeadlinePasses, OneMoves, Rests, chain
<1>13. ASSUME NEW c \in Calls, Throws(c) PROVE OneMoves
  BY <1>13 DEF Throws, OneMoves, Rests, chain, HandlersTyped
<1>14. CASE Crash
  BY <1>14, CrashedRest DEF Crash, OneMoves, chain
<1>15. ASSUME NEW c \in Calls, Transaction(c) PROVE OneMoves
  BY <1>15, TransactionMoves
<1>16. CASE UNCHANGED vars
  BY <1>16 DEF vars, OneMoves, Rests, chain
<1>17. QED
  BY <1>1, <1>2, <1>3, <1>4, <1>5, <1>6, <1>7, <1>8, <1>9, <1>10, <1>11, <1>12, <1>13,
     <1>14, <1>15, <1>16 DEF Next, Request, Handler

-----------------------------------------------------------------------------
(* What a step writes into the store.                                       *)

Writes(g, x) == status' = status \/ status' = [status EXCEPT ![g] = x]

\* A gap that is there stays there.
StatusesStay ==
  /\ status' \in [Gaps -> Statuses]
  /\ \A g \in Gaps : status[g] # "none" => status'[g] # "none"

\* One write of a status.
LEMMA WritesStay ==
  ASSUME StoreTyped, NEW g \in Gaps, NEW x \in Statuses \ {"none"}, Writes(g, x)
  PROVE  StatusesStay
  BY DEF StoreTyped, Writes, StatusesStay

\* Seeing a gap that is there.
LEMMA SeenIsStatus ==
  ASSUME StoreTyped, NEW g \in Gaps
  PROVE  /\ Seen(g) \in {status[g], "expired"} /\ Seen(g) \in Statuses
         /\ status[g] # "none" <=> Seen(g) # "none"
         /\ Seen(g) # status[g] => status[g] \in Live
         /\ Conclusion(Seen(g)) \in Statuses
         /\ Seen(g) # "none" => Conclusion(Seen(g)) # "none"
  BY DEF StoreTyped, Seen, Live, Statuses, Conclusion

\* Every step writes statuses and leaves no gap without one.
LEMMA StatusStep == TypeInv /\ [Next]_vars => StatusesStay
<1> SUFFICES ASSUME TypeInv, [Next]_vars PROVE StatusesStay
  OBVIOUS
<1> USE DEF TypeInv
<1>1. {"detected", "open", "submissions", "verified", "settled", "consumed", "expired",
       "cancelled"} \subseteq Statuses \ {"none"}
  BY DEF Statuses, Live
<1>2. status' = status => StatusesStay
  BY DEF StatusesStay, StoreTyped
<1>3. ASSUME NEW g \in Gaps, status[g] # "none", Writes(g, Seen(g)) PROVE StatusesStay
  BY <1>3, SeenIsStatus, WritesStay
<1>4. ASSUME NEW c \in Calls, NEW g \in Gaps, NEW done \in 1..2, Create(c, g, done)
      PROVE  StatusesStay
  BY <1>1, <1>4, WritesStay DEF Create, Writes
<1>5. ASSUME NEW c \in Calls, NEW done \in 1..2, Funded(c, done) PROVE StatusesStay
  <2>1. calls[c].gap \in Gaps
    BY <1>5 DEF Funded, Returns, HandlersShaped
  <2>2. Writes(calls[c].gap, "open")
    BY <1>5 DEF Funded, Writes
  <2>3. QED
    BY <1>1, <2>1, <2>2, WritesStay
<1>6. ASSUME NEW g \in Gaps, NEW u \in Urls, NEW done \in 1..2, Submit(g, u, done)
      PROVE  StatusesStay
  BY <1>1, <1>6, WritesStay DEF Submit, Writes
<1>7. ASSUME NEW c \in Calls, NEW g \in Gaps, NEW thenPlan \in BOOLEAN,
             StartEvaluation(c, g, thenPlan)
      PROVE  StatusesStay
  <2>1. status[g] # "none"
    BY <1>7 DEF StartEvaluation
  <2>2. Writes(g, Seen(g)) \/ Writes(g, Conclusion(Seen(g)))
    BY <1>7 DEF StartEvaluation, Writes
  <2>3. QED
    BY <1>3, <2>1, <2>2, SeenIsStatus, WritesStay
<1>8. ASSUME NEW c \in Calls, NEW verdict, NEW done, VerdictArrives(c, verdict, done)
      PROVE  StatusesStay
  <2>1. calls[c].gap \in Gaps
    BY <1>8 DEF VerdictArrives, Returns, HandlersShaped
  <2>2. Writes(calls[c].gap, "verified")
    BY <1>8 DEF VerdictArrives, Writes
  <2>3. QED
    BY <1>1, <2>1, <2>2, WritesStay
<1>9. ASSUME NEW c \in Calls, NEW done \in 1..3, Plan(c, done) PROVE StatusesStay
  <2>1. calls[c].gap \in Gaps /\ status[calls[c].gap] # "none"
    BY <1>9 DEF Plan, HandlersShaped
  <2>2. Writes(calls[c].gap, Seen(calls[c].gap)) \/ Writes(calls[c].gap, "settled")
    BY <1>9 DEF Plan, Settle, Writes
  <2>3. QED
    BY <1>1, <1>3, <2>1, <2>2, WritesStay
<1>10. ASSUME NEW c \in Calls, PlanFails(c) PROVE StatusesStay
  <2>1. calls[c].gap \in Gaps /\ status[calls[c].gap] # "none"
    BY <1>10 DEF PlanFails, HandlersShaped
  <2>2. Writes(calls[c].gap, Seen(calls[c].gap))
    BY <1>10 DEF PlanFails, Writes
  <2>3. QED
    BY <1>3, <2>1, <2>2
<1>11. ASSUME NEW c \in Calls, NEW done \in 1..3, Finalized(c, done) PROVE StatusesStay
  <2>1. calls[c].gap \in Gaps
    BY <1>11 DEF Finalized, Returns, HandlersShaped
  <2>2. Writes(calls[c].gap, "settled")
    BY <1>11 DEF Finalized, Settle, Writes
  <2>3. QED
    BY <1>1, <2>1, <2>2, WritesStay
<1>12. ASSUME NEW c \in Calls, NEW g \in Gaps, Cancel(c, g) PROVE StatusesStay
  BY <1>1, <1>12, WritesStay DEF Cancel, Writes
<1>13. ASSUME NEW c \in Calls, Cancelled(c) PROVE StatusesStay
  <2>1. calls[c].gap \in Gaps
    BY <1>13 DEF Cancelled, Returns, HandlersShaped
  <2>2. QED
    BY <1>1, <1>13, <2>1, WritesStay DEF Cancelled, Writes
<1>14. ASSUME NEW g \in Gaps, Consume(g) PROVE StatusesStay
  BY <1>1, <1>14, WritesStay DEF Consume, Writes
<1>15. ASSUME NEW g \in Gaps, Read(g) PROVE StatusesStay
  <2>1. status[g] # "none"
    BY <1>15, SeenIsStatus DEF Read, Live
  <2>2. QED
    BY <1>3, <1>15, <2>1 DEF Read, Writes
<1>16. ASSUME NEW c \in Calls,
              Approved(c) \/ VerdictCollides(c) \/ Throws(c) \/ Transaction(c)
       PROVE  status' = status
  BY <1>16 DEF Approved, VerdictCollides, Throws, Transaction, Send, MineApprove,
     MineCreateBounty, MineFinalize, MineCancel, MineReverted, MineRefused, store
<1>17. CASE Crash \/ UNCHANGED vars \/ \E g \in Gaps : DeadlinePasses(g)
  BY <1>2, <1>17 DEF Crash, DeadlinePasses, vars, store
<1>18. QED
  BY <1>2, <1>4, <1>5, <1>6, <1>7, <1>8, <1>9, <1>10, <1>11, <1>12, <1>13, <1>14, <1>15,
     <1>16, <1>17 DEF Next, Request, Handler, Evaluate, Finalize

\* Which steps write anything else into the store.
LEMMA StoreChanges ==
  ASSUME [Next]_vars
  PROVE  /\ UNCHANGED config
         /\ \/ UNCHANGED documents
            \/ \E g \in Gaps, u \in Urls, done \in 1..2 : Submit(g, u, done)
            \/ \E c \in Calls, verdict \in {"accepted", "rejected"}, done \in 1..2 :
                 VerdictArrives(c, verdict, done)
         /\ \/ UNCHANGED proofs
            \/ \E c \in Calls, done \in 1..3 : Plan(c, done) \/ Finalized(c, done)
         /\ UNCHANGED nextReceipt \/ \E c \in Calls, done \in 1..3 : Plan(c, done)
         /\ UNCHANGED bountyId \/ \E c \in Calls, done \in 1..2 : Funded(c, done)
         /\ UNCHANGED late \/ \E g \in Gaps : DeadlinePasses(g)
<1> DEFINE Kept == UNCHANGED <<config, documents, proofs, nextReceipt, bountyId, late>>
<1>1. ASSUME NEW c \in Calls, NEW g \in Gaps,
             (\E done \in 1..2 : Create(c, g, done)) \/ Evaluate(c, g) \/ Finalize(c, g)
               \/ Cancel(c, g) \/ Consume(g) \/ Read(g)
      PROVE  Kept
  BY <1>1 DEF Create, Evaluate, Finalize, StartEvaluation, Cancel, Consume, Read
<1>2. ASSUME NEW c \in Calls,
             Approved(c) \/ VerdictCollides(c) \/ PlanFails(c) \/ Cancelled(c) \/ Throws(c)
      PROVE  Kept
  BY <1>2 DEF Approved, VerdictCollides, PlanFails, Cancelled, Throws, store
<1>3. ASSUME NEW c \in Calls, Transaction(c) PROVE Kept
  BY <1>3 DEF Transaction, Send, MineApprove, MineCreateBounty, MineFinalize, MineCancel,
     MineReverted, MineRefused, store
<1>4. CASE Crash \/ UNCHANGED vars
  BY <1>4 DEF Crash, vars, store
<1>5. ASSUME NEW g \in Gaps, Consume(g) \/ Read(g) PROVE Kept
  BY <1>5 DEF Consume, Read
<1>6. ASSUME NEW g \in Gaps, NEW u \in Urls, NEW done \in 1..2, Submit(g, u, done)
      PROVE  UNCHANGED <<config, proofs, nextReceipt, bountyId, late>>
  BY <1>6 DEF Submit
<1>7. ASSUME NEW c \in Calls, NEW verdict, NEW done, VerdictArrives(c, verdict, done)
      PROVE  UNCHANGED <<config, proofs, nextReceipt, bountyId, late>>
  BY <1>7 DEF VerdictArrives
<1>8. ASSUME NEW c \in Calls, NEW done \in 1..3, Plan(c, done)
      PROVE  UNCHANGED <<config, documents, bountyId, late>>
  BY <1>8 DEF Plan
<1>9. ASSUME NEW c \in Calls, NEW done \in 1..3, Finalized(c, done)
      PROVE  UNCHANGED <<config, documents, nextReceipt, bountyId, late>>
  BY <1>9 DEF Finalized
<1>10. ASSUME NEW c \in Calls, NEW done \in 1..2, Funded(c, done)
       PROVE  UNCHANGED <<config, documents, proofs, nextReceipt, late>>
  BY <1>10 DEF Funded
<1>11. ASSUME NEW g \in Gaps, DeadlinePasses(g)
       PROVE  UNCHANGED <<config, documents, proofs, nextReceipt, bountyId>>
  BY <1>11 DEF DeadlinePasses, store
<1>12. CASE \E g \in Gaps : Request(g)
  <2>1. PICK g \in Gaps : Request(g)
    BY <1>12
  <2>2. CASE \E u \in Urls, done \in 1..2 : Submit(g, u, done)
    BY <1>6, <2>2
  <2>3. CASE Kept
    BY <2>3
  <2>4. QED
    BY <1>1, <1>5, <2>1, <2>2, <2>3 DEF Request
<1>13. CASE \E c \in Calls : Handler(c)
  <2>1. PICK c \in Calls : Handler(c)
    BY <1>13
  <2>2. CASE \E done \in 1..2 : Funded(c, done)
    BY <1>10, <2>2
  <2>3. CASE \E verdict \in {"accepted", "rejected"}, done \in 1..2 :
               VerdictArrives(c, verdict, done)
    BY <1>7, <2>3
  <2>4. CASE \E done \in 1..3 : Plan(c, done) \/ Finalized(c, done)
    BY <1>8, <1>9, <2>4
  <2>5. CASE Kept
    BY <2>5
  <2>6. QED
    BY <1>2, <2>1, <2>2, <2>3, <2>4, <2>5 DEF Handler
<1>14. CASE \E g \in Gaps : DeadlinePasses(g)
  BY <1>11, <1>14
<1>15. QED
  BY <1>3, <1>4, <1>12, <1>13, <1>14 DEF Next

\* A verdict is stored on a submission that has none.
LEMMA VerdictStored ==
  ASSUME TypeInv, NEW c \in Calls, NEW verdict \in {"accepted", "rejected"}, NEW done,
         VerdictArrives(c, verdict, done)
  PROVE  LET g == calls[c].gap IN
         /\ g \in Gaps /\ calls[c].pc = "evaluating"
         /\ NextUp(c) \in Urls /\ evaluations[g][NextUp(c)] = "none"
         /\ verdict \in Verdicts(NextUp(c), calls[c].prior)
         /\ \A h \in Gaps, u \in Urls :
              evaluations'[h][u] = IF h = g /\ u = NextUp(c) THEN verdict ELSE evaluations[h][u]
         /\ evaluations' \in [Gaps -> [Urls -> {"none", "accepted", "rejected"}]]
         /\ submissions' = submissions
<1> DEFINE g == calls[c].gap
<1>1. g \in Gaps /\ calls[c].pc = "evaluating"
  BY DEF VerdictArrives, Returns, TypeInv, HandlersShaped
<1>2. NextUp(c) \in Urls
  BY <1>1, NextUpIs DEF TypeInv, HandlersInOrder
<1>3. /\ evaluations' = [evaluations EXCEPT ![g][NextUp(c)] = verdict]
      /\ evaluations[g][NextUp(c)] = "none" /\ submissions' = submissions
      /\ verdict \in Verdicts(NextUp(c), calls[c].prior)
  BY DEF VerdictArrives, AlreadyStored
<1>4. QED
  BY <1>1, <1>2, <1>3 DEF TypeInv, StoreTyped

\* A submission is one more, and different from the others.
LEMMA SubmissionStored ==
  ASSUME StoreTyped, NEW g \in Gaps, NEW u \in Urls, NEW done, Submit(g, u, done)
  PROVE  /\ submissions' \in [Gaps -> Seq(Urls)] /\ evaluations' = evaluations
         /\ \A h \in Gaps \ {g} : submissions'[h] = submissions[h]
         /\ Len(submissions'[g]) = Len(submissions[g]) + 1
         /\ \A i \in 1..Len(submissions[g]) :
              submissions'[g][i] = submissions[g][i] /\ submissions[g][i] # u
         /\ submissions'[g][Len(submissions[g]) + 1] = u
<1>1. /\ submissions' = [submissions EXCEPT ![g] = Append(submissions[g], u)]
      /\ evaluations' = evaluations /\ u \notin ToSet(submissions[g])
  BY DEF Submit
<1>2. submissions[g] \in Seq(Urls)
  BY DEF StoreTyped
<1>3. /\ Append(submissions[g], u) \in Seq(Urls)
      /\ Len(Append(submissions[g], u)) = Len(submissions[g]) + 1
      /\ \A i \in 1..Len(submissions[g]) : Append(submissions[g], u)[i] = submissions[g][i]
      /\ Append(submissions[g], u)[Len(submissions[g]) + 1] = u
  BY <1>2, AppendProperties
<1>4. submissions'[g] = Append(submissions[g], u)
  BY <1>1 DEF StoreTyped
<1>5. \A h \in Gaps \ {g} : submissions'[h] = submissions[h]
  BY <1>1 DEF StoreTyped
<1>6. submissions' \in [Gaps -> Seq(Urls)]
  BY <1>1, <1>3 DEF StoreTyped
<1>7. \A i \in 1..Len(submissions[g]) : submissions[g][i] # u
  BY <1>1, <1>2, LenProperties DEF ToSet
<1>8. QED
  BY <1>1, <1>3, <1>4, <1>5, <1>6, <1>7

\* What a settlement saves.
LEMMA ProofsSaved ==
  ASSUME StoreTyped, NEW c \in Calls, NEW g \in Gaps, NEW r \in Receipts, NEW done \in 1..3,
         Settle(c, g, r, done)
  PROVE  /\ plans' \in [Gaps -> Seq(Receipts)] /\ receipts' \in [Gaps -> Seq(Receipts)]
         /\ \A h \in Gaps : plans[h] # <<>> => plans'[h] # <<>>
         /\ \A h \in Gaps : receipts[h] # <<>> => receipts'[h] # <<>>
         /\ done = 3 => plans'[g] # <<>> /\ receipts'[g] # <<>>
         /\ done # 3 => status' = status
<1>1. Saved(done).plan /\ (Saved(done).receipt <=> done >= 2) /\ (Saved(done).status <=> done = 3)
  <2>1. (Saved(done).plan <=> done >= 1) /\ (Saved(done).receipt <=> done >= 2)
        /\ (Saved(done).status <=> done >= 3)
    BY Zenon DEF Saved
  <2>2. done >= 1 /\ (done >= 3 <=> done = 3)
    OBVIOUS
  <2>3. QED
    BY <2>1, <2>2, Zenon
<1>2. plans' = [plans EXCEPT ![g] = Append(plans[g], r)]
  BY <1>1 DEF Settle
<1>3. receipts' = IF done >= 2 THEN [receipts EXCEPT ![g] = Append(receipts[g], r)] ELSE receipts
  BY <1>1 DEF Settle
<1>4. done # 3 => status' = status
  BY <1>1 DEF Settle
<1>5. plans[g] \in Seq(Receipts) /\ receipts[g] \in Seq(Receipts)
  BY DEF StoreTyped
<1>6. /\ Append(plans[g], r) \in Seq(Receipts) /\ Append(plans[g], r) # <<>>
      /\ Append(receipts[g], r) \in Seq(Receipts) /\ Append(receipts[g], r) # <<>>
  BY <1>5, AppendProperties
<1>7. plans' \in [Gaps -> Seq(Receipts)] /\ receipts' \in [Gaps -> Seq(Receipts)]
  BY <1>2, <1>3, <1>6 DEF StoreTyped
<1>8. plans'[g] # <<>> /\ (done = 3 => receipts'[g] # <<>>)
  BY <1>2, <1>3, <1>6 DEF StoreTyped
<1>9. \A h \in Gaps : plans[h] # <<>> => plans'[h] # <<>>
  BY <1>2, <1>8 DEF StoreTyped
<1>10. \A h \in Gaps : receipts[h] # <<>> => receipts'[h] # <<>>
  BY <1>3, <1>6 DEF StoreTyped
<1>11. QED
  BY <1>4, <1>7, <1>8, <1>9, <1>10

\* The store keeps its types.
LEMMA StoreTypedStep == TypeInv /\ [Next]_vars => StoreTyped'
<1> SUFFICES ASSUME TypeInv, [Next]_vars PROVE StoreTyped'
  OBVIOUS
<1>1. mode' \in Modes /\ required' \in Requirements
  BY StoreChanges DEF config, TypeInv, StoreTyped
<1>2. status' \in [Gaps -> Statuses]
  BY StatusStep DEF StatusesStay
<1>3. bountyId' \in [Gaps -> BountyIds \cup {NoBounty}]
  <2>1. ASSUME NEW c \in Calls, NEW done \in 1..2, Funded(c, done)
        PROVE  bountyId' \in [Gaps -> BountyIds \cup {NoBounty}]
    BY <2>1 DEF Funded, TypeInv, StoreTyped, HandlersTyped, HandlerRecord
  <2>2. QED
    BY <2>1, StoreChanges DEF TypeInv, StoreTyped
<1>4. /\ submissions' \in [Gaps -> Seq(Urls)]
      /\ evaluations' \in [Gaps -> [Urls -> {"none", "accepted", "rejected"}]]
  BY StoreChanges, VerdictStored, SubmissionStored DEF documents, TypeInv, StoreTyped
<1>5. plans' \in [Gaps -> Seq(Receipts)] /\ receipts' \in [Gaps -> Seq(Receipts)]
  <2>1. ASSUME NEW c \in Calls, NEW done \in 1..3, Plan(c, done) PROVE <1>5
    <3>1. calls[c].gap \in Gaps /\ nextReceipt \in Receipts
      BY <2>1, PlanMade DEF TypeInv, HandlersShaped
    <3>2. UNCHANGED proofs \/ Settle(c, calls[c].gap, nextReceipt, done)
      BY <2>1 DEF Plan
    <3>3. QED
      BY <3>1, <3>2, ProofsSaved DEF TypeInv, StoreTyped, proofs
  <2>2. ASSUME NEW c \in Calls, NEW done \in 1..3, Finalized(c, done) PROVE <1>5
    <3>1. calls[c].gap \in Gaps /\ calls[c].receipt \in Receipts
      BY <2>2 DEF Finalized, Returns, TypeInv, HandlersShaped
    <3>2. QED
      BY <2>2, <3>1, ProofsSaved DEF Finalized, TypeInv
  <2>3. QED
    BY <2>1, <2>2, StoreChanges DEF proofs, TypeInv, StoreTyped
<1>6. late' \subseteq Gaps
  BY StoreChanges DEF DeadlinePasses, TypeInv, StoreTyped
<1>7. nextReceipt' \in 1..(MaxReceipts + 1)
  <2>1. ASSUME NEW c \in Calls, NEW done \in 1..3, Plan(c, done)
        PROVE  nextReceipt <= MaxReceipts /\ nextReceipt' = nextReceipt + 1
    BY <2>1 DEF Plan
  <2>2. QED
    BY <2>1, StoreChanges, ServiceAssumption DEF TypeInv, StoreTyped
<1>8. QED
  BY <1>1, <1>2, <1>3, <1>4, <1>5, <1>6, <1>7 DEF StoreTyped

-----------------------------------------------------------------------------
(* The order of the verdicts.                                               *)

\* Submissions and verdicts are only ever added.
DocumentsGrow ==
  \A g \in Gaps :
    /\ Len(submissions[g]) <= Len(submissions'[g])
    /\ \A i \in 1..Len(submissions[g]) : submissions'[g][i] = submissions[g][i]
    /\ Evaluated(g) \subseteq Evaluated(g)'

\* Nothing a step does takes one away.
LEMMA DocumentsStep == TypeInv /\ [Next]_vars => DocumentsGrow
<1> SUFFICES ASSUME TypeInv, [Next]_vars PROVE DocumentsGrow
  OBVIOUS
<1>1. \A g \in Gaps : Len(submissions[g]) \in Nat
  BY LenProperties DEF TypeInv, StoreTyped
<1>2. CASE UNCHANGED documents
  BY <1>1, <1>2 DEF documents, DocumentsGrow, Evaluated
<1>3. ASSUME NEW g \in Gaps, NEW u \in Urls, NEW done, Submit(g, u, done)
      PROVE  DocumentsGrow
  BY <1>1, <1>3, SubmissionStored DEF TypeInv, DocumentsGrow, Evaluated
<1>4. ASSUME NEW c \in Calls, NEW verdict \in {"accepted", "rejected"}, NEW done,
             VerdictArrives(c, verdict, done)
      PROVE  DocumentsGrow
  BY <1>1, <1>4, VerdictStored DEF DocumentsGrow, Evaluated
<1>5. QED
  BY <1>2, <1>3, <1>4, StoreChanges

\* The submissions up to a position are among those up to a later one.
LEMMA FirstGrows ==
  ASSUME NEW g, NEW m \in Nat, NEW n \in Nat, m <= n
  PROVE  First(g, m) \subseteq First(g, n)
  BY DEF First

\* The verdict that arrives is the next in the order.
LEMMA VerdictIsNext ==
  ASSUME TypeInv, NEW c \in Calls, NEW verdict \in {"accepted", "rejected"}, NEW done,
         VerdictArrives(c, verdict, done)
  PROVE  LET g == calls[c].gap IN
         \E n \in 0..(Len(submissions[g]) - 1) :
           /\ Evaluated(g) = First(g, n) /\ calls[c].prior = First(g, n)
           /\ NextUp(c) = submissions[g][n + 1]
<1> DEFINE g == calls[c].gap
           s == submissions[g]
<1>1. /\ g \in Gaps /\ calls[c].pc = "evaluating" /\ NextUp(c) \in Urls
      /\ evaluations[g][NextUp(c)] = "none"
  BY VerdictStored
<1>2. PICK m \in Nat, l \in Nat : AtPosition(c, m, l)
  BY <1>1 DEF TypeInv, HandlersInOrder
<1>3. PICK n \in 0..Len(s) : Evaluated(g) = First(g, n)
  BY <1>1 DEF TypeInv, VerdictsInOrder
<1>4. /\ m + 1 \in 1..Len(s) /\ NextUp(c) = s[m + 1] /\ Len(s) \in Nat
      /\ calls[c].prior = First(g, m) /\ First(g, m) \subseteq First(g, n)
  BY <1>1, <1>2, <1>3, NextUpIs, LenProperties DEF TypeInv, StoreTyped, AtPosition
<1>5. \A i, j \in 1..Len(s) : s[i] = s[j] => i = j
  BY <1>1 DEF TypeInv, VerdictsInOrder
<1>6. s[m + 1] \notin First(g, n)
  BY <1>1, <1>3, <1>4 DEF Evaluated
<1>7. ~(m + 1 <= n)
  BY <1>3, <1>4, <1>6 DEF First
<1>8. ~(n < m)
  <2>1. SUFFICES ASSUME n < m PROVE FALSE
    OBVIOUS
  <2>2. s[n + 1] \in First(g, m)
    BY <1>3, <1>4, <2>1 DEF First
  <2>3. PICK i \in 1..n : s[n + 1] = s[i]
    BY <1>4, <2>2 DEF First
  <2>4. QED
    BY <1>3, <1>4, <1>5, <2>1, <2>3
<1>9. m = n
  BY <1>3, <1>4, <1>7, <1>8
<1>10. QED
  BY <1>3, <1>4, <1>9

\* The verdicts stay those on the first submissions.
LEMMA VerdictsInOrderStep == TypeInv /\ [Next]_vars => VerdictsInOrder'
<1> SUFFICES ASSUME TypeInv, [Next]_vars PROVE VerdictsInOrder'
  OBVIOUS
<1> VerdictsInOrder
  BY DEF TypeInv
<1>1. \A g \in Gaps : Len(submissions[g]) \in Nat
  BY LenProperties DEF TypeInv, StoreTyped
<1>2. CASE UNCHANGED documents
  BY <1>2 DEF documents, VerdictsInOrder, Evaluated, First
<1>3. ASSUME NEW g \in Gaps, NEW u \in Urls, NEW done, Submit(g, u, done)
      PROVE  VerdictsInOrder'
  <2>1. /\ evaluations' = evaluations
        /\ \A h \in Gaps \ {g} : submissions'[h] = submissions[h]
        /\ Len(submissions'[g]) = Len(submissions[g]) + 1
        /\ \A i \in 1..Len(submissions[g]) :
             submissions'[g][i] = submissions[g][i] /\ submissions[g][i] # u
        /\ submissions'[g][Len(submissions[g]) + 1] = u
    BY <1>3, SubmissionStored DEF TypeInv
  <2>2. \A i, j \in 1..Len(submissions'[g]) : submissions'[g][i] = submissions'[g][j] => i = j
    BY <1>1, <2>1 DEF VerdictsInOrder
  <2>3. PICK n \in 0..Len(submissions[g]) : Evaluated(g) = First(g, n)
    BY DEF VerdictsInOrder
  <2>4. Evaluated(g)' = {submissions'[g][i] : i \in 1..n} /\ n \in 0..Len(submissions'[g])
    BY <1>1, <2>1, <2>3 DEF Evaluated, First
  <2>5. ASSUME NEW h \in Gaps \ {g}
        PROVE  /\ \A i, j \in 1..Len(submissions'[h]) :
                    submissions'[h][i] = submissions'[h][j] => i = j
               /\ \E k \in 0..Len(submissions'[h]) :
                    Evaluated(h)' = {submissions'[h][i] : i \in 1..k}
    <3>1. submissions'[h] = submissions[h] /\ Evaluated(h)' = Evaluated(h)
      BY <2>1 DEF Evaluated
    <3>2. PICK k \in 0..Len(submissions[h]) : Evaluated(h) = First(h, k)
      BY DEF VerdictsInOrder
    <3>3. Evaluated(h)' = {submissions'[h][i] : i \in 1..k} /\ k \in 0..Len(submissions'[h])
      BY <3>1, <3>2 DEF First
    <3>4. \A i, j \in 1..Len(submissions'[h]) : submissions'[h][i] = submissions'[h][j] => i = j
      BY <3>1 DEF VerdictsInOrder
    <3>5. QED
      BY <3>3, <3>4
  <2>6. QED
    BY <2>2, <2>4, <2>5 DEF VerdictsInOrder, First
<1>4. ASSUME NEW c \in Calls, NEW verdict \in {"accepted", "rejected"}, NEW done,
             VerdictArrives(c, verdict, done)
      PROVE  VerdictsInOrder'
  <2>1. PICK g \in Gaps : g = calls[c].gap
    BY <1>4, VerdictStored
  <2>2. /\ submissions' = submissions /\ NextUp(c) \in Urls
        /\ \A h \in Gaps, u \in Urls :
             evaluations'[h][u] = IF h = g /\ u = NextUp(c) THEN verdict ELSE evaluations[h][u]
    BY <1>4, <2>1, VerdictStored
  <2> PICK n \in 0..(Len(submissions[g]) - 1) :
          Evaluated(g) = First(g, n) /\ NextUp(c) = submissions[g][n + 1]
    BY <1>4, <2>1, VerdictIsNext
  <2>3. Evaluated(g)' = First(g, n) \cup {submissions[g][n + 1]}
    <3>1. Evaluated(g)' = Evaluated(g) \cup {NextUp(c)}
      BY <2>2 DEF Evaluated
    <3>2. QED
      BY <3>1
  <2>4. Evaluated(g)' = First(g, n + 1) /\ n + 1 \in 0..Len(submissions[g])
    BY <1>1, <2>3 DEF First
  <2>5. \A h \in Gaps \ {g} : Evaluated(h)' = Evaluated(h)
    BY <2>2 DEF Evaluated
  <2>6. \A h \in Gaps, k \in Nat : First(h, k)' = First(h, k)
    BY <2>2 DEF First
  <2>7. ASSUME NEW h \in Gaps
        PROVE  \E k \in 0..Len(submissions[h]) : Evaluated(h)' = First(h, k)'
    <3>1. CASE h = g
      BY <1>1, <2>4, <2>6, <3>1
    <3>2. CASE h # g
      BY <1>1, <2>5, <2>6, <3>2 DEF VerdictsInOrder
    <3>3. QED
      BY <3>1, <3>2
  <2>8. \A h \in Gaps : \A i, j \in 1..Len(submissions'[h]) :
          submissions'[h][i] = submissions'[h][j] => i = j
    BY <2>2 DEF VerdictsInOrder
  <2>9. QED
    BY <2>2, <2>7, <2>8 DEF VerdictsInOrder
<1>5. QED
  BY <1>2, <1>3, <1>4, StoreChanges

-----------------------------------------------------------------------------
(* The handlers after a step.                                               *)

\* A handler at rest has the type of one and awaits no verdict it did not.
LEMMA RestKeeps ==
  ASSUME HandlersTyped, NEW c \in Calls, Rests(c)
  PROVE  /\ calls'[c] \in HandlerRecord
         /\ \/ calls'[c] = Idle
            \/ /\ calls'[c].pc = calls[c].pc /\ calls'[c].gap = calls[c].gap
               /\ calls'[c].receipt = calls[c].receipt /\ calls'[c].total = calls[c].total
               /\ calls'[c].bounty = calls[c].bounty /\ calls'[c].tx = calls[c].tx
               /\ calls'[c].pc = "evaluating" /\ calls[c].tx # "pending" => calls'[c] = calls[c]
  BY IdleIsHandler DEF HandlersTyped, HandlerRecord, Rests

\* A handler that begins.
LEMMA BeginKeeps ==
  ASSUME StoreTyped, NEW c \in Calls, NEW g \in Gaps, Begins(c, g)
  PROVE  /\ calls'[c] \in HandlerRecord
         /\ calls'[c].pc \in {"approving", "evaluated", "cancelling", "evaluating"}
         /\ calls'[c].gap = g /\ calls'[c].tx = "none"
         /\ calls'[c].pc = "approving" => status[g] = "none"
         /\ calls'[c].pc = "evaluating" =>
              /\ calls'[c].todo =
                   {i \in DOMAIN submissions[g] : submissions[g][i] \notin Evaluated(g)}
              /\ calls'[c].todo # {} /\ calls'[c].prior = Prior(g)
<1>1. /\ Started(g, "approving") \in HandlerRecord /\ Started(g, "evaluated") \in HandlerRecord
      /\ Started(g, "cancelling") \in HandlerRecord /\ Started(g, "evaluating") \in HandlerRecord
  BY StartedIsHandler DEF Steps
<1>2. \A step \in Steps : Started(g, step).pc = step /\ Started(g, step).gap = g
                          /\ Started(g, step).tx = "none"
  BY StartedIsHandler
<1>3. {"approving", "evaluated", "cancelling", "evaluating"} \subseteq Steps
  BY DEF Steps
<1>4. CASE \/ status[g] = "none" /\ calls'[c] = Started(g, "approving")
           \/ calls'[c] = Started(g, "evaluated")
  BY <1>1, <1>2, <1>3, <1>4
<1>5. CASE bountyId[g] # NoBounty
           /\ calls'[c] = [Started(g, "cancelling") EXCEPT !.bounty = bountyId[g]]
  <2>1. bountyId[g] \in BountyIds
    BY <1>5 DEF StoreTyped
  <2>2. QED
    BY <1>1, <1>2, <1>3, <1>5, <2>1 DEF HandlerRecord
<1>6. ASSUME NEW thenPlan \in BOOLEAN, NEW todo \in SUBSET Nat,
             calls'[c] = [Started(g, "evaluating") EXCEPT
               !.thenPlan = thenPlan, !.seen = Seen(g), !.todo = todo, !.prior = Prior(g)]
      PROVE  /\ calls'[c] \in HandlerRecord /\ calls'[c].pc = "evaluating"
             /\ calls'[c].gap = g /\ calls'[c].tx = "none"
             /\ calls'[c].todo = todo /\ calls'[c].prior = Prior(g)
  <2>1. Seen(g) \in Statuses /\ Prior(g) \in SUBSET Urls
    BY SeenIsStatus DEF Prior, Evaluated
  <2> DEFINE q == [Started(g, "evaluating") EXCEPT !.thenPlan = thenPlan]
             r == [q EXCEPT !.seen = Seen(g)]
             p == [r EXCEPT !.todo = todo]
  <2>2. /\ q = [Started(g, "evaluating") EXCEPT !.thenPlan = thenPlan]
        /\ r = [q EXCEPT !.seen = Seen(g)] /\ p = [r EXCEPT !.todo = todo]
        /\ calls'[c] = [p EXCEPT !.prior = Prior(g)]
    BY <1>6, Zenon
  <2> HIDE DEF q, r, p
  <2>3. q \in HandlerRecord /\ q.pc = "evaluating" /\ q.gap = g /\ q.tx = "none"
    BY <1>1, <1>2, <1>3, <2>2 DEF HandlerRecord
  <2>4. r \in HandlerRecord /\ r.pc = "evaluating" /\ r.gap = g /\ r.tx = "none"
    BY <2>1, <2>2, <2>3 DEF HandlerRecord
  <2>5. /\ p \in HandlerRecord /\ p.pc = "evaluating" /\ p.gap = g /\ p.tx = "none"
        /\ p.todo = todo
    BY <2>2, <2>4 DEF HandlerRecord
  <2>6. QED
    BY <2>1, <2>2, <2>5 DEF HandlerRecord
<1>7. QED
  BY <1>4, <1>5, <1>6 DEF Begins

\* A handler that goes on.
LEMMA GoOnKeeps ==
  ASSUME TypeInv, NEW c \in Calls, GoesOn(c)
  PROVE  /\ calls'[c] \in HandlerRecord
         /\ calls'[c].pc \in {"funding", "evaluated", "evaluating", "finalizing"}
         /\ calls'[c].gap = calls[c].gap /\ calls'[c].tx = "none"
         /\ calls'[c].pc = "funding" => calls[c].pc = "approving"
         /\ calls'[c].pc = "evaluating" =>
              /\ calls[c].pc = "evaluating" /\ calls[c].todo # {Min(calls[c].todo)}
              /\ evaluations'[calls[c].gap][NextUp(c)] # "none"
              /\ calls'[c].todo = calls[c].todo \ {Min(calls[c].todo)}
              /\ calls'[c].prior = calls[c].prior \cup {NextUp(c)}
         /\ calls'[c].pc = "finalizing" =>
              /\ calls'[c].receipt \in Receipts /\ EnoughSources(calls[c].gap)
              /\ bountyId[calls[c].gap] \in BountyIds
              /\ calls'[c].bounty = bountyId[calls[c].gap]
<1> DEFINE g == calls[c].gap
<1> /\ StoreTyped /\ HandlersTyped /\ HandlersShaped /\ HandlersInOrder
  BY DEF TypeInv
<1>1. g \in Gaps /\ calls[c] \in HandlerRecord
  BY DEF GoesOn, HandlersShaped, HandlersTyped
<1>2. /\ Started(g, "funding") \in HandlerRecord /\ Started(g, "evaluated") \in HandlerRecord
      /\ Started(g, "finalizing") \in HandlerRecord
  BY <1>1, StartedIsHandler DEF Steps
<1>3. \A step \in Steps : Started(g, step).pc = step /\ Started(g, step).gap = g
                          /\ Started(g, step).tx = "none"
  BY <1>1, StartedIsHandler
<1>4. {"funding", "evaluated", "finalizing"} \subseteq Steps
  BY DEF Steps
<1>5. CASE \/ calls[c].pc = "approving" /\ calls'[c] = Started(g, "funding")
           \/ calls'[c] = Started(g, "evaluated")
  BY <1>2, <1>3, <1>4, <1>5
<1>6. CASE /\ calls[c].pc = "evaluating" /\ calls[c].todo # {Min(calls[c].todo)}
           /\ evaluations'[calls[c].gap][NextUp(c)] # "none"
           /\ calls'[c] = [calls[c] EXCEPT !.todo = @ \ {Min(@)}, !.prior = @ \cup {NextUp(c)}]
  <2>1. NextUp(c) \in Urls
    BY <1>1, <1>6, NextUpIs DEF HandlersInOrder
  <2>2. calls[c].tx = "none"
    BY <1>6 DEF HandlersShaped
  <2>3. calls[c].todo \ {Min(calls[c].todo)} \in SUBSET Nat
        /\ calls[c].prior \cup {NextUp(c)} \in SUBSET Urls
    BY <1>1, <2>1 DEF HandlerRecord
  <2> DEFINE q == [calls[c] EXCEPT !.todo = calls[c].todo \ {Min(calls[c].todo)}]
  <2>4. /\ q = [calls[c] EXCEPT !.todo = calls[c].todo \ {Min(calls[c].todo)}]
        /\ calls'[c] = [q EXCEPT !.prior = calls[c].prior \cup {NextUp(c)}]
    <3>1. [calls[c] EXCEPT !.todo = @ \ {Min(@)}, !.prior = @ \cup {NextUp(c)}]
            = [calls[c] EXCEPT !.todo = calls[c].todo \ {Min(calls[c].todo)},
                               !.prior = calls[c].prior \cup {NextUp(c)}]
      BY Zenon
    <3>2. QED
      BY <1>6, <3>1, Zenon
  <2> HIDE DEF q
  <2>5. /\ q \in HandlerRecord /\ q.pc = "evaluating" /\ q.gap = g /\ q.tx = "none"
        /\ q.todo = calls[c].todo \ {Min(calls[c].todo)}
    BY <1>1, <1>6, <2>2, <2>3, <2>4 DEF HandlerRecord
  <2>6. /\ calls'[c] \in HandlerRecord /\ calls'[c].pc = "evaluating" /\ calls'[c].gap = g
        /\ calls'[c].tx = "none" /\ calls'[c].todo = calls[c].todo \ {Min(calls[c].todo)}
        /\ calls'[c].prior = calls[c].prior \cup {NextUp(c)}
    BY <2>3, <2>4, <2>5 DEF HandlerRecord
  <2>7. QED
    BY <1>6, <2>6
<1>7. ASSUME bountyId[g] # NoBounty, nextReceipt \in Receipts, NEW total \in 0..Budget[g],
             calls'[c] = [Started(g, "finalizing") EXCEPT
               !.receipt = nextReceipt, !.total = total, !.bounty = bountyId[g]]
      PROVE  /\ calls'[c] \in HandlerRecord /\ calls'[c].pc = "finalizing"
             /\ calls'[c].gap = g /\ calls'[c].tx = "none" /\ calls'[c].receipt \in Receipts
             /\ bountyId[g] \in BountyIds /\ calls'[c].bounty = bountyId[g]
  <2>1. bountyId[g] \in BountyIds /\ total \in 0..MaxAmount
    BY <1>1, <1>7, ServiceAssumption DEF StoreTyped
  <2> DEFINE q == [Started(g, "finalizing") EXCEPT !.receipt = nextReceipt]
             p == [q EXCEPT !.total = total]
  <2>2. /\ q = [Started(g, "finalizing") EXCEPT !.receipt = nextReceipt]
        /\ p = [q EXCEPT !.total = total] /\ calls'[c] = [p EXCEPT !.bounty = bountyId[g]]
    BY <1>7, Zenon
  <2> HIDE DEF q, p
  <2>3. /\ q \in HandlerRecord /\ q.receipt = nextReceipt
        /\ q.pc = "finalizing" /\ q.gap = g /\ q.tx = "none"
    BY <1>2, <1>3, <1>4, <1>7, <2>2 DEF HandlerRecord
  <2>4. /\ p \in HandlerRecord /\ p.receipt = nextReceipt
        /\ p.pc = "finalizing" /\ p.gap = g /\ p.tx = "none"
    BY <2>1, <2>2, <2>3 DEF HandlerRecord
  <2>5. QED
    BY <1>7, <2>1, <2>2, <2>4 DEF HandlerRecord
<1>8. QED
  BY <1>5, <1>6, <1>7 DEF GoesOn

\* A handler that sends a transaction, or whose transaction is mined.
LEMMA TransactionKeeps ==
  ASSUME TypeInv, NEW c \in Calls,
         Sends(c) \/ \E outcome \in {"mined", "reverted"}, id \in BountyIds :
                       Mined(c, outcome, id)
  PROVE  /\ calls'[c] \in HandlerRecord
         /\ \/ calls'[c] = Idle
            \/ /\ calls'[c].pc = calls[c].pc /\ calls'[c].gap = calls[c].gap
               /\ calls'[c].receipt = calls[c].receipt
               /\ calls'[c].pc \in {"approving", "funding", "finalizing", "cancelling"}
<1> USE DEF TypeInv
<1>1. CASE Sends(c)
  BY <1>1 DEF Sends, HandlersTyped, HandlerRecord
<1>2. ASSUME NEW outcome \in {"mined", "reverted"}, NEW id \in BountyIds, Mined(c, outcome, id)
      PROVE  /\ calls'[c] \in HandlerRecord
             /\ \/ calls'[c] = Idle
                \/ /\ calls'[c].pc = calls[c].pc /\ calls'[c].gap = calls[c].gap
                   /\ calls'[c].receipt = calls[c].receipt
                   /\ calls'[c].pc \in {"approving", "funding", "finalizing", "cancelling"}
  <2>1. calls[c] \in HandlerRecord
    BY DEF HandlersTyped
  <2>2. calls[c].pc \in {"approving", "funding", "finalizing", "cancelling"}
    BY <1>2, <2>1 DEF Mined, HandlersShaped, HandlerRecord, Steps
  <2> DEFINE q == [calls[c] EXCEPT !.tx = outcome]
  <2>3. /\ q = [calls[c] EXCEPT !.tx = outcome]
        /\ calls'[c] = [q EXCEPT !.bounty = id] \/ calls'[c] = Idle
    <3>1. calls' = [calls EXCEPT ![c] =
             IF @.alive THEN [@ EXCEPT !.tx = outcome, !.bounty = id] ELSE Idle]
      BY <1>2 DEF Mined
    <3>2. calls'[c] = IF calls[c].alive
                        THEN [calls[c] EXCEPT !.tx = outcome, !.bounty = id] ELSE Idle
      BY <3>1 DEF HandlersTyped
    <3>3. QED
      BY <3>2, Zenon
  <2> HIDE DEF q
  <2>4. /\ q \in HandlerRecord /\ q.pc = calls[c].pc /\ q.gap = calls[c].gap
        /\ q.receipt = calls[c].receipt
    BY <2>1, <2>3 DEF HandlerRecord
  <2>5. QED
    BY <2>2, <2>3, <2>4, IdleIsHandler DEF HandlerRecord
<1>3. QED
  BY <1>1, <1>2

\* What any step makes of any handler.
Kept(c) ==
  \/ calls'[c] = Idle
  \/ /\ calls'[c].pc = calls[c].pc /\ calls'[c].gap = calls[c].gap
     /\ calls'[c].receipt = calls[c].receipt
     /\ calls'[c].pc = "evaluating" => calls'[c] = calls[c]
     /\ Answered(c) => calls'[c].tx = calls[c].tx
     /\ calls'[c].pc \in {"idle", "evaluating", "evaluated"} => calls'[c].tx = calls[c].tx

\* Every handler keeps to itself, begins or goes on.
LEMMA HandlersStep ==
  ASSUME TypeInv, [Next]_vars, NEW c \in Calls
  PROVE  /\ calls'[c] \in HandlerRecord
         /\ Kept(c) \/ GoesOn(c) \/ \E g \in Gaps : Begins(c, g)
<1> /\ OneMoves /\ HandlersTyped /\ HandlersShaped
  BY OneMovesStep DEF TypeInv
<1>1. CASE Rests(c)
  <2>1. calls[c].pc = "evaluating" => calls[c].tx # "pending"
    BY DEF HandlersShaped
  <2>2. QED
    BY <1>1, <2>1, RestKeeps DEF Kept
<1>2. ASSUME NEW d \in Calls, Step(d), d # c PROVE Rests(c)
  BY <1>2 DEF Step, Rests
<1>3. CASE Step(c)
  <2>1. CASE GoesOn(c)
    BY <2>1, GoOnKeeps
  <2>2. CASE \E g \in Gaps : Begins(c, g)
    BY <2>2, BeginKeeps DEF TypeInv
  <2>3. CASE ~GoesOn(c) /\ ~\E g \in Gaps : Begins(c, g)
    <3>1. /\ calls'[c] \in HandlerRecord
          /\ \/ calls'[c] = Idle
             \/ /\ calls'[c].pc = calls[c].pc /\ calls'[c].gap = calls[c].gap
                /\ calls'[c].receipt = calls[c].receipt
                /\ calls'[c].pc \in {"approving", "funding", "finalizing", "cancelling"}
      BY <1>3, <2>3, TransactionKeeps DEF Step
    <3>2. ~Answered(c)
      BY <1>3, <2>3 DEF Step, Sends, Mined, Answered
    <3>3. QED
      BY <3>1, <3>2 DEF Kept
  <2>4. QED
    BY <2>1, <2>2, <2>3
<1>4. QED
  BY <1>1, <1>2, <1>3 DEF OneMoves

\* A step writes one record, or all of them when the process dies.
Written ==
  \/ calls' = calls \/ calls' = Crashed
  \/ \E c \in Calls : \E r : calls' = [calls EXCEPT ![c] = r]

\* The handlers are a function after a step as well.
LEMMA OneRecord ==
  ASSUME HandlersTyped, [Next]_vars
  PROVE  calls' = [c \in Calls |-> calls'[c]]
<1>1. ASSUME Written PROVE calls' = [c \in Calls |-> calls'[c]]
  BY <1>1 DEF Written, HandlersTyped, Crashed
<1>2. ASSUME NEW c \in Calls, NEW done, NEW all, NEW next, AfterWrites(c, done, all, next)
      PROVE  Written
  BY <1>2 DEF AfterWrites, Written
<1>3. ASSUME NEW g \in Gaps, Request(g) PROVE Written
  <2>1. ASSUME NEW c \in Calls, (\E done \in 1..2 : Create(c, g, done)) \/ Cancel(c, g)
        PROVE  Written
    BY <1>2, <2>1 DEF Create, Cancel, Written
  <2>2. ASSUME NEW c \in Calls, Evaluate(c, g) \/ Finalize(c, g) PROVE Written
    BY <2>2 DEF Evaluate, Finalize, StartEvaluation, Written
  <2>3. ASSUME NEW u \in Urls, NEW done \in 1..2, Submit(g, u, done) PROVE Written
    BY <2>3 DEF Submit, Written
  <2>4. CASE Consume(g) \/ Read(g)
    BY <2>4 DEF Consume, Read, Written
  <2>5. QED
    BY <1>3, <2>1, <2>2, <2>3, <2>4 DEF Request
<1>4. ASSUME NEW c \in Calls, Handler(c) PROVE Written
  <2>1. CASE Approved(c) \/ VerdictCollides(c) \/ PlanFails(c) \/ Cancelled(c) \/ Throws(c)
    BY <2>1 DEF Approved, VerdictCollides, PlanFails, Cancelled, Throws, Written
  <2>2. ASSUME NEW done, Funded(c, done) PROVE Written
    BY <1>2, <2>2 DEF Funded
  <2>3. ASSUME NEW verdict, NEW done, VerdictArrives(c, verdict, done) PROVE Written
    BY <1>2, <2>3 DEF VerdictArrives
  <2>4. ASSUME NEW done, Plan(c, done) \/ Finalized(c, done) PROVE Written
    BY <1>2, <2>4 DEF Plan, Finalized, Settle, Written
  <2>5. QED
    BY <1>4, <2>1, <2>2, <2>3, <2>4 DEF Handler
<1>5. ASSUME NEW c \in Calls, Transaction(c) PROVE Written
  BY <1>5 DEF Transaction, Send, Mined, MineApprove, MineCreateBounty, MineFinalize,
     MineCancel, MineReverted, MineRefused, Written
<1>6. Crash \/ UNCHANGED vars \/ (\E g \in Gaps : DeadlinePasses(g)) => Written
  BY DEF Crash, DeadlinePasses, vars, Written
<1>7. Written
  BY <1>3, <1>4, <1>5, <1>6 DEF Next
<1>8. QED
  BY <1>1, <1>7

\* They stay what they are.
LEMMA HandlersTypedStep == TypeInv /\ [Next]_vars => HandlersTyped'
<1> SUFFICES ASSUME TypeInv, [Next]_vars PROVE HandlersTyped'
  OBVIOUS
<1>1. calls' = [c \in Calls |-> calls'[c]]
  BY OneRecord DEF TypeInv
<1>2. \A c \in Calls : calls'[c] \in HandlerRecord
  BY HandlersStep
<1>3. QED
  BY <1>1, <1>2 DEF HandlersTyped

\* Their transactions and gaps stay those of their kind.
LEMMA HandlersShapedStep == TypeInv /\ [Next]_vars => HandlersShaped'
<1> SUFFICES ASSUME TypeInv, [Next]_vars, NEW c \in Calls
             PROVE  /\ calls'[c].pc # "idle" =>
                         calls'[c].gap \in Gaps /\ status'[calls'[c].gap] # "none"
                    /\ calls'[c].pc \in {"idle", "evaluating", "evaluated"} =>
                         calls'[c].tx = "none"
                    /\ calls'[c].pc = "finalizing" => calls'[c].receipt \in Receipts
  BY DEF HandlersShaped
<1> HandlersShaped /\ StoreTyped
  BY DEF TypeInv
<1>1. \A g \in Gaps : status[g] # "none" => status'[g] # "none"
  BY StatusStep DEF StatusesStay
<1>2. CASE Kept(c)
  BY <1>1, <1>2, IdleIsHandler DEF Kept, HandlersShaped
<1>3. CASE GoesOn(c)
  <2>1. calls[c].gap \in Gaps /\ status[calls[c].gap] # "none"
    BY <1>3 DEF GoesOn, HandlersShaped
  <2>2. QED
    BY <1>1, <1>3, <2>1, GoOnKeeps
<1>4. ASSUME NEW g \in Gaps, Begins(c, g)
      PROVE  /\ calls'[c].pc # "idle" =>
                  calls'[c].gap \in Gaps /\ status'[calls'[c].gap] # "none"
             /\ calls'[c].pc \in {"idle", "evaluating", "evaluated"} => calls'[c].tx = "none"
             /\ calls'[c].pc = "finalizing" => calls'[c].receipt \in Receipts
  <2>1. status[g] = "none" => status'[g] = "detected"
    BY <1>4 DEF Begins
  <2>2. status'[g] # "none"
    BY <1>1, <2>1
  <2>3. QED
    BY <1>4, <2>2, BeginKeeps
<1>5. QED
  BY <1>2, <1>3, <1>4, HandlersStep

\* An evaluation under way has the verdicts on what came first.
LEMMA HandlersInOrderStep == TypeInv /\ [Next]_vars => HandlersInOrder'
<1> SUFFICES ASSUME TypeInv, [Next]_vars, NEW c \in Calls, calls'[c].pc = "evaluating"
             PROVE  \E m, l \in Nat : AtPosition(c, m, l)'
  BY DEF HandlersInOrder
<1>1. /\ DocumentsGrow /\ HandlersShaped /\ HandlersInOrder /\ StoreTyped /\ VerdictsInOrder
      /\ HandlersTyped
  BY DocumentsStep DEF TypeInv
<1>2. \A g \in Gaps : Len(submissions[g]) \in Nat /\ Len(submissions'[g]) \in Nat
  BY <1>1, StoreTypedStep, LenProperties DEF StoreTyped
<1>3. ASSUME NEW g \in Gaps, NEW m \in 0..Len(submissions[g])
      PROVE  First(g, m)' = First(g, m)
  BY <1>1, <1>2, <1>3 DEF First, DocumentsGrow
<1>4. PICK g \in Gaps : g = calls'[c].gap
  BY HandlersShapedStep DEF HandlersShaped
<1>5. SUFFICES \E m, l \in Nat :
               /\ m < l /\ l <= Len(submissions'[g]) /\ calls'[c].todo = (m + 1)..l
               /\ calls'[c].prior = First(g, m)' /\ First(g, m)' \subseteq Evaluated(g)'
  BY <1>4 DEF AtPosition, First, Evaluated
<1>6. CASE Kept(c)
  <2>1. calls'[c] = calls[c] /\ calls[c].gap = g
    BY <1>1, <1>4, <1>6, IdleIsHandler DEF Kept
  <2>2. PICK m \in Nat, l \in Nat : AtPosition(c, m, l)
    BY <1>1, <2>1 DEF HandlersInOrder
  <2>3. First(g, m)' = First(g, m)
    BY <1>2, <1>3, <2>1, <2>2 DEF AtPosition
  <2>4. Evaluated(g) \subseteq Evaluated(g)' /\ l <= Len(submissions'[g])
    BY <1>1, <1>2, <2>1, <2>2 DEF AtPosition, DocumentsGrow
  <2>5. QED
    BY <2>1, <2>2, <2>3, <2>4 DEF AtPosition
<1>7. CASE GoesOn(c)
  <2>1. /\ calls[c].pc = "evaluating" /\ calls[c].todo # {Min(calls[c].todo)}
        /\ calls[c].gap = g /\ evaluations'[g][NextUp(c)] # "none"
        /\ calls'[c].todo = calls[c].todo \ {Min(calls[c].todo)}
        /\ calls'[c].prior = calls[c].prior \cup {NextUp(c)}
    BY <1>4, <1>7, GoOnKeeps
  <2>2. PICK m \in Nat, l \in Nat : AtPosition(c, m, l)
    BY <1>1, <2>1 DEF HandlersInOrder
  <2>3. /\ Min(calls[c].todo) = m + 1 /\ m + 1 <= Len(submissions[g])
        /\ NextUp(c) = submissions[g][m + 1] /\ NextUp(c) \in Urls
        /\ calls'[c].todo = (m + 2)..l
    BY <1>1, <2>1, <2>2, NextUpIs
  <2>4. m + 1 < l /\ l <= Len(submissions[g])
    BY <1>2, <2>1, <2>2, <2>3 DEF AtPosition
  <2>5. First(g, m + 1)' = First(g, m) \cup {NextUp(c)}
    <3>1. First(g, m + 1)' = First(g, m + 1)
      BY <1>2, <1>3, <2>3
    <3>2. First(g, m + 1) = First(g, m) \cup {submissions[g][m + 1]}
      BY DEF First
    <3>3. QED
      BY <2>3, <3>1, <3>2
  <2>6. First(g, m) \subseteq Evaluated(g)' /\ NextUp(c) \in Evaluated(g)'
    BY <1>1, <2>1, <2>2, <2>3 DEF AtPosition, DocumentsGrow, Evaluated
  <2>7. calls'[c].prior = First(g, m) \cup {NextUp(c)} /\ l <= Len(submissions'[g])
    BY <1>1, <1>2, <2>1, <2>2, <2>4 DEF AtPosition, DocumentsGrow
  <2>8. m + 1 \in Nat /\ calls'[c].todo = ((m + 1) + 1)..l
    BY <2>3
  <2>9. QED
    BY <2>4, <2>5, <2>6, <2>7, <2>8
<1>8. CASE \E h \in Gaps : Begins(c, h)
  <2>1. /\ calls'[c].todo = {i \in DOMAIN submissions[g] : submissions[g][i] \notin Evaluated(g)}
        /\ calls'[c].todo # {} /\ calls'[c].prior = Evaluated(g)
    BY <1>1, <1>4, <1>8, BeginKeeps DEF Prior
  <2>2. PICK n \in 0..Len(submissions[g]) : Evaluated(g) = First(g, n)
    BY <1>1 DEF VerdictsInOrder
  <2>3. \A i, j \in 1..Len(submissions[g]) : submissions[g][i] = submissions[g][j] => i = j
    BY <1>1 DEF VerdictsInOrder
  <2>4. DOMAIN submissions[g] = 1..Len(submissions[g])
    BY <1>1, LenProperties DEF StoreTyped
  <2>5. calls'[c].todo = (n + 1)..Len(submissions[g])
    BY <1>2, <2>1, <2>2, <2>3, <2>4 DEF First
  <2>6. n < Len(submissions[g])
    BY <1>2, <2>1, <2>5
  <2>7. First(g, n)' = First(g, n) /\ First(g, n)' \subseteq Evaluated(g)'
    BY <1>1, <1>3, <2>2 DEF DocumentsGrow
  <2>8. Len(submissions[g]) <= Len(submissions'[g])
    BY <1>1 DEF DocumentsGrow
  <2>9. QED
    BY <1>2, <2>1, <2>2, <2>5, <2>6, <2>7, <2>8
<1>9. QED
  BY <1>6, <1>7, <1>8, HandlersStep

-----------------------------------------------------------------------------
(* The chain.                                                               *)

\* Which steps change it, and how.
LEMMA ChainChanges ==
  ASSUME [Next]_vars
  PROVE  /\ \/ UNCHANGED <<money, specOf, allowance>>
            \/ \E c \in Calls :
                 MineApprove(c) \/ MineCreateBounty(c) \/ MineFinalize(c) \/ MineCancel(c)
         /\ UNCHANGED refused \/ \E c \in Calls : MineRefused(c)
<1> DEFINE Same == UNCHANGED <<money, specOf, allowance, refused>>
<1>1. ASSUME NEW g \in Gaps, Request(g) PROVE Same
  <2>1. ASSUME NEW c \in Calls,
               (\E done \in 1..2 : Create(c, g, done)) \/ Evaluate(c, g) \/ Finalize(c, g)
                 \/ Cancel(c, g)
        PROVE  Same
    BY <2>1 DEF Create, Evaluate, Finalize, StartEvaluation, Cancel, chain
  <2>2. ASSUME NEW u \in Urls, NEW done \in 1..2, Submit(g, u, done) PROVE Same
    BY <2>2 DEF Submit, chain
  <2>3. ASSUME Consume(g) \/ Read(g) PROVE Same
    BY <2>3 DEF Consume, Read, chain
  <2>4. QED
    BY <1>1, <2>1, <2>2, <2>3 DEF Request
<1>2. ASSUME NEW c \in Calls, Handler(c) PROVE Same
  <2>1. ASSUME Approved(c) \/ VerdictCollides(c) \/ PlanFails(c) \/ Cancelled(c) \/ Throws(c)
        PROVE  Same
    BY <2>1 DEF Approved, VerdictCollides, PlanFails, Cancelled, Throws, chain
  <2>2. ASSUME NEW done, Funded(c, done) \/ Plan(c, done) \/ Finalized(c, done) PROVE Same
    BY <2>2 DEF Funded, Plan, Finalized, chain
  <2>3. ASSUME NEW verdict, NEW done, VerdictArrives(c, verdict, done) PROVE Same
    BY <2>3 DEF VerdictArrives, chain
  <2>4. QED
    BY <1>2, <2>1, <2>2, <2>3 DEF Handler
<1>3. ASSUME NEW c \in Calls, Send(c) \/ MineReverted(c) PROVE Same
  BY <1>3 DEF Send, MineReverted
<1>4. Crash \/ UNCHANGED vars \/ (\E g \in Gaps : DeadlinePasses(g)) => Same
  BY DEF Crash, DeadlinePasses, vars, chain
<1>5. ASSUME NEW c \in Calls, MineRefused(c) PROVE UNCHANGED <<money, specOf, allowance>>
  BY <1>5 DEF MineRefused
<1>6. ASSUME NEW c \in Calls,
             MineApprove(c) \/ MineCreateBounty(c) \/ MineFinalize(c) \/ MineCancel(c)
      PROVE  UNCHANGED refused
  BY <1>6 DEF MineApprove, MineCreateBounty, MineFinalize, MineCancel
<1>7. QED
  BY <1>1, <1>2, <1>3, <1>4, <1>5, <1>6 DEF Next, Transaction

\* The history of refusals grows, by bounties.
LEMMA RefusedStep ==
  ASSUME HandlersTyped, [Next]_vars, refused \subseteq BountyIds
  PROVE  refused \subseteq refused' /\ refused' \subseteq BountyIds
<1>1. ASSUME NEW c \in Calls, MineRefused(c)
      PROVE  refused \subseteq refused' /\ refused' \subseteq BountyIds
  BY <1>1 DEF MineRefused, HandlersTyped, HandlerRecord
<1>2. QED
  BY <1>1, ChainChanges

\* The chain keeps its types.
LEMMA ChainTypedStep == TypeInv /\ [Next]_vars => ChainTyped'
<1> SUFFICES ASSUME TypeInv, [Next]_vars PROVE ChainTyped'
  OBVIOUS
<1> ChainTyped /\ HandlersTyped /\ HandlersShaped
  BY DEF TypeInv
<1>0. refused' \subseteq BountyIds
  BY RefusedStep DEF ChainTyped
<1> USE DEF ChainTyped, E!TypeOK
<1>1. CASE UNCHANGED <<money, specOf, allowance>>
  BY <1>0, <1>1 DEF money
<1>2. ASSUME NEW c \in Calls, MineApprove(c) PROVE ChainTyped'
  <2>1. calls[c].gap \in Gaps /\ allowance' = Budget[calls[c].gap] /\ UNCHANGED <<money, specOf>>
    BY <1>2 DEF MineApprove, HandlersShaped
  <2>2. QED
    BY <1>0, <2>1, ServiceAssumption DEF money
<1>3. ASSUME NEW c \in Calls, MineCreateBounty(c) PROVE ChainTyped'
  <2>1. calls[c].pc = "funding" /\ calls[c].gap \in Gaps /\ calls[c].tx = "pending"
    BY <1>3 DEF MineCreateBounty, Mined, HandlersShaped
  <2>2. NextBountyId \in BountyIds /\ Budget[calls[c].gap] \in 1..MaxAmount
    BY <2>1, NextIdFresh, ServiceAssumption
  <2>3. allowance >= Budget[calls[c].gap] /\ allowance' = allowance - Budget[calls[c].gap]
    BY <1>3, <2>1 DEF MineCreateBounty, Succeeds, Covered
  <2>4. E!Fund(NextBountyId, Budget[calls[c].gap])
        /\ specOf' = [specOf EXCEPT ![NextBountyId] = calls[c].gap]
    BY <1>3 DEF MineCreateBounty
  <2>5. E!TypeOK'
    BY <2>2, <2>4, ServiceAssumption DEF E!Fund
  <2>6. allowance' \in 0..MaxAmount
    BY <2>2, <2>3, ServiceAssumption
  <2>7. specOf' \in [BountyIds -> Gaps \cup {NoGap}]
    BY <2>1, <2>4
  <2>8. QED
    BY <1>0, <2>5, <2>6, <2>7
<1>4. ASSUME NEW c \in Calls, MineFinalize(c) PROVE ChainTyped'
  <2>1. /\ calls[c].pc = "finalizing" /\ calls[c].bounty \in BountyIds
        /\ calls[c].receipt \in Receipts
    BY <1>4 DEF MineFinalize, HandlersShaped, HandlersTyped, HandlerRecord
  <2>2. calls[c].total \in 1..amount[calls[c].bounty] /\ UNCHANGED <<specOf, allowance>>
    BY <1>4, <2>1 DEF MineFinalize, Succeeds
  <2>3. E!Settle(calls[c].bounty, calls[c].total, calls[c].receipt)
    BY <1>4 DEF MineFinalize
  <2>4. amount[calls[c].bounty] \in 0..MaxAmount /\ MaxAmount \in Nat
    BY <2>1, ServiceAssumption
  <2>5. /\ calls[c].total \in 0..MaxAmount
        /\ amount[calls[c].bounty] - calls[c].total \in 0..MaxAmount
    BY <2>2, <2>4
  <2>6. E!TypeOK'
    BY <2>1, <2>3, <2>5 DEF E!Settle
  <2>7. QED
    BY <1>0, <2>2, <2>6
<1>5. ASSUME NEW c \in Calls, MineCancel(c) PROVE ChainTyped'
  <2>1. calls[c].bounty \in BountyIds /\ E!Reclaim(calls[c].bounty) /\ UNCHANGED <<specOf, allowance>>
    BY <1>5 DEF MineCancel, HandlersTyped, HandlerRecord
  <2>2. QED
    BY <1>0, <2>1, ServiceAssumption DEF E!Reclaim
<1>6. QED
  BY <1>1, <1>2, <1>3, <1>4, <1>5, ChainChanges

\* Taking a position out of the pool takes its transaction out and no other.
LEMMA RemovedFromPool ==
  ASSUME QueueMatches, NEW i \in 1..Len(mempool), mempool' = RemoveAt(mempool, i)
  PROVE  /\ mempool' \in Seq(Calls)
         /\ \A j, k \in 1..Len(mempool') : mempool'[j] = mempool'[k] => j = k
         /\ \A c \in Calls :
              (\E k \in 1..Len(mempool') : mempool'[k] = c) <=>
                c # mempool[i] /\ \E k \in 1..Len(mempool) : mempool[k] = c
<1> DEFINE n == Len(mempool)
           s == SubSeq(mempool, 1, i - 1)
           t == SubSeq(mempool, i + 1, n)
<1>1. n \in Nat /\ \A k \in 1..n : mempool[k] \in Calls
  BY LenProperties, ElementOfSeq DEF QueueMatches
<1>2. /\ s \in Seq(Calls) /\ Len(s) = i - 1
      /\ \A k \in 1..(i - 1) : s[k] = mempool[k]
  <2>1. 1 \in Int /\ i - 1 \in Int /\ \A k \in 1..(i - 1) : mempool[k] \in Calls
    BY <1>1
  <2>2. /\ s \in Seq(Calls) /\ Len(s) = IF 1 <= i - 1 THEN i - 1 - 1 + 1 ELSE 0
        /\ \A k \in 1..(i - 1 - 1 + 1) : s[k] = mempool[1 + k - 1]
    BY <2>1, SubSeqProperties
  <2>3. QED
    BY <2>2
<1>3. /\ t \in Seq(Calls) /\ Len(t) = n - i
      /\ \A k \in 1..(n - i) : t[k] = mempool[i + k]
  <2>1. i + 1 \in Int /\ n \in Int /\ \A k \in (i + 1)..n : mempool[k] \in Calls
    BY <1>1
  <2>2. /\ t \in Seq(Calls) /\ Len(t) = IF i + 1 <= n THEN n - (i + 1) + 1 ELSE 0
        /\ \A k \in 1..(n - (i + 1) + 1) : t[k] = mempool[i + 1 + k - 1]
    BY <2>1, SubSeqProperties
  <2>3. QED
    BY <1>1, <2>2
<1>4. mempool' = s \o t
  BY DEF RemoveAt
<1>5. /\ mempool' \in Seq(Calls) /\ Len(mempool') = n - 1
      /\ \A k \in 1..(n - 1) : mempool'[k] = IF k < i THEN mempool[k] ELSE mempool[k + 1]
  <2> HIDE DEF s, t
  <2>1. /\ s \o t \in Seq(Calls) /\ Len(s \o t) = Len(s) + Len(t)
        /\ \A k \in 1..(Len(s) + Len(t)) :
             (s \o t)[k] = IF k <= Len(s) THEN s[k] ELSE t[k - Len(s)]
    BY <1>2, <1>3, ConcatProperties
  <2>2. QED
    BY <1>1, <1>2, <1>3, <1>4, <2>1
<1>6. \A j, k \in 1..n : mempool[j] = mempool[k] => j = k
  BY DEF QueueMatches
<1>7. \A j, k \in 1..(n - 1) : mempool'[j] = mempool'[k] => j = k
  BY <1>1, <1>5, <1>6
<1>8. ASSUME NEW c \in Calls
      PROVE  (\E k \in 1..(n - 1) : mempool'[k] = c) <=>
               c # mempool[i] /\ \E k \in 1..n : mempool[k] = c
  <2>1. ASSUME NEW k \in 1..(n - 1), mempool'[k] = c
        PROVE  c # mempool[i] /\ \E j \in 1..n : mempool[j] = c
    BY <1>1, <1>5, <1>6, <2>1
  <2>2. ASSUME c # mempool[i], NEW k \in 1..n, mempool[k] = c
        PROVE  \E j \in 1..(n - 1) : mempool'[j] = c
    <3>1. CASE k < i
      BY <1>1, <1>5, <2>2, <3>1
    <3>2. CASE k > i
      <4>1. k - 1 \in 1..(n - 1) /\ ~(k - 1 < i) /\ (k - 1) + 1 = k
        BY <1>1, <3>2
      <4>2. mempool'[k - 1] = mempool[k]
        BY <1>5, <4>1
      <4>3. QED
        BY <2>2, <4>1, <4>2
    <3>3. QED
      BY <2>2, <3>1, <3>2
  <2>3. QED
    BY <2>1, <2>2
<1>9. QED
  BY <1>5, <1>7, <1>8

\* The pool keeps matching the transactions of the handlers.
LEMMA QueueMatchesStep == TypeInv /\ [Next]_vars => QueueMatches'
<1> SUFFICES ASSUME TypeInv, [Next]_vars PROVE QueueMatches'
  OBVIOUS
<1> QueueMatches /\ HandlersTyped /\ HandlersShaped /\ StoreTyped /\ OneMoves
  BY OneMovesStep DEF TypeInv
<1>1. ASSUME mempool' = mempool,
             \A c \in Calls : calls'[c].tx = "pending" <=> calls[c].tx = "pending"
      PROVE  QueueMatches'
  BY <1>1 DEF QueueMatches
<1>2. ASSUME NEW c \in Calls, Rests(c)
      PROVE  calls'[c].tx = "pending" <=> calls[c].tx = "pending"
  BY <1>2, IdleIsHandler DEF Rests, HandlersTyped, HandlerRecord
<1>3. CASE mempool' = mempool /\ \A c \in Calls : Rests(c)
  BY <1>1, <1>2, <1>3
<1>4. ASSUME NEW c \in Calls, \A d \in Calls \ {c} : calls'[d] = calls[d],
             mempool' = mempool, GoesOn(c) \/ \E g \in Gaps : Begins(c, g)
      PROVE  QueueMatches'
  <2>1. calls'[c].tx = "none"
    BY <1>4, GoOnKeeps, BeginKeeps
  <2>2. calls[c].tx # "pending"
    BY <1>4, IdleIsHandler DEF GoesOn, Begins, Answered, HandlersShaped
  <2>3. QED
    BY <1>1, <1>4, <2>1, <2>2
<1>5. ASSUME NEW c \in Calls, \A d \in Calls \ {c} : calls'[d] = calls[d], Sends(c)
      PROVE  QueueMatches'
  <2>1. /\ calls[c].tx = "none" /\ calls'[c].tx = "pending"
        /\ mempool' = Append(mempool, c)
    BY <1>5 DEF Sends, HandlersTyped, HandlerRecord
  <2>2. /\ mempool' \in Seq(Calls) /\ Len(mempool') = Len(mempool) + 1
        /\ \A i \in 1..Len(mempool) : mempool'[i] = mempool[i]
        /\ mempool'[Len(mempool) + 1] = c /\ Len(mempool) \in Nat
    BY <2>1, AppendProperties, LenProperties DEF QueueMatches
  <2>3. \A i \in 1..Len(mempool) : mempool[i] # c
    BY <2>1 DEF QueueMatches
  <2>4. \A i, j \in 1..Len(mempool') : mempool'[i] = mempool'[j] => i = j
    BY <2>2, <2>3 DEF QueueMatches
  <2>5. ASSUME NEW d \in Calls
        PROVE  calls'[d].tx = "pending" <=> \E i \in 1..Len(mempool') : mempool'[i] = d
    <3>1. CASE d = c
      BY <2>1, <2>2, <3>1
    <3>2. CASE d # c
      BY <1>5, <2>2, <3>2 DEF QueueMatches
    <3>3. QED
      BY <3>1, <3>2
  <2>6. QED
    BY <2>2, <2>4, <2>5 DEF QueueMatches
<1>6. ASSUME NEW c \in Calls, \A d \in Calls \ {c} : calls'[d] = calls[d],
             NEW outcome \in {"mined", "reverted"}, NEW id \in BountyIds, Mined(c, outcome, id)
      PROVE  QueueMatches'
  <2> DEFINE i == CHOOSE j \in DOMAIN mempool : mempool[j] = c
  <2>1. calls[c].tx = "pending" /\ mempool' = RemoveAt(mempool, i)
    BY <1>6 DEF Mined
  <2>2. i \in 1..Len(mempool) /\ mempool[i] = c
    BY <2>1, LenProperties DEF QueueMatches
  <2>3. calls'[c].tx # "pending"
    <3>1. calls'[c] = IF calls[c].alive
                        THEN [calls[c] EXCEPT !.tx = outcome, !.bounty = id] ELSE Idle
      BY <1>6 DEF Mined, HandlersTyped
    <3> DEFINE q == [calls[c] EXCEPT !.tx = outcome]
    <3>2. /\ q = [calls[c] EXCEPT !.tx = outcome]
          /\ calls'[c] = [q EXCEPT !.bounty = id] \/ calls'[c] = Idle
      BY <3>1, Zenon
    <3> HIDE DEF q
    <3>3. q \in HandlerRecord /\ q.tx = outcome
      BY <3>2 DEF HandlersTyped, HandlerRecord
    <3>4. QED
      BY <3>2, <3>3, IdleIsHandler DEF HandlerRecord
  <2> HIDE DEF i
  <2>4. /\ mempool' \in Seq(Calls)
        /\ \A j, k \in 1..Len(mempool') : mempool'[j] = mempool'[k] => j = k
        /\ \A d \in Calls :
             (\E k \in 1..Len(mempool') : mempool'[k] = d) <=>
               d # c /\ \E k \in 1..Len(mempool) : mempool[k] = d
    BY <2>1, <2>2, RemovedFromPool
  <2>5. QED
    BY <1>6, <2>3, <2>4 DEF QueueMatches
<1>7. QED
  BY <1>3, <1>4, <1>5, <1>6 DEF OneMoves, Step

\* A handler that creates a gap did so already, or begins with a gap that is not there.
LEMMA CreatorStep ==
  ASSUME TypeInv, [Next]_vars, NEW c \in Calls, Creates(c)'
  PROVE  \/ /\ Creates(c) /\ calls'[c].gap = calls[c].gap
            /\ calls'[c].pc = "approving" \/ ~Answered(c)' =>
                 calls[c].pc = "approving" \/ ~Answered(c)
         \/ /\ calls'[c].gap \in Gaps /\ status[calls'[c].gap] = "none"
            /\ \E g \in Gaps : Begins(c, g)
<1> StoreTyped
  BY DEF TypeInv
<1>1. CASE Kept(c)
  <2>1. /\ calls'[c].pc = calls[c].pc /\ calls'[c].gap = calls[c].gap
        /\ Answered(c) => calls'[c].tx = calls[c].tx
    BY <1>1, IdleIsHandler DEF Kept, Creates
  <2>2. QED
    BY <2>1 DEF Creates, Answered
<1>2. CASE GoesOn(c)
  BY <1>2, GoOnKeeps DEF Creates
<1>3. ASSUME NEW g \in Gaps, Begins(c, g)
      PROVE  calls'[c].gap \in Gaps /\ status[calls'[c].gap] = "none"
  BY <1>3, BeginKeeps DEF Creates
<1>4. QED
  BY <1>1, <1>2, <1>3, HandlersStep

\* At most one handler begins in a step.
LEMMA OneBegins ==
  ASSUME TypeInv, [Next]_vars, NEW c \in Calls, NEW d \in Calls,
         \E g \in Gaps : Begins(c, g), \E g \in Gaps : Begins(d, g)
  PROVE  c = d
<1> StoreTyped
  BY DEF TypeInv
<1>1. ASSUME NEW e \in Calls, \E g \in Gaps : Begins(e, g) PROVE calls[e] = Idle /\ calls'[e] # Idle
  <2>1. calls[e] = Idle
    BY <1>1 DEF Begins
  <2>2. calls'[e].pc # "idle"
    BY <1>1, BeginKeeps
  <2>3. QED
    BY <2>1, <2>2, IdleIsHandler
<1>2. ASSUME NEW e \in Calls, Rests(e), calls[e] = Idle PROVE calls'[e] = Idle
  BY <1>2, IdleIsHandler DEF Rests
<1>3. QED
  BY <1>1, <1>2, OneMovesStep DEF OneMoves, Step

\* What bounties there are.
LEMMA CreatedStep ==
  ASSUME TypeInv, [Next]_vars
  PROVE  \/ Created' = Created /\ specOf' = specOf
         \/ \E c \in Calls, id \in BountyIds :
              /\ MineCreateBounty(c) /\ calls[c].gap \in Gaps /\ calls[c].pc = "funding"
              /\ ~Answered(c) /\ id = NextBountyId
              /\ id \notin Created /\ Created' = Created \cup {id}
              /\ specOf' = [specOf EXCEPT ![id] = calls[c].gap]
<1> ChainTyped /\ HandlersTyped /\ HandlersShaped
  BY DEF TypeInv
<1>1. CASE UNCHANGED <<money, specOf, allowance>>
  BY <1>1 DEF money, Created
<1>2. ASSUME NEW c \in Calls, MineApprove(c) PROVE Created' = Created /\ specOf' = specOf
  BY <1>2 DEF MineApprove, money, Created
<1>3. ASSUME NEW c \in Calls, MineFinalize(c) PROVE Created' = Created /\ specOf' = specOf
  <2>1. calls[c].bounty \in BountyIds
    BY DEF HandlersTyped, HandlerRecord
  <2>2. /\ escrow[calls[c].bounty] = "Open" /\ specOf' = specOf
        /\ escrow' = [escrow EXCEPT ![calls[c].bounty] = "Settled"]
    BY <1>3 DEF MineFinalize, E!Settle
  <2>3. QED
    BY <2>1, <2>2 DEF Created, ChainTyped, E!TypeOK
<1>4. ASSUME NEW c \in Calls, MineCancel(c) PROVE Created' = Created /\ specOf' = specOf
  <2>1. calls[c].bounty \in BountyIds
    BY DEF HandlersTyped, HandlerRecord
  <2>2. /\ escrow[calls[c].bounty] = "Open" /\ specOf' = specOf
        /\ escrow' = [escrow EXCEPT ![calls[c].bounty] = "Cancelled"]
    BY <1>4 DEF MineCancel, E!Reclaim
  <2>3. QED
    BY <2>1, <2>2 DEF Created, ChainTyped, E!TypeOK
<1>5. ASSUME NEW c \in Calls, MineCreateBounty(c)
      PROVE  \E id \in BountyIds :
               /\ calls[c].gap \in Gaps /\ calls[c].pc = "funding"
               /\ ~Answered(c) /\ id = NextBountyId
               /\ id \notin Created /\ Created' = Created \cup {id}
               /\ specOf' = [specOf EXCEPT ![id] = calls[c].gap]
  <2>1. /\ calls[c].pc = "funding" /\ calls[c].tx = "pending" /\ calls[c].gap \in Gaps
        /\ ~Answered(c)
    BY <1>5 DEF MineCreateBounty, Mined, HandlersShaped, Answered
  <2>2. PICK id \in BountyIds : id = NextBountyId
    BY <2>1, NextIdFresh
  <2>3. /\ escrow[id] = "None" /\ escrow' = [escrow EXCEPT ![id] = "Open"]
        /\ specOf' = [specOf EXCEPT ![id] = calls[c].gap]
    BY <1>5, <2>2 DEF MineCreateBounty, E!Fund
  <2>4. Created' = Created \cup {id} /\ id \notin Created
    BY <2>3 DEF Created, ChainTyped, E!TypeOK
  <2>5. QED
    BY <2>1, <2>2, <2>3, <2>4
<1>6. QED
  BY <1>1, <1>2, <1>3, <1>4, <1>5, ChainChanges

\* Bounty ids are stored by the handler that created the gap, which then is at its end.
LEMMA BountyIdStep ==
  ASSUME TypeInv, [Next]_vars
  PROVE  \/ bountyId' = bountyId
         \/ \E d \in Calls :
              /\ Creates(d) /\ calls[d].gap \in Gaps /\ status[calls[d].gap] # "none"
              /\ calls'[d] = Idle
              /\ bountyId' = [bountyId EXCEPT ![calls[d].gap] = calls[d].bounty]
<1>1. ASSUME NEW d \in Calls, NEW done \in 1..2, Funded(d, done)
      PROVE  /\ Creates(d) /\ calls[d].gap \in Gaps /\ status[calls[d].gap] # "none"
             /\ calls'[d] = Idle
             /\ bountyId' = [bountyId EXCEPT ![calls[d].gap] = calls[d].bounty]
  <2>1. calls[d].pc = "funding" /\ calls[d].tx # "pending" /\ AfterWrites(d, done, 2, Idle)
    BY <1>1 DEF Funded, Returns, Answered
  <2>2. calls'[d] = Idle
    BY <2>1 DEF AfterWrites, Crashed, TypeInv, HandlersTyped
  <2>3. calls[d].gap \in Gaps /\ status[calls[d].gap] # "none"
    BY <2>1 DEF TypeInv, HandlersShaped
  <2>4. bountyId' = [bountyId EXCEPT ![calls[d].gap] = calls[d].bounty]
    BY <1>1 DEF Funded
  <2>5. QED
    BY <2>1, <2>2, <2>3, <2>4 DEF Creates
<1>2. QED
  BY <1>1, StoreChanges

\* A gap is still created once.
LEMMA CreatedOnceStep == TypeInv /\ [Next]_vars => CreatedOnce'
<1> SUFFICES ASSUME TypeInv, [Next]_vars PROVE CreatedOnce'
  OBVIOUS
<1> CreatedOnce /\ StoreTyped /\ HandlersTyped /\ HandlersShaped /\ ChainTyped
  BY DEF TypeInv
<1>1. \A g \in Gaps : status[g] # "none" => status'[g] # "none"
  BY StatusStep DEF StatusesStay
<1>2. \A c \in Calls : Creates(c) => calls[c].gap \in Gaps /\ status[calls[c].gap] # "none"
  BY DEF Creates, HandlersShaped
<1>3. \A id \in Created' : specOf'[id] \in Gaps /\ status'[specOf'[id]] # "none"
  BY <1>1, <1>2, CreatedStep DEF CreatedOnce, Creates, ChainTyped, Created
<1>4. \A id, other \in Created' : specOf'[id] = specOf'[other] => id = other
  BY <1>2, CreatedStep DEF CreatedOnce, Creates, ChainTyped, Created
<1>5. \A c, d \in Calls : Creates(c)' /\ Creates(d)' /\ calls'[c].gap = calls'[d].gap => c = d
  BY <1>2, CreatorStep, OneBegins DEF CreatedOnce
<1>6. \A c \in Calls : Creates(c)' => bountyId'[calls'[c].gap] = NoBounty
  <2>1. ASSUME NEW c \in Calls, Creates(c)' PROVE bountyId[calls'[c].gap] = NoBounty
    BY <2>1, CreatorStep DEF CreatedOnce
  <2>2. ASSUME NEW c \in Calls, Creates(c)', NEW d \in Calls, Creates(d), calls'[d] = Idle,
               status[calls[d].gap] # "none"
        PROVE  calls'[c].gap # calls[d].gap
    <3>1. c # d
      BY <2>2, IdleIsHandler DEF Creates
    <3>2. QED
      BY <2>2, <3>1, CreatorStep DEF CreatedOnce
  <2>3. ASSUME NEW c \in Calls, Creates(c)' PROVE bountyId'[calls'[c].gap] = NoBounty
    <3>1. calls'[c].gap \in Gaps
      BY <2>3, HandlersShapedStep DEF HandlersShaped, Creates
    <3>2. \A d \in Calls : Creates(d) /\ calls'[d] = Idle /\ status[calls[d].gap] # "none" =>
            calls'[c].gap # calls[d].gap
      BY <2>2, <2>3
    <3>3. bountyId[calls'[c].gap] = NoBounty
      BY <2>1, <2>3
    <3>4. QED
      BY <3>1, <3>2, <3>3, BountyIdStep DEF StoreTyped
  <2>4. QED
    BY <2>3
<1>7. ASSUME NEW c \in Calls, Creates(c)', calls'[c].pc = "approving" \/ ~Answered(c)',
             NEW id \in Created'
      PROVE  specOf'[id] # calls'[c].gap
  <2>1. ASSUME NEW other \in Created PROVE specOf[other] # calls'[c].gap
    BY <1>7, <2>1, CreatorStep DEF CreatedOnce
  <2>2. ASSUME NEW d \in Calls, MineCreateBounty(d), calls[d].gap \in Gaps,
               calls[d].pc = "funding"
        PROVE  calls[d].gap # calls'[c].gap
    <3>1. CASE c # d
      BY <1>2, <1>7, <2>2, <3>1, CreatorStep DEF CreatedOnce, Creates
    <3>2. CASE c = d
      <4>1. Mined(c, "mined", NextBountyId)
        BY <2>2, <3>2 DEF MineCreateBounty
      <4>2. calls'[c] = IF calls[c].alive
              THEN [calls[c] EXCEPT !.tx = "mined", !.bounty = NextBountyId] ELSE Idle
        BY <4>1 DEF Mined, HandlersTyped
      <4> DEFINE q == [calls[c] EXCEPT !.tx = "mined"]
      <4>3. /\ q = [calls[c] EXCEPT !.tx = "mined"]
            /\ calls'[c] = [q EXCEPT !.bounty = NextBountyId] \/ calls'[c] = Idle
        BY <4>2, Zenon
      <4> HIDE DEF q
      <4>4. q \in HandlerRecord /\ q.tx = "mined" /\ q.pc = "funding"
        BY <2>2, <3>2, <4>3 DEF HandlersTyped, HandlerRecord
      <4>5. calls'[c] = Idle \/ (calls'[c].tx = "mined" /\ calls'[c].pc = "funding")
        BY <4>3, <4>4 DEF HandlerRecord
      <4>6. QED
        BY <1>7, <4>5, IdleIsHandler DEF Creates, Answered
    <3>3. QED
      BY <3>1, <3>2
  <2>3. QED
    BY <1>7, <2>1, <2>2, CreatedStep DEF ChainTyped, Created
<1>8. \A g \in Gaps : status'[g] = "none" => bountyId'[g] = NoBounty
  BY <1>1, BountyIdStep DEF CreatedOnce, StoreTyped
<1>9. QED
  BY <1>3, <1>4, <1>5, <1>6, <1>7, <1>8 DEF CreatedOnce

-----------------------------------------------------------------------------
(* The invariant and the types.                                             *)

\* At first nothing is there.
LEMMA TypeInvInit == Init => TypeInv
<1> SUFFICES ASSUME Init PROVE TypeInv
  OBVIOUS
<1>1. StoreTyped
  BY IdsExist, ServiceAssumption DEF Init, StoreTyped, Statuses
<1>2. calls = [c \in Calls |-> Idle]
  BY DEF Init
<1>3. HandlersTyped /\ HandlersShaped /\ HandlersInOrder
  BY <1>2, IdleIsHandler DEF HandlersTyped, HandlersShaped, HandlersInOrder
<1>4. VerdictsInOrder
  <2>1. \A g \in Gaps : submissions[g] = <<>> /\ Evaluated(g) = {}
    BY DEF Init, Evaluated
  <2>2. \A g \in Gaps : Len(submissions[g]) = 0 /\ First(g, 0) = {}
    BY <2>1 DEF First
  <2>3. \A g \in Gaps : 0 \in 0..Len(submissions[g]) /\ Evaluated(g) = First(g, 0)
    <3>1. 0 \in 0..0
      OBVIOUS
    <3>2. QED
      BY <2>1, <2>2, <3>1, Zenon
  <2>4. \A g \in Gaps : \A i, j \in 1..Len(submissions[g]) :
           submissions[g][i] = submissions[g][j] => i = j
    BY <2>2
  <2>5. QED
    BY <2>3, <2>4, Zenon DEF VerdictsInOrder
<1>5. ChainTyped /\ Created = {}
  BY ServiceAssumption DEF Init, ChainTyped, Created, E!Init, E!TypeOK
<1>6. QueueMatches
  BY <1>2, IdleIsHandler DEF Init, QueueMatches
<1>7. CreatedOnce
  BY <1>2, <1>5, IdleIsHandler DEF Init, CreatedOnce, Creates
<1>8. QED
  BY <1>1, <1>3, <1>4, <1>5, <1>6, <1>7 DEF TypeInv

\* Every step keeps it.
LEMMA TypeInvStep == TypeInv /\ [Next]_vars => TypeInv'
  BY StoreTypedStep, HandlersTypedStep, HandlersShapedStep, VerdictsInOrderStep,
     HandlersInOrderStep, ChainTypedStep, QueueMatchesStep, CreatedOnceStep DEF TypeInv

\* The type invariant holds in every behaviour.
LEMMA TypeInvHolds == Spec => []TypeInv
  BY TypeInvInit, TypeInvStep, PTL DEF Spec

(* The types of the service (TypeOK): in particular a transaction is in the *)
(* pool exactly while a handler has it pending, and ids do not run out, for *)
(* any number of gaps and handlers.                                         *)
THEOREM ServiceTypeCorrect == Spec => []TypeOK
<1>1. TypeInv => TypeOK
  <2> SUFFICES ASSUME TypeInv PROVE TypeOK
    OBVIOUS
  <2>1. /\ mode \in Modes /\ required \in Requirements
        /\ status \in [Gaps -> Statuses]
        /\ bountyId \in [Gaps -> BountyIds \cup {NoBounty}]
        /\ \A g \in Gaps : submissions[g] \in Seq(Urls)
        /\ evaluations \in [Gaps -> [Urls -> {"none", "accepted", "rejected"}]]
        /\ \A g \in Gaps : plans[g] \in Seq(Receipts) /\ receipts[g] \in Seq(Receipts)
        /\ late \subseteq Gaps /\ nextReceipt \in 1..(MaxReceipts + 1)
    BY DEF TypeInv, StoreTyped
  <2>2. \A c \in Calls : calls[c] \in HandlerRecord
    BY DEF TypeInv, HandlersTyped
  <2>3. mempool \in Seq(Calls)
        /\ \A c \in Calls : (calls[c].tx = "pending") <=> (c \in ToSet(mempool))
    <3>1. DOMAIN mempool = 1..Len(mempool)
      BY LenProperties DEF TypeInv, QueueMatches
    <3>2. QED
      BY <3>1 DEF TypeInv, QueueMatches, ToSet
  <2>4. /\ E!TypeOK /\ specOf \in [BountyIds -> Gaps \cup {NoGap}]
        /\ allowance \in 0..MaxAmount /\ refused \subseteq BountyIds
    BY DEF TypeInv, ChainTyped
  <2>5. QED
    BY <2>1, <2>2, <2>3, <2>4 DEF TypeOK, HandlerRecord
<1>2. QED
  BY <1>1, TypeInvHolds, PTL

-----------------------------------------------------------------------------
(* Verdicts.                                                                *)

(* A verdict, once stored, stays (VerdictsFinal), for any number of         *)
(* evaluations at a time: a second verdict on a submission is refused.      *)
THEOREM VerdictsAreFinal == Spec => VerdictsFinal
<1> DEFINE Stay == \A g \in Gaps, u \in Urls :
                     evaluations[g][u] # "none" => evaluations'[g][u] = evaluations[g][u]
<1>1. TypeInv /\ [Next]_vars => Stay
  <2> SUFFICES ASSUME TypeInv, [Next]_vars PROVE Stay
    OBVIOUS
  <2>1. ASSUME NEW g \in Gaps, NEW u \in Urls, NEW done, Submit(g, u, done) PROVE Stay
    BY <2>1, SubmissionStored DEF TypeInv
  <2>2. ASSUME NEW c \in Calls, NEW verdict \in {"accepted", "rejected"}, NEW done,
               VerdictArrives(c, verdict, done)
        PROVE  Stay
    BY <2>2, VerdictStored
  <2>3. QED
    BY <2>1, <2>2, StoreChanges DEF documents
<1>2. QED
  BY <1>1, TypeInvHolds, PTL DEF Spec, VerdictsFinal

(* No two accepted submissions repeat each other, if the gap asks for that  *)
(* (AcceptedAreIndependent): as verdicts come in order, the list of prior   *)
(* submissions an evaluation started with is complete when its verdict is   *)
(* stored, or the verdict is refused.                                       *)
THEOREM EvidenceIsIndependent == Spec => []AcceptedAreIndependent
<1>1. Init => AcceptedAreIndependent
  BY DEF Init, AcceptedAreIndependent, Accepted
<1>2. TypeInv /\ AcceptedAreIndependent /\ [Next]_vars => AcceptedAreIndependent'
  <2> SUFFICES ASSUME TypeInv, AcceptedAreIndependent, [Next]_vars
               PROVE  AcceptedAreIndependent'
    OBVIOUS
  <2>0. required' = required
    BY StoreChanges DEF config
  <2>1. CASE evaluations' = evaluations
    BY <2>0, <2>1 DEF AcceptedAreIndependent, Accepted
  <2>2. ASSUME NEW c \in Calls, NEW verdict \in {"accepted", "rejected"}, NEW done,
               VerdictArrives(c, verdict, done)
        PROVE  AcceptedAreIndependent'
    <3>1. PICK g \in Gaps : g = calls[c].gap
      BY <2>2, VerdictStored
    <3>2. /\ verdict \in Verdicts(NextUp(c), calls[c].prior) /\ NextUp(c) \in Urls
          /\ \A h \in Gaps, u \in Urls :
               evaluations'[h][u] = IF h = g /\ u = NextUp(c) THEN verdict ELSE evaluations[h][u]
      BY <2>2, <3>1, VerdictStored
    <3>3. calls[c].prior = Evaluated(g)
      BY <2>2, <3>1, VerdictIsNext
    <3>4. Accepted(g) \subseteq Evaluated(g)
      BY DEF Accepted, Evaluated
    <3>5. verdict = "accepted" => \A v \in Accepted(g) :
            /\ required.unique => ContentOf[NextUp(c)] # ContentOf[v]
            /\ required.independent => DomainOf[NextUp(c)] # DomainOf[v]
      BY <3>2, <3>3, <3>4 DEF Verdicts, Repeats
    <3>6. \A h \in Gaps \ {g} : Accepted(h)' = Accepted(h)
      BY <3>2 DEF Accepted
    <3>7. \A u \in Accepted(g)' :
            u \in Accepted(g) \/ (u = NextUp(c) /\ verdict = "accepted")
      BY <3>2 DEF Accepted
    <3>8. ASSUME NEW h \in Gaps, NEW u \in Accepted(h)', NEW v \in Accepted(h)', u # v
          PROVE  /\ required.unique => ContentOf[u] # ContentOf[v]
                 /\ required.independent => DomainOf[u] # DomainOf[v]
      <4>1. CASE h # g
        BY <3>6, <3>8, <4>1 DEF AcceptedAreIndependent
      <4>2. CASE h = g
        BY <3>5, <3>7, <3>8, <4>2 DEF AcceptedAreIndependent
      <4>3. QED
        BY <4>1, <4>2
    <3>9. QED
      BY <2>0, <3>8 DEF AcceptedAreIndependent
  <2>3. QED
    BY <2>1, <2>2, StoreChanges, SubmissionStored DEF documents, TypeInv
<1>3. QED
  BY <1>1, <1>2, TypeInvHolds, PTL DEF Spec
=============================================================================
