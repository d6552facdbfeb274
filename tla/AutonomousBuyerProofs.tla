------------------------ MODULE AutonomousBuyerProofs ------------------------
(***************************************************************************)
(* Theorems about AutonomousBuyer, for any number of calls, any budgets    *)
(* and any policy.  Sums are cardinalities of sets of units, so that what  *)
(* a step adds to a sum is a block of units and no induction is needed.    *)
(***************************************************************************)
EXTENDS AutonomousBuyer, FiniteSetTheorems, Functions, TLAPS

Positions == {"idle", "estimating", "funding", "waiting", "reading", "merging",
              "answered", "failed", "lost"}

\* What the buyer's count holds for a call: its budget from the reservation on, what
\* its receipt says was paid once it has taken the refund.
Held(c) ==
  IF pc[c] \in {"funding", "lost"} \/ status[c] # "none"
    THEN IF read[c] = NoReceipt THEN budget[c] ELSE read[c]
    ELSE 0

\* As many units per call as f says.
Block(c, n) == {c} \X (1..n)
Units(f) == UNION {Block(c, f[c]) : c \in Calls}

HeldUnits == Units([c \in Calls |-> Held(c)])

Types ==
  /\ spent \in Int
  /\ pc \in [Calls -> Positions]
  /\ budget \in [Calls -> Budgets \cup {0}]
  /\ timeUp \subseteq Calls
  /\ status \in [Calls -> Final \cup {"none", "detected", "open"}]
  /\ escrow \in [Calls -> {"None", "Open", "Settled", "Cancelled"}]
  /\ paid \in [Calls -> Nat]
  /\ receipt \in [Calls -> Nat \cup {NoReceipt}] /\ read \in [Calls -> Nat \cup {NoReceipt}]

\* A gap has a history only once its request was made, and a call that waits has a gap.
Shaped ==
  \A c \in Calls :
    /\ pc[c] \in {"idle", "estimating"} => status[c] = "none"
    /\ pc[c] \in {"waiting", "reading", "merging"} => status[c] # "none"
    /\ status[c] = "none" =>
         /\ escrow[c] = "None" /\ paid[c] = 0
         /\ receipt[c] = NoReceipt /\ read[c] = NoReceipt
    /\ pc[c] \in {"funding", "lost", "waiting", "reading"} => read[c] = NoReceipt
    /\ paid[c] <= budget[c] /\ receipt[c] <= budget[c] /\ read[c] <= budget[c]

\* The count is exact, and under the cap.
Counted == spent = Cardinality(HeldUnits) /\ spent <= MaxTotalUnits

BuyerInv == Types /\ Shaped /\ Counted

-----------------------------------------------------------------------------
(* Units.                                                                   *)

\* A block has as many units as it says.
LEMMA BlockSize ==
  ASSUME NEW c, NEW n \in Nat
  PROVE  IsFiniteSet(Block(c, n)) /\ Cardinality(Block(c, n)) = n
<1>1. IsFiniteSet({c}) /\ Cardinality({c}) = 1
  BY FS_Singleton
<1>2. IsFiniteSet(1..n) /\ Cardinality(1..n) = n
  BY FS_Interval
<1>3. /\ IsFiniteSet({c} \X (1..n))
      /\ Cardinality({c} \X (1..n)) = Cardinality({c}) * Cardinality(1..n)
  BY <1>1, <1>2, FS_Product
<1>4. QED
  BY <1>1, <1>2, <1>3 DEF Block

\* All units together are finitely many.
LEMMA UnitsFinite ==
  ASSUME NEW f \in [Calls -> Nat]
  PROVE  IsFiniteSet(Units(f)) /\ Cardinality(Units(f)) \in Nat
<1> DEFINE B == {Block(c, f[c]) : c \in Calls}
           m == [c \in Calls |-> Block(c, f[c])]
<1>1. m \in Surjection(Calls, B)
  BY DEF Surjection
<1> HIDE DEF m
<1>2. IsFiniteSet(B)
  BY <1>1, BuyerAssumption, FS_Surjection
<1>3. \A b \in B : IsFiniteSet(b)
  BY BlockSize
<1>4. IsFiniteSet(UNION B)
  BY <1>2, <1>3, FS_UNION
<1>5. QED
  BY <1>4, FS_CardinalityType DEF Units

\* The units of one call, and the others.
LEMMA UnitsSplit ==
  ASSUME NEW f \in [Calls -> Nat], NEW c \in Calls
  PROVE  LET rest == UNION {Block(d, f[d]) : d \in Calls \ {c}}
         IN  /\ IsFiniteSet(rest) /\ Cardinality(rest) \in Nat
             /\ Cardinality(Units(f)) = Cardinality(rest) + f[c]
<1> DEFINE rest == UNION {Block(d, f[d]) : d \in Calls \ {c}}
<1>1. Units(f) = rest \cup Block(c, f[c])
  BY DEF Units
<1>2. rest \cap Block(c, f[c]) = {}
  BY DEF Block
<1>3. rest \in SUBSET Units(f)
  BY <1>1
<1> HIDE DEF rest
<1>4. IsFiniteSet(rest) /\ Cardinality(rest) \in Nat
  BY <1>3, UnitsFinite, FS_Subset, FS_CardinalityType
<1>5. IsFiniteSet(Block(c, f[c])) /\ Cardinality(Block(c, f[c])) = f[c]
  BY BlockSize
<1>6. Cardinality(rest \cup Block(c, f[c]))
        = Cardinality(rest) + Cardinality(Block(c, f[c])) - Cardinality(rest \cap Block(c, f[c]))
  BY <1>4, <1>5, FS_Union
<1>7. Cardinality(rest \cap Block(c, f[c])) = 0
  BY <1>2, FS_EmptySet
<1>8. QED
  BY <1>1, <1>4, <1>5, <1>6, <1>7 DEF rest

\* What one call more or less holds is what the sum changes by.
LEMMA UnitsChange ==
  ASSUME NEW f \in [Calls -> Nat], NEW h \in [Calls -> Nat], NEW c \in Calls,
         \A d \in Calls \ {c} : h[d] = f[d]
  PROVE  Cardinality(Units(h)) = Cardinality(Units(f)) - f[c] + h[c]
<1> DEFINE rest == UNION {Block(d, f[d]) : d \in Calls \ {c}}
<1>1. UNION {Block(d, h[d]) : d \in Calls \ {c}} = rest
  <2>1. \A d \in Calls \ {c} : Block(d, h[d]) = Block(d, f[d])
    OBVIOUS
  <2>2. {Block(d, h[d]) : d \in Calls \ {c}} = {Block(d, f[d]) : d \in Calls \ {c}}
    BY <2>1
  <2>3. QED
    BY <2>2
<1>2. Cardinality(rest) \in Nat /\ Cardinality(Units(f)) = Cardinality(rest) + f[c]
  BY UnitsSplit
<1>3. Cardinality(Units(h)) = Cardinality(rest) + h[c]
  BY <1>1, UnitsSplit
<1>4. QED
  BY <1>2, <1>3

-----------------------------------------------------------------------------
(* The steps.                                                               *)

\* Budgets are natural numbers, receipts too when they are there.
LEMMA NumbersTyped ==
  /\ Budgets \cup {0} \subseteq Nat /\ MaxTotalUnits \in Nat
  /\ NoReceipt \in Int /\ \A n \in Nat : NoReceipt <= n
  BY BuyerAssumption DEF NoReceipt

\* What a call holds is a number of units.
LEMMA HeldTyped == Types => \A c \in Calls : budget[c] \in Nat /\ Held(c) \in Nat
<1> SUFFICES ASSUME Types, NEW c \in Calls PROVE budget[c] \in Nat /\ Held(c) \in Nat
  OBVIOUS
<1>1. budget[c] \in Nat
  BY NumbersTyped DEF Types
<1>2. QED
  BY <1>1 DEF Types, Held

\* Likewise after a step.
LEMMA HeldTypedNext == Types' => \A c \in Calls : budget'[c] \in Nat /\ Held(c)' \in Nat
<1> SUFFICES ASSUME Types', NEW c \in Calls PROVE budget'[c] \in Nat /\ Held(c)' \in Nat
  OBVIOUS
<1>1. budget'[c] \in Nat
  BY NumbersTyped DEF Types
<1>2. QED
  BY <1>1 DEF Types, Held

\* What a step is about.
Step(c) ==
  \/ \E units \in Budgets : Ask(c, units)
  \/ Progress(c) \/ Throws(c) \/ TimePasses(c) \/ Market(c)

\* Every step keeps the types.
LEMMA TypesStep ==
  ASSUME Types, Shaped, NEW c \in Calls, Step(c)
  PROVE  Types'
<1> USE DEF Types, Positions, Goes, InMarket, ledger, call, market
<1>0. /\ Budgets \cup {0} \subseteq Nat /\ NoReceipt \in Int
      /\ \A d \in Calls : budget[d] \in Nat
  BY NumbersTyped, HeldTyped
<1>1. CASE \E units \in Budgets : Ask(c, units)
  BY <1>1 DEF Ask
<1>2. CASE Decline(c) \/ Created(c) \/ SeesFinal(c) \/ TimesOut(c) \/ FindsNoReceipt(c)
           \/ Answers(c) \/ Throws(c)
  BY <1>2 DEF Decline, Created, SeesFinal, TimesOut, FindsNoReceipt, Answers, Throws
<1>3. CASE Reserve(c)
  BY <1>0, <1>3 DEF Reserve
<1>4. CASE TakesRefund(c)
  <2>1. budget[c] \in Nat /\ receipt[c] \in Nat
    BY <1>0, <1>4 DEF TakesRefund
  <2>2. QED
    BY <1>4, <2>1 DEF TakesRefund
<1>5. CASE TimePasses(c)
  BY <1>5 DEF TimePasses
<1>6. CASE Detect(c) \/ Fund(c) \/ Open(c) \/ ShowSettled(c) \/ Consume(c) \/ Revive(c)
           \/ Expire(c) \/ Reclaim(c) \/ ShowCancelled(c)
  BY <1>6 DEF Detect, Fund, Open, ShowSettled, Consume, Revive, Expire, Reclaim,
     ShowCancelled, Final
<1>7. ASSUME NEW units \in 1..budget[c], Settle(c, units) \/ SaveReceipt(c, units)
      PROVE  Types'
  <2>1. units \in Nat
    BY <1>0
  <2>2. QED
    BY <1>7, <2>1 DEF Settle, SaveReceipt
<1>8. QED
  BY <1>1, <1>2, <1>3, <1>4, <1>5, <1>6, <1>7 DEF Step, Progress, Market

\* It is about one call, and what that one holds changes as the count does.
LEMMA HeldStep ==
  ASSUME Types, Shaped, NEW c \in Calls, Step(c)
  PROVE  /\ \A d \in Calls \ {c} : Held(d)' = Held(d)
         /\ spent' = spent - Held(c) + Held(c)'
<1> USE DEF Types, Positions, Goes, InMarket, ledger, call, market
<1>0. /\ spent \in Int /\ Held(c) \in Nat /\ budget[c] \in Nat
      /\ receipt[c] \in Nat \cup {NoReceipt}
  BY HeldTyped
<1>1. CASE \E units \in Budgets : Ask(c, units)
  BY <1>0, <1>1 DEF Ask, Held, Shaped
<1>2. CASE Decline(c) \/ Created(c) \/ SeesFinal(c) \/ TimesOut(c) \/ FindsNoReceipt(c)
           \/ Answers(c) \/ Throws(c)
  BY <1>0, <1>2 DEF Decline, Created, SeesFinal, TimesOut, FindsNoReceipt, Answers, Throws,
     Held, Shaped
<1>3. CASE Reserve(c)
  <2>1. Held(c) = 0 /\ Held(c)' = budget[c] /\ spent' = spent + budget[c]
    BY <1>3 DEF Reserve, Held, Shaped
  <2>2. \A d \in Calls \ {c} : Held(d)' = Held(d)
    BY <1>3 DEF Reserve, Held
  <2>3. QED
    BY <1>0, <2>1, <2>2
<1>4. CASE TakesRefund(c)
  <2>1. Held(c) = budget[c] /\ Held(c)' = receipt[c] /\ receipt[c] # NoReceipt
    BY <1>4 DEF TakesRefund, Held, Shaped
  <2>2. \A d \in Calls \ {c} : Held(d)' = Held(d)
    BY <1>4 DEF TakesRefund, Held
  <2>3. spent' = spent - (budget[c] - receipt[c])
    BY <1>4 DEF TakesRefund
  <2>4. QED
    BY <1>0, <2>1, <2>2, <2>3
<1>5. CASE TimePasses(c)
  BY <1>0, <1>5 DEF TimePasses, Held
<1>6. CASE Detect(c) \/ Fund(c) \/ Open(c) \/ ShowSettled(c) \/ Consume(c) \/ Revive(c)
           \/ Expire(c) \/ Reclaim(c) \/ ShowCancelled(c)
  <2>1. UNCHANGED <<spent, read, pc, budget>>
    BY <1>6 DEF Detect, Fund, Open, ShowSettled, Consume, Revive, Expire, Reclaim,
       ShowCancelled
  <2>2. \A d \in Calls \ {c} : status'[d] = status[d]
    BY <1>6 DEF Detect, Fund, Open, ShowSettled, Consume, Revive, Expire, Reclaim,
       ShowCancelled
  <2>3. pc[c] \in {"funding", "lost"} \/ (status[c] # "none" <=> status'[c] # "none")
    BY <1>6 DEF Detect, Fund, Open, ShowSettled, Consume, Revive, Expire, Reclaim,
       ShowCancelled, Final
  <2>4. QED
    BY <1>0, <2>1, <2>2, <2>3 DEF Held
<1>7. ASSUME NEW units, Settle(c, units) \/ SaveReceipt(c, units)
      PROVE  UNCHANGED <<spent, read, pc, budget, status>>
  BY <1>7 DEF Settle, SaveReceipt
<1>8. UNCHANGED <<spent, read, pc, budget, status>> =>
        /\ \A d \in Calls \ {c} : Held(d)' = Held(d)
        /\ spent' = spent - Held(c) + Held(c)'
  BY <1>0 DEF Held
<1>9. QED
  BY <1>1, <1>2, <1>3, <1>4, <1>5, <1>6, <1>7, <1>8 DEF Step, Progress, Market

\* The count stays exact.
LEMMA CountedStep ==
  ASSUME Types, Shaped, Counted, NEW c \in Calls, Step(c)
  PROVE  Counted'
<1> DEFINE f == [d \in Calls |-> Held(d)]
           h == [d \in Calls |-> Held(d)']
<1>1. f \in [Calls -> Nat] /\ h \in [Calls -> Nat]
  BY HeldTyped, HeldTypedNext, TypesStep
<1>2. /\ \A d \in Calls \ {c} : h[d] = f[d] /\ f[c] = Held(c) /\ h[c] = Held(c)'
      /\ spent' = spent - f[c] + h[c]
  BY HeldStep
<1>3. HeldUnits = Units(f) /\ HeldUnits' = Units(h)
  BY DEF HeldUnits, Units
<1> HIDE DEF f, h
<1>4. Cardinality(Units(h)) = Cardinality(Units(f)) - f[c] + h[c]
  BY <1>1, <1>2, UnitsChange
<1>5. spent' = Cardinality(HeldUnits')
  BY <1>2, <1>3, <1>4 DEF Counted
<1>6. spent' <= MaxTotalUnits
  <2>1. CASE Reserve(c)
    BY <2>1 DEF Reserve, WithinPolicy, Affordable
  <2>2. CASE TakesRefund(c)
    <3>1. receipt[c] \in Nat /\ budget[c] \in Nat /\ receipt[c] <= budget[c]
      BY <2>2, HeldTyped DEF TakesRefund, Types, Shaped
    <3>2. spent' = spent - (budget[c] - receipt[c]) /\ spent \in Int /\ spent <= MaxTotalUnits
      BY <2>2 DEF TakesRefund, Types, Counted
    <3>3. QED
      BY <3>1, <3>2, NumbersTyped
  <2>3. CASE ~Reserve(c) /\ ~TakesRefund(c)
    <3>1. spent' = spent
      BY <2>3 DEF Step, Ask, Progress, Decline, Created, SeesFinal, TimesOut, FindsNoReceipt,
         Answers, Throws, TimePasses, Market, Detect, Fund, Open, Settle, SaveReceipt,
         ShowSettled, Consume, Revive, Expire, Reclaim, ShowCancelled, ledger
    <3>2. QED
      BY <3>1 DEF Counted
  <2>4. QED
    BY <2>1, <2>2, <2>3
<1>7. QED
  BY <1>5, <1>6 DEF Counted

\* A gap keeps to the place of its call.
LEMMA ShapedStep ==
  ASSUME Types, Shaped, NEW c \in Calls, Step(c)
  PROVE  Shaped'
<1> USE DEF Types, Positions, Goes, InMarket, ledger, call, market, Shaped
<1>0. /\ \A d \in Calls : budget[d] \in Nat
      /\ Budgets \subseteq Nat /\ NoReceipt \in Int /\ \A n \in Nat : NoReceipt <= n
  BY NumbersTyped, HeldTyped
<1>1. CASE \E units \in Budgets : Ask(c, units)
  BY <1>0, <1>1 DEF Ask
<1>2. CASE Decline(c) \/ Created(c) \/ SeesFinal(c) \/ TimesOut(c) \/ FindsNoReceipt(c)
           \/ Answers(c) \/ Throws(c)
  BY <1>2 DEF Decline, Created, SeesFinal, TimesOut, FindsNoReceipt, Answers, Throws, Final
<1>3. CASE Reserve(c)
  BY <1>3 DEF Reserve
<1>4. CASE TakesRefund(c)
  BY <1>4 DEF TakesRefund
<1>5. CASE TimePasses(c)
  BY <1>5 DEF TimePasses
<1>6. CASE Detect(c) \/ Fund(c) \/ Open(c) \/ ShowSettled(c) \/ Consume(c) \/ Revive(c)
           \/ Expire(c) \/ Reclaim(c) \/ ShowCancelled(c)
  BY <1>6 DEF Detect, Fund, Open, ShowSettled, Consume, Revive, Expire, Reclaim,
     ShowCancelled, Final
<1>7. ASSUME NEW units \in 1..budget[c], Settle(c, units) \/ SaveReceipt(c, units)
      PROVE  Shaped'
  <2>1. units <= budget[c]
    BY <1>0
  <2>2. QED
    BY <1>0, <1>7, <2>1 DEF Settle, SaveReceipt
<1>8. QED
  BY <1>1, <1>2, <1>3, <1>4, <1>5, <1>6, <1>7 DEF Step, Progress, Market

\* At first nothing is held.
LEMMA BuyerInvInit == Init => BuyerInv
<1> SUFFICES ASSUME Init PROVE BuyerInv
  OBVIOUS
<1>1. Types /\ Shaped
  BY BuyerAssumption DEF Init, Types, Shaped, Positions, Final, NoReceipt
<1>2. HeldUnits = {}
  <2>1. \A c \in Calls : Held(c) = 0
    BY DEF Init, Held
  <2>2. \A c \in Calls : Block(c, 0) = {}
    BY DEF Block
  <2>3. QED
    BY <2>1, <2>2 DEF HeldUnits, Units
<1>3. Counted
  BY <1>2, FS_EmptySet, BuyerAssumption DEF Init, Counted
<1>4. QED
  BY <1>1, <1>3 DEF BuyerInv

\* Every step keeps the invariant.
LEMMA BuyerInvStep == BuyerInv /\ [Next]_vars => BuyerInv'
<1> SUFFICES ASSUME BuyerInv, [Next]_vars PROVE BuyerInv'
  OBVIOUS
<1>1. CASE UNCHANGED vars
  BY <1>1 DEF vars, ledger, call, market, BuyerInv, Types, Shaped, Counted, HeldUnits,
     Units, Held
<1>2. ASSUME NEW c \in Calls, Step(c) PROVE BuyerInv'
  BY <1>2, TypesStep, ShapedStep, CountedStep DEF BuyerInv
<1>3. QED
  BY <1>1, <1>2 DEF Next, Step

\* Hence it holds.
LEMMA BuyerInvHolds == Spec => []BuyerInv
  BY BuyerInvInit, BuyerInvStep, PTL DEF Spec

-----------------------------------------------------------------------------
(* The theorems.                                                            *)

(* The types of the buyer (TypeOK): in particular its count is never        *)
(* negative and never above its cap.                                        *)
THEOREM BuyerTypeCorrect == Spec => []TypeOK
<1>1. BuyerInv => TypeOK
  <2> SUFFICES ASSUME BuyerInv PROVE TypeOK
    OBVIOUS
  <2>1. spent \in 0..MaxTotalUnits
    <3>1. [c \in Calls |-> Held(c)] \in [Calls -> Nat]
      BY HeldTyped DEF BuyerInv
    <3>2. Cardinality(HeldUnits) \in Nat
      BY <3>1, UnitsFinite DEF HeldUnits
    <3>3. QED
      BY <3>2, BuyerAssumption DEF BuyerInv, Counted
  <2>2. \A g \in Calls :
          /\ paid[g] \in 0..budget[g]
          /\ {receipt[g], read[g]} \subseteq 0..budget[g] \cup {NoReceipt}
    BY HeldTyped DEF BuyerInv, Types, Shaped
  <2>3. QED
    BY <2>1, <2>2 DEF BuyerInv, Types, Positions, TypeOK
<1>2. QED
  BY <1>1, BuyerInvHolds, PTL

(* maxTotalUnits is a cap on the money that is out (CapHolds), for any      *)
(* number of calls at a time: every unit that is out is one that the count  *)
(* holds, as long as the receipts read are the anchored ones.               *)
THEOREM BuyerKeepsCap == Spec => []CapHolds
<1>1. BuyerInv => CapHolds
  <2> SUFFICES ASSUME BuyerInv, \A g \in Calls : ReadAnchored(g)
               PROVE  Cardinality(OutflowUnits) <= MaxTotalUnits
    BY DEF CapHolds
  <2>1. [c \in Calls |-> Held(c)] \in [Calls -> Nat]
    BY HeldTyped DEF BuyerInv
  <2>2. IsFiniteSet(HeldUnits) /\ Cardinality(HeldUnits) \in Nat
    BY <2>1, UnitsFinite DEF HeldUnits
  <2>3. ASSUME NEW g \in Calls PROVE Outflow(g) \in Nat /\ Outflow(g) <= Held(g)
    <3>1. /\ budget[g] \in Nat /\ paid[g] \in Nat /\ paid[g] <= budget[g]
          /\ read[g] \in Nat \cup {NoReceipt}
          /\ status[g] = "none" => escrow[g] = "None"
      BY HeldTyped DEF BuyerInv, Types, Shaped
    <3>2. read[g] # NoReceipt => escrow[g] = "Settled" /\ paid[g] = read[g]
      BY DEF ReadAnchored
    <3>3. Held(g) \in Nat
      BY HeldTyped DEF BuyerInv
    <3>4. QED
      BY <3>1, <3>2, <3>3 DEF Outflow, Held
  <2>4. OutflowUnits \in SUBSET HeldUnits
    <3>1. \A g \in Calls : {g} \X (1..Outflow(g)) \subseteq Block(g, Held(g))
      <4>1. \A g \in Calls : 1..Outflow(g) \subseteq 1..Held(g)
        BY <2>1, <2>3
      <4>2. QED
        BY <4>1 DEF Block
    <3>2. QED
      BY <3>1 DEF OutflowUnits, HeldUnits, Units
  <2>5. Cardinality(OutflowUnits) <= Cardinality(HeldUnits) /\ Cardinality(OutflowUnits) \in Nat
    BY <2>2, <2>4, FS_Subset, FS_CardinalityType
  <2>6. QED
    BY <2>2, <2>5, BuyerAssumption DEF BuyerInv, Counted
<1>2. QED
  BY <1>1, BuyerInvHolds, PTL
=============================================================================
