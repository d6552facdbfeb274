-------------------------- MODULE GapBountyProofs --------------------------
(***************************************************************************)
(* Proofs about GapBounty for every set of users and hashes and every      *)
(* bound.  The sum of the open escrows is the cardinality of the set       *)
(* EscrowedUnits, so that creating, settling and cancelling a bounty add   *)
(* or remove the block of units {id} \X (1..amount) of one bounty.         *)
(***************************************************************************)
EXTENDS GapBounty, FiniteSetTheorems, TLAPS

USE DEF ZeroAddress, Addresses, AnyAddress, BountyIds, NoBounty

-----------------------------------------------------------------------------
(* Type correctness.                                                        *)

\* The entry that createBounty writes is a bounty.
LEMMA MissingBountyType == MissingBounty \in Bounty
  BY HashAssumption, BoundAssumption, AddressAssumption DEF MissingBounty, Bounty

\* A transfer of what the sender has leaves every balance a natural number.
LEMMA MoveType ==
  ASSUME balance \in [Addresses -> Nat], NEW from \in Addresses, NEW to \in Addresses,
         NEW amount \in Nat, balance[from] >= amount
  PROVE  Move(from, to, amount) \in [Addresses -> Nat]
<1>1. \A a \in Addresses : balance[a] \in Nat
  OBVIOUS
<1>2. balance[from] - amount \in Nat
  BY <1>1
<1>3. [balance EXCEPT ![from] = @ - amount] \in [Addresses -> Nat]
  BY <1>2
<1>4. QED
  BY <1>3 DEF Move

\* The fields that commitEvidence, finalize and cancel assign.
LEMMA BountyUpdate ==
  ASSUME NEW b \in Bounty
  PROVE  /\ \A s \in {"Open", "Settled", "Cancelled"} : [b EXCEPT !.state = s] \in Bounty
         /\ \A p \in PlanHashes, r \in ReceiptHashes :
              [b EXCEPT !.state = "Settled", !.settlementHash = p, !.receiptHash = r] \in Bounty
         /\ \A n \in 0..MaxCap : [b EXCEPT !.commitments = n] \in Bounty
  BY DEF Bounty

\* What finalize credits to an address is a natural number.
LEMMA PayoutToType ==
  ASSUME NEW recipients \in Vectors(AnyAddress), NEW amounts \in Vectors(0..MaxAmount),
         Len(recipients) = Len(amounts), NEW a
  PROVE  PayoutTo(recipients, amounts, a) \in Nat
<1>1. PICK m \in 0..MaxPayouts : recipients \in [1..m -> AnyAddress]
  BY DEF Vectors
<1>2. PICK n \in 0..MaxPayouts : amounts \in [1..n -> 0..MaxAmount]
  BY DEF Vectors
<1>3. m = n
  BY <1>1, <1>2, BoundAssumption
<1>4. \A i \in DOMAIN recipients : amounts[i] \in Nat
  BY <1>1, <1>2, <1>3, BoundAssumption
<1>5. CASE \E i \in DOMAIN recipients : recipients[i] = a
  <2>1. (CHOOSE i \in DOMAIN recipients : recipients[i] = a) \in DOMAIN recipients
    BY <1>5
  <2>2. QED
    BY <1>4, <1>5, <2>1 DEF PayoutTo
<1>6. CASE ~ \E i \in DOMAIN recipients : recipients[i] = a
  BY <1>6 DEF PayoutTo
<1>7. QED
  BY <1>5, <1>6

\* The initial state has the right types.
LEMMA InitType == Init => TypeOK
  BY MissingBountyType, AddressAssumption, HashAssumption, BoundAssumption
     DEF Init, TypeOK

\* createBounty keeps the types.
LEMMA CreateBountyType ==
  ASSUME TypeOK, NEW u \in Users, NEW h \in SpecHashes \cup {ZeroHash}, NEW v \in AnyAddress,
         NEW amount \in 0..MaxAmount, NEW deadline \in 0..(MaxTime - 1), NEW cap \in 0..MaxCap,
         CreateBounty(u, h, v, amount, deadline, cap)
  PROVE  TypeOK'
<1> USE AddressAssumption, BoundAssumption
<1>1. nextBountyId \in BountyIds
  BY DEF CreateBounty, TypeOK
<1>2. bounties' \in [BountyIds -> Bounty]
  <2> DEFINE b == [requester |-> u, verifier |-> v, amount |-> amount,
                   deadline |-> deadline, state |-> "Open", specHash |-> h,
                   settlementHash |-> ZeroHash, receiptHash |-> ZeroHash,
                   commitments |-> 0, maxCommitments |-> cap]
  <2>1. b \in Bounty
    BY DEF Bounty
  <2>2. bounties' = [bounties EXCEPT ![nextBountyId] = b]
    BY DEF CreateBounty
  <2> HIDE DEF b
  <2>3. QED
    BY <1>1, <2>1, <2>2 DEF TypeOK
<1>3. balance' \in [Addresses -> Nat]
  <2>1. balance \in [Addresses -> Nat] /\ u \in Addresses /\ Contract \in Addresses /\ amount \in Nat
    BY DEF TypeOK
  <2>2. balance[u] >= amount /\ balance' = Move(u, Contract, amount)
    BY DEF CreateBounty
  <2>3. QED
    BY <2>1, <2>2, MoveType
<1>4. allowance' \in [Users -> 0..MaxAmount]
  BY DEF CreateBounty, TypeOK
<1>5. nextBountyId' \in 0..MaxBounties
  BY <1>1 DEF CreateBounty
<1>6. UNCHANGED <<now, commitments, anchors, blocked, paid, refunded>>
  BY DEF CreateBounty, logVars
<1>7. QED
  BY <1>2, <1>3, <1>4, <1>5, <1>6 DEF TypeOK

\* commitEvidence keeps the types: the unchecked counter stays below the cap.
LEMMA CommitEvidenceType ==
  ASSUME TypeOK, NEW u \in Users, NEW id \in BountyIds, NEW h \in EvidenceHashes,
         CommitEvidence(u, id, h)
  PROVE  TypeOK'
<1> USE AddressAssumption, BoundAssumption
<1>1. bounties[id].commitments + 1 \in 0..MaxCap
  BY DEF CommitEvidence, HasRoom, TypeOK, Bounty
<1>2. bounties' \in [BountyIds -> Bounty]
  <2>1. bounties[id] \in Bounty
    BY DEF TypeOK
  <2>2. [bounties[id] EXCEPT !.commitments = bounties[id].commitments + 1] \in Bounty
    BY <1>1, <2>1, BountyUpdate
  <2>3. bounties' = [bounties EXCEPT ![id] =
                       [bounties[id] EXCEPT !.commitments = bounties[id].commitments + 1]]
    BY DEF CommitEvidence
  <2>4. QED
    BY <2>2, <2>3 DEF TypeOK
<1>3. commitments' \in [BountyIds -> [EvidenceHashes -> Users \cup {ZeroAddress}]]
  BY DEF CommitEvidence, TypeOK
<1>4. QED
  BY <1>2, <1>3 DEF CommitEvidence, TypeOK, tokenVars, logVars

\* finalize keeps the types: the refund is not negative and the contract's
\* balance covers all it sends.
LEMMA FinalizeType ==
  ASSUME TypeOK, NEW u \in Users, NEW id \in BountyIds,
         NEW recipients \in Vectors(AnyAddress), NEW amounts \in Vectors(0..MaxAmount),
         NEW p \in PlanHashes, NEW r \in ReceiptHashes,
         Finalize(u, id, recipients, amounts, p, r)
  PROVE  TypeOK'
<1> DEFINE total == Total(amounts)
           refund == RefundOf(bounties[id].amount, total)
<1> USE AddressAssumption, BoundAssumption
<1>1. total \in 0..bounties[id].amount
  BY DEF Finalize
<1>2. bounties[id].amount \in 0..MaxAmount
  BY DEF TypeOK, Bounty
<1>3. total \in 0..MaxAmount /\ refund \in 0..MaxAmount
  BY <1>1, <1>2 DEF RefundOf
<1>4. bounties' \in [BountyIds -> Bounty]
  BY BountyUpdate DEF Finalize, TypeOK
<1>5. balance' \in [Addresses -> Nat]
  <2>1. SUFFICES ASSUME NEW a \in Addresses
                 PROVE  balance[a] + PayoutTo(recipients, amounts, a)
                          + (IF a = bounties[id].requester THEN refund ELSE 0)
                          - (IF a = Contract THEN total + refund ELSE 0) \in Nat
    BY Zenon DEF Finalize
  <2>2. PayoutTo(recipients, amounts, a) \in Nat
    BY PayoutToType DEF Finalize, CanonicalPayouts
  <2>3. balance[Contract] >= total + refund
    BY DEF Finalize
  <2> HIDE DEF total, refund
  <2>4. QED
    BY <1>3, <2>2, <2>3 DEF TypeOK
<1>6. anchors' \in [ReceiptHashes -> BountyIds \cup {NoBounty}]
  BY DEF Finalize, TypeOK
<1>7. paid' \in [BountyIds -> 0..MaxAmount] /\ refunded' \in [BountyIds -> 0..MaxAmount]
  BY <1>3 DEF Finalize, TypeOK
<1>8. QED
  BY <1>4, <1>5, <1>6, <1>7 DEF Finalize, TypeOK

\* cancel keeps the types.
LEMMA CancelType ==
  ASSUME TypeOK, NEW u \in Users, NEW id \in BountyIds, Cancel(u, id)
  PROVE  TypeOK'
<1> USE AddressAssumption, BoundAssumption
<1>1. bounties' \in [BountyIds -> Bounty]
  BY BountyUpdate DEF Cancel, TypeOK
<1>2. bounties[id].amount \in 0..MaxAmount /\ bounties[id].requester \in Users
  BY DEF Cancel, MayCancel, TypeOK, Bounty
<1>3. balance' \in [Addresses -> Nat]
  <2>1. balance \in [Addresses -> Nat] /\ Contract \in Addresses /\ bounties[id].requester \in Addresses
    BY <1>2 DEF TypeOK
  <2>2. /\ balance[Contract] >= bounties[id].amount
        /\ balance' = Move(Contract, bounties[id].requester, bounties[id].amount)
    BY DEF Cancel
  <2>3. bounties[id].amount \in Nat
    BY <1>2
  <2>4. QED
    BY <2>1, <2>2, <2>3, MoveType
<1>4. QED
  BY <1>1, <1>2, <1>3 DEF Cancel, TypeOK

\* Every step keeps the types.
LEMMA StepType == TypeOK /\ [Next]_vars => TypeOK'
<1> SUFFICES ASSUME TypeOK, [Next]_vars PROVE TypeOK'
  OBVIOUS
<1> USE AddressAssumption, BoundAssumption
<1>1. ASSUME NEW u \in Requesters, RequesterStep(u) PROVE TypeOK'
  <2>1. ASSUME NEW amount \in 0..MaxAmount, Approve(u, amount) PROVE TypeOK'
    BY <2>1 DEF Approve, TypeOK, chainVars, logVars
  <2>2. ASSUME NEW h \in SpecHashes \cup {ZeroHash}, NEW v \in Verifiers, NEW amount \in 0..MaxAmount,
               NEW deadline \in 0..(MaxTime - 1), NEW cap \in 0..MaxCap,
               CreateBounty(u, h, v, amount, deadline, cap)
        PROVE  TypeOK'
    BY <2>2, CreateBountyType
  <2>3. QED
    BY <1>1, <2>1, <2>2 DEF RequesterStep
<1>2. ASSUME NEW u \in Users, UserStep(u) PROVE TypeOK'
  <2>1. ASSUME NEW to \in TransferTargets, NEW amount \in 1..MaxAmount, Transfer(u, to, amount)
        PROVE  TypeOK'
    <3>1. balance \in [Addresses -> Nat] /\ u \in Addresses /\ to \in Addresses /\ amount \in Nat
      BY DEF TypeOK
    <3>2. balance' \in [Addresses -> Nat]
      BY <2>1, <3>1, MoveType DEF Transfer
    <3>3. QED
      BY <2>1, <3>2 DEF Transfer, TypeOK, chainVars, logVars
  <2>2. ASSUME NEW id \in BountyIds, NEW h \in EvidenceHashes, CommitEvidence(u, id, h)
        PROVE  TypeOK'
    BY <2>2, CommitEvidenceType
  <2>3. ASSUME NEW id \in BountyIds,
               NEW recipients \in Vectors(AnyAddress), NEW amounts \in Vectors(0..MaxAmount),
               NEW p \in PlanHashes, NEW r \in ReceiptHashes,
               Finalize(u, id, recipients, amounts, p, r)
        PROVE  TypeOK'
    BY <2>3, FinalizeType
  <2>4. ASSUME NEW id \in BountyIds, Cancel(u, id) PROVE TypeOK'
    BY <2>4, CancelType
  <2>5. QED
    BY <1>2, <2>1, <2>2, <2>3, <2>4 DEF UserStep
<1>3. ASSUME NEW u \in Blockable, SetBlocked(u) PROVE TypeOK'
  BY <1>3 DEF SetBlocked, TypeOK, chainVars, logVars
<1>4. CASE Tick
  BY <1>4 DEF Tick, TypeOK, chainVars, tokenVars, logVars
<1>5. CASE UNCHANGED vars
  BY <1>5 DEF TypeOK, vars, chainVars, tokenVars, logVars
<1>6. QED
  BY <1>1, <1>2, <1>3, <1>4, <1>5 DEF Next

\* Every reachable state of the contracts is well typed: no balance, refund or
\* counter leaves its range (checked arithmetic in the code).
THEOREM TypeCorrect == Spec => []TypeOK
  BY InitType, StepType, PTL DEF Spec

-----------------------------------------------------------------------------
(* What a step does to the bounties, the registry and the contract's money. *)
(* There are five cases; the proofs below reason about them and not about   *)
(* the actions.                                                             *)

\* Identifiers are handed out in order: what is above the counter was never
\* written, so createBounty overwrites nothing.
Unwritten ==
  \A id \in BountyIds : id >= nextBountyId =>
    /\ bounties[id] = MissingBounty
    /\ commitments[id] = [h \in EvidenceHashes |-> ZeroAddress]

\* The entries of all other bounties stay.
OthersKept(id) == \A other \in BountyIds \ {id} : bounties'[other] = bounties[other]

\* Those fields of an entry that no function but createBounty assigns stay.
TermsKept(id) ==
  /\ bounties'[id].requester = bounties[id].requester
  /\ bounties'[id].amount = bounties[id].amount
  /\ bounties'[id].deadline = bounties[id].deadline
  /\ bounties'[id].maxCommitments = bounties[id].maxCommitments

Created(id, u, amount, cap) ==
  /\ id = nextBountyId
  /\ nextBountyId' = nextBountyId + 1
  /\ bounties[id] = MissingBounty
  /\ commitments[id] = [e \in EvidenceHashes |-> ZeroAddress]
  /\ bounties'[id].requester = u
  /\ bounties'[id].amount = amount
  /\ bounties'[id].state = "Open"
  /\ bounties'[id].receiptHash = ZeroHash
  /\ bounties'[id].commitments = 0
  /\ bounties'[id].maxCommitments = cap
  /\ OthersKept(id)
  /\ balance'[Contract] = balance[Contract] + amount
  /\ UNCHANGED <<commitments, anchors, paid, refunded>>

Committed(id, u, h) ==
  /\ Escrowed(id)
  /\ now <= bounties[id].deadline
  /\ TermsKept(id)
  /\ bounties'[id].state = bounties[id].state
  /\ bounties'[id].receiptHash = bounties[id].receiptHash
  /\ bounties[id].commitments < bounties[id].maxCommitments
  /\ bounties'[id].commitments = bounties[id].commitments + 1
  /\ OthersKept(id)
  /\ commitments[id][h] = ZeroAddress
  /\ commitments' = [commitments EXCEPT ![id][h] = u]
  /\ UNCHANGED <<nextBountyId, anchors, balance, paid, refunded>>

Settled(id, total, r) ==
  /\ Escrowed(id)
  /\ TermsKept(id)
  /\ bounties'[id].state = "Settled"
  /\ bounties'[id].receiptHash = r
  /\ bounties'[id].commitments = bounties[id].commitments
  /\ OthersKept(id)
  /\ anchors[r] = NoBounty
  /\ anchors' = [anchors EXCEPT ![r] = id]
  /\ total <= bounties[id].amount
  /\ paid' = [paid EXCEPT ![id] = total]
  /\ refunded' = [refunded EXCEPT ![id] = bounties[id].amount - total]
  /\ balance'[Contract] >= balance[Contract] - bounties[id].amount
  /\ UNCHANGED <<nextBountyId, commitments>>

Cancelled(id) ==
  /\ Escrowed(id)
  /\ TermsKept(id)
  /\ bounties'[id].state = "Cancelled"
  /\ bounties'[id].receiptHash = bounties[id].receiptHash
  /\ bounties'[id].commitments = bounties[id].commitments
  /\ OthersKept(id)
  /\ refunded' = [refunded EXCEPT ![id] = bounties[id].amount]
  /\ balance'[Contract] = balance[Contract] - bounties[id].amount
  /\ UNCHANGED <<nextBountyId, commitments, anchors, paid>>

Quiet ==
  /\ balance'[Contract] >= balance[Contract]
  /\ UNCHANGED <<nextBountyId, bounties, commitments, anchors, paid, refunded>>

\* createBounty writes a fresh entry and receives its amount.
LEMMA CreateBountyEffect ==
  ASSUME TypeOK, Unwritten, NEW u \in Users, NEW h \in SpecHashes \cup {ZeroHash},
         NEW v \in AnyAddress, NEW amount \in 0..MaxAmount,
         NEW deadline \in 0..(MaxTime - 1), NEW cap \in 0..MaxCap,
         CreateBounty(u, h, v, amount, deadline, cap)
  PROVE  nextBountyId \in BountyIds /\ amount > 0 /\ Created(nextBountyId, u, amount, cap)
<1>1. nextBountyId \in BountyIds
  BY BoundAssumption DEF CreateBounty, TypeOK
<1>2. OthersKept(nextBountyId)
  BY <1>1 DEF CreateBounty, TypeOK, OthersKept
<1>3. amount > 0
  BY BoundAssumption DEF CreateBounty
<1>4. bounties[nextBountyId] = MissingBounty
      /\ commitments[nextBountyId] = [e \in EvidenceHashes |-> ZeroAddress]
  BY <1>1, BoundAssumption DEF Unwritten
<1>5. balance'[Contract] = balance[Contract] + amount
  BY AddressAssumption DEF CreateBounty, Move, TypeOK
<1>6. QED
  BY <1>1, <1>2, <1>3, <1>4, <1>5 DEF CreateBounty, TypeOK, logVars, Created

\* commitEvidence adds one hash to one open bounty, within its deadline.
LEMMA CommitEvidenceEffect ==
  ASSUME TypeOK, NEW u \in Users, NEW id \in BountyIds, NEW h \in EvidenceHashes,
         CommitEvidence(u, id, h)
  PROVE  Committed(id, u, h)
<1>1. bounties[id] \in Bounty
  BY DEF TypeOK
<1>2. bounties'[id] = [bounties[id] EXCEPT !.commitments = bounties[id].commitments + 1]
      /\ OthersKept(id)
  BY DEF CommitEvidence, TypeOK, OthersKept
<1>3. TermsKept(id)
      /\ bounties'[id].state = bounties[id].state
      /\ bounties'[id].receiptHash = bounties[id].receiptHash
      /\ bounties'[id].commitments = bounties[id].commitments + 1
  BY <1>1, <1>2 DEF Bounty, TermsKept
<1>4. QED
  BY <1>2, <1>3
     DEF CommitEvidence, GetOpen, HasRoom, Uncommitted, WithinDeadline, Escrowed, tokenVars,
         logVars, Committed

\* finalize closes one open bounty under a receipt that was not anchored, and
\* sends no more than its amount.
LEMMA FinalizeEffect ==
  ASSUME TypeOK, NEW u \in Users, NEW id \in BountyIds,
         NEW recipients \in Vectors(AnyAddress), NEW amounts \in Vectors(0..MaxAmount),
         NEW p \in PlanHashes, NEW r \in ReceiptHashes,
         Finalize(u, id, recipients, amounts, p, r)
  PROVE  Total(amounts) \in 0..MaxAmount /\ Settled(id, Total(amounts), r)
<1> DEFINE total == Total(amounts)
           refund == RefundOf(bounties[id].amount, total)
<1>1. bounties[id] \in Bounty
  BY DEF TypeOK
<1>2. bounties' = [bounties EXCEPT ![id] =
                     [bounties[id] EXCEPT !.state = "Settled", !.settlementHash = p,
                                          !.receiptHash = r]]
  BY DEF Finalize
<1>3. bounties'[id] = [bounties[id] EXCEPT !.state = "Settled", !.settlementHash = p,
                                           !.receiptHash = r]
      /\ OthersKept(id)
  BY <1>2 DEF TypeOK, OthersKept
<1>4. TermsKept(id) /\ bounties'[id].state = "Settled" /\ bounties'[id].receiptHash = r
      /\ bounties'[id].commitments = bounties[id].commitments
  BY <1>1, <1>3 DEF Bounty, TermsKept
<1>5. total \in 0..bounties[id].amount /\ bounties[id].amount \in 0..MaxAmount
  BY <1>1 DEF Finalize, Bounty
<1>6. refund = bounties[id].amount - total
  BY DEF RefundOf
<1>7. balance'[Contract] >= balance[Contract] - bounties[id].amount
  <2>1. PayoutTo(recipients, amounts, Contract) \in Nat
    BY PayoutToType DEF Finalize, CanonicalPayouts
  <2>2. bounties[id].requester # Contract
    BY <1>1, AddressAssumption DEF Bounty
  <2>3. balance'[Contract] = balance[Contract] + PayoutTo(recipients, amounts, Contract)
          + (IF Contract = bounties[id].requester THEN refund ELSE 0)
          - (IF Contract = Contract THEN total + refund ELSE 0)
    BY DEF Finalize
  <2>4. balance[Contract] \in Nat
    BY DEF TypeOK
  <2> HIDE DEF total, refund
  <2>5. QED
    BY <1>5, <1>6, <2>1, <2>2, <2>3, <2>4, BoundAssumption
<1>8. Escrowed(id) /\ anchors[r] = NoBounty /\ anchors' = [anchors EXCEPT ![r] = id]
      /\ paid' = [paid EXCEPT ![id] = total] /\ refunded' = [refunded EXCEPT ![id] = refund]
      /\ UNCHANGED <<nextBountyId, commitments>>
  BY DEF Finalize, GetOpen, CanAnchor, Escrowed
<1> HIDE DEF refund
<1>9. QED
  BY <1>3, <1>4, <1>5, <1>6, <1>7, <1>8, BoundAssumption DEF Settled

\* cancel closes one open bounty and sends its amount back.
LEMMA CancelEffect ==
  ASSUME TypeOK, NEW u \in Users, NEW id \in BountyIds, Cancel(u, id)
  PROVE  Cancelled(id)
<1>1. bounties[id] \in Bounty
  BY DEF TypeOK
<1>2. bounties'[id] = [bounties[id] EXCEPT !.state = "Cancelled"] /\ OthersKept(id)
  BY DEF Cancel, TypeOK, OthersKept
<1>3. TermsKept(id) /\ bounties'[id].state = "Cancelled"
      /\ bounties'[id].receiptHash = bounties[id].receiptHash
      /\ bounties'[id].commitments = bounties[id].commitments
  BY <1>1, <1>2 DEF Bounty, TermsKept
<1>4. balance'[Contract] = balance[Contract] - bounties[id].amount
  <2>1. bounties[id].requester \in Users
    BY <1>1 DEF Bounty, Cancel, GetOpen
  <2>2. balance' = Move(Contract, bounties[id].requester, bounties[id].amount)
    BY DEF Cancel
  <2>3. QED
    BY <2>1, <2>2, AddressAssumption DEF Move, TypeOK
<1>5. QED
  BY <1>2, <1>3, <1>4 DEF Cancel, GetOpen, Escrowed, Cancelled

\* Every step is one of the five.
LEMMA NextEffects ==
  ASSUME TypeOK, Unwritten, [Next]_vars
  PROVE  \/ \E id \in BountyIds, u \in Users, amount \in 1..MaxAmount, cap \in 0..MaxCap :
              Created(id, u, amount, cap)
         \/ \E id \in BountyIds, u \in Users, h \in EvidenceHashes : Committed(id, u, h)
         \/ \E id \in BountyIds, total \in 0..MaxAmount, r \in ReceiptHashes : Settled(id, total, r)
         \/ \E id \in BountyIds : Cancelled(id)
         \/ Quiet
<1> DEFINE Effects ==
         \/ \E id \in BountyIds, u \in Users, amount \in 1..MaxAmount, cap \in 0..MaxCap :
              Created(id, u, amount, cap)
         \/ \E id \in BountyIds, u \in Users, h \in EvidenceHashes : Committed(id, u, h)
         \/ \E id \in BountyIds, total \in 0..MaxAmount, r \in ReceiptHashes : Settled(id, total, r)
         \/ \E id \in BountyIds : Cancelled(id)
         \/ Quiet
<1>0. \A a \in Addresses : balance[a] \in Nat
  BY DEF TypeOK
<1>1. ASSUME NEW u \in Requesters, RequesterStep(u) PROVE Effects
  <2>1. ASSUME NEW amount \in 0..MaxAmount, Approve(u, amount) PROVE Quiet
    BY <1>0, <2>1 DEF Approve, chainVars, logVars, Quiet
  <2>2. ASSUME NEW h \in SpecHashes \cup {ZeroHash}, NEW v \in Verifiers, NEW amount \in 0..MaxAmount,
               NEW deadline \in 0..(MaxTime - 1), NEW cap \in 0..MaxCap,
               CreateBounty(u, h, v, amount, deadline, cap)
        PROVE  Effects
    <3>1. u \in Users /\ v \in AnyAddress
      BY AddressAssumption
    <3>2. amount \in 1..MaxAmount /\ nextBountyId \in BountyIds
          /\ Created(nextBountyId, u, amount, cap)
      BY <2>2, <3>1, CreateBountyEffect
    <3>3. QED
      BY <3>1, <3>2
  <2>3. QED
    BY <1>1, <2>1, <2>2 DEF RequesterStep
<1>2. ASSUME NEW u \in Users, UserStep(u) PROVE Effects
  <2>1. ASSUME NEW to \in TransferTargets, NEW amount \in 1..MaxAmount, Transfer(u, to, amount)
        PROVE  Quiet
    <3>1. balance'[Contract] = IF to = Contract THEN balance[Contract] + amount ELSE balance[Contract]
      BY <1>0, <2>1, AddressAssumption DEF Transfer, Move, TypeOK
    <3>2. amount \in Nat
      BY BoundAssumption
    <3>3. QED
      BY <1>0, <2>1, <3>1, <3>2 DEF Transfer, chainVars, logVars, Quiet
  <2>2. ASSUME NEW id \in BountyIds, NEW h \in EvidenceHashes, CommitEvidence(u, id, h)
        PROVE  Effects
    BY <2>2, CommitEvidenceEffect
  <2>3. ASSUME NEW id \in BountyIds,
               NEW recipients \in Vectors(AnyAddress), NEW amounts \in Vectors(0..MaxAmount),
               NEW p \in PlanHashes, NEW r \in ReceiptHashes,
               Finalize(u, id, recipients, amounts, p, r)
        PROVE  Effects
    BY <2>3, FinalizeEffect
  <2>4. ASSUME NEW id \in BountyIds, Cancel(u, id) PROVE Effects
    BY <2>4, CancelEffect
  <2>5. QED
    BY <1>2, <2>1, <2>2, <2>3, <2>4 DEF UserStep
<1>3. ASSUME NEW u \in Blockable, SetBlocked(u) PROVE Quiet
  BY <1>0, <1>3 DEF SetBlocked, chainVars, logVars, Quiet
<1>4. ASSUME Tick \/ UNCHANGED vars PROVE Quiet
  BY <1>0, <1>4 DEF Tick, vars, chainVars, tokenVars, logVars, Quiet
<1>5. QED
  BY <1>1, <1>2, <1>3, <1>4 DEF Next

-----------------------------------------------------------------------------
(* The invariants.                                                          *)

\* A bounty that is not settled has no receipt.
NoReceiptYet ==
  \A id \in BountyIds : bounties[id].state # "Settled" => bounties[id].receiptHash = ZeroHash

\* Identifiers stay in order.
LEMMA UnwrittenStep == TypeOK /\ Unwritten /\ [Next]_vars => Unwritten'
<1> SUFFICES ASSUME TypeOK, Unwritten, [Next]_vars PROVE Unwritten'
  OBVIOUS
<1>0. nextBountyId \in Nat /\ \A id \in BountyIds : id \in Int
  BY BoundAssumption DEF TypeOK
<1>1. \A id \in BountyIds : Escrowed(id) => id < nextBountyId
  BY <1>0 DEF Unwritten, Escrowed, MissingBounty
<1>2. ASSUME NEW id \in BountyIds, NEW u, NEW amount, NEW cap, Created(id, u, amount, cap)
      PROVE  Unwritten'
  BY <1>0, <1>2 DEF Unwritten, Created, OthersKept
<1>3. ASSUME NEW id \in BountyIds, NEW u, NEW h, Committed(id, u, h) PROVE Unwritten'
  <2>1. \A other \in BountyIds \ {id} : commitments'[other] = commitments[other]
    BY <1>3 DEF Committed, TypeOK
  <2>2. QED
    BY <1>0, <1>1, <1>3, <2>1 DEF Unwritten, Committed, OthersKept
<1>4. ASSUME NEW id \in BountyIds, NEW total, NEW r, Settled(id, total, r) PROVE Unwritten'
  BY <1>0, <1>1, <1>4 DEF Unwritten, Settled, OthersKept
<1>5. ASSUME NEW id \in BountyIds, Cancelled(id) PROVE Unwritten'
  BY <1>0, <1>1, <1>5 DEF Unwritten, Cancelled, OthersKept
<1>6. CASE Quiet
  BY <1>6 DEF Unwritten, Quiet
<1>7. QED
  BY <1>2, <1>3, <1>4, <1>5, <1>6, NextEffects

\* Only settling a bounty gives it a receipt.
LEMMA NoReceiptYetStep == TypeOK /\ Unwritten /\ NoReceiptYet /\ [Next]_vars => NoReceiptYet'
<1> SUFFICES ASSUME TypeOK, Unwritten, NoReceiptYet, [Next]_vars PROVE NoReceiptYet'
  OBVIOUS
<1>1. ASSUME NEW id \in BountyIds, NEW u, NEW amount, NEW cap, Created(id, u, amount, cap)
      PROVE  NoReceiptYet'
  BY <1>1 DEF NoReceiptYet, Created, OthersKept
<1>2. ASSUME NEW id \in BountyIds, NEW u, NEW h, Committed(id, u, h) PROVE NoReceiptYet'
  BY <1>2 DEF NoReceiptYet, Committed, OthersKept
<1>3. ASSUME NEW id \in BountyIds, NEW total, NEW r, Settled(id, total, r) PROVE NoReceiptYet'
  BY <1>3 DEF NoReceiptYet, Settled, OthersKept
<1>4. ASSUME NEW id \in BountyIds, Cancelled(id) PROVE NoReceiptYet'
  BY <1>4 DEF NoReceiptYet, Cancelled, Escrowed, OthersKept
<1>5. CASE Quiet
  BY <1>5 DEF NoReceiptYet, Quiet
<1>6. QED
  BY <1>1, <1>2, <1>3, <1>4, <1>5, NextEffects

\* The registry and the bounties stay in agreement: an anchor refers to a
\* settled bounty, which no later step touches, and a new one is made together
\* with the settlement.
LEMMA AnchorsStep ==
  TypeOK /\ Unwritten /\ AnchorsBackSettlements /\ [Next]_vars => AnchorsBackSettlements'
<1> SUFFICES ASSUME TypeOK, Unwritten, AnchorsBackSettlements, [Next]_vars
             PROVE  AnchorsBackSettlements'
  OBVIOUS
<1>0. \A h \in ReceiptHashes : anchors[h] # NoBounty => anchors[h] \in BountyIds
  BY DEF TypeOK
<1>1. ASSUME NEW id \in BountyIds, bounties[id].state # "Settled"
      PROVE  \A h \in ReceiptHashes : anchors[h] # id
  BY <1>1, BoundAssumption DEF AnchorsBackSettlements
<1>2. ASSUME NEW id \in BountyIds, NEW u, NEW amount, NEW cap, Created(id, u, amount, cap)
      PROVE  AnchorsBackSettlements'
  <2>1. bounties[id].state # "Settled"
    BY <1>2 DEF Created, MissingBounty
  <2>2. QED
    BY <1>0, <1>1, <1>2, <2>1 DEF AnchorsBackSettlements, Created, OthersKept
<1>3. ASSUME NEW id \in BountyIds, NEW u, NEW h, Committed(id, u, h) PROVE AnchorsBackSettlements'
  BY <1>0, <1>3 DEF AnchorsBackSettlements, Committed, OthersKept
<1>4. ASSUME NEW id \in BountyIds, NEW total, NEW r \in ReceiptHashes, Settled(id, total, r)
      PROVE  AnchorsBackSettlements'
  <2>1. \A h \in ReceiptHashes : anchors'[h] = IF h = r THEN id ELSE anchors[h]
    BY <1>4 DEF Settled, TypeOK
  <2>2. \A h \in ReceiptHashes : anchors[h] # id
    BY <1>1, <1>4 DEF Settled, Escrowed
  <2>3. \A other \in BountyIds : bounties[other].state = "Settled" => bounties[other].receiptHash # r
    BY <1>4, BoundAssumption DEF AnchorsBackSettlements, Settled
  <2>4. QED
    BY <1>0, <1>4, <2>1, <2>2, <2>3 DEF AnchorsBackSettlements, Settled, OthersKept
<1>5. ASSUME NEW id \in BountyIds, Cancelled(id) PROVE AnchorsBackSettlements'
  BY <1>0, <1>1, <1>5 DEF AnchorsBackSettlements, Cancelled, Escrowed, OthersKept
<1>6. CASE Quiet
  BY <1>6 DEF AnchorsBackSettlements, Quiet
<1>7. QED
  BY <1>2, <1>3, <1>4, <1>5, <1>6, NextEffects

\* The hashes pinned for a bounty.
Pinned(id) == {h \in EvidenceHashes : commitments[id][h] # ZeroAddress}

\* The counter follows the mapping: commitEvidence pins a hash that was not.
LEMMA CountedStep ==
  TypeOK /\ Unwritten /\ CommitmentsCounted /\ [Next]_vars => CommitmentsCounted'
<1> SUFFICES ASSUME TypeOK, Unwritten, CommitmentsCounted, [Next]_vars
             PROVE  CommitmentsCounted'
  OBVIOUS
<1> DEFINE Counted(id) == /\ bounties[id].commitments = Cardinality(Pinned(id))
                          /\ bounties[id].commitments <= bounties[id].maxCommitments
<1>0. \A id \in BountyIds : Counted(id)
  BY DEF CommitmentsCounted, Pinned
<1>1. SUFFICES \A id \in BountyIds : Counted(id)'
  BY DEF CommitmentsCounted, Pinned
<1>2. ASSUME NEW id \in BountyIds, NEW u, NEW amount, NEW cap \in 0..MaxCap,
             Created(id, u, amount, cap)
      PROVE  \A other \in BountyIds : Counted(other)'
  <2>1. Pinned(id)' = {}
    BY <1>2 DEF Pinned, Created
  <2>2. Counted(id)'
    BY <1>2, <2>1, FS_EmptySet, BoundAssumption DEF Created
  <2>3. \A other \in BountyIds \ {id} : Pinned(other)' = Pinned(other)
    BY <1>2 DEF Pinned, Created
  <2>4. QED
    BY <1>0, <1>2, <2>2, <2>3 DEF Created, OthersKept
<1>3. ASSUME NEW id \in BountyIds, NEW u \in Users, NEW h \in EvidenceHashes, Committed(id, u, h)
      PROVE  \A other \in BountyIds : Counted(other)'
  <2>1. \A e \in EvidenceHashes : commitments'[id][e] = IF e = h THEN u ELSE commitments[id][e]
    BY <1>3 DEF Committed, TypeOK
  <2>2. Pinned(id)' = Pinned(id) \cup {h} /\ h \notin Pinned(id)
    BY <1>3, <2>1, AddressAssumption DEF Pinned, Committed
  <2>3. IsFiniteSet(Pinned(id))
    BY FS_Subset, HashAssumption DEF Pinned
  <2>4. Cardinality(Pinned(id)') = Cardinality(Pinned(id)) + 1
    BY <2>2, <2>3, FS_AddElement
  <2>5. bounties[id].commitments \in Nat /\ bounties[id].maxCommitments \in Nat
    BY BoundAssumption DEF TypeOK, Bounty
  <2>6. Counted(id)'
    BY <1>0, <1>3, <2>4, <2>5 DEF Committed, TermsKept
  <2>7. \A other \in BountyIds \ {id} : Pinned(other)' = Pinned(other)
    BY <1>3 DEF Pinned, Committed, TypeOK
  <2>8. QED
    BY <1>0, <1>3, <2>6, <2>7 DEF Committed, OthersKept
<1>4. ASSUME NEW id \in BountyIds, NEW total, NEW r, Settled(id, total, r)
      PROVE  \A other \in BountyIds : Counted(other)'
  BY <1>0, <1>4 DEF Settled, OthersKept, TermsKept, Pinned
<1>5. ASSUME NEW id \in BountyIds, Cancelled(id) PROVE \A other \in BountyIds : Counted(other)'
  BY <1>0, <1>5 DEF Cancelled, OthersKept, TermsKept, Pinned
<1>6. CASE Quiet
  BY <1>0, <1>6 DEF Quiet, Pinned
<1>7. QED
  BY <1>2, <1>3, <1>4, <1>5, <1>6, NextEffects

-----------------------------------------------------------------------------
(* Solvency.                                                                *)

\* A block of units is as large as the amount it stands for.
Block(id, amount) == {id} \X (1..amount)

\* The block of a bounty has as many units as the bounty has money.
LEMMA BlockSize ==
  ASSUME NEW id, NEW amount \in Nat
  PROVE  IsFiniteSet(Block(id, amount)) /\ Cardinality(Block(id, amount)) = amount
<1>1. IsFiniteSet({id}) /\ Cardinality({id}) = 1
  BY FS_Singleton
<1>2. IsFiniteSet(1..amount) /\ Cardinality(1..amount) = amount
  BY FS_Interval
<1>3. IsFiniteSet({id} \X (1..amount))
      /\ Cardinality({id} \X (1..amount)) = Cardinality({id}) * Cardinality(1..amount)
  BY <1>1, <1>2, FS_Product
<1>4. QED
  BY <1>1, <1>2, <1>3 DEF Block

\* Adding a block to a finite set that it does not meet adds its amount.
LEMMA AddBlock ==
  ASSUME NEW S, IsFiniteSet(S), NEW id, NEW amount \in Nat, S \cap Block(id, amount) = {}
  PROVE  Cardinality(S \cup Block(id, amount)) = Cardinality(S) + amount
<1>1. IsFiniteSet(Block(id, amount)) /\ Cardinality(Block(id, amount)) = amount
  BY BlockSize
<1>2. Cardinality(S \cup Block(id, amount))
        = Cardinality(S) + Cardinality(Block(id, amount)) - Cardinality(S \cap Block(id, amount))
  BY <1>1, FS_Union
<1>3. Cardinality(S) \in Nat
  BY FS_CardinalityType
<1>4. Cardinality(S \cap Block(id, amount)) = 0
  BY FS_EmptySet
<1>5. QED
  BY <1>1, <1>2, <1>3, <1>4

\* The units in escrow are finitely many.
LEMMA UnitsFinite == IsFiniteSet(EscrowedUnits)
<1>1. IsFiniteSet(BountyIds) /\ IsFiniteSet(1..MaxAmount)
  BY FS_Interval, BoundAssumption
<1>2. IsFiniteSet(BountyIds \X (1..MaxAmount))
  BY <1>1, FS_Product
<1>3. QED
  BY <1>2, FS_Subset DEF EscrowedUnits

\* Closing a bounty removes its block, and nothing else.
LEMMA CloseUnits ==
  ASSUME TypeOK, NEW id \in BountyIds, Escrowed(id), TermsKept(id), OthersKept(id),
         bounties'[id].state # "Open"
  PROVE  Cardinality(EscrowedUnits) = Cardinality(EscrowedUnits') + bounties[id].amount
<1>1. bounties[id].amount \in 0..MaxAmount
  BY DEF TypeOK, Bounty
<1>2. ASSUME NEW e \in BountyIds \X (1..MaxAmount)
      PROVE  /\ e \in EscrowedUnits' <=> e[1] # id /\ e \in EscrowedUnits
             /\ e[1] = id => (e \in EscrowedUnits <=> e[2] <= bounties[id].amount)
  <2>1. CASE e[1] = id
    BY <2>1 DEF EscrowedUnits, Escrowed
  <2>2. CASE e[1] # id
    <3>1. e[1] \in BountyIds /\ bounties'[e[1]] = bounties[e[1]]
      BY <2>2 DEF OthersKept
    <3>2. QED
      BY <2>2, <3>1 DEF EscrowedUnits, Escrowed
  <2>3. QED
    BY <2>1, <2>2
<1>3. EscrowedUnits' \cap Block(id, bounties[id].amount) = {}
  BY <1>2 DEF EscrowedUnits, Block
<1>4. \A e \in BountyIds \X (1..MaxAmount) :
        e \in Block(id, bounties[id].amount) <=> e[1] = id /\ e[2] <= bounties[id].amount
  BY <1>1, BoundAssumption DEF Block
<1>5. Block(id, bounties[id].amount) \subseteq BountyIds \X (1..MaxAmount)
  BY <1>1, BoundAssumption DEF Block
<1>6. EscrowedUnits \subseteq BountyIds \X (1..MaxAmount)
      /\ EscrowedUnits' \subseteq BountyIds \X (1..MaxAmount)
  BY DEF EscrowedUnits
<1>7. EscrowedUnits = EscrowedUnits' \cup Block(id, bounties[id].amount)
  BY <1>2, <1>4, <1>5, <1>6
<1>8. IsFiniteSet(EscrowedUnits')
  BY <1>6, <1>7, UnitsFinite, FS_Subset
<1>9. QED
  BY <1>1, <1>3, <1>7, <1>8, AddBlock, BoundAssumption

\* A step that changes neither the states nor the amounts keeps the units.
LEMMA SameUnits ==
  ASSUME \A id \in BountyIds : /\ bounties'[id].requester = bounties[id].requester
                               /\ bounties'[id].state = bounties[id].state
                               /\ bounties'[id].amount = bounties[id].amount
  PROVE  EscrowedUnits' = EscrowedUnits
  BY DEF EscrowedUnits, Escrowed

\* No step makes the contract insolvent: createBounty brings in what it adds
\* to the escrow, finalize and cancel send no more than what they release.
LEMMA SolvencyStep == TypeOK /\ TypeOK' /\ Unwritten /\ Solvency /\ [Next]_vars => Solvency'
<1> SUFFICES ASSUME TypeOK, TypeOK', Unwritten, Solvency, [Next]_vars PROVE Solvency'
  OBVIOUS
<1>0. /\ balance[Contract] \in Nat /\ balance'[Contract] \in Nat
      /\ Cardinality(EscrowedUnits) \in Nat
      /\ Cardinality(EscrowedUnits) <= balance[Contract]
  BY UnitsFinite, FS_CardinalityType DEF TypeOK, Solvency
<1>1. ASSUME NEW id \in BountyIds, NEW u \in Users, NEW amount \in 1..MaxAmount, NEW cap,
             Created(id, u, amount, cap)
      PROVE  Solvency'
  <2>0. amount \in Nat
    BY BoundAssumption
  <2>1. ~Escrowed(id)
    BY <1>1 DEF Created, Escrowed, MissingBounty
  <2>2. EscrowedUnits \cap Block(id, amount) = {}
    BY <2>1 DEF EscrowedUnits, Block
  <2>3. u # ZeroAddress
    BY AddressAssumption
  <2>4. \A e \in BountyIds \X (1..MaxAmount) :
          e \in EscrowedUnits' <=> e \in EscrowedUnits \/ (e[1] = id /\ e[2] <= amount)
    BY <1>1, <2>1, <2>3 DEF EscrowedUnits, Escrowed, Created, OthersKept
  <2>5. \A e \in BountyIds \X (1..MaxAmount) :
          e \in Block(id, amount) <=> e[1] = id /\ e[2] <= amount
    BY BoundAssumption DEF Block
  <2>6. Block(id, amount) \subseteq BountyIds \X (1..MaxAmount)
    BY BoundAssumption DEF Block
  <2>7. EscrowedUnits' = EscrowedUnits \cup Block(id, amount)
    <3>1. EscrowedUnits \subseteq BountyIds \X (1..MaxAmount)
          /\ EscrowedUnits' \subseteq BountyIds \X (1..MaxAmount)
      BY DEF EscrowedUnits
    <3>2. QED
      BY <2>4, <2>5, <2>6, <3>1
  <2>8. Cardinality(EscrowedUnits') = Cardinality(EscrowedUnits) + amount
    BY <2>0, <2>2, <2>7, UnitsFinite, AddBlock
  <2>9. balance'[Contract] = balance[Contract] + amount
    BY <1>1 DEF Created
  <2>10. QED
    BY <1>0, <2>0, <2>8, <2>9 DEF Solvency
<1>2. ASSUME NEW id \in BountyIds, NEW u, NEW h, Committed(id, u, h) PROVE Solvency'
  <2>1. EscrowedUnits' = EscrowedUnits
    BY <1>2, SameUnits DEF Committed, TermsKept, OthersKept
  <2>2. QED
    BY <1>0, <1>2, <2>1 DEF Solvency, Committed
<1>3. ASSUME NEW id \in BountyIds, TermsKept(id), OthersKept(id), Escrowed(id),
             bounties'[id].state # "Open",
             balance'[Contract] >= balance[Contract] - bounties[id].amount
      PROVE  Solvency'
  <2>1. Cardinality(EscrowedUnits) = Cardinality(EscrowedUnits') + bounties[id].amount
    BY <1>3, CloseUnits
  <2>2. bounties[id].amount \in Nat
    BY BoundAssumption DEF TypeOK, Bounty
  <2>3. IsFiniteSet(EscrowedUnits')
    <3>1. EscrowedUnits' \subseteq EscrowedUnits
      BY <1>3 DEF EscrowedUnits, Escrowed, OthersKept
    <3>2. QED
      BY <3>1, UnitsFinite, FS_Subset
  <2>4. Cardinality(EscrowedUnits') \in Nat
    BY <2>3, FS_CardinalityType
  <2>5. QED
    BY <1>0, <1>3, <2>1, <2>2, <2>4 DEF Solvency
<1>4. ASSUME NEW id \in BountyIds, NEW total, NEW r, Settled(id, total, r) PROVE Solvency'
  BY <1>3, <1>4 DEF Settled
<1>5. ASSUME NEW id \in BountyIds, Cancelled(id) PROVE Solvency'
  <2>1. bounties[id].amount \in Nat
    BY BoundAssumption DEF TypeOK, Bounty
  <2>2. balance'[Contract] >= balance[Contract] - bounties[id].amount
    BY <1>0, <1>5, <2>1 DEF Cancelled
  <2>3. QED
    BY <1>3, <1>5, <2>2 DEF Cancelled
<1>6. CASE Quiet
  <2>1. EscrowedUnits' = EscrowedUnits
    BY <1>6, SameUnits DEF Quiet
  <2>2. QED
    BY <1>0, <1>6, <2>1 DEF Solvency, Quiet
<1>7. QED
  BY <1>1, <1>2, <1>4, <1>5, <1>6, NextEffects

-----------------------------------------------------------------------------
(* The theorems.                                                            *)

\* The inductive invariant: the safety invariants of the runs, and the two
\* facts about unused identifiers and unsettled bounties that make them
\* inductive.
ContractInv ==
  /\ TypeOK
  /\ Unwritten
  /\ NoReceiptYet
  /\ AnchorsBackSettlements
  /\ CommitmentsCounted
  /\ Solvency

\* Nothing is in escrow at the start.
LEMMA ContractInvInit == Init => ContractInv
<1> SUFFICES ASSUME Init PROVE ContractInv
  OBVIOUS
<1>1. TypeOK
  BY InitType
<1>2. \A id \in BountyIds : /\ bounties[id] = MissingBounty
                            /\ commitments[id] = [h \in EvidenceHashes |-> ZeroAddress]
  BY DEF Init
<1>3. Unwritten
  BY <1>2 DEF Unwritten
<1>4. NoReceiptYet /\ AnchorsBackSettlements
  BY <1>2 DEF NoReceiptYet, AnchorsBackSettlements, MissingBounty, Init
<1>5. CommitmentsCounted
  <2>1. \A id \in BountyIds : {h \in EvidenceHashes : commitments[id][h] # ZeroAddress} = {}
    BY <1>2
  <2>2. \A id \in BountyIds : bounties[id].commitments = 0 /\ bounties[id].maxCommitments = 0
    BY <1>2 DEF MissingBounty
  <2>3. Cardinality({}) = 0
    BY FS_EmptySet
  <2>4. ASSUME NEW id \in BountyIds
        PROVE  Cardinality({h \in EvidenceHashes : commitments[id][h] # ZeroAddress}) = 0
    <3>1. {h \in EvidenceHashes : commitments[id][h] # ZeroAddress} = {}
      BY <2>1
    <3>2. QED
      BY ONLY <2>3, <3>1
  <2>5. QED
    BY <2>2, <2>4 DEF CommitmentsCounted
<1>6. Solvency
  <2>1. EscrowedUnits = {}
    BY <1>2 DEF EscrowedUnits, Escrowed, MissingBounty
  <2>2. balance[Contract] = 0
    BY DEF Init
  <2>3. QED
    BY <2>1, <2>2, FS_EmptySet DEF Solvency
<1>7. QED
  BY <1>1, <1>3, <1>4, <1>5, <1>6 DEF ContractInv

\* Every call keeps it.
LEMMA ContractInvStep == ContractInv /\ [Next]_vars => ContractInv'
  BY StepType, UnwrittenStep, NoReceiptYetStep, AnchorsStep, CountedStep, SolvencyStep
     DEF ContractInv

\* Hence it holds in every reachable state.
LEMMA ContractInvariant == Spec => []ContractInv
  BY ContractInvInit, ContractInvStep, PTL DEF Spec

\* The contract can always pay every open bounty in full (Solvency).
THEOREM AlwaysSolvent == Spec => []Solvency
<1>1. ContractInv => Solvency
  BY DEF ContractInv
<1>2. QED
  BY <1>1, ContractInvariant, PTL

\* Anchored receipts and settled bounties correspond one to one
\* (AnchorsBackSettlements).
THEOREM AnchorsSound == Spec => []AnchorsBackSettlements
<1>1. ContractInv => AnchorsBackSettlements
  BY DEF ContractInv
<1>2. QED
  BY <1>1, ContractInvariant, PTL

\* The unchecked commitment counter is exact and below the cap
\* (CommitmentsCounted).
THEOREM CountersExact == Spec => []CommitmentsCounted
<1>1. ContractInv => CommitmentsCounted
  BY DEF ContractInv
<1>2. QED
  BY <1>1, ContractInvariant, PTL

\* Evidence is pinned once, to an open bounty, and never when its requester
\* could already cancel (EvidenceWindow).
THEOREM EvidenceInWindow == Spec => EvidenceWindow
<1> DEFINE Window ==
      \A id \in BountyIds, h \in EvidenceHashes :
        commitments'[id][h] # commitments[id][h] =>
          /\ commitments[id][h] = ZeroAddress
          /\ Escrowed(id)
          /\ ~Reclaimable(id)
<1>1. ContractInv /\ [Next]_vars => Window
  <2> SUFFICES ASSUME ContractInv, [Next]_vars, NEW id \in BountyIds, NEW h \in EvidenceHashes,
                      commitments'[id][h] # commitments[id][h]
               PROVE  /\ commitments[id][h] = ZeroAddress
                      /\ Escrowed(id)
                      /\ ~Reclaimable(id)
    OBVIOUS
  <2>1. PICK other \in BountyIds, u \in Users, e \in EvidenceHashes : Committed(other, u, e)
    BY NextEffects DEF ContractInv, Created, Settled, Cancelled, Quiet
  <2>2. other = id /\ e = h
    BY <2>1 DEF Committed, ContractInv, TypeOK
  <2>3. now \in Int /\ bounties[id].deadline \in Int
    BY BoundAssumption DEF ContractInv, TypeOK, Bounty
  <2>4. QED
    BY <2>1, <2>2, <2>3 DEF Committed, Reclaimable
<1>2. QED
  BY <1>1, ContractInvariant, PTL DEF Spec, EvidenceWindow

-----------------------------------------------------------------------------
(* Refinement of Escrow.                                                    *)

\* The mapping of the entries that a step leaves alone does not change.
LEMMA KeptStatus ==
  ASSUME NEW id \in BountyIds, bounties'[id] = bounties[id]
  PROVE  EscrowStatus(id)' = EscrowStatus(id)
  BY DEF EscrowStatus

\* Before the first call no bounty has been funded.
LEMMA EscrowInit == Init => E!Init
  BY DEF Init, E!Init, EscrowStatus, MissingBounty

\* createBounty funds, finalize settles, cancel reclaims; nothing else changes
\* what the escrow promises.
LEMMA EscrowStep == ContractInv /\ [Next]_vars => [E!Next]_(E!vars)
<1> SUFFICES ASSUME ContractInv, [Next]_vars PROVE [E!Next]_(E!vars)
  OBVIOUS
<1> USE DEF ContractInv
<1>0. \A id \in BountyIds : bounties[id] \in Bounty
  BY DEF TypeOK
<1>1. ASSUME NEW id \in BountyIds, NEW u \in Users, NEW amount \in 1..MaxAmount, NEW cap,
             Created(id, u, amount, cap)
      PROVE  E!Fund(id, amount)
  <2>1. EscrowStatus(id) = "None"
    BY <1>1 DEF Created, EscrowStatus, MissingBounty
  <2>2. EscrowStatus(id)' = "Open"
    BY <1>1, AddressAssumption DEF Created, EscrowStatus
  <2>3. \A other \in BountyIds \ {id} : EscrowStatus(other)' = EscrowStatus(other)
    BY <1>1 DEF Created, OthersKept, EscrowStatus
  <2>4. bounties[id].receiptHash = ZeroHash
    BY <1>1 DEF Created, MissingBounty
  <2>5. QED
    BY <1>1, <2>1, <2>2, <2>3, <2>4 DEF E!Fund, Created, OthersKept
<1>2. ASSUME NEW id \in BountyIds, NEW u, NEW h, Committed(id, u, h) PROVE UNCHANGED E!vars
  BY <1>2 DEF E!vars, Committed, TermsKept, OthersKept, EscrowStatus
<1>3. ASSUME NEW id \in BountyIds, NEW total \in 0..MaxAmount, NEW r \in ReceiptHashes,
             Settled(id, total, r)
      PROVE  E!Settle(id, total, r)
  <2>1. EscrowStatus(id) = "Open"
    BY <1>3 DEF Settled, Escrowed, EscrowStatus
  <2>2. EscrowStatus(id)' = "Settled"
    BY <1>3 DEF Settled, Escrowed, EscrowStatus, TermsKept
  <2>3. \A other \in BountyIds \ {id} : EscrowStatus(other)' = EscrowStatus(other)
    BY <1>3 DEF Settled, OthersKept, EscrowStatus
  <2>4. \A other \in BountyIds : bounties[other].receiptHash # r
    BY <1>3, HashAssumption, BoundAssumption DEF Settled, NoReceiptYet, AnchorsBackSettlements
  <2>5. QED
    BY <1>3, <2>1, <2>2, <2>3, <2>4 DEF E!Settle, Settled, TermsKept, OthersKept
<1>4. ASSUME NEW id \in BountyIds, Cancelled(id) PROVE E!Reclaim(id)
  <2>1. EscrowStatus(id) = "Open"
    BY <1>4 DEF Cancelled, Escrowed, EscrowStatus
  <2>2. EscrowStatus(id)' = "Cancelled"
    BY <1>4 DEF Cancelled, Escrowed, EscrowStatus, TermsKept
  <2>3. \A other \in BountyIds \ {id} : EscrowStatus(other)' = EscrowStatus(other)
    BY <1>4 DEF Cancelled, OthersKept, EscrowStatus
  <2>4. QED
    BY <1>4, <2>1, <2>2, <2>3 DEF E!Reclaim, Cancelled, TermsKept, OthersKept
<1>5. CASE Quiet
  BY <1>5 DEF E!vars, Quiet, EscrowStatus
<1>6. QED
  BY <1>1, <1>2, <1>3, <1>4, <1>5, NextEffects DEF E!Next

\* The contracts implement the abstract escrow (ImplementsEscrow).
THEOREM ContractsImplementEscrow == Spec => ImplementsEscrow
  BY EscrowInit, EscrowStep, ContractInvariant, PTL DEF Spec, ImplementsEscrow, E!Spec

-----------------------------------------------------------------------------
(* What the abstract escrow promises, the contracts keep.                   *)

\* Both promises of Escrow, with the facts that make them inductive: what has
\* not been closed has given out nothing.
EscrowInv ==
  /\ E!TypeOK
  /\ E!WholeEscrow
  /\ E!ReceiptPerSettlement
  /\ \A id \in BountyIds :
       EscrowStatus(id) \in {"None", "Open"} => paid[id] = 0 /\ refunded[id] = 0

\* Nothing is in escrow at first.
LEMMA EscrowInitInv == E!Init => EscrowInv
<1> SUFFICES ASSUME E!Init PROVE EscrowInv
  OBVIOUS
<1>1. \A id \in BountyIds :
        /\ EscrowStatus(id) = "None" /\ bounties[id].amount = 0
        /\ bounties[id].receiptHash = ZeroHash /\ paid[id] = 0 /\ refunded[id] = 0
  BY DEF E!Init
<1>2. paid \in [BountyIds -> 0..MaxAmount] /\ refunded \in [BountyIds -> 0..MaxAmount]
  BY BoundAssumption DEF E!Init
<1>3. E!TypeOK
  BY <1>1, <1>2, BoundAssumption DEF E!TypeOK
<1>4. QED
  BY <1>1, <1>3 DEF EscrowInv, E!WholeEscrow, E!ReceiptPerSettlement

\* Funding, settling and reclaiming one bounty keep the invariant: only that
\* bounty's entries change, and it was not closed before.
LEMMA EscrowStepInv == EscrowInv /\ [E!Next]_(E!vars) => EscrowInv'
<1> SUFFICES ASSUME EscrowInv, [E!Next]_(E!vars) PROVE EscrowInv'
  OBVIOUS
<1>0. /\ paid \in [BountyIds -> 0..MaxAmount] /\ refunded \in [BountyIds -> 0..MaxAmount]
      /\ \A id \in BountyIds :
           /\ EscrowStatus(id) \in {"None", "Open", "Settled", "Cancelled"}
           /\ bounties[id].amount \in 0..MaxAmount
           /\ bounties[id].receiptHash \in ReceiptHashes \cup {ZeroHash}
           /\ EscrowStatus(id) \in {"None", "Open"} => paid[id] = 0 /\ refunded[id] = 0
           /\ EscrowStatus(id) \in {"Settled", "Cancelled"} =>
                paid[id] + refunded[id] = bounties[id].amount
           /\ (bounties[id].receiptHash # ZeroHash) <=> (EscrowStatus(id) = "Settled")
           /\ paid[id] > 0 => EscrowStatus(id) = "Settled"
      /\ \A id, other \in BountyIds :
           bounties[id].receiptHash = bounties[other].receiptHash
           /\ bounties[id].receiptHash # ZeroHash => id = other
  BY DEF EscrowInv, E!TypeOK, E!WholeEscrow, E!ReceiptPerSettlement
<1>1. ASSUME NEW id \in BountyIds, NEW a \in 1..MaxAmount, E!Fund(id, a) PROVE EscrowInv'
  <2>1. /\ EscrowStatus(id) = "None" /\ EscrowStatus(id)' = "Open" /\ bounties'[id].amount = a
        /\ \A other \in BountyIds \ {id} :
             /\ EscrowStatus(other)' = EscrowStatus(other)
             /\ bounties'[other].amount = bounties[other].amount
        /\ \A other \in BountyIds : bounties'[other].receiptHash = bounties[other].receiptHash
        /\ paid' = paid /\ refunded' = refunded
    BY <1>1 DEF E!Fund, EscrowStatus
  <2>2. E!TypeOK'
    <3>1. \A other \in BountyIds :
            /\ EscrowStatus(other)' \in {"None", "Open", "Settled", "Cancelled"}
            /\ bounties'[other].amount \in 0..MaxAmount
            /\ bounties'[other].receiptHash \in ReceiptHashes \cup {ZeroHash}
      <4>1. a \in 0..MaxAmount
        BY BoundAssumption
      <4>2. QED
        BY <1>0, <2>1, <4>1
    <3>2. /\ paid' \in [BountyIds -> 0..MaxAmount]
          /\ refunded' \in [BountyIds -> 0..MaxAmount]
      BY <1>0, <2>1, BoundAssumption
    <3>3. QED
      BY <3>1, <3>2 DEF E!TypeOK
  <2>3. E!WholeEscrow'
    BY <1>0, <2>1, BoundAssumption DEF E!WholeEscrow
  <2>4. E!ReceiptPerSettlement'
    BY <1>0, <2>1, BoundAssumption, HashAssumption DEF E!ReceiptPerSettlement
  <2>5. QED
    BY <1>0, <2>1, <2>2, <2>3, <2>4 DEF EscrowInv
<1>2. ASSUME NEW id \in BountyIds, NEW p \in 0..MaxAmount, NEW r \in ReceiptHashes,
             E!Settle(id, p, r)
      PROVE  EscrowInv'
  <2>1. /\ EscrowStatus(id) = "Open" /\ EscrowStatus(id)' = "Settled"
        /\ bounties'[id].receiptHash = r
        /\ \A other \in BountyIds : bounties[other].receiptHash # r
        /\ \A other \in BountyIds \ {id} :
             /\ EscrowStatus(other)' = EscrowStatus(other)
             /\ bounties'[other].receiptHash = bounties[other].receiptHash
        /\ \A other \in BountyIds : bounties'[other].amount = bounties[other].amount
        /\ p <= bounties[id].amount
        /\ paid' = [paid EXCEPT ![id] = p]
        /\ refunded' = [refunded EXCEPT ![id] = bounties[id].amount - p]
    BY <1>2 DEF E!Settle, EscrowStatus
  <2>2. E!TypeOK'
    <3>1. \A other \in BountyIds :
            /\ EscrowStatus(other)' \in {"None", "Open", "Settled", "Cancelled"}
            /\ bounties'[other].amount \in 0..MaxAmount
            /\ bounties'[other].receiptHash \in ReceiptHashes \cup {ZeroHash}
      BY <1>0, <2>1, BoundAssumption
    <3>2. /\ paid' \in [BountyIds -> 0..MaxAmount]
          /\ refunded' \in [BountyIds -> 0..MaxAmount]
      BY <1>0, <2>1, BoundAssumption
    <3>3. QED
      BY <3>1, <3>2 DEF E!TypeOK
  <2>3. E!WholeEscrow'
    BY <1>0, <2>1, BoundAssumption DEF E!WholeEscrow
  <2>4. E!ReceiptPerSettlement'
    BY <1>0, <2>1, BoundAssumption, HashAssumption DEF E!ReceiptPerSettlement
  <2>5. QED
    BY <1>0, <2>1, <2>2, <2>3, <2>4 DEF EscrowInv
<1>3. ASSUME NEW id \in BountyIds, E!Reclaim(id) PROVE EscrowInv'
  <2>1. /\ EscrowStatus(id) = "Open" /\ EscrowStatus(id)' = "Cancelled"
        /\ \A other \in BountyIds \ {id} : EscrowStatus(other)' = EscrowStatus(other)
        /\ \A other \in BountyIds :
             /\ bounties'[other].amount = bounties[other].amount
             /\ bounties'[other].receiptHash = bounties[other].receiptHash
        /\ paid' = paid
        /\ refunded' = [refunded EXCEPT ![id] = bounties[id].amount]
    BY <1>3 DEF E!Reclaim, EscrowStatus
  <2>2. E!TypeOK'
    <3>1. \A other \in BountyIds :
            /\ EscrowStatus(other)' \in {"None", "Open", "Settled", "Cancelled"}
            /\ bounties'[other].amount \in 0..MaxAmount
            /\ bounties'[other].receiptHash \in ReceiptHashes \cup {ZeroHash}
      BY <1>0, <2>1, BoundAssumption
    <3>2. /\ paid' \in [BountyIds -> 0..MaxAmount]
          /\ refunded' \in [BountyIds -> 0..MaxAmount]
      BY <1>0, <2>1, BoundAssumption
    <3>3. QED
      BY <3>1, <3>2 DEF E!TypeOK
  <2>3. E!WholeEscrow'
    BY <1>0, <2>1, BoundAssumption DEF E!WholeEscrow
  <2>4. E!ReceiptPerSettlement'
    BY <1>0, <2>1, BoundAssumption, HashAssumption DEF E!ReceiptPerSettlement
  <2>5. QED
    BY <1>0, <2>1, <2>2, <2>3, <2>4 DEF EscrowInv
<1>4. CASE UNCHANGED E!vars
  BY <1>4 DEF E!vars, EscrowInv, E!TypeOK, E!WholeEscrow, E!ReceiptPerSettlement
<1>5. QED
  BY <1>1, <1>2, <1>3, <1>4 DEF E!Next

\* Every escrow is given out whole and once (Escrow's WholeEscrow), and each
\* settlement has a receipt of its own (ReceiptPerSettlement): whatever
\* implements Escrow with the bounties of the contracts keeps both.
THEOREM EscrowKeepsPromises == E!Spec => [](E!WholeEscrow /\ E!ReceiptPerSettlement)
<1>1. EscrowInv => E!WholeEscrow /\ E!ReceiptPerSettlement
  BY DEF EscrowInv
<1>2. QED
  BY <1>1, EscrowInitInv, EscrowStepInv, PTL DEF E!Spec

\* So the contracts keep both: createBounty, finalize, cancel and anchor never
\* pay a bounty twice, keep a residue or share a receipt between settlements.
THEOREM ContractsKeepPromises == Spec => [](E!WholeEscrow /\ E!ReceiptPerSettlement)
  BY EscrowKeepsPromises, ContractsImplementEscrow, PTL DEF ImplementsEscrow
=============================================================================
