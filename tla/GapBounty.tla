----------------------------- MODULE GapBounty -----------------------------
(***************************************************************************)
(* The on-chain half of gap402: contracts/src/GapBounty.sol, the receipt   *)
(* registry it owns (EvidenceReceiptRegistry.sol), the USDC token both use *)
(* and the block time.                                                     *)
(*                                                                         *)
(* A contract call is atomic, so each external function is one action: its *)
(* guards are the function's reverts, in a call that is not reverted every *)
(* effect happens.  An address and an amount are natural numbers (the code *)
(* compares them), a hash is a member of a set.  bounties[id].createdAt is *)
(* written and only ever read from outside, and left out.                  *)
(***************************************************************************)
EXTENDS Integers, Sequences, FiniteSets, SequencesExt

CONSTANTS Users,           \* addresses that send transactions
          Requesters,      \* the users who fund bounties
          Verifiers,       \* the addresses they name as verifier
          TransferTargets, \* where users send USDC outside of GapBounty
          Contract,        \* the address of GapBounty itself
          SpecHashes,      \* hashes of gap specifications
          EvidenceHashes,  \* hashes of evidence contents
          PlanHashes,      \* hashes of settlement plans
          ReceiptHashes,   \* hashes of evidence receipts
          ZeroHash,        \* bytes32(0)
          Blockable,       \* the users USDC may put on its blocklist
          MaxAmount,       \* bound: the largest amount of a bounty (uint96)
          InitialBalance,  \* what each user holds at the start
          MaxTime,         \* bound: the last block time
          MaxBounties,     \* bound: bounties ever created
          MaxCap,          \* bound: the largest maxCommitments (uint32)
          MaxPayouts       \* bound: the longest payout vector

ZeroAddress == 0

ASSUME AddressAssumption ==
  /\ Users \subseteq Nat \ {ZeroAddress}
  /\ Contract \in Nat \ {ZeroAddress}
  /\ Contract \notin Users
  /\ Blockable \subseteq Users
  /\ Requesters \subseteq Users
  /\ Verifiers \subseteq Users \cup {Contract, ZeroAddress}
  /\ TransferTargets \subseteq Users \cup {Contract}

ASSUME HashAssumption ==
  /\ ZeroHash \notin SpecHashes \cup EvidenceHashes \cup PlanHashes \cup ReceiptHashes
  /\ IsFiniteSet(EvidenceHashes)

ASSUME BoundAssumption ==
  /\ MaxAmount \in Nat /\ MaxTime \in Nat
  /\ MaxBounties \in Nat /\ MaxCap \in Nat /\ MaxPayouts \in Nat
  /\ InitialBalance \in Nat

Addresses == Users \cup {Contract}
AnyAddress == Addresses \cup {ZeroAddress}
BountyIds == 0..(MaxBounties - 1)
NoBounty == MaxBounties

VARIABLES now,           \* block.timestamp
          nextBountyId,
          bounties,      \* bountyId -> Bounty
          commitments,   \* bountyId -> evidenceHash -> supplier
          anchors,       \* registry: receiptHash -> bountyRef, NoBounty if none
          balance,       \* USDC.balanceOf
          allowance,     \* USDC.allowance[owner][GapBounty]
          blocked,       \* users on the token's blocklist
          paid,          \* bountyId -> sum of its BountyPayout events
          refunded       \* bountyId -> refund of its BountySettled/BountyCancelled event

chainVars == <<nextBountyId, bounties, commitments, anchors>>
tokenVars == <<balance, allowance, blocked>>
logVars == <<paid, refunded>>
vars == <<now, chainVars, tokenVars, logVars>>

Bounty ==
  [requester : Users \cup {ZeroAddress}, verifier : AnyAddress,
   amount : 0..MaxAmount, deadline : 0..MaxTime,
   state : {"Open", "Settled", "Cancelled"},
   specHash : SpecHashes \cup {ZeroHash},
   settlementHash : PlanHashes \cup {ZeroHash},
   receiptHash : ReceiptHashes \cup {ZeroHash},
   commitments : 0..MaxCap, maxCommitments : 0..MaxCap]

\* An entry of the mapping that was never written: all zeroes, and zero is Open.
MissingBounty ==
  [requester |-> ZeroAddress, verifier |-> ZeroAddress, amount |-> 0, deadline |-> 0,
   state |-> "Open", specHash |-> ZeroHash, settlementHash |-> ZeroHash,
   receiptHash |-> ZeroHash, commitments |-> 0, maxCommitments |-> 0]

TypeOK ==
  /\ now \in 0..MaxTime
  /\ nextBountyId \in 0..MaxBounties
  /\ bounties \in [BountyIds -> Bounty]
  /\ commitments \in [BountyIds -> [EvidenceHashes -> Users \cup {ZeroAddress}]]
  /\ anchors \in [ReceiptHashes -> BountyIds \cup {NoBounty}]
  /\ balance \in [Addresses -> Nat]
  /\ allowance \in [Users -> 0..MaxAmount]
  /\ blocked \subseteq Blockable
  /\ paid \in [BountyIds -> 0..MaxAmount]
  /\ refunded \in [BountyIds -> 0..MaxAmount]

Init ==
  /\ now = 0
  /\ nextBountyId = 0
  /\ bounties = [id \in BountyIds |-> MissingBounty]
  /\ commitments = [id \in BountyIds |-> [h \in EvidenceHashes |-> ZeroAddress]]
  /\ anchors = [h \in ReceiptHashes |-> NoBounty]
  /\ balance = [a \in Addresses |-> IF a = Contract THEN 0 ELSE InitialBalance]
  /\ allowance = [u \in Users |-> 0]
  /\ blocked = {}
  /\ paid = [id \in BountyIds |-> 0]
  /\ refunded = [id \in BountyIds |-> 0]

-----------------------------------------------------------------------------
(* Shared pieces of the functions.  A definition named ...Bug is never used: *)
(* it is the operator below it with the mistake its comment names, and the   *)
(* mutant runs of PROJECT.json put it in place to show that a property can   *)
(* fail.                                                                     *)

\* Forgets the state check: a closed bounty can be closed again.
GetOpenBug(id) == bounties[id].requester # ZeroAddress

\* _getOpen: the bounty exists and is not closed.
GetOpen(id) ==
  /\ bounties[id].requester # ZeroAddress
  /\ bounties[id].state = "Open"

\* Accepts evidence for one more second than the requester waits.
WithinDeadlineBug(id) == now <= bounties[id].deadline + 1

\* Both ends of the evidence window: committing needs the one, cancelling the other.
WithinDeadline(id) == now <= bounties[id].deadline

\* Off by one: a full bounty takes one more commitment.
HasRoomBug(id) == bounties[id].commitments <= bounties[id].maxCommitments

HasRoom(id) == bounties[id].commitments < bounties[id].maxCommitments

\* Lets a later supplier take over an evidence hash.
UncommittedBug(id, h) == h # ZeroHash

Uncommitted(id, h) == commitments[id][h] = ZeroAddress

\* Lets a receipt be anchored again, under another bounty.
CanAnchorBug(h) == h # ZeroHash

\* EvidenceReceiptRegistry.anchor's own checks; its caller is GapBounty.
CanAnchor(h) == h # ZeroHash /\ anchors[h] = NoBounty

\* Asks for the wrong role.
MayCancelBug(sender, id) == sender = bounties[id].verifier

MayCancel(sender, id) == sender = bounties[id].requester

\* Pays the total back instead of what is left of it.
RefundOfBug(amount, total) == total

\* What finalize gives back to the requester.
RefundOf(amount, total) == amount - total

\* The loop of finalize that checks the payout vector.
CanonicalPayouts(recipients, amounts) ==
  /\ Len(recipients) > 0
  /\ Len(recipients) = Len(amounts)
  /\ \A i \in DOMAIN recipients : recipients[i] # ZeroAddress /\ amounts[i] # 0
  /\ \A i \in DOMAIN recipients : i > 1 => recipients[i] > recipients[i - 1]

Total(amounts) == FoldLeft(+, 0, amounts)

\* What the payouts give to address a: the recipients are strictly increasing,
\* so it stands in the vector at most once.
PayoutTo(recipients, amounts, a) ==
  IF \E i \in DOMAIN recipients : recipients[i] = a
    THEN amounts[CHOOSE i \in DOMAIN recipients : recipients[i] = a]
    ELSE 0

-----------------------------------------------------------------------------
(* USDC.  Transfers revert for an address on the token's blocklist.         *)

\* _move, also when an address pays itself.
Move(from, to, amount) == [balance EXCEPT ![from] = @ - amount, ![to] = @ + amount]

\* approve sets the allowance: it does not add to it.
Approve(owner, amount) ==
  /\ allowance' = [allowance EXCEPT ![owner] = amount]
  /\ UNCHANGED <<now, chainVars, balance, blocked, logVars>>

\* A transfer that does not go through GapBounty, to it (a donation) included.
Transfer(from, to, amount) ==
  /\ {from, to} \cap blocked = {}
  /\ balance[from] >= amount
  /\ balance' = Move(from, to, amount)
  /\ UNCHANGED <<now, chainVars, allowance, blocked, logVars>>

\* The issuer puts a user on the blocklist or takes it off.
SetBlocked(u) ==
  /\ blocked' = IF u \in blocked THEN blocked \ {u} ELSE blocked \cup {u}
  /\ UNCHANGED <<now, chainVars, balance, allowance, logVars>>

-----------------------------------------------------------------------------
(* GapBounty.                                                               *)

CreateBounty(sender, specHash, verifier, amount, deadline, maxCommitments) ==
  /\ specHash # ZeroHash
  /\ verifier # ZeroAddress
  /\ amount # 0
  /\ deadline > now
  /\ maxCommitments # 0
  /\ nextBountyId < MaxBounties
  /\ nextBountyId' = nextBountyId + 1
  /\ bounties' = [bounties EXCEPT ![nextBountyId] =
       [requester |-> sender, verifier |-> verifier, amount |-> amount,
        deadline |-> deadline, state |-> "Open", specHash |-> specHash,
        settlementHash |-> ZeroHash, receiptHash |-> ZeroHash,
        commitments |-> 0, maxCommitments |-> maxCommitments]]
  \* usdc.transferFrom(sender, address(this), amount)
  /\ allowance[sender] >= amount
  /\ balance[sender] >= amount
  /\ sender \notin blocked
  /\ allowance' = [allowance EXCEPT ![sender] = @ - amount]
  /\ balance' = Move(sender, Contract, amount)
  /\ UNCHANGED <<now, commitments, anchors, blocked, logVars>>

CommitEvidence(sender, id, evidenceHash) ==
  /\ GetOpen(id)
  /\ WithinDeadline(id)
  /\ evidenceHash # ZeroHash
  /\ HasRoom(id)
  /\ Uncommitted(id, evidenceHash)
  /\ commitments' = [commitments EXCEPT ![id][evidenceHash] = sender]
  /\ bounties' = [bounties EXCEPT ![id] = [@ EXCEPT !.commitments = bounties[id].commitments + 1]]
  /\ UNCHANGED <<now, nextBountyId, anchors, tokenVars, logVars>>

Finalize(sender, id, recipients, amounts, settlementHash, receiptHash) ==
  LET b == bounties[id]
      total == Total(amounts)
      refund == RefundOf(b.amount, total)
  IN  /\ GetOpen(id)
      /\ sender = b.verifier
      /\ settlementHash # ZeroHash /\ receiptHash # ZeroHash
      /\ CanonicalPayouts(recipients, amounts)
      /\ total \in 0..b.amount
      /\ bounties' = [bounties EXCEPT ![id] =
           [@ EXCEPT !.state = "Settled", !.settlementHash = settlementHash,
                     !.receiptHash = receiptHash]]
      \* the transfers: one to each recipient, then the refund if there is any
      /\ \A i \in DOMAIN recipients : recipients[i] \notin blocked
      /\ refund > 0 => b.requester \notin blocked
      /\ balance[Contract] >= total + refund
      /\ balance' = [a \in Addresses |->
           balance[a] + PayoutTo(recipients, amounts, a)
                      + (IF a = b.requester THEN refund ELSE 0)
                      - (IF a = Contract THEN total + refund ELSE 0)]
      /\ CanAnchor(receiptHash)
      /\ anchors' = [anchors EXCEPT ![receiptHash] = id]
      /\ paid' = [paid EXCEPT ![id] = total]
      /\ refunded' = [refunded EXCEPT ![id] = refund]
      /\ UNCHANGED <<now, nextBountyId, commitments, allowance, blocked>>

Cancel(sender, id) ==
  LET b == bounties[id]
  IN  /\ GetOpen(id)
      /\ MayCancel(sender, id)
      /\ ~WithinDeadline(id)
      /\ bounties' = [bounties EXCEPT ![id] = [@ EXCEPT !.state = "Cancelled"]]
      /\ b.requester \notin blocked
      /\ balance[Contract] >= b.amount
      /\ balance' = Move(Contract, b.requester, b.amount)
      /\ refunded' = [refunded EXCEPT ![id] = b.amount]
      /\ UNCHANGED <<now, nextBountyId, commitments, anchors, allowance, blocked, paid>>

\* A block is mined later than the last one.
Tick ==
  /\ now < MaxTime
  /\ now' = now + 1
  /\ UNCHANGED <<chainVars, tokenVars, logVars>>

-----------------------------------------------------------------------------
\* The payout vectors a verifier may send.  A recipient is any address, the
\* contract's own included.
Vectors(S) == UNION {[1..n -> S] : n \in 0..MaxPayouts}

RequesterStep(u) ==
  \/ \E amount \in 0..MaxAmount : Approve(u, amount)
  \/ \E h \in SpecHashes \cup {ZeroHash}, v \in Verifiers, amount \in 0..MaxAmount,
        deadline \in 0..(MaxTime - 1), cap \in 0..MaxCap :
       CreateBounty(u, h, v, amount, deadline, cap)

UserStep(u) ==
  \/ \E to \in TransferTargets, amount \in 1..MaxAmount : Transfer(u, to, amount)
  \/ \E id \in BountyIds :
       \/ \E h \in EvidenceHashes : CommitEvidence(u, id, h)
       \/ \E recipients \in Vectors(AnyAddress), amounts \in Vectors(0..MaxAmount),
             p \in PlanHashes, r \in ReceiptHashes :
            Finalize(u, id, recipients, amounts, p, r)
       \/ Cancel(u, id)

Next ==
  \/ \E u \in Requesters : RequesterStep(u)
  \/ \E u \in Users : UserStep(u)
  \/ \E u \in Blockable : SetBlocked(u)
  \/ Tick

Spec == Init /\ [][Next]_vars

\* A requester whose escrow is stuck asks for it again and again: it may be on
\* the blocklist at times, hence strong fairness.
FairSpec ==
  /\ Spec
  /\ WF_vars(Tick)
  /\ \A u \in Users, id \in BountyIds : SF_vars(Cancel(u, id))

-----------------------------------------------------------------------------
(* Correctness.                                                             *)

Escrowed(id) == bounties[id].requester # ZeroAddress /\ bounties[id].state = "Open"

\* The money in escrow, each base unit of it with the bounty it belongs to.
EscrowedUnits ==
  {e \in BountyIds \X (1..MaxAmount) : Escrowed(e[1]) /\ e[2] <= bounties[e[1]].amount}

(* GapBounty can always pay back every open bounty in full, whatever was    *)
(* settled or cancelled before: one bounty never draws on the escrow of     *)
(* another (finalize, cancel; GapBounty.t.sol "escrow can never be          *)
(* overdrawn").                                                             *)
Solvency == Cardinality(EscrowedUnits) <= balance[Contract]

(* The registry and the bounties agree in both directions: every anchored   *)
(* hash is that of a settled bounty, and every settled bounty is anchored   *)
(* under its own receipt (EvidenceReceiptRegistry.sol, "one per settled     *)
(* bounty - so every anchored hash is backed by a real settlement").        *)
AnchorsBackSettlements ==
  /\ \A h \in ReceiptHashes : anchors[h] # NoBounty =>
       bounties[anchors[h]].state = "Settled" /\ bounties[anchors[h]].receiptHash = h
  /\ \A id \in BountyIds : bounties[id].state = "Settled" =>
       bounties[id].receiptHash \in ReceiptHashes /\ anchors[bounties[id].receiptHash] = id

(* The counter of a bounty, kept with unchecked arithmetic, is the number   *)
(* of evidence hashes pinned in the mapping, and never passes the cap       *)
(* (commitEvidence).                                                        *)
CommitmentsCounted ==
  \A id \in BountyIds :
    /\ bounties[id].commitments = Cardinality({h \in EvidenceHashes : commitments[id][h] # ZeroAddress})
    /\ bounties[id].commitments <= bounties[id].maxCommitments

\* The requester may take the escrow back.
Reclaimable(id) == Escrowed(id) /\ now > bounties[id].deadline

(* Evidence is pinned once and for good, to an open bounty only, and never  *)
(* at a time when the requester could already take the escrow back: the     *)
(* windows of commitEvidence and cancel do not overlap, and a settlement or *)
(* a cancellation freezes what was committed.                               *)
EvidenceWindow ==
  [][\A id \in BountyIds, h \in EvidenceHashes :
       commitments'[id][h] # commitments[id][h] =>
         /\ commitments[id][h] = ZeroAddress
         /\ Escrowed(id)
         /\ ~Reclaimable(id)]_vars

\* A bounty as the abstract escrow sees it.
EscrowStatus(id) ==
  IF bounties[id].requester = ZeroAddress THEN "None" ELSE bounties[id].state

E == INSTANCE Escrow WITH
       Ids <- BountyIds,
       Receipts <- ReceiptHashes,
       NoReceipt <- ZeroHash,
       status <- [id \in BountyIds |-> EscrowStatus(id)],
       amount <- [id \in BountyIds |-> bounties[id].amount],
       receipt <- [id \in BountyIds |-> bounties[id].receiptHash]

(* The contracts implement the abstract escrow: a bounty is closed once, a  *)
(* closing gives out exactly what was put in, and settled bounties have     *)
(* receipts of their own (finalize, cancel, anchor).                        *)
ImplementsEscrow == E!Spec

(* Money never stays locked for ever: an escrow is settled or goes back to  *)
(* its requester, unless the requester is on the blocklist from some time   *)
(* on.  Nothing the verifier, a supplier or another requester does, or      *)
(* fails to do, can prevent it (cancel, "Reclaim escrow after the deadline  *)
(* if the bounty was never settled").                                       *)
EscrowResolved ==
  \A u \in Users : ([]<>(u \notin blocked)) =>
    \A id \in BountyIds :
      (Escrowed(id) /\ bounties[id].requester = u) ~> ~Escrowed(id)
=============================================================================
