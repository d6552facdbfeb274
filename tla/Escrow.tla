------------------------------- MODULE Escrow -------------------------------
(***************************************************************************)
(* What the contract pair GapBounty + EvidenceReceiptRegistry promises     *)
(* about one sum of money: it is opened once, it is closed at most once,   *)
(* closing gives out the whole of it, and a closing that pays suppliers is *)
(* recorded under a receipt hash that no other closing uses.               *)
(*                                                                         *)
(* Nothing here says who may act, when, in which currency or through which *)
(* calls: GapBounty.tla is shown to implement this module.                 *)
(***************************************************************************)
EXTENDS Integers

CONSTANTS Ids,         \* the bounties there can ever be
          MaxAmount,   \* the largest escrow
          Receipts,    \* receipt hashes
          NoReceipt    \* no receipt yet

\* What the constants must satisfy for the promises below to hold.
ProperConstants == MaxAmount \in Nat /\ NoReceipt \notin Receipts

VARIABLES status,    \* of each bounty: "None", "Open", "Settled" or "Cancelled"
          amount,    \* the sum put in escrow
          paid,      \* what suppliers and the verifier received
          refunded,  \* what went back to the requester
          receipt    \* the anchored receipt hash

vars == <<status, amount, paid, refunded, receipt>>

TypeOK ==
  /\ status \in [Ids -> {"None", "Open", "Settled", "Cancelled"}]
  /\ amount \in [Ids -> 0..MaxAmount]
  /\ paid \in [Ids -> 0..MaxAmount]
  /\ refunded \in [Ids -> 0..MaxAmount]
  /\ receipt \in [Ids -> Receipts \cup {NoReceipt}]

Init ==
  /\ status = [id \in Ids |-> "None"]
  /\ amount = [id \in Ids |-> 0]
  /\ paid = [id \in Ids |-> 0]
  /\ refunded = [id \in Ids |-> 0]
  /\ receipt = [id \in Ids |-> NoReceipt]

\* Somebody puts `a` in escrow under a fresh identifier.
Fund(id, a) ==
  /\ status[id] = "None"
  /\ status' = [status EXCEPT ![id] = "Open"]
  /\ amount' = [amount EXCEPT ![id] = a]
  /\ UNCHANGED <<paid, refunded, receipt>>

\* An open escrow is paid out: `p` of it to recipients, the rest back, under
\* a receipt that no other bounty has.
Settle(id, p, r) ==
  /\ status[id] = "Open"
  /\ p <= amount[id]
  /\ \A other \in Ids : receipt[other] # r
  /\ status' = [status EXCEPT ![id] = "Settled"]
  /\ paid' = [paid EXCEPT ![id] = p]
  /\ refunded' = [refunded EXCEPT ![id] = amount[id] - p]
  /\ receipt' = [receipt EXCEPT ![id] = r]
  /\ UNCHANGED amount

\* An open escrow goes back whole.
Reclaim(id) ==
  /\ status[id] = "Open"
  /\ status' = [status EXCEPT ![id] = "Cancelled"]
  /\ refunded' = [refunded EXCEPT ![id] = amount[id]]
  /\ UNCHANGED <<amount, paid, receipt>>

Next ==
  \E id \in Ids :
    \/ \E a \in 1..MaxAmount : Fund(id, a)
    \/ \E p \in 0..MaxAmount, r \in Receipts : Settle(id, p, r)
    \/ Reclaim(id)

Spec == Init /\ [][Next]_vars

-----------------------------------------------------------------------------

\* An open escrow has given out nothing and a closed one exactly what was put
\* in: no bounty is paid twice, none keeps a residue.
WholeEscrow ==
  \A id \in Ids :
    /\ status[id] = "Open" => paid[id] + refunded[id] = 0
    /\ status[id] \in {"Settled", "Cancelled"} => paid[id] + refunded[id] = amount[id]

\* Suppliers are paid by settled bounties only, and each settled bounty has a
\* receipt of its own.
ReceiptPerSettlement ==
  /\ \A id \in Ids : (receipt[id] # NoReceipt) <=> (status[id] = "Settled")
  /\ \A id, other \in Ids :
       receipt[id] = receipt[other] /\ receipt[id] # NoReceipt => id = other
  /\ \A id \in Ids : paid[id] > 0 => status[id] = "Settled"
=============================================================================
