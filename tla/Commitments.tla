---------------------------- MODULE Commitments ----------------------------
(***************************************************************************)
(* Evidence that is submitted with commitOnchain: the handler of           *)
(* POST /api/gaps/:id/submissions (apps/api/src/server.ts), which stores   *)
(* the submission and then, with the supplier's key, pins its hash with    *)
(* commitEvidence of the contract, through packages/sdk/src/chain.ts.      *)
(*                                                                         *)
(* One gap with a bounty.  A request is a call, which goes from one await  *)
(* to the next beside the others; a supplier whose request failed may make *)
(* another.  A transaction is estimated, sent and mined, in any order with *)
(* the others (those of one supplier are ordered by their nonces: here     *)
(* they are not), and one that reverts when it is mined is answered like   *)
(* one that does not.                                                      *)
(***************************************************************************)
EXTENDS Naturals, FiniteSets

CONSTANTS Calls,           \* the requests made, each once
          Suppliers,
          Urls,            \* canonical URLs
          Hashes,          \* content hashes
          MaxCommitments   \* of the bounty

None == "none"

\* Of the constants, for those who instantiate this module.
CommitmentsAssumption ==
  /\ MaxCommitments \in Nat /\ IsFiniteSet(Calls)
  /\ None \notin Suppliers

VARIABLES rows,        \* the submissions stored
          late,        \* the deadline has passed
          closed,      \* the bounty is settled or cancelled
          commitments, \* hash -> the supplier that pinned it, None
          count,       \* commitments of the bounty, as it counts them
          calls

vars == <<rows, late, closed, commitments, count, calls>>

\* `asked` is the evidence of the request, `stored` the hash of the submission that
\* answers it.
Input == [by : Suppliers, url : Urls, hash : Hashes, commit : BOOLEAN]

NotMade == [pc |-> "idle"]

Made(input) ==
  [pc |-> "committing", asked |-> input, stored |-> None, duplicate |-> FALSE,
   tx |-> "none", alive |-> TRUE]

Init ==
  /\ rows = {}
  /\ late = FALSE /\ closed = FALSE
  /\ commitments = [h \in Hashes |-> None]
  /\ count = 0
  /\ calls = [c \in Calls |-> NotMade]

-----------------------------------------------------------------------------
(* The contract.                                                            *)

\* One more than the cap.
HasRoomBug == count <= MaxCommitments

HasRoom == count < MaxCommitments

\* The requirements of commitEvidence.
MayCommit(h) == ~closed /\ ~late /\ HasRoom /\ commitments[h] = None

-----------------------------------------------------------------------------
(* The handler.                                                             *)

Running(c) == calls[c].pc = "committing" /\ calls[c].alive

\* findSubmissionByUrl.
Existing(url) == {r \in rows : r.url = url}

\* Pins the hash of the request, also when it is a duplicate of another submission.
HashToPinBug(input, row) == input.hash

\* submission.contentHash.
HashToPin(input, row) == row.hash

\* Up to the await of the transaction; without one, to the answer.
Submit(c, input) ==
  /\ calls[c] = NotMade
  /\ ~late /\ ~closed
  /\ LET fresh == [url |-> input.url, hash |-> input.hash, by |-> input.by]
         duplicate == Existing(input.url) # {}
     IN  \E row \in IF duplicate THEN Existing(input.url) ELSE {fresh} :
           /\ rows' = rows \cup {row}
           /\ calls' = [calls EXCEPT ![c] =
                [Made(input) EXCEPT !.pc = IF input.commit THEN @ ELSE "answered",
                                    !.stored = HashToPin(input, row),
                                    !.duplicate = duplicate]]
  /\ UNCHANGED <<late, closed, commitments, count>>

\* writeContract: what would revert now is not sent.
Send(c) ==
  /\ Running(c) /\ calls[c].tx = "none"
  /\ calls' = IF MayCommit(calls[c].stored)
              THEN [calls EXCEPT ![c].tx = "pending"]
              ELSE [calls EXCEPT ![c].pc = "failed"]
  /\ UNCHANGED <<rows, late, closed, commitments, count>>

\* Whether or not its handler is still there.
Mined(c) ==
  LET h == calls[c].stored
  IN  /\ calls[c] # NotMade /\ calls[c].tx = "pending"
      /\ IF MayCommit(h)
         THEN /\ commitments' = [commitments EXCEPT ![h] = calls[c].asked.by]
              /\ count' = count + 1
              /\ calls' = [calls EXCEPT ![c].tx = "mined"]
         ELSE /\ calls' = [calls EXCEPT ![c].tx = "reverted"]
              /\ UNCHANGED <<commitments, count>>
      /\ UNCHANGED <<rows, late, closed>>

\* waitForTransactionReceipt, which does not look at the status.
Answers(c) ==
  /\ Running(c) /\ calls[c].tx \in {"mined", "reverted"}
  /\ calls' = [calls EXCEPT ![c].pc = "answered"]
  /\ UNCHANGED <<rows, late, closed, commitments, count>>

\* An awaited call fails, or its answer does not come in time.
Throws(c) ==
  /\ Running(c)
  /\ calls' = [calls EXCEPT ![c].pc = "failed"]
  /\ UNCHANGED <<rows, late, closed, commitments, count>>

\* The process dies; the submissions stay.
Crash ==
  /\ \E c \in Calls : Running(c)
  /\ calls' = [c \in Calls |-> IF Running(c) THEN [calls[c] EXCEPT !.alive = FALSE] ELSE calls[c]]
  /\ UNCHANGED <<rows, late, closed, commitments, count>>

DeadlinePasses ==
  ~late /\ late' = TRUE /\ UNCHANGED <<rows, closed, commitments, count, calls>>

\* finalize or cancel of the contract.
Closes == ~closed /\ closed' = TRUE /\ UNCHANGED <<rows, late, commitments, count, calls>>

Next ==
  \/ \E c \in Calls :
       \/ \E input \in Input : Submit(c, input)
       \/ Send(c) \/ Mined(c) \/ Answers(c) \/ Throws(c)
  \/ Crash \/ DeadlinePasses \/ Closes

Spec == Init /\ [][Next]_vars

-----------------------------------------------------------------------------
(* Correctness.                                                             *)

Asked(c) == calls[c] # NotMade

TypeOK ==
  /\ rows \subseteq [url : Urls, hash : Hashes, by : Suppliers]
  /\ late \in BOOLEAN /\ closed \in BOOLEAN
  /\ commitments \in [Hashes -> Suppliers \cup {None}]
  /\ count \in 0..MaxCommitments
  /\ \A c \in Calls : Asked(c) =>
       /\ calls[c].pc \in {"committing", "answered", "failed"}
       /\ calls[c].asked \in Input /\ calls[c].stored \in Hashes
       /\ calls[c].tx \in {"none", "pending", "mined", "reverted"}

(* What the API pins on the chain is the hash of a submission it has stored,*)
(* for a URL that the supplier it is pinned for submitted and asked to have *)
(* committed: also when the request was a duplicate with another hash, was  *)
(* made again, or lost its handler.                                         *)
CommittedIsStored ==
  \A h \in Hashes : commitments[h] # None =>
    \E c \in Calls, r \in rows :
      /\ Asked(c) /\ calls[c].asked.by = commitments[h] /\ calls[c].asked.commit
      /\ r.url = calls[c].asked.url /\ r.hash = h
=============================================================================
