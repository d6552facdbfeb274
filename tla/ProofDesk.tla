----------------------------- MODULE ProofDesk -----------------------------
(***************************************************************************)
(* The proof inspector of the web explorer                                 *)
(* (apps/web/components/proof-inspector.tsx): a text that is typed in or   *)
(* read from a file, and the result of verifyBundle for it.                *)
(*                                                                         *)
(* Reading a file is awaited; everything else happens at once.  What       *)
(* verifyBundle finds is a function of the text, so that a result is the   *)
(* text it was computed for.                                               *)
(***************************************************************************)
EXTENDS Naturals, FiniteSets

CONSTANTS Texts,          \* contents of the desk and of files
          Malformed,      \* those that are no JSON
          Oversized,      \* those of more than a megabyte
          Initial,        \* what the desk shows at first
          MaxActs         \* bound: edits made and files opened

ASSUME DeskAssumption ==
  /\ Malformed \subseteq Texts /\ Oversized \subseteq Texts
  /\ Initial \in Texts \ Oversized
  /\ MaxActs \in Nat

VARIABLES text, result, error,
          revision,     \* number of the latest edit or file
          reads,        \* the files being read
          acts,         \* history: how often the visitor gave a text
          author        \* history: the act the text is of

vars == <<text, result, error, revision, reads, acts, author>>

NoResult == "none"

\* The result stays beside the edited text.
ClearedBug == UNCHANGED result /\ error' = FALSE

Cleared == result' = NoResult /\ error' = FALSE

\* Typing does not make the files being read late.
EditedBug == UNCHANGED revision

Edited == revision' = revision + 1

\* The text area, which holds no more than a megabyte.
Edit(t) ==
  /\ acts < MaxActs
  /\ t # text /\ t \notin Oversized
  /\ Edited
  /\ acts' = acts + 1
  /\ text' = t /\ author' = acts'
  /\ Cleared
  /\ UNCHANGED reads

\* openFile, up to the await.
OpenFile(t) ==
  /\ acts < MaxActs
  /\ acts' = acts + 1
  /\ revision' = revision + 1
  /\ result' = NoResult
  /\ error' = (t \in Oversized)
  /\ reads' = IF t \in Oversized THEN reads
              ELSE reads \cup {[revision |-> revision + 1, act |-> acts + 1, text |-> t]}
  /\ UNCHANGED <<text, author>>

IsLatest(r) == r.revision = revision

\* The file has been read: a result computed meanwhile stays.
Opens(r) ==
  /\ reads' = reads \ {r}
  /\ IF IsLatest(r)
     THEN /\ text' = r.text /\ author' = r.act
          /\ error' = (error \/ r.text \in Malformed)
     ELSE UNCHANGED <<text, author, error>>
  /\ UNCHANGED <<result, revision, acts>>

CannotOpen(r) ==
  /\ reads' = reads \ {r}
  /\ error' = (error \/ IsLatest(r))
  /\ UNCHANGED <<text, author, result, revision, acts>>

ResultOf(t) == IF t \in Malformed \cup Oversized THEN NoResult ELSE t

Check ==
  /\ result' = ResultOf(text)
  /\ error' = (text \in Malformed \cup Oversized)
  /\ UNCHANGED <<text, author, revision, acts, reads>>

Init ==
  /\ text = Initial /\ acts = 0 /\ author = 0
  /\ result = NoResult /\ error = FALSE
  /\ revision = 0 /\ reads = {}

Next ==
  \/ \E t \in Texts : Edit(t) \/ OpenFile(t)
  \/ \E r \in reads : Opens(r) \/ CannotOpen(r)
  \/ Check

Spec == Init /\ [][Next]_vars

-----------------------------------------------------------------------------
(* Correctness.                                                             *)

TypeOK ==
  /\ text \in Texts
  /\ result \in (Texts \ (Malformed \cup Oversized)) \cup {NoResult}
  /\ error \in BOOLEAN
  /\ revision \in 0..MaxActs /\ acts \in 0..MaxActs /\ author \in 0..MaxActs
  /\ reads \subseteq [revision : 1..MaxActs, act : 1..MaxActs, text : Texts \ Oversized]

\* A result beside a text it is not of.
Stale == result \notin {NoResult, text}

(* What the visitor did last wins: a file that is read late replaces        *)
(* neither an edit made nor a file opened after it, so that the text on the *)
(* desk only ever gets newer; and "Edit a payout; stale verification        *)
(* disappears" (docs/demo-script.md:109), but for a file that comes in      *)
(* after a check that was made while it was being read.                     *)
LatestWins ==
  [][/\ author' >= author
     /\ Stale' => result' = result /\ (Stale \/ \E r \in reads : Opens(r))]_vars
=============================================================================
