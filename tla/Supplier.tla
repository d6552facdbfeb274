------------------------------ MODULE Supplier ------------------------------
(***************************************************************************)
(* Evidence suppliers (examples/evidence-supplier/src/supplier.ts), each   *)
(* asked again and again to runOnce, beside other clients of the API.      *)
(*                                                                         *)
(* A supplier runs from one await to the next: the two lists of gaps, the  *)
(* search for each gap, the submission of each source found.  What it does *)
(* next rests on the lists, while the gaps move on.  A submission and its  *)
(* answer are one step, which may lose the answer.  The API's handlers     *)
(* are those of GapService on a working process; rewards are below the     *)
(* policy's minimum for the gaps not in Worthwhile.                        *)
(***************************************************************************)
EXTENDS Urls, FiniteSets

CONSTANTS Suppliers,
          MaxGap,        \* the gaps are 1..MaxGap, in the order of the store's list
          Worthwhile,    \* the gaps whose budget is enough for the suppliers' policy
          KindOf,        \* supplier -> "search", "official" or "independent"
          Found,         \* supplier -> the candidates its provider finds for any gap
          OtherClient,   \* whoever else submits evidence
          OtherUrls,     \* what the other client may submit
          MaxFailures    \* bound: calls that fail

Gaps == 1..MaxGap

\* Of the constants, for those who instantiate this module.
SupplierAssumption ==
  /\ MaxGap \in Nat /\ MaxFailures \in Nat
  /\ Worthwhile \subseteq Gaps
  /\ OtherClient \notin Suppliers
  /\ KindOf \in [Suppliers -> {"search", "official", "independent"}]
  /\ \A u \in OtherUrls : Canonicalizes(u) /\ Parsed(u)
  /\ \A s \in Suppliers :
       /\ Found[s] \in Seq(ToSet(Found[s]))
       /\ \A c \in ToSet(Found[s]) : Parsed(c.url)

VARIABLES status,      \* of the gaps
          time,        \* what is left until their deadlines: "long", "short", "over"
          rows,        \* the submissions stored
          evaluating,  \* gap -> the status evaluateGap has read, "none" if not running
          agents,      \* the suppliers
          merged,      \* the URL sent last for which there was a row, and that row's
          failures

gapVars == <<status, time, rows, evaluating, merged>>
vars == <<gapVars, agents, failures>>

Accepting == {"open", "submissions", "verified"}
Listed == {"open", "submissions"}

Idle == [pc |-> "idle", queue |-> <<>>, todo |-> <<>>,
         before |-> 0,    \* its submissions when the round began
         submitted |-> 0, skipped |-> 0]

Init ==
  /\ status = [g \in Gaps |-> "open"]
  /\ time = [g \in Gaps |-> "long"]
  /\ rows = [g \in Gaps |-> {}]
  /\ evaluating = [g \in Gaps |-> "none"]
  /\ agents = [s \in Suppliers |-> Idle]
  /\ merged = <<>>
  /\ failures = 0

-----------------------------------------------------------------------------
(* The API.                                                                 *)

\* getGap: a gap past its deadline is seen, and stored, as expired.
Seen(g) == IF time[g] = "over" /\ status[g] \in Accepting THEN "expired" ELSE status[g]

ListGaps == status' = [g \in Gaps |-> Seen(g)]

\* Those of a status, each with the status the client is told.
WithStatus(wanted) ==
  LET gaps == Filtered([g \in Gaps |-> g], {g \in Gaps : Seen(g) = wanted})
  IN  [i \in DOMAIN gaps |-> [gap |-> gaps[i], status |-> wanted]]

\* For a canonical URL.
Stored(g, page) == {r \in rows[g] : r.canonical = page}

\* findSubmissionByUrl.
IsDuplicate(g, page) == Stored(g, page) # {}

RowsBy(s) == Cardinality(UNION {{g} \X {r \in rows[g] : r.by = s} : g \in Gaps})

\* submitEvidence: the status afterwards, the row and the pair of a duplicate.
SubmitEvidence(g, u, by) ==
  /\ Seen(g) \in Accepting
  /\ \E page \in {Canonical(u)} :
       IF IsDuplicate(g, page)
       THEN /\ \E r \in Stored(g, page) : merged' = <<u, r.sent>>
            /\ UNCHANGED <<status, rows>>
       ELSE /\ rows' = [rows EXCEPT ![g] = @ \cup {[canonical |-> page, sent |-> u, by |-> by]}]
            /\ status' = [status EXCEPT ![g] = "submissions"]
            /\ UNCHANGED merged

OtherSubmits(g, u) ==
  /\ SubmitEvidence(g, u, OtherClient)
  /\ UNCHANGED <<time, evaluating, agents, failures>>

\* evaluateGap, up to its first verdict ...
StartEvaluation(g) ==
  /\ Seen(g) = status[g] /\ evaluating[g] = "none" /\ rows[g] # {}
  /\ evaluating' = [evaluating EXCEPT ![g] = status[g]]
  /\ UNCHANGED <<status, time, rows, merged, agents, failures>>

\* ... and after its last.
EndEvaluation(g) ==
  /\ evaluating[g] # "none"
  /\ status' = [status EXCEPT ![g] = IF evaluating[g] \in Listed THEN "verified" ELSE @]
  /\ evaluating' = [evaluating EXCEPT ![g] = "none"]
  /\ UNCHANGED <<time, rows, merged, agents, failures>>

\* The end of POST /api/gaps/:id/finalize.
Settle(g) ==
  /\ Seen(g) \in Accepting /\ evaluating[g] = "none"
  /\ status' = [status EXCEPT ![g] = "settled"]
  /\ UNCHANGED <<time, rows, evaluating, merged, agents, failures>>

TimePasses(g) ==
  /\ time[g] # "over"
  /\ time' = [time EXCEPT ![g] = IF @ = "long" THEN "short" ELSE "over"]
  /\ UNCHANGED <<status, rows, evaluating, merged, agents, failures>>

-----------------------------------------------------------------------------
(* A supplier.                                                              *)

\* select of the three strategies.
Selects(kind, c) ==
  CASE kind = "search" -> c.relation # "contradicts" /\ c.type # "social"
    [] kind = "official" -> c.type \in {"official", "primary"}
    [] kind = "independent" -> c.type = "independent"

Candidates(s) ==
  Filtered(Found[s], {n \in DOMAIN Found[s] : Selects(KindOf[s], Found[s][n])})

\* Takes a gap that has submissions for one that is served.
WorthPursuingBug(view) ==
  view.status \in {"open", "funded"} /\ time[view.gap] = "long" /\ view.gap \in Worthwhile

\* By the status in the list, and the clock.
WorthPursuing(view) ==
  view.status \in {"open", "submissions", "funded"} /\ time[view.gap] = "long"
    /\ view.gap \in Worthwhile

ListOpen(s) ==
  /\ agents[s].pc = "idle"
  /\ ListGaps
  /\ agents' = [agents EXCEPT ![s] =
       [Idle EXCEPT !.pc = "live", !.queue = WithStatus("open"), !.before = RowsBy(s)]]
  /\ UNCHANGED <<time, rows, evaluating, merged, failures>>

ListLive(s) ==
  /\ agents[s].pc = "live"
  /\ ListGaps
  /\ agents' = [agents EXCEPT ![s].pc = "next", ![s].queue = @ \o WithStatus("submissions")]
  /\ UNCHANGED <<time, rows, evaluating, merged, failures>>

Skip(s) ==
  /\ agents[s].pc = "next" /\ agents[s].queue # <<>>
  /\ ~WorthPursuing(Head(agents[s].queue))
  /\ agents' = [agents EXCEPT ![s].queue = Tail(@), ![s].skipped = @ + 1]
  /\ UNCHANGED <<gapVars, failures>>

Search(s) ==
  /\ agents[s].pc = "next" /\ agents[s].queue # <<>>
  /\ WorthPursuing(Head(agents[s].queue))
  /\ agents' = [agents EXCEPT ![s].pc = "submit", ![s].todo = Candidates(s)]
  /\ UNCHANGED <<gapVars, failures>>

\* Counts every answer.
CountedBug(submitted, duplicate) == submitted + 1

Counted(submitted, duplicate) == IF duplicate THEN submitted ELSE submitted + 1

\* Sends the URL it found in its canonical form, and takes the next one.
Submit(s) ==
  LET me == agents[s]
      g == Head(me.queue).gap
  IN  /\ me.pc = "submit" /\ me.todo # <<>>
      /\ Canonicalizes(Head(me.todo).url)
      /\ \E u \in {Canonical(Head(me.todo).url)} :
           /\ SubmitEvidence(g, u, s)
           /\ agents' = [agents EXCEPT ![s].todo = Tail(@),
                                       ![s].submitted = Counted(@, IsDuplicate(g, Canonical(u)))]
      /\ UNCHANGED <<time, evaluating, failures>>

\* The answer is lost, or later than 30 seconds: runOnce throws.
AnswerLost(s) ==
  LET me == agents[s]
  IN  /\ me.pc = "submit" /\ me.todo # <<>> /\ failures < MaxFailures
      /\ Canonicalizes(Head(me.todo).url)
      /\ SubmitEvidence(Head(me.queue).gap, Canonical(Head(me.todo).url), s)
      /\ failures' = failures + 1
      /\ agents' = [agents EXCEPT ![s] = Idle]
      /\ UNCHANGED <<time, evaluating>>

NextGap(s) ==
  /\ agents[s].pc = "submit" /\ agents[s].todo = <<>>
  /\ agents' = [agents EXCEPT ![s].pc = "next", ![s].queue = Tail(@)]
  /\ UNCHANGED <<gapVars, failures>>

\* canonicalizeUrl throws, or the API refuses the submission, having noted that the
\* gap has expired: runOnce throws, whatever else is in its queue.
Refused(s) ==
  LET me == agents[s]
      g == Head(me.queue).gap
      parses == Canonicalizes(Head(me.todo).url)
  IN  /\ me.pc = "submit" /\ me.todo # <<>>
      /\ ~parses \/ Seen(g) \notin Accepting
      /\ status' = IF parses THEN [status EXCEPT ![g] = Seen(g)] ELSE status
      /\ agents' = [agents EXCEPT ![s] = Idle]
      /\ UNCHANGED <<time, rows, evaluating, merged, failures>>

\* A list, a search or a submission fails, without effect.
Fails(s) ==
  /\ agents[s].pc # "idle" /\ failures < MaxFailures
  /\ failures' = failures + 1
  /\ agents' = [agents EXCEPT ![s] = Idle]
  /\ UNCHANGED gapVars

\* runOnce returns its counts.
Done(s) ==
  /\ agents[s].pc = "next" /\ agents[s].queue = <<>>
  /\ agents' = [agents EXCEPT ![s] = Idle]
  /\ UNCHANGED <<gapVars, failures>>

Runs(s) ==
  \/ ListOpen(s) \/ ListLive(s) \/ Skip(s) \/ Search(s)
  \/ Submit(s) \/ Refused(s) \/ NextGap(s) \/ Done(s)

Next ==
  \/ \E s \in Suppliers : Runs(s) \/ AnswerLost(s) \/ Fails(s)
  \/ \E g \in Gaps, u \in OtherUrls : OtherSubmits(g, u)
  \/ \E g \in Gaps : StartEvaluation(g) \/ EndEvaluation(g) \/ Settle(g) \/ TimePasses(g)

Spec == Init /\ [][Next]_vars

\* Suppliers are asked again and again, and their calls end.
FairSpec == Spec /\ \A s \in Suppliers : WF_vars(Runs(s))

-----------------------------------------------------------------------------
(* Correctness.                                                             *)

TypeOK ==
  /\ status \in [Gaps -> Accepting \cup {"expired", "settled"}]
  /\ time \in [Gaps -> {"long", "short", "over"}]
  /\ \A g \in Gaps : \A r \in rows[g] : r.by \in Suppliers \cup {OtherClient}
  /\ evaluating \in [Gaps -> Accepting \cup {"none", "expired", "settled"}]
  /\ \A s \in Suppliers :
       /\ agents[s].pc \in {"idle", "live", "next", "submit"}
       /\ agents[s].pc = "submit" => agents[s].queue # <<>>
       /\ \A v \in ToSet(agents[s].queue) : v.gap \in Gaps /\ v.status \in Listed
  /\ failures \in 0..MaxFailures

(* However suppliers and other clients spell the address of a page, a gap   *)
(* has one submission of it (canonicalizeUrl, applied once by the API and   *)
(* once more by a supplier, and findSubmissionByUrl), but where an address  *)
(* ends in several slashes: the header of url.ts promises to strip them,    *)
(* and the code strips one.                                                 *)
OneRowPerPage ==
  \A g \in Gaps : \A q, r \in rows[g] :
    q # r /\ SamePage(q.sent, r.sent) => q.sent.slashes > 1 \/ r.sent.slashes > 1

(* A submission answered with an earlier one is of the same page as that    *)
(* one, up to the port: canonicalizeUrl takes away what its header says     *)
(* and, where that says default ports, any port, so that a page served at   *)
(* another port is taken for a copy.                                        *)
DistinctPagesKept == merged # <<>> => SamePageAtSomePort(merged[1], merged[2])

(* What runOnce reports as submitted are the rows it added in this round,   *)
(* also when a gap is in both lists and its sources are submitted twice, or *)
(* when another supplier was first.                                         *)
CountsAreRows ==
  \A s \in Suppliers :
    agents[s].pc # "idle" => RowsBy(s) = agents[s].before + agents[s].submitted

\* The pages, as the API stores what a supplier sends of them, of the candidates in
\* front of the first one whose address is refused, which ends the round each time.
Reached ==
  [s \in Suppliers |->
     LET tried == {n \in DOMAIN Candidates(s) :
                     \A m \in 1..n : Canonicalizes(Candidates(s)[m].url)}
     IN  {Canonical(Canonical(Candidates(s)[n].url)) : n \in tried}]

(* A gap that stays listed with time left gets every source that a supplier *)
(* who thinks it worthwhile gets to, from it or from another: failed rounds *)
(* are repeated, and lists that have grown old do not hide it.  (A verified *)
(* gap accepts evidence as well, but is in neither list.)                   *)
Offered ==
  \A g \in Worthwhile :
    []<>(\/ status[g] \notin Listed \/ time[g] # "long"
         \/ \A s \in Suppliers : Reached[s] \subseteq {r.canonical : r \in rows[g]})
=============================================================================
