------------------------------ MODULE MCAgents ------------------------------
(***************************************************************************)
(* The programs that act on evidence before it is judged, for TLC: the     *)
(* suppliers that submit it (Supplier), the pipeline that orders it        *)
(* (Keryx) and the commitments that pin it on the chain (Commitments).     *)
(* They share nothing but the API, which each of them models as it sees    *)
(* it; a behaviour is that of one of them, and the others stay as they     *)
(* began.                                                                  *)
(***************************************************************************)
EXTENDS Commitments, TLC

CONSTANTS s1, s2,
          MaxGap, Worthwhile, KindOf, Found,
          OtherClient, OtherUrls, MaxFailures,     \* of Supplier
          ClaimCount, Threshold, MaxGaps           \* of Keryx

VARIABLES at,                                      \* who acts
          status, time, listed, evaluating, agents, merged, failures,
          pool, gaps, pc, overdue, nulls

S == INSTANCE Supplier WITH rows <- listed
K == INSTANCE Keryx
Address == INSTANCE Urls

ASSUME AgentsAssumption == CommitmentsAssumption /\ S!SupplierAssumption /\ K!KeryxAssumption

-----------------------------------------------------------------------------
(* The instances.                                                           *)

Two == {s1, s2}

\* A search finds a page of a reporter, the site of the subject and a social post.
Page == [scheme |-> "https", host |-> <<"reporter", "net">>, port |-> 0, path |-> "story",
         slashes |-> 0, query |-> <<>>, fragment |-> 0]
Site == [Page EXCEPT !.host = <<"acme", "com">>, !.path = Address!Root, !.slashes = 1]
Post == [Page EXCEPT !.host = <<"social", "org">>]

\* Another page of that reporter, one of its spellings with more slashes than are
\* stripped; the first one at another port; and an address that is none.
Param(n, v) == [name |-> n, value |-> v]
Paged == [Page EXCEPT !.query = <<Param(1, 1), Param(2, 1)>>]
Shuffled == [Page EXCEPT !.query = <<Param(2, 1), Param(0, 2), Param(1, 1)>>]
Decorated ==
  [Paged EXCEPT !.scheme = "http", !.host = <<"www", "reporter", "net">>, !.slashes = 1,
                !.query = <<Param(1, 1), Param(0, 1), Param(2, 1)>>, !.fragment = 1]
Slashed == [Paged EXCEPT !.slashes = 3]
Ported == [Page EXCEPT !.port = 8080]
Broken == [Page EXCEPT !.scheme = "none"]

Candidate(u, relation, type) == [url |-> u, relation |-> relation, type |-> type]

Strategies == s1 :> "search" @@ s2 :> "independent"
Finds ==
  s1 :> <<Candidate(Post, "supports", "social"), Candidate(Shuffled, "unknown", "official"),
          Candidate(Site, "contradicts", "official")>>
  @@ s2 :> <<Candidate(Page, "contradicts", "independent"),
           Candidate(Slashed, "supports", "independent"),
           Candidate(Broken, "unknown", "independent")>>

FirstGap == {1}
Sent == {Decorated, Ported}

-----------------------------------------------------------------------------
(* One at a time.                                                           *)

supplierVars == <<status, time, listed, evaluating, agents, merged, failures>>
keryxVars == <<pool, gaps, pc, overdue, nulls>>
mcVars == <<at, vars, supplierVars, keryxVars>>

MCInit ==
  /\ at \in {"suppliers", "pipeline", "commitments"}
  /\ Init /\ S!Init
  /\ K!Init /\ (at = "pipeline" \/ pool = {})

Alone(who, others) == at = who /\ UNCHANGED <<at, others>>

SupplierRuns(s) == Alone("suppliers", <<vars, keryxVars>>) /\ S!Runs(s)

MCNext ==
  \/ Alone("suppliers", <<vars, keryxVars>>) /\ S!Next
  \/ Alone("pipeline", <<vars, supplierVars>>) /\ K!Next
  \/ Alone("commitments", <<supplierVars, keryxVars>>) /\ Next

\* Suppliers are asked again and again, as in Supplier.
MCSpec == MCInit /\ [][MCNext]_mcVars /\ \A s \in Suppliers : WF_mcVars(SupplierRuns(s))

-----------------------------------------------------------------------------
(* Correctness, beside CommittedIsStored of Commitments.                    *)

(* The types of all three.                                                  *)
AgentsTypeOK == TypeOK /\ S!TypeOK /\ K!TypeOK

(* Supplier: a page, however it is spelled, has one submission, and a       *)
(* submission stands for one page, but for the trailing slashes and the     *)
(* ports that canonicalizeUrl does not treat as its header says.            *)
PagesAreRows == S!OneRowPerPage /\ S!DistinctPagesKept

(* Supplier: what a round reports as submitted are the rows it added.       *)
CountsAreRows == S!CountsAreRows

(* Supplier: a listed gap with time left gets the sources that the          *)
(* suppliers find.                                                          *)
SourcesOffered == at = "suppliers" => S!Offered

(* Keryx: a claim is paid for again only after the pipeline was told of no  *)
(* receipt.                                                                 *)
PaidOncePerClaim == K!PaidOncePerClaim
=============================================================================
