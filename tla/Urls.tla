-------------------------------- MODULE Urls --------------------------------
(***************************************************************************)
(* URLs as packages/evidence/src/url.ts tells them apart.  A URL that the  *)
(* URL parser of the platform has read is a record                         *)
(*   scheme    "http", "https", or another one ("none": it does not parse) *)
(*   host      its labels                                                  *)
(*   port      0 for the default port of the scheme                        *)
(*   path      what is before the trailing slashes, Root when nothing is   *)
(*   slashes   the number of trailing slashes                              *)
(*   query     its parameters, [name, value]; the name 0 is any of the     *)
(*             tracking parameters, the others are in the order of locales *)
(*   fragment  0 when there is none                                        *)
(* The case of letters is left out: the parser folds it.                   *)
(***************************************************************************)
EXTENDS Naturals, Sequences, FiniteSets, SequencesExt

Tracking == 0
Root == "root"

\* Does not throw.
Canonicalizes(u) == u.scheme \in {"http", "https"}

WithoutWww(host) == IF host # <<>> /\ Head(host) = "www" THEN Tail(host) ELSE host

\* The elements of a finite set, in an order given by its pairs.  (SelectSeq and SortSeq
\* are recursive, of which nothing can be proved.)
InOrder(S, pairs) ==
  [k \in 1..Cardinality(S) |->
     CHOOSE x \in S : Cardinality({y \in S : <<y, x>> \in pairs}) = k]

\* What a sequence has at some of its places.
AtPlaces(s, places, pairs) ==
  LET order == InOrder(places, pairs) IN [k \in DOMAIN order |-> s[order[k]]]

Upwards(places) == {p \in places \X places : p[1] <= p[2]}

Filtered(s, places) == AtPlaces(s, places, Upwards(places))

\* Drops the query.
StrippedBug(query) == {}

\* The places of the parameters that are kept.
Stripped(query) == {i \in DOMAIN query : query[i].name # Tracking}

\* Sorted by name; parameters of one name keep their order.
ByName(query, places) ==
  {p \in places \X places : \/ query[p[1]].name < query[p[2]].name
                            \/ query[p[1]].name = query[p[2]].name /\ p[1] <= p[2]}

CanonicalQuery(query) == AtPlaces(query, Stripped(query), ByName(query, Stripped(query)))

\* The trailing slash is only taken from a path that is not the root.
SlashesLeft(u) == IF u.path = Root /\ u.slashes = 1 THEN 1
                  ELSE IF u.slashes > 0 THEN u.slashes - 1 ELSE 0

\* The path keeps its slash.
CanonicalBug(u) ==
  [scheme |-> "https", host |-> WithoutWww(u.host), port |-> 0,
   path |-> u.path, slashes |-> u.slashes,
   query |-> CanonicalQuery(u.query), fragment |-> 0]

Canonical(u) ==
  [scheme |-> "https", host |-> WithoutWww(u.host), port |-> 0,
   path |-> u.path, slashes |-> SlashesLeft(u),
   query |-> CanonicalQuery(u.query), fragment |-> 0]

DomainOf(u) == WithoutWww(u.host)

\* Its last two labels.
RootDomain(u) ==
  LET domain == DomainOf(u)
  IN  IF Len(domain) <= 2 THEN domain ELSE SubSeq(domain, Len(domain) - 1, Len(domain))

\* What the URL parser can have read: the root is a slash itself.
Parsed(u) ==
  /\ u.port \in Nat /\ u.slashes \in Nat
  /\ u.path = Root => u.slashes >= 1
  /\ u.query \in Seq([name : Nat, value : Nat])

-----------------------------------------------------------------------------
(* What the header of url.ts promises: these differences, and no others, do *)
(* not make two pages of one.                                               *)

Named(query, n) == Filtered(query, {i \in DOMAIN query : query[i].name = n})

SameQuery(q, r) ==
  \A n \in ({p.name : p \in ToSet(q)} \cup {p.name : p \in ToSet(r)}) \ {Tracking} :
    Named(q, n) = Named(r, n)

\* Nor does the number of trailing slashes.
SamePageAtSomePort(u, v) ==
  /\ WithoutWww(u.host) = WithoutWww(v.host)
  /\ u.path = v.path
  /\ SameQuery(u.query, v.query)

SamePage(u, v) == u.port = v.port /\ SamePageAtSomePort(u, v)
=============================================================================
