---------------------------- MODULE MCPortfolio ----------------------------
(***************************************************************************)
(* Portfolio for TLC.  Time is counted in hours of a gap whose sources may *)
(* be two old: one hour in the future is tolerated, judging takes one.     *)
(***************************************************************************)
EXTENDS Portfolio

CONSTANTS a, b, v

Page(supplier, content, root, source, published, cited, long) ==
  [supplier |-> supplier, content |-> content, root |-> root, domains |-> {root},
   source |-> source, published |-> published, cited |-> cited, long |-> long]

\* A copy on another domain, two pages of one domain, one supplier with several
\* pages, the verifier as a supplier; dates at and beyond both ends of the window,
\* one written with many digits; a domain with a long name.
MCPages ==
  {Page(a, "x", "p", "independent", 0, TRUE, {}),
   Page(b, "x", "q", "primary", -1, TRUE, {}),
   Page(a, "y", "q", "official", -2, TRUE, {"date"}),
   Page(b, "z", "r", "wiki", 1, TRUE, {}),
   Page(v, "w", "s", "social", NoDate, TRUE, {"host", "root"}),
   Page(b, "t", "s", "aggregated", 2, FALSE, {"host", "root"})}

Open ==
  [unique |-> TRUE, independent |-> FALSE, primary |-> FALSE, cited |-> FALSE,
   maxAge |-> 0, minPublished |-> NoDate, wordy |-> FALSE, allowed |-> {}, banned |-> {},
   allowlist |-> {}, blocklist |-> {}, minSupport |-> 500, sources |-> 0]

MCRequirements ==
  {Open,
   [Open EXCEPT !.unique = FALSE, !.minSupport = 0],
   [Open EXCEPT !.independent = TRUE, !.cited = TRUE, !.maxAge = 2, !.sources = 2],
   [Open EXCEPT !.primary = TRUE, !.minPublished = -1, !.blocklist = {"s"}],
   [Open EXCEPT !.minPublished = 1, !.wordy = TRUE],
   [Open EXCEPT !.allowed = {"independent", "official", "wiki"}, !.banned = {"wiki"},
                !.allowlist = {"p", "q", "r"}, !.sources = 1]}

MCOpinions ==
  {[support |-> 900, relation |-> "supports"],
   [support |-> 600, relation |-> "contradicts"],
   [support |-> 300, relation |-> "contextual"],
   [support |-> 0, relation |-> "unrelated"]}
=============================================================================
