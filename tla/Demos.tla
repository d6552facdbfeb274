------------------------------- MODULE Demos --------------------------------
(***************************************************************************)
(* The two end-to-end scripts: scripts/demo.ts on a local chain and        *)
(* scripts/demo-mainnet.ts with real money.  Each runs an API, a buyer and *)
(* three suppliers in one process, checks its surroundings first and then  *)
(* leads one gap from the buyer's request to its settlement; the local one *)
(* also lets a second gap expire.                                          *)
(*                                                                         *)
(* The script, the buyer and the API's handler for the buyer's request go  *)
(* on side by side, from one await to the next.  Handlers are those of     *)
(* GapService, suppliers those of Supplier and the buyer that of           *)
(* AutonomousBuyer, seen from here.  Calls fail, and timers end before     *)
(* what they guard, at most MaxFaults times; a sleep ends when it may.     *)
(***************************************************************************)
EXTENDS Naturals, Sequences, FiniteSets, SequencesExt

CONSTANTS Scripts,     \* the scripts considered
          MaxFaults    \* bound

\* Of the constants, for those who instantiate this module.
DemosAssumption ==
  Scripts \subseteq {"local", "mainnet"} /\ MaxFaults \in Nat

VARIABLES script,
          wrong,      \* what is not as the script requires
          checked,    \* the checks passed
          pc,         \* of main()
          buyer,      \* its call of ensureEvidence
          creating,   \* the handler of its request: the transaction it awaits
          gaps,       \* in the order of the store's list
          own,        \* the buyer's gap, 0 before there is one
          picked,     \* the gap the script takes for it
          turn,       \* the suppliers that have run
          sent,       \* the kinds of transactions sent
          faults

env == <<script, wrong>>
main == <<checked, pc, picked, turn>>
market == <<buyer, creating, gaps, own>>
vars == <<env, main, market, sent, faults>>

\* In the order of the scripts.  "keys" are those of requester and verifier and the
\* contract's address; "rpc" is a configured URL that is http(s).
Checks(s) ==
  IF s = "mainnet"
    THEN <<"MAINNET_ENABLED", "GAP402_NETWORK", "DEMO_CONFIRM", "GAP402_WRITE_TOKEN",
           "keys", "rpc", "chain_id", "spend_cap", "balance", "DEMO_SOURCE_URLS">>
    ELSE <<"anvil", "rpc", "chain_id">>

\* A row of the store.  The sources submitted, by canonical URL, are numbers.
NewGap == [status |-> "detected", funded |-> FALSE, sources |-> {}, anchored |-> FALSE]

\* A database of an earlier run may hold a gap that is still open.
Prior == [NewGap EXCEPT !.status = "open", !.funded = TRUE]

Init ==
  /\ script \in Scripts
  /\ wrong \in SUBSET ToSet(Checks(script)) /\ Cardinality(wrong) <= 2
  /\ checked = 0 /\ pc = "checks"
  /\ buyer = "idle" /\ creating = "no"
  /\ gaps \in IF script = "mainnet" THEN {<<>>, <<Prior>>} ELSE {<<>>}
  /\ own = 0 /\ picked = 0 /\ turn = 0
  /\ sent = {} /\ faults = 0

Fault == faults < MaxFaults /\ faults' = faults + 1

Fails == pc' = "failed" /\ UNCHANGED <<checked, picked, turn>>

\* Any awaited call of main() throws.
CallFails ==
  /\ pc \in {"supply", "settling", "expiring", "cancelling"}
  /\ Fault /\ Fails
  /\ UNCHANGED <<env, market, sent>>

-----------------------------------------------------------------------------
(* Pre-flight.                                                              *)

\* The cap is not compared with the bounty.
PassesBug(i) == i # 8 => Checks(script)[i] \notin wrong

Passes(i) == Checks(script)[i] \notin wrong

Check ==
  /\ pc = "checks" /\ checked < Len(Checks(script))
  /\ IF Passes(checked + 1) THEN checked' = checked + 1 /\ UNCHANGED <<pc, picked, turn>>
                            ELSE Fails
  /\ UNCHANGED <<env, market, sent, faults>>

\* The local script deploys its contracts; the API listens, the buyer is asked.
StartBuyer ==
  /\ pc = "checks" /\ checked = Len(Checks(script))
  /\ pc' = "seek"
  /\ sent' = IF script = "local" THEN {"deploy"} ELSE {}
  /\ buyer' = "asking"
  /\ UNCHANGED <<env, checked, picked, turn, creating, gaps, own, faults>>

-----------------------------------------------------------------------------
(* The buyer, and the handler of its request.                               *)

Running == pc \notin {"done", "failed"}

Post ==
  /\ Running /\ buyer = "asking" /\ creating = "no"
  /\ gaps' = Append(gaps, NewGap) /\ own' = Len(gaps) + 1
  /\ creating' = "approve"
  /\ UNCHANGED <<env, main, buyer, sent, faults>>

Approved ==
  /\ Running /\ creating = "approve"
  /\ creating' = "fund" /\ sent' = sent \cup {"approve"}
  /\ UNCHANGED <<env, main, buyer, gaps, own, faults>>

\* Notes the bounty and sets the status, whatever it has become; the buyer, if it still
\* waits for its answer, begins to poll.
Funded ==
  /\ Running /\ creating = "fund"
  /\ creating' = "yes" /\ sent' = sent \cup {"fund"}
  /\ gaps' = [gaps EXCEPT ![own].status = "open", ![own].funded = TRUE]
  /\ buyer' = IF buyer = "asking" THEN "polling" ELSE buyer
  /\ UNCHANGED <<env, main, own, faults>>

CreateFails ==
  /\ Running /\ creating \in {"approve", "fund"} /\ Fault
  /\ creating' = "failed" /\ buyer' = "failed"
  /\ UNCHANGED <<env, main, gaps, own, sent>>

\* The SDK aborts the request after 30 seconds; its handler goes on.
AnswerTimesOut ==
  /\ Running /\ buyer = "asking" /\ creating # "no" /\ Fault
  /\ buyer' = "failed"
  /\ UNCHANGED <<env, main, creating, gaps, own, sent>>

\* The buyer does not look for a settlement.
EndedBug(g) == gaps[g].status \in {"expired", "cancelled"}

Ended(g) == gaps[g].status \in {"settled", "expired", "cancelled"}

BuyerSees ==
  /\ Running /\ buyer = "polling" /\ Ended(own)
  /\ buyer' = "done"
  /\ UNCHANGED <<env, main, creating, gaps, own, sent, faults>>

\* waitTimeoutMs passes, for certain when there is nothing left but to wait for the buyer.
BuyerGivesUp ==
  /\ buyer = "polling" /\ ~Ended(own)
  /\ buyer' = "failed"
  /\ UNCHANGED <<env, main, creating, gaps, own, sent>>

BuyerTimesOut == pc = "join" /\ BuyerGivesUp /\ UNCHANGED faults

BuyerTimesOutEarly == Running /\ pc # "join" /\ BuyerGivesUp /\ Fault

\* Nothing handles the rejection of the local script's promise before it is awaited.
Unhandled ==
  /\ Running /\ script = "local" /\ buyer = "failed"
  /\ Fails
  /\ UNCHANGED <<env, market, sent, faults>>

-----------------------------------------------------------------------------
(* The script looks for the buyer's gap.                                    *)

\* `await sleep(500)`, whatever has become of the request by then, and the last gap of
\* the list is taken, if there is one.
Wake ==
  /\ script = "local" /\ pc = "seek"
  /\ IF gaps = <<>> THEN Fails
     ELSE pc' = "supply" /\ picked' = Len(gaps) /\ UNCHANGED <<checked, turn>>
  /\ UNCHANGED <<env, market, sent, faults>>

\* Those of an earlier run are candidates as well.
IsFundedGapBug(i) == gaps[i].funded

\* Not in priorGapIds, which are listed before the buyer starts, and with a transaction
\* that funded it.
IsFundedGap(i) == own # 0 /\ i >= own /\ gaps[i].funded

Poll ==
  LET found == {i \in DOMAIN gaps : IsFundedGap(i)}
  IN  /\ script = "mainnet" /\ pc = "seek"
      /\ IF found # {}
           THEN /\ pc' = "supply" /\ picked' = CHOOSE i \in found : \A j \in found : i <= j
                /\ UNCHANGED <<checked, turn>>
           ELSE buyer = "failed" /\ Fails
      /\ UNCHANGED <<env, market, sent, faults>>

\* "funding was not confirmed within 120 seconds".
GivesUp ==
  /\ script = "mainnet" /\ pc = "seek" /\ creating # "yes"
  /\ Fault /\ Fails
  /\ UNCHANGED <<env, market, sent>>

-----------------------------------------------------------------------------
(* Suppliers, settlement and the end.                                       *)

\* What the strategies select: of the fixtures an independent page, the subject's own
\* page, and both with a page that is not about the claim (the repost is the first page
\* again); of fetched pages, which are unclassified, only the last one submits any.
Offers(n) == IF script = "mainnet" THEN IF n = 3 THEN {1, 2} ELSE {}
             ELSE CASE n = 1 -> {1} [] n = 2 -> {2} [] n = 3 -> {1, 2, 4}

Supply ==
  LET offer(g) ==
        IF g.status \in {"open", "submissions"} /\ Offers(turn + 1) # {}
          THEN [g EXCEPT !.status = "submissions", !.sources = @ \cup Offers(turn + 1)]
          ELSE g
  IN  /\ pc = "supply" /\ turn < 3
      /\ gaps' = [i \in DOMAIN gaps |-> offer(gaps[i])]
      /\ turn' = turn + 1
      /\ UNCHANGED <<env, checked, pc, picked, buyer, creating, own, sent, faults>>

\* A gap without a bounty on the chain is settled at once by the local API.
Finalize ==
  /\ pc = "supply" /\ turn = 3
  /\ IF gaps[picked].funded
       THEN /\ pc' = "settling" /\ sent' = sent \cup {"finalize"}
            /\ UNCHANGED gaps
       ELSE /\ script = "local"
            /\ pc' = "join"
            /\ gaps' = [gaps EXCEPT ![picked].status = "settled"]
            /\ UNCHANGED sent
  /\ UNCHANGED <<env, checked, picked, turn, buyer, creating, own, faults>>

Settled ==
  /\ pc = "settling"
  /\ pc' = "join"
  /\ gaps' = [gaps EXCEPT ![picked].status = "settled", ![picked].anchored = TRUE,
                          ![picked].funded = FALSE]
  /\ UNCHANGED <<env, checked, picked, turn, buyer, creating, own, sent, faults>>

\* `await buyerPromise`.
Join ==
  /\ pc = "join" /\ buyer \in {"done", "failed"}
  /\ pc' = IF buyer = "failed" THEN "failed" ELSE IF script = "local" THEN "expiring" ELSE "done"
  /\ UNCHANGED <<env, checked, picked, turn, market, sent, faults>>

\* A gap of ten seconds is created, and read eleven seconds later.
Expire ==
  /\ pc = "expiring"
  /\ pc' = "cancelling"
  /\ gaps' = Append(gaps, [NewGap EXCEPT !.status = "expired", !.funded = TRUE])
  /\ UNCHANGED <<env, checked, picked, turn, buyer, creating, own, sent, faults>>

\* Without a transaction.
CancelledBug(g) == [g EXCEPT !.status = "cancelled"]

Cancelled(g) == [g EXCEPT !.status = "cancelled", !.funded = FALSE]

Cancel ==
  /\ pc = "cancelling"
  /\ pc' = "done"
  /\ gaps' = [gaps EXCEPT ![Len(gaps)] = Cancelled(@)]
  /\ sent' = sent \cup {"cancel"}
  /\ UNCHANGED <<env, checked, picked, turn, buyer, creating, own, faults>>

Main == Check \/ StartBuyer \/ Poll \/ Supply \/ Finalize \/ Settled \/ Join \/ Expire \/ Cancel

Buyer == Post \/ Approved \/ Funded \/ BuyerSees \/ BuyerTimesOut \/ Unhandled

Faulty == GivesUp \/ CallFails \/ CreateFails \/ AnswerTimesOut \/ BuyerTimesOutEarly

Next == Main \/ Buyer \/ Wake \/ Faulty

Spec == Init /\ [][Next]_vars

\* Awaited calls end, each in a time of its own.
FairSpec == Spec /\ WF_vars(Main) /\ WF_vars(Buyer) /\ WF_vars(Wake)

-----------------------------------------------------------------------------
(* Correctness.                                                             *)

TypeOK ==
  /\ wrong \subseteq ToSet(Checks(script))
  /\ checked \in 0..Len(Checks(script))
  /\ pc \in {"checks", "seek", "supply", "settling", "join", "expiring", "cancelling",
             "done", "failed"}
  /\ buyer \in {"idle", "asking", "polling", "done", "failed"}
  /\ creating \in {"no", "approve", "fund", "yes", "failed"}
  /\ \A i \in DOMAIN gaps : gaps[i].sources \subseteq {1, 2, 4}
  /\ own \in 0..Len(gaps) /\ picked \in 0..Len(gaps)
  /\ pc \in {"supply", "settling", "join"} => picked # 0
  /\ turn \in 0..3 /\ faults \in 0..MaxFaults

(* "Fails closed: any missing config, chain-id mismatch, insufficient       *)
(* balance, or missing DEMO_CONFIRM aborts before any transaction is sent"  *)
(* (demo-mainnet.ts), a missing source list included.                       *)
FailsClosed == sent # {} => wrong = {}

(* The gap that is supplied and settled is the one this run's buyer funded, *)
(* not one left open by an earlier run.                                     *)
SettlesItsOwn == picked # 0 => picked = own

(* A run that finishes leaves no escrow of its own behind, and its gap is   *)
(* settled with an anchored receipt.                                        *)
DoneIsSettled ==
  pc = "done" => gaps[own].anchored /\ \A i \in own..Len(gaps) : ~gaps[i].funded

(* Every run ends, in success or failure.  Where no call fails, a script    *)
(* whose gap is funded when it is supplied runs to its end: the local one   *)
(* if half a second was enough, or the suppliers were slower than the       *)
(* funding; the mainnet one, which looks for a funded gap again and again,  *)
(* whenever all that it requires is in place.  (If the local script takes   *)
(* an unfunded gap to its settlement, the funding that ends then opens the  *)
(* gap again, and its buyer waits in vain.)                                 *)
Completes ==
  /\ <>(pc \in {"done", "failed"})
  /\ pc = "supply" /\ gaps[picked].funded ~> pc = "done" \/ faults > 0
  /\ script = "mainnet" /\ wrong = {} => <>(pc = "done" \/ faults > 0)
=============================================================================
