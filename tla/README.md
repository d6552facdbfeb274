# gap402 in TLA+

gap402 lets an agent pay for missing evidence. A requester opens a *gap* (a
claim, requirements, a budget in USDC and a deadline) and puts the budget in
escrow; suppliers submit URLs; a verifier judges the submissions; a deterministic
plan divides the escrow among the accepted ones; the contract pays, refunds the
rest and anchors the hash of a receipt. If nothing is settled before the deadline
the requester takes the escrow back.

This directory models that program, checks the models with TLC and proves what
can be proved with TLAPS.

## 1. The system

### Components

| component (source) | state it keeps | operations | talks to |
| --- | --- | --- | --- |
| **GapBounty** (`contracts/src/GapBounty.sol`) | `nextBountyId`, `bounties`, `commitments` | `createBounty`, `commitEvidence`, `finalize`, `cancel` | USDC (transfers), registry (`anchor`) |
| **EvidenceReceiptRegistry** (`contracts/src/EvidenceReceiptRegistry.sol`) | `anchors` | `anchor`, only for GapBounty | - |
| **USDC** (`contracts/src/test/MockUSDC.sol`; the real one has a blocklist) | balances, allowances | `approve`, `transfer`, `transferFrom` | - |
| **Settlement** (`packages/settlement/src/settle.ts`) | none: a function | `buildSettlementPlan` | called by the API |
| **Verifier** (`packages/verifier/src`) | none | `evaluateSubmission` = deterministic checks, then a semantic provider that is awaited | called by the API; remote model |
| **API** (`apps/api/src/server.ts`, `service.ts`) | the handlers in flight | create, submit, evaluate, finalize, cancel, consume, lazily expiring reads | store, verifier, settlement, chain client |
| **Store** (`apps/api/src/store.ts`) | rows of SQLite, two unique indexes | `put`, `insert`, `get`, `list` | - |
| **Chain client** (`packages/sdk/src/chain.ts`) | none | one transaction per call: estimate, send, wait for the receipt | RPC node |
| **HTTP client** (`packages/sdk/src/client.ts`) | none | requests, `waitForEvidence` polling | API |
| **Buyer** (`examples/autonomous-buyer/src/buyer.ts`) | `spent` | `ensureEvidence` | HTTP client |
| **Supplier** (`examples/evidence-supplier/src/supplier.ts`) | none between rounds | `runOnce`: two lists, a search per gap, submissions | HTTP client, a search provider |
| **Keryx adapter** (`examples/keryx-adapter/src/adapter.ts`) | none; the pipeline's pool of evidence | `detectGap`, `openGap`, `awaitGap`, `mergeEvidence` | HTTP client |
| **Protocol documents** (`packages/protocol/src`) | none | canonical JSON, hashes, `verifyBundle`, lifecycle table | everybody |
| **Evidence** (`packages/evidence/src`) | none | canonical URLs, root domains, content hashes, fetching | API, supplier |
| **Schemas, configuration** (`packages/schemas`, `packages/config`) | none | validation | everybody |
| **CLI, MCP server** (`apps/cli/src/index.ts`, `apps/mcp/src/index.ts`) | none | a command or tool call each | HTTP client, RPC node |
| **Web explorer** (`apps/web`) | the lab's and the inspector's component state | run a case, walk through it, play it; type, open and check a bundle | `/api/demo`, `verifyBundle` |
| **Demo scripts** (`scripts/demo.ts`, `demo-mainnet.ts`) | one process each | checks, an API, a buyer, suppliers, settlement | everything |

### What is hard about it

- **Calls in any order on the contract.** Anyone calls anything at any time;
  bounties share one token balance; a verifier chooses the payout vector; the
  token refuses blocklisted addresses; both windows meet at the deadline.
- **Handlers interleave at every `await`.** The server is one thread, but a
  handler that awaits a model's verdict or a transaction resumes in a different
  store: other evaluations have written, the deadline has passed, the gap was
  cancelled. Status checks at the top of a handler are stale by the time it writes.
- **Transactions are not calls.** One is estimated, sent, mined later behind
  others, may revert then, and the wait for it may time out while it goes through.
- **Writes are durable one by one.** The process may die between two of them, or
  between a mined transaction and the write that records it.
- **A commitment follows its submission.** The row is stored, then the supplier's
  hash is pinned on chain behind others that compete for the last place; the request
  may fail in between and be made again, as a duplicate.
- **Suppliers act on old lists.** Between the list of gaps and the submission a search
  is awaited; gaps are evaluated, settled and expire meanwhile, answers get lost after
  the submission arrived, and one page comes under many addresses.
- **Clients give up before servers do.** A timeout, a failed poll or a lost answer says
  nothing of what happened; retries create, pay or submit again.
- **A page is a concurrent program.** Answers come after the visitor has changed the
  case, files are read in any order while the text is edited, a timeline and a button
  each have an idea of whether something plays.
- **Real money behind a script.** Ten requirements are checked in an order in which
  some things already run, over a database that may be that of an earlier run.
- **Rounding, caps and minimums feed each other** in the settlement loop: locking
  a supplier at the cap raises what is left for the others, dropping one too.

### What makes each component correct

- contract: never owes more than it holds; closes a bounty once and for all of its
  money; anchors exactly the settled receipts; counts commitments exactly; takes
  evidence only while the escrow cannot be reclaimed; never locks money for ever.
- settlement: terminates, sums exactly, respects cap and minimum, follows quality,
  refunds only what nobody can take.
- API and store: no two accepted submissions repeat each other; a verdict is final;
  what is shown as settled has its documents, sources, anchor and an emptied escrow;
  what is shown as open is escrowed; what is shown as cancelled is refunded and stays so.
  (Not all of it holds: section 3.)
- buyer: never spends more than its cap, however many calls run at a time; every
  call comes to an end.
- suppliers and URLs: a page is submitted once however it is spelled, two pages are
  never one, the counts reported are right, and what is found is offered in the end.
- Keryx adapter: a claim is paid for again only after the pipeline was told that there
  is no receipt.
- CLI and MCP server: what is reported as done is done, what verifies was anchored,
  what is there is found; no write gets past the API without its token.
- web explorer: what is shown belongs to what was chosen last; a request ends.
- demo scripts: nothing is sent unless everything required is there; the gap settled is
  the run's own; a run ends, and then nothing of its own stays in escrow.
- verifier and documents: only evidence that met the requirements is paid, accepted
  evidence counts for something, and what the server hands out verifies.

## 2. The modules

| module | models | state |
| --- | --- | --- |
| `Escrow` | what the contract pair promises, abstractly: fund, settle under a fresh receipt, reclaim | status, amount, paid, refunded, receipt per bounty |
| `GapBounty` | the two contracts, the token, block time | as in the Solidity, plus the sums of the payout and refund events |
| `Settlement` | `buildSettlementPlan`; inputs are initial states, each pass of its loop is a step | bounty, submissions, policy; live / locked / tentative; the plan |
| `GapService` | API handlers, store, server's chain client, mempool, crashes; the contracts through `Escrow` | store rows, handlers in flight, mempool, escrow, allowance |
| `Portfolio` | the verifier's checks, scores and verdict; then the plan, through an instance of `Settlement`; the receipt; `verifyBundle` | requirements, submissions, evaluations, receipt, and `Settlement`'s |
| `AutonomousBuyer` | `ensureEvidence` and `waitForEvidence` over what the buyer sees of the market | `spent`; the calls; per gap: status, escrow, receipt |
| `Commitments` | `POST /submissions` with `commitOnchain`, `commitEvidence` of client and contract | rows, calls in flight, commitments and their count |
| `Urls` | `canonicalizeUrl`, `domainOf`, `rootDomain` on parsed URLs | - |
| `Supplier` | suppliers in rounds beside other clients, over the API as they see it | gaps, rows, each supplier's place in its round |
| `Keryx` | a research pipeline around the adapter, which opens gaps until no claim lacks evidence | pool of evidence, gaps, where the pipeline waits |
| `FrontEnds` | commands and tool calls, the HTTP client's `req`, the API's authorization hook | server and shell tokens, receipts, anchors, a file, processes |
| `Demos` | both end-to-end scripts with their buyer and the handler of its request | checks passed, gaps, transactions sent, turn |
| `EvidenceLab` | the lab of the web explorer, its proxy route and `runDemo` | the component's state, requests in flight, cache, timeline |
| `ProofDesk` | the proof inspector of the web explorer | text, result, error, revision, files being read |
| `MCGapBounty`, `MCSettlement`, `MCGapService`, `MCPortfolio` | the instances TLC checks | - |
| `MCAgents` | instances of `Supplier`, `Keryx` and `Commitments` side by side | `at` says which of them the behaviour is of |
| `MCInterfaces` | instances of `ProofDesk`, `EvidenceLab`, `FrontEnds` and `Demos` side by side | `at`, likewise |
| `GapBountyProofs` (with `Escrow`), `SettlementProofs`, `PortfolioProofs`, `GapServiceProofs`, `GapStatusProofs`, `AutonomousBuyerProofs`, `AgentsProofs` (`MCAgents` and its parts), `InterfacesProofs` (`MCInterfaces` and its parts) | theorems and proofs | - |

`GapBounty` implements `Escrow` (checked and proved), and `GapService` uses
`Escrow`'s actions as its chain: that is the composition. What the server relies
on is exactly what the contract is shown to give (`ServiceUsesEscrow`). `Portfolio`
computes the inputs of `Settlement` and runs its steps. `AutonomousBuyer` stands on the
other side of the API; its market allows what `GapService` was found to do, failures
included.

### GapBounty

A contract call is atomic, so an external function is one action whose guards are
the function's reverts (require, custom errors, checked arithmetic, the token's
refusal) and whose effects are all those of the call. `Finalize` takes the payout
vector as two sequences over all addresses, the zero address and the contract's
own included, and all amounts, zero included. `SetBlocked` is the real token's
blocklist, `Transfer` any transfer beside the contract (a donation to it too).
`paid` and `refunded` accumulate what `BountyPayout`, `BountySettled` and
`BountyCancelled` report.

Left out: `createdAt` (no code on chain reads it); the reentrancy lock (USDC makes
no callbacks); unlimited allowances; the issuer blocklisting the contract itself,
which would lock everybody's money and is outside of the contract's control.

### Settlement

A submission is its supplier and its quality (`qualityScore`, 0 when not accepted);
ids are positions, so ties break by position. `BpsScale` is a constant so that the
proofs hold for all and TLC can use 20 in place of 10000. The plan's id, date, hash
and texts are left out here; `Portfolio` has the hash.

### GapService

- **Atomicity.** One action is what a handler does from one `await` to the next. An
  async function that returns without awaiting hands over to its caller in a
  microtask, before any other request: `ThreadFree` keeps every other action of the
  server out between the end of `evaluateGap` and the rest of `finalize`.
- **Crashes.** Each write is its own SQLite transaction. An action that makes
  several writes has a parameter `done`, the number made before the process died;
  `AfterWrites` then empties `calls`. `Crash` is the death at an `await`.
  Transactions already sent survive and are mined.
- **Expiry.** `getGap` stores "expired" when it reads a live gap past its deadline:
  `Seen(g)` is what it returns.
- **Evaluation.** `evaluateGap` snapshots status, submissions and prior verdicts,
  then awaits a verdict per submission. `todo` holds the positions still to judge,
  `prior` what the next one may not repeat. The unique index on
  `(gap, submissionId)` makes a second verdict throw.
- **Transactions.** `Send` requires that the call would succeed now (viem
  estimates gas first, and a failing estimate throws: `Throws`). `Mine...` takes
  a transaction out of the mempool, in nonce order per signer, and applies the
  contract's action or, if it no longer holds, reverts; `MineRefused` is the revert of
  one whose transfer the token refuses when it is mined, as it may for an address
  that is blocked since the estimate (`docs/security.md:32-33`). `refused`, a history
  variable, has the bounties of which a finalize met that. `Answered` is
  `waitForTransactionReceipt` returning, whichever it was, as the client does not
  look at the receipt's status.
- **Deployments.** `mode` is "simulation" (local, no contract), "local" (a contract
  on a test network) or "live".
- **A plan** pays any part of the budget, nothing included: all shares round to
  zero, and the contract then refuses it.

Assumptions of `GapService`: on a live network the keys are configured (the handlers refuse
otherwise); the requester's account has the money it approves; server clock and
block time agree on whether a deadline has passed; GapBounty is used through this
server only (others' bounties are other escrows, by `Solvency`). Deterministic
rejections are modelled as awaited like the others, which adds interleavings and
removes none. The on-chain commitment of a submission is `Commitments`' (it changes
no state that `GapService` reads), authorization is `FrontEnds`', and `/api/demo`, an
in-memory copy, is in `EvidenceLab`. `Transitions` is the table of `lifecycle.ts`,
which no handler consults; `FollowsTable` says what the handlers make of it.

### Portfolio

`Judge` is one turn of `evaluateGap`'s loop with the whole of `evaluateSubmission`:
`PassesChecks` are the deterministic checks (all but the URL's syntax, which
`submitEvidence` has already enforced), `Provenance` to `Freshness` the scores,
`QualityScore` their product, truncated after each factor. Scores are parts of
`ScoreScale`, 1000 for TLC: all of the code's tables are multiples of 1/1000, and a
product of two scores then fits TLC's integers. `Tick` lets time pass between
verdicts, as each is given its own `now`. A host is the set of the domains it is
under, a date a number. Submissions of one gap have different canonical URLs (the
store sees to it), so the checks and scores on equal URLs never apply. `BuildPlan`
hands the qualities to `Settlement`; `BuildReceipt` and `VerifyBundle` are the
server's and the third party's side of the same documents, and `VerifyBundle` has every
check of `verify.ts`:

- *Hashes.* `HashOf` makes of a document a value that no other document has. What a hash
  leaves out is zeroed before (`SpecHash`: the status; `SettlementHash` and `ReceiptHash`:
  the hash itself, and `settlementTx`, which `Anchor` adds to the receipt later).
- *Bindings and sums* are those of `verify.ts:52-88`, conjunct by conjunct.
- *Schemas.* `GapSchema`, `PlanSchema` and `ReceiptSchema` keep what the program computes and
  could get wrong: amounts, shares and scores out of their range, and reasons over 256
  characters. A reason of a failed check repeats dates and hosts in full length (`Wordy`);
  a page's `long` names those of its texts that are too long, and `wordy` says that the
  requirements' own date is. What a schema demands of fields that are copied from parsed
  requests (addresses, URLs, the claim) is left out.

`buildReceipt` hashes the receipt by `computeReceiptHash`, which parses it first
(`service.ts:364`, `hashing.ts:41-48`): with a reason that is too long it throws, the request is
answered with 400 (`server.ts:450-456`), nothing is stored or sent to the chain, and the
receipt is `Refused`. As verdicts are final, such a gap can never be settled; only
cancelling is left. Supposed are dates that `new Date` can read; a provider's name that
fits `evaluatorVersion` (the two there are do); and that plan, receipt and gap are of one settlement (two
finalizes of a simulated gap at a time, with a crash between their writes, could
leave the plan of one beside the receipt of the other).

### AutonomousBuyer

A call is at one of `ensureEvidence`'s awaits. `Reserve` is the stretch from the
checks to the request, which is what makes concurrent calls safe. `Throws` ends a
call at any of them; a request for a gap may arrive all the same (`"lost"`, `Detect`).
The market's actions are those of `GapService` and the contract with everything but
money and visible status taken away: gaps that open without an escrow, receipts of
settlements that reverted and statuses that are overwritten (findings 1 and 2
below) included.

### Commitments

`Submit` is the handler up to the await of the transaction: a URL that is there gives
its row, and it is that row's hash that is pinned, not the request's. `Send` is viem's
estimate, `Mined` takes the call's transaction at any time and applies `commitEvidence`
or reverts, `Answers` is the client's receipt whatever its status. The nonces' order is
left out: more orders than the chain allows are considered. `Throws` and `Crash` leave
transactions behind; rows stay.

### Urls and Supplier

A URL is what the platform's parser makes of it: scheme, labels of the host, port, path
with its trailing slashes counted, parameters, fragment. `Canonical` is
`canonicalizeUrl`; `SamePage` is what the header of `url.ts` promises, and
`SamePageAtSomePort` the same of addresses that may differ in the port. What is kept of a
sequence, and in what order, is said by the places kept (`AtPlaces`, `InOrder`, `ByName`)
and not by the recursive `SelectSeq` and `SortSeq`, so that it can be reasoned about.
Every address the parser can have read (`Parsed`) is taken, with any port and any number of
trailing slashes; `PagesAreRows` names the two cases in which the code does not do what the
header says, and section 3 says why. A supplier goes
`ListOpen`, `ListLive` (the awaits of its two lists), then per gap `Skip` or `Search`,
per candidate `Submit` (a request and its answer; `AnswerLost` is the same with the
answer lost), `Refused` when the gap has closed, `NextGap`, `Done`. The other actions
are those of `GapService` as a client sees them.

### Keryx

A pipeline holds a pool of evidence; `Target` is the first claim that lacks an
independent source (`detectGap`), `OpenGap` the request that may be answered or lost,
`Awaits` the polls of `awaitGap`, which gives null for a timeout and for any error.

### FrontEnds

A command is a process with one request after the other; `Hook` is `onRequest` of the
server, `TokenOf` the client each command makes, `Exit` what `req` and the commands make
of an answer. `receipt verify` is `Load` and `Verify`, over a file that anyone edits.
A receipt is the pair of its contents and the hash it states.

### Demos

`Checks` lists what a script requires in the order in which it looks; `wrong` are those
that do not hold, at most two. `Main` is the script from one await to the next, `Buyer`
the handler of the buyer's request, the buyer's polls and its timeout, `Wake` the end of the
half second that the local script sleeps: it comes whenever it comes, with no gap there yet,
with one that is not funded, or with the buyer's own. The buyer's timeout is a failure
(`Faulty`) when it is over before the script has got to waiting for the buyer. `Offers` is
what the three strategies submit of the fixtures.

### EvidenceLab and ProofDesk

One action is an event handler with the rendering and the effect it causes, or the code
after an await. The result of a case is fixed (`runDemo` is deterministic), so that
`Accepted`, `HasPlan`, `Sources` and `Rows` compute it from the fixtures. A request has
the token of its start, can be aborted, and ends with a result, an error or the
rejection. The timeline has a position (the chapter reached) and a state; GSAP itself
is external. In `ProofDesk` a result is the text it was computed for; `acts` and `author`
are history variables that number what the visitor did.

## 3. The runs

| run | question | instance | distinct states |
| --- | --- | --- | --- |
| `contract_escrow` | `Solvency`, `AnchorsBackSettlements`, `ImplementsEscrow` | two users in all roles, two bounties, amounts 0-2, two receipts, vectors up to two payouts | 211,383 |
| `contract_evidence` | `TypeOK`, `CommitmentsCounted`, `EvidenceWindow`, and `EscrowResolved` under `FairSpec` | one bounty, three evidence hashes for at most two commitments, donations, supplier and requester on and off the blocklist, any verifier | 120,304 |
| `settlement_plan` | `TypeOK`, `Converges`, `SumsExact`, `SharesBounded`, `MonotoneInQuality`, `ResidueForced` | three suppliers, up to three submissions, nine bounties, eighteen policies | 400,050 |
| `service_store` | `AcceptedAreIndependent`, `SettledHasProof`, `SettledHasSources`, `VerdictsFinal`, `FollowsTable` | one gap, three URLs, two handlers at a time, simulated and on a local network, copies refused or repeated domains refused | 3,754,332 |
| `service_escrow` | `TypeOK`, `NoMoneyLeftBehind` | two gaps of budgets 1 and 2 sharing allowance and contract, two handlers, live | 1,498,224 |
| `service_open` | `OpenIsEscrowed` - violated | two gaps, live | - |
| `service_anchored` | `SettledIsAnchored` - violated | one gap, live | - |
| `service_refunded` | `CancelledIsRefunded` - violated | one gap, live | - |
| `portfolio_bundle` | `TypeOK`, `BundleVerifies`, `PaidForGoodEvidence`, `AcceptedCounts` | up to three of six pages, six sets of requirements, four opinions | 522,746 |
| `buyer_cap` | `TypeOK`, `CapHolds`, and `CallsReturn` under `FairSpec` | two calls, budgets 1 and 2, a cap of 3 | 1,665,141 |
| `agents_evidence` | `AgentsTypeOK`, `PagesAreRows`, `CountsAreRows`, `PaidOncePerClaim`, `CommittedIsStored`, and `SourcesOffered` under fairness | two suppliers and another client, one gap, eight addresses, a failing call; two claims, three gaps; two requests, two URLs, two hashes, one place | 395,811 |
| `interfaces_people` | `InterfacesTypeOK`, `LabIsConsistent`, `ReportsAreTrue`, `ScriptsAreSafe`, `LatestWins`, `WritesAuthorized`, and `EverythingEnds` under fairness | four texts and four acts; four starts or changes of the case; two commands, three contents of receipts; both scripts, two things wrong, one failing call | 675,777 |

**Why the bounds are enough.** Two bounties are needed for one to draw on the
other and two receipts for a registry clash; a third bounty adds no new relation,
and the theorems below hold for any number. Three evidence hashes for two places
make a full bounty, a duplicate and room. In `settlement_plan` three suppliers
allow one to be locked, one dropped and one left, with ties; the bounties include
0, sums that do not divide and ones where fee and shares round to zero; 20 basis
points make the default 5 % fee and 70 % cap exact. `service_store`'s URLs are
such that u1 and u2 have equal content and u2 and u3 share a domain, so every
repetition is possible; a live network has the handlers of a local one with a contract,
but that it needs a bounty id, and is `service_escrow`'s and the violated runs' (the theorems hold for all three); two handlers at a time are what every interleaving here
needs (each races with one other), and after an answer or a crash new ones start.
`service_escrow` has no submissions since its question is about money: the
statuses and transactions do not depend on them. `MaxReceipts` = 2 lets a second
finalize race or retry. `portfolio_bundle`'s six pages hold a copy
on another domain, two domains with two pages, suppliers with several pages, the
verifier as a supplier, all kinds of dates, six source types, and a date and a domain that
are too long for a reason, under requirements that repeat them and ones that do not; three pages
at a time make every pair of those meet a third. `buyer_cap`'s two budgets fit under the cap in
some combinations and not in others, and refunds make room for more. Handlers are
interchangeable, hence the symmetry on them;
it is used in no other run that checks liveness.

`agents_evidence` and `interfaces_people` hold several small models side by side: the
variable `at` is chosen at first and only that model moves, so that a property of one of
them is checked on exactly its behaviours, and the runs ask one question each: does what
agents do with evidence come out right, and is what people are shown and told true? In
the first, the addresses are a page and the same at another port, a second page in three
spellings (parameters in two orders, tracking, `www`, one trailing slash, and three), the
subject's own site, a social post and an address that does not parse; two claims make one that is opened again and one that is not; one place for two requests
makes a commitment that loses. In the second, four texts are two good ones, one that is
no JSON and one that is too large; three files and an edit make every order of late
reads; four starts or changes reach all three cases and return to the first while an
older request is in flight; two commands make one that changes what the other reports;
two wrong requirements make one that hides another. The two commands are alike, hence the
symmetry; the liveness property is about behaviours in which no command runs, where it
identifies no two states.

**Deadlock** is not checked: all the systems may stop for good (the last block
time, a plan that is done, all gaps closed).

**Fairness.** In `GapBounty`'s `FairSpec` time passes (weak), and a
requester who wants the escrow back calls `cancel` again and again (strong, as the
blocklist may take it out of reach and put it back). Nothing is assumed of
verifiers, suppliers or other requesters: that is the point of the property. The
property's own premise leaves out a requester who is blocked for ever from some
time on. In `AutonomousBuyer`'s, awaited answers come (weak; the request for a gap
may fail instead, by fetch's own timeout) and time passes; nothing is assumed of the
market, so that waiting must end by the buyer's own clock. In `MCAgents` suppliers are
asked again and again and their calls end (weak, per supplier), and nothing is assumed
of the gaps' clients or of time. In `MCInterfaces` the browser's timers fire and its
aborted requests are rejected (weak, per request), nothing is assumed of the server or
the visitor; the scripts' own awaited calls end, each in its time (weak: `Main`, `Buyer`,
`Wake`), and failures are bounded by `MaxFaults`. Of the sleep of the local script nothing
is assumed but that it ends, before or after the funding: `EverythingEnds` says that a run
ends in any case, and that it is a success when the gap it supplies was funded by then and
nothing fails.

**Every property can fail.** Next to an operator stands, where a plausible mistake
would break a property, a `...Bug` twin with that mistake; PROJECT.json's "mutants"
put each in place of its operator and TLC then finds the property violated.

### What the violated runs show

These are disagreements between the code and what the repository's own documents
say; details, with the lines quoted, are in PROJECT.json under "findings".

1. `service_open`: with two creations at a time one `approve` overwrites the other,
   the second `createBounty` passes its estimate, reverts when mined, and its gap
   is opened with bounty id 0 - another gap's escrow.
2. `service_anchored`: a `finalize` that reverts when mined (behind a cancel, or a
   second finalize, or as the token refuses a recipient) is taken for a success; the gap is
   shown as settled with a receipt nobody anchored. `NoMoneyLeftBehind` says what still
   holds then: unless it was the token that refused, the escrow was closed by the
   transaction that came first. Where the token refused, the escrow stays open behind a
   settled gap.
3. `service_refunded`: a gap whose bounty id is not in the store yet (or never will
   be, as the wait threw or the process died) is cancelled without a transaction;
   it is shown as cancelled and its escrow stays open.

Other disagreements that the models reproduce, and no run is kept for:

- The plan has two lines for a supplier whose address is the verifier's
  (`settle.ts:213`), and the contract's strictly-increasing check refuses it.
- `evaluateGap` sets the status by its copy from before the awaits (`service.ts:239`):
  cancelled or settled becomes verified again, and a submission that arrived meanwhile
  has no verdict when the gap is shown as verified. `FollowsTable` says what is left: a
  request moves the gap it finds by the table, and it makes no claim about handlers that
  were under way.
- A page whose date or host is too long for a reason is rejected once and for all, and then
  every receipt of its gap fails its own schema: the gap cannot be settled, see `Portfolio`.
- A commitment that reverts when it is mined is answered with its transaction
  (`chain.ts:246`), though `client.ts:131` calls it the commitment's; the same content under
  another URL is no duplicate (`service.ts:175`, against `client.ts:129`).
- A verified gap accepts submissions and is in neither list of a supplier
  (`supplier.ts:77`): `SourcesOffered` is about the listed ones.
- `canonicalizeUrl` takes away any port (`url.ts:49`), where `url.ts:3` says default ports, so
  that a page at another port is answered as a copy; and one trailing slash (`url.ts:59-61`),
  where it says slashes, so that it is not idempotent and a page under several slashes is
  stored twice. Both occur in `agents_evidence`; `PagesAreRows` names them as its exceptions,
  and without either of the two the run finds it violated.
- `awaitGap` gives null at the first failing poll, while the gap is live and funded
  (`adapter.ts:96` says on timeout).
- `gap create` of the CLI, and of a tool call with a requester, makes a client without
  the token (`cli/src/index.ts:51`, against `docs/security.md:101-102`).
- `demo.ts:231` sleeps half a second for a gap to be funded; if that takes longer, the
  script finds none and fails, or settles one without the chain, and its buyer may see it
  open again and wait until its timeout.
- `docs/protocol.md` words rules that the models have as they are in the code: `:59`
  `maxSourceAgeSeconds` compares "retrieved-vs-published", but it is the age when the page is
  evaluated, and a date up to an hour in the future is let through
  (`deterministic.ts:80-85`; `Timely`); `:61` asks for "at least one `primary` source", but
  every submission must be primary or official (`deterministic.ts:105-111`); `:62` compares
  with "prior accepted ones", but a domain is taken by any submission evaluated earlier,
  accepted or not (`service.ts:221-237`; `Prior`); `:63` has a "count floor across accepted
  set", which is of their root domains (`service.ts:265-272`; `Sources`).
- A file that comes in after a check leaves that check's result beside the new text
  (`proof-inspector.tsx:42`, against `docs/demo-script.md:109`); `LatestWins` says that nothing else does.
- With reduced motion the lab's Replay shows Pause though nothing plays:
  `PlayingIsMoving` is about visitors who see the animation.

## 4. The proofs

All proofs are for every value of the constants under the modules' named assumptions,
which TLC evaluates on the runs' instances:

- `AddressAssumption`, `HashAssumption`, `BoundAssumption` of `GapBounty`: addresses are
  non-zero and the contract is not a user, the zero hash is none of the hashes, evidence
  hashes are a finite set, bounds are natural numbers.
- `PolicyAssumption` and `InputAssumption` of `Settlement`: fees and shares are parts of
  the scale, a share cap is not zero (`settle.ts:79-86` throws otherwise), suppliers are a
  finite set, bounties and minimums natural numbers.
- `DossierAssumption`, `ScoreAssumption`, `BudgetAssumption` of `Portfolio`: pages are a
  finite set with a source type and a date or none, the scale is a multiple of 1000, the
  policy is as above.
- `ServiceAssumption`: gaps and URLs are finite sets, there is a gap, budgets are positive.
  `BuyerAssumption`: calls are a finite set, budgets and the cap are natural numbers.
- `AgentsAssumption` and `InterfacesAssumption`: those of the parts. What suppliers find
  and other clients send is what a URL parser can have read (`Parsed`) or no URL, the threshold of a pipeline is a part of
  10000, and the receipts that settle are exact ones.

Two ways of counting are used throughout, as an induction over a sum cannot be cited here.
An amount of money is the cardinality of a set of units (bounty or supplier, 1..amount):
an action adds or takes away one block of units, and facts on cardinalities of finite sets
say what becomes of the sum. And where an induction over a finite set is needed, it is
`SmallestSubset` of `SettlementProofs`: a family of subsets of a finite set has a smallest
member (the library proves that inclusion is well-founded), hence one that has the empty
set and grows by any element has the whole set (`GrowingSubsets`).

- **Escrow and contracts** (`GapBountyProofs`): `EscrowKeepsPromises`, `TypeCorrect`,
  `AlwaysSolvent`, `AnchorsSound`, `CountersExact`, `EvidenceInWindow`,
  `ContractsImplementEscrow`, `ContractsKeepPromises`. The abstract escrow gives out exactly
  what was put in, once, and each settlement has its own receipt; the contracts implement
  it, so they do too. None of the contracts' invariants is inductive alone. `ContractInv`
  conjoins them with `Unwritten` (entries from `nextBountyId` on are still all zeroes, so
  that a creation overwrites nothing) and `NoReceiptYet` (a bounty that is not settled has
  the zero hash, so that the abstract receipt is fresh). The sum of all open escrows is the
  cardinality of `EscrowedUnits`. Each action is first reduced to its effect on the
  bookkeeping (`Created`, `Committed`, `Settled`, `Cancelled`, `Quiet`; lemma
  `NextEffects`), and the invariants are proved against those five. The sum of a payout
  vector enters only through finalize's own overflow check.
- **Plan** (`SettlementProofs`): `SettlementTypeCorrect`, `PlanAddsUp`,
  `BetterNeverPaidLess`, `RefundIsForced`, `LoopConverges`, `SharesRespected`, all from
  `SettlementInv`. What is locked and tentative never exceeds the pool, and is all of it
  when the loop ends with somebody left (`Allocation`); better candidates are never behind
  (`Ordered`: a better one is locked no later, dropped no earlier and given no less); what
  a pass keeps passed both tests of that pass (`SharesKept`); passes made and recipients
  left never exceed the candidates (`PassesBounded`); the plan is made when the loop has
  ended (`Planned`). The step that was hard to see is the remainder: the units that the
  floors leave over go to the recipients ranked first, one each. That this gives out all
  of them needs that there are fewer of them than recipients (`LeftoverBounded`) and that a
  total order of a finite set has as many elements of rank below n as n says (`Ranking`).
- **Evidence to receipt** (`PortfolioProofs`): `PortfolioTypeCorrect`, `RefusedIsUnpaid`,
  `AcceptedIsCounted`, `AnybodyCanVerify`. `Portfolio` runs `Settlement` on inputs of its
  own, and so do the proofs: `SP`, an instance of `SettlementProofs`, gives the plan's
  invariant, once the steps of the two are shown to be the same (`SameStart`, `SameSteps`).
  `Records` adds what each judgement recorded (`Fair`: its verdict, age and score are those
  of its page among the earlier ones), that a plan is only begun when all is judged
  (`Phased`) and that a receipt is that of the plan, before or after its transaction was
  added (`Receipted`). A third party's check of the bundle then goes through line by line:
  the ranges of amounts, shares and scores, the hash of what is left after zeroing, shares by
  aggregated submissions, the fee, the sum. The exception of `AcceptedCounts` for accepted evidence with little support came out
  of the proof: 70 units of it leave one after all truncations, and the run's support
  values had hidden where the border is.
- **Handlers and store of the API** (`GapServiceProofs`): `ServiceTypeCorrect`,
  `VerdictsAreFinal`, `EvidenceIsIndependent`. All rest on the inductive invariant
  `TypeInv`. Its types alone are not inductive: that the chain never runs out of
  bounty ids needs that a gap is created once (`CreatedOnce`: the bounties map
  one to one into the gaps, so there is a free id while a gap is being created), and
  a transaction that is mined needs a handler that awaits it (`QueueMatches`). Proofs
  first reduce every action to what it does to the handlers: at most one goes
  on, all others stay or end (`OneMoves`; lemma `OneMovesStep`). That verdicts are
  final and independent comes from an order that no line of the code states: what
  has been judged is always the first part of the list of submissions
  (`VerdictsInOrder`), and an evaluation goes through what was left when it began, with
  the verdicts before that as `prior` (`HandlersInOrder`). Two evaluations of one gap
  therefore meet at the same submission, where the unique index stops the later one;
  the one that stores the next verdict has compared with every earlier one.
- **Statuses shown by the API** (`GapStatusProofs`): `StatusesFollowTable`,
  `SettledGapsHaveProof`, `SettledGapsHaveSources`, `SettledGapsLeaveNoMoney`,
  `ServiceUsesEscrow`, over `TypeInv`.
  Each step changes one status at most, in one of the nine ways `Becomes` lists
  (lemma `OneStatusStep`), and a gap becomes settled only by the last write of a
  settlement (`SettledStep`). The sources of a plan are counted before its transaction
  is awaited and stay, as verdicts are final (`PlannedOnSources`). The money of a
  settled gap needs `BackedPlans`: a finalize is sent only when its bounty covers it,
  so that two things can make it revert, the closing of that bounty and the token. Once it
  is answered the bounty is closed, by it or by another, or it is among those of which the
  token refused a payout (`ClosedOrRefused`), whatever becomes of the handler. `ServiceUsesEscrow` closes the composition: the service's money moves only
  by steps of `Escrow`, the module `GapBounty` implements, with a bounty id that is free and
  a receipt that exists; `EscrowKeepsPromises` says what follows from those steps.
- **Buyer** (`AutonomousBuyerProofs`): `BuyerTypeCorrect`, `BuyerKeepsCap`. `spent` is
  exactly the number of units its calls hold (`Counted`; `Held` is what a call counts at
  each await, the budget from the reservation on and the receipt's amount after it), a
  call's step adds or takes away one block of units, and what is out is covered by what is
  held as long as the receipts read are anchored ones.
- **Agents** (`AgentsProofs`, over `MCAgents`' specification; `PinnedIsStored` is about that of
  `Commitments`): `AgentsTypeCorrect`,
  `OnePagePerRow`, `RoundsCountRows`, `PaidOnlyAsTold`, `PinnedIsStored`; `AgentsInv` is the
  conjunction of an invariant per part, and a step moves one part.
  - *Commitments.* `CommittedIsStored` says nothing of transactions under way, so
    `CommitInv` adds that every request's answer is a stored row for its URL
    (`AnswersAreStored`) and that only a request that asked for it goes on to a transaction
    (`OnlyAsAsked`). All steps after the submission keep what a request asked and stores
    (`GoesOn`), crashes included, which leaves two steps to look at: the one that stores and
    the one that is mined.
  - *Addresses.* `OneAddressPerPage`: two addresses have one canonical form exactly when
    they are of one page up to the port, whatever their parameters, and as many slashes are
    left of both; for up to one trailing slash the path decides how many are left. Equal
    sorted queries give an isomorphism of the orders of the places kept, which maps the
    places of each name in their order, and conversely the maps per name together are one.
  - *Suppliers.* Rows are stored under the canonical form of what was sent, and no two under
    one (`RowsInv`); a supplier's count is the cardinality of its rows (`SupplierInv`).
  - *Keryx.* `GivenUp`: the gaps that may be paid for a claim without being waited for are at
    most the nulls it was answered with, and one more once a receipt was merged, as a merged
    receipt makes the claim supported and no gap is opened for it again.
- **People's programs** (`InterfacesProofs`, over `MCInterfaces`' specification;
  `DeskTypeCorrect` and `LatestActWins` are about that of `ProofDesk`):
  `InterfacesTypeCorrect`, `DeskTypeCorrect`, `LatestActWins`, `LabStaysConsistent`,
  `CommandsReportTruly`, `ScriptsStaySafe`, `OnlyAuthorizedWrites`.
  - *Proof inspector.* The revision counts exactly the visitor's acts, and each file being
    read carries the act that chose it (`RevisionsCountActs`): a file that passes the
    comparison of revisions is of the latest act.
  - *Lab.* `RequestsNumbered`: tokens are unique and none is ahead of the count, the request
    with the latest token is of the case shown, and while the lab is busy there is neither a
    result nor an error to show. A late answer has an old token, whatever the order.
    `TimelineOfResult`: without a result there is no timeline.
  - *Commands.* `Honest` says what a report rests on, and all of it is of the kind that stays
    true: writes made, receipts published, contents anchored.
  - *Scripts.* Everything required is there before anything is asked for (`ChecksFirst`); the
    gap that is settled is the buyer's own and the last one (`OwnIsLast`); it is funded from
    its answer until it is settled with a receipt (`OwnIsFunded`), and afterwards the script
    cancels only the gap it has let expire (`OwnIsSettled`). Failed calls are allowed at every
    step, and the sleep of the local script may end at any time.

TLC finds the inductive invariants to hold on the instances of the runs, too.

Every invariant and every action property that a passing run checks is stated by a theorem.
Only model-checked are the liveness properties - `EscrowResolved`, `CallsReturn`,
`SourcesOffered`, `EverythingEnds` -, since liveness under fairness needs ENABLED, which the
prover does not handle, and the statements that a run shows to be violated.

## 5. What is not modelled

- String work: the letters of URLs, normalizing texts, excerpts, HTML to text
  (`content.ts`), canonical JSON, the bytes of hashes. The models take its results as values.
- `HttpFetcher` (`fetch.ts`): nothing in the repository calls it but its tests.
- The semantic provider: a prompt, a keyword heuristic or a remote model; it may
  answer anything. In `GapService` the whole verdict on a submission that repeats no
  other may be anything; `Portfolio` has the rest.
- The texts of reasons, but for their being too long for the receipt's schema (`Wordy`).
- Rendering: pages without asynchronous state (`presentation.ts`, the market register),
  the drawn scene (`dossier-scene.tsx`, WebGL), styles and texts.
- `deploy.ts` (the first steps of the local demo on their own), `host-service.mjs` and
  `ui-review.mjs` (supervising and photographing a build), generated code, libraries.
- Validation of requests by schemas: the models' inputs are what it lets through. Of the
  schemas of documents `Portfolio` has the parts that computed values could fail.

## 6. Plan

Done, in this order: `Escrow` and `GapBounty` with their refinement and proofs,
`Settlement` with its proofs, `GapService` over `Escrow`, `Portfolio` over
`Settlement`, `AutonomousBuyer`; then the programs around the API: `EvidenceLab` and
`ProofDesk`, `Urls` and `Supplier`, `Keryx`, `FrontEnds`, `Demos`, `Commitments`; then the
proofs of all the runs' invariants and action properties.

Next:

1. Refinements: that what `AutonomousBuyer`'s market allows is all that `GapService` does,
   seen through a mapping of its statuses and escrows, is argued in section 2 and not
   checked.
2. That receipts awaited by finalizations of `GapService` are never anchored before, so
   that `Succeeds` need not ask the registry.
