----------------------------- MODULE FrontEnds ------------------------------
(***************************************************************************)
(* The command line (apps/cli/src/index.ts) and the MCP server             *)
(* (apps/mcp/src/index.ts) in front of the API, through the HTTP client of *)
(* packages/sdk, and the hook of the API that their writes have to pass.   *)
(*                                                                         *)
(* A command is a process of its own (a tool call one of the MCP server's, *)
(* which overlap); it goes from one await to the next.  A request and its  *)
(* answer are one step; the answer may be lost, or later than the client   *)
(* waits.  What a write does in its handler is GapService's: here it takes *)
(* effect or is turned down, and a settlement publishes its receipt and    *)
(* anchors it.  Receipts are their contents, of which hashes are unique.   *)
(***************************************************************************)
EXTENDS Naturals, FiniteSets

CONSTANTS Commands,    \* the command lines and tool calls, each run once
          Settleable,  \* the gaps a finalize may settle
          Contents,    \* contents of receipts, genuine (a gap's) or not
          Exact,       \* those of which payouts and fee add up to the total
          Operator     \* the operator's token

None == "none"

\* Of the constants, for those who instantiate this module.
FrontEndsAssumption ==
  /\ Settleable \subseteq Exact /\ Exact \subseteq Contents
  /\ Operator # None

VARIABLES server,     \* local: a test network of one's own; token: the API's, or None
          shell,      \* the token in the environment of the commands, or None
          published,  \* the gaps whose receipt the API has
          anchored,   \* the contents whose hash is in the registry
          file,       \* the receipt in the file that is verified
          effects,    \* the commands whose request has taken effect
          runs        \* command -> its process

vars == <<server, shell, published, anchored, file, effects, runs>>

Receipts == [content : Contents, hash : Contents]

Genuine(g) == [content |-> g, hash |-> g]

CliWrites == {"create", "submit", "evaluate", "finalize", "cancel"}
McpWrites == {"create", "submit", "cancel"}

\* What is typed: `by` is the gap asked for by its own id or by that of its receipt,
\* `requester` an address that is given (which only create of a tool call heeds),
\* `registry` one given to verify.
CommandLines ==
  [front : {"cli"}, name : CliWrites \cup {"read", "doctor"},
   requester : {FALSE}, registry : {FALSE}, gap : Settleable, by : {"gap"}]
  \cup
  [front : {"cli"}, name : {"verify_file", "verify_id"},
   requester : {FALSE}, registry : BOOLEAN, gap : Settleable, by : {"receipt"}]
ToolCalls ==
  [front : {"mcp"}, name : McpWrites \cup {"read"},
   requester : BOOLEAN, registry : {FALSE}, gap : Settleable, by : {"gap"}]
  \cup
  [front : {"mcp"}, name : {"get_receipt"},
   requester : {FALSE}, registry : {FALSE}, gap : Settleable, by : {"gap", "receipt"}]

\* exit is "running", "ok" or "failed"; error a status of the API's hook.
Started(line) ==
  [line |-> line, pc |-> "start", exit |-> "running", error |-> 0,
   chain |-> "right",     \* what doctor met
   receipt |-> None,      \* the receipt read
   early |-> FALSE,       \* it was published before the command began
   faults |-> FALSE]      \* a request of it has failed

NotRun == [pc |-> "idle", exit |-> "running"]

Init ==
  /\ server \in [local : BOOLEAN, token : {None, Operator}]
  /\ shell \in {None, "other", Operator}
  /\ published = {} /\ anchored = {}
  /\ file \in {Genuine(g) : g \in Settleable}
  /\ effects = {}
  /\ runs = [c \in Commands |-> NotRun]

Ends(c, exit) == runs' = [runs EXCEPT ![c].pc = "ended", ![c].exit = exit]

Breaks(c) == runs' = [runs EXCEPT ![c].pc = "ended", ![c].exit = "failed", ![c].faults = TRUE]

\* `client()`, or the one client of the MCP server, has the token; create of the
\* command line, and that of a tool call with a requester, makes a client without.
TokenOf(line) ==
  IF line.name = "create" /\ (line.front = "cli" \/ line.requester) THEN None ELSE shell

\* Without a token of its own the API takes any.
HookBug(token) == IF server.token # None /\ token # server.token THEN 401 ELSE 0

\* onRequest, for any request but a GET: 0 lets it pass.
Hook(token) ==
  IF server.token # None /\ token # server.token THEN 401
  ELSE IF ~server.local /\ server.token = None THEN 503
  ELSE 0

-----------------------------------------------------------------------------
Start(c, line) ==
  /\ runs[c] = NotRun
  /\ runs' = [runs EXCEPT ![c] = [Started(line) EXCEPT !.early = line.gap \in published]]
  /\ UNCHANGED <<server, shell, published, anchored, file, effects>>

Runs(c, pc, names) == runs[c].pc = pc /\ runs[c].line.name \in names

Refused(c) ==
  /\ Runs(c, "start", CliWrites)
  /\ Hook(TokenOf(runs[c].line)) # 0
  /\ runs' = [runs EXCEPT ![c].pc = "ended", ![c].exit = "failed",
                          ![c].error = Hook(TokenOf(runs[c].line))]
  /\ UNCHANGED <<server, shell, published, anchored, file, effects>>

\* Any answer will do.
ExitBug(took, answered) == IF answered THEN "ok" ELSE "failed"

\* req throws unless it gets an answer that is ok.
Exit(took, answered) == IF took /\ answered THEN "ok" ELSE "failed"

\* The handler takes effect, or turns the request down, or the settlement stops
\* behind its transaction.
Write(c) ==
  LET line == runs[c].line
  IN  /\ Runs(c, "start", CliWrites)
      /\ Hook(TokenOf(line)) = 0
      /\ \E took, answered \in BOOLEAN :
           /\ Ends(c, Exit(took, answered))
           /\ effects' = IF took THEN effects \cup {c} ELSE effects
           /\ IF line.name = "finalize"
                THEN /\ published' = IF took THEN published \cup {line.gap} ELSE published
                     /\ anchored' \in {anchored, anchored \cup {line.gap}}
                ELSE UNCHANGED <<published, anchored>>
      /\ UNCHANGED <<server, shell, file>>

Read(c) ==
  /\ Runs(c, "start", {"read"})
  /\ Ends(c, "ok") \/ Breaks(c)
  /\ UNCHANGED <<server, shell, published, anchored, file, effects>>

\* Someone edits the file, with or without computing the hash anew.
Edit(r) ==
  /\ r # file
  /\ file' = r
  /\ UNCHANGED <<server, shell, published, anchored, effects, runs>>

-----------------------------------------------------------------------------
(* receipt verify.                                                          *)

Load(c) ==
  LET line == runs[c].line
      has(r) == runs' = [runs EXCEPT ![c].pc = "verify", ![c].receipt = r]
  IN  /\ \/ Runs(c, "start", {"verify_file"}) /\ has(file)
         \/ Runs(c, "start", {"verify_id"}) /\ line.gap \in published /\ has(Genuine(line.gap))
         \/ Runs(c, "start", {"verify_id"}) /\ Breaks(c)
      /\ UNCHANGED <<server, shell, published, anchored, file, effects>>

\* Looks for the hash in the registry and does not compute it.
HashMatchBug(r) == TRUE

HashMatch(r) == r.hash = r.content

AccountingExact(r) == r.content \in Exact

Verify(c) ==
  LET r == runs[c].receipt
      ok == HashMatch(r) /\ AccountingExact(r)
  IN  /\ Runs(c, "verify", {"verify_file", "verify_id"})
      /\ IF ~runs[c].line.registry THEN Ends(c, IF ok THEN "ok" ELSE "failed")
         ELSE \/ Ends(c, IF ok /\ r.hash \in anchored THEN "ok" ELSE "failed")
              \/ Breaks(c)
      /\ UNCHANGED <<server, shell, published, anchored, file, effects>>

-----------------------------------------------------------------------------
\* chainIdMatch is not set when the RPC is down.
Healthy(chain) == chain \notin {"unconfigured", "wrong"}

\* resolveNetwork, getChainId and health, whose failure is only reported.
Doctor(c) ==
  /\ Runs(c, "start", {"doctor"})
  /\ \E chain \in {"right", "wrong", "down", "unconfigured"} :
       runs' = [runs EXCEPT ![c].pc = "ended", ![c].chain = chain,
                            ![c].exit = IF Healthy(chain) THEN "ok" ELSE "failed"]
  /\ UNCHANGED <<server, shell, published, anchored, file, effects>>

\* gap402_get_receipt: by the gap first; an error is taken for none.
GetByGap(c) ==
  LET line == runs[c].line
  IN  /\ Runs(c, "start", {"get_receipt"})
      /\ \/ /\ line.by = "gap" /\ line.gap \in published
            /\ runs' = [runs EXCEPT ![c].pc = "ended", ![c].exit = "ok",
                                    ![c].receipt = Genuine(line.gap)]
         \/ /\ line.by = "receipt" \/ line.gap \notin published
            /\ runs' = [runs EXCEPT ![c].pc = "by_id"]
         \/ runs' = [runs EXCEPT ![c].pc = "by_id", ![c].faults = TRUE]
      /\ UNCHANGED <<server, shell, published, anchored, file, effects>>

\* Asks by the gap again.
FoundByIdBug(line) == line.by = "gap" /\ line.gap \in published

FoundById(line) == line.by = "receipt" /\ line.gap \in published

GetById(c) ==
  LET line == runs[c].line
  IN  /\ Runs(c, "by_id", {"get_receipt"})
      /\ \/ /\ FoundById(line)
            /\ runs' = [runs EXCEPT ![c].pc = "ended", ![c].exit = "ok",
                                    ![c].receipt = Genuine(line.gap)]
         \/ ~FoundById(line) /\ Ends(c, "failed")
         \/ Breaks(c)
      /\ UNCHANGED <<server, shell, published, anchored, file, effects>>

Step(c) ==
  \/ Refused(c) \/ Write(c) \/ Read(c) \/ Load(c) \/ Verify(c)
  \/ Doctor(c) \/ GetByGap(c) \/ GetById(c)

Next ==
  \/ \E c \in Commands : Step(c) \/ \E line \in CommandLines \cup ToolCalls : Start(c, line)
  \/ \E r \in Receipts : Edit(r)

Spec == Init /\ [][Next]_vars

-----------------------------------------------------------------------------
(* Correctness.                                                             *)

(* "A public read-only explorer must never expose a server wallet to        *)
(* anonymous writes" (server.ts): beyond a test network of one's own, a     *)
(* write that takes effect was sent with the token the API was given.       *)
WritesAuthorized ==
  [][\A c \in effects' \ effects :
       server.local \/ (server.token = Operator /\ TokenOf(runs[c].line) = Operator)]_vars

(* A command that reports success has taken effect, whatever was lost on    *)
(* the way (req of client.ts).                                              *)
SuccessTookEffect ==
  \A c \in Commands :
    runs[c].exit = "ok" /\ runs[c].line.name \in CliWrites => c \in effects

(* A receipt that `receipt verify --registry` takes for good has the        *)
(* contents some settlement anchored, however the file was edited, its hash *)
(* computed anew or the anchor of another receipt put in its place.         *)
VerifiedIsAnchored ==
  \A c \in Commands :
    /\ runs[c].exit = "ok"
    /\ runs[c].line.name \in {"verify_file", "verify_id"} /\ runs[c].line.registry
    => runs[c].receipt.content \in anchored

(* A receipt that is there is found by either of its ids, unless a request  *)
(* failed (gap402_get_receipt asks for the gap's first).                    *)
ReceiptIsFound ==
  \A c \in Commands :
    runs[c].exit = "failed" /\ runs[c].line.name = "get_receipt" /\ runs[c].line.by = "receipt"
      => runs[c].faults \/ ~runs[c].early
=============================================================================
