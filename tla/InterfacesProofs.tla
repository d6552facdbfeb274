-------------------------- MODULE InterfacesProofs --------------------------
(***************************************************************************)
(* Theorems about what a person uses: ProofDesk, for any texts and any     *)
(* number of acts; EvidenceLab, for any number of starts and changes;      *)
(* FrontEnds, for any commands, gaps and receipts; Demos, for any number   *)
(* of faults.                                                              *)
(***************************************************************************)
EXTENDS MCInterfaces, Sequences, TLAPS, FiniteSetTheorems

-----------------------------------------------------------------------------
(* ProofDesk.                                                               *)

\* Every act of the visitor gives the desk a new revision, and a file that is read
\* carries the one its choice made.
RevisionsCountActs ==
  /\ revision = acts
  /\ author <= acts
  /\ \A r \in reads : r.act = r.revision

DeskInv == TypeOK /\ RevisionsCountActs

(* The initial desk is in order.                                            *)
LEMMA DeskInit == Init => DeskInv
<1> SUFFICES ASSUME Init PROVE DeskInv
  OBVIOUS
<1>1. TypeOK
  <2>1. text \in Texts
    BY DeskAssumption DEF Init
  <2>2. result = NoResult
    BY DEF Init
  <2>3. error \in BOOLEAN
    BY DEF Init
  <2>4. revision \in 0..MaxActs /\ acts \in 0..MaxActs /\ author \in 0..MaxActs
    BY DeskAssumption DEF Init
  <2>5. reads \subseteq [revision : 1..MaxActs, act : 1..MaxActs, text : Texts \ Oversized]
    BY DEF Init
  <2> QED
    BY <2>1, <2>2, <2>3, <2>4, <2>5 DEF TypeOK
<1>2. RevisionsCountActs
  BY DEF Init, RevisionsCountActs
<1> QED
  BY <1>1, <1>2 DEF DeskInv

(* Every step keeps it in order.                                            *)
LEMMA DeskStep == DeskInv /\ [Next]_vars => DeskInv'
<1> SUFFICES ASSUME DeskInv, [Next]_vars PROVE DeskInv'
  OBVIOUS
<1> USE DeskAssumption DEF DeskInv, TypeOK, RevisionsCountActs
<1>1. CASE UNCHANGED vars
  BY <1>1 DEF vars
<1>2. ASSUME NEW t \in Texts, Edit(t) PROVE DeskInv'
  <2>1. text' \in Texts /\ result' = NoResult /\ reads' = reads
    BY <1>2 DEF Edit, Cleared
  <2>2. error' \in BOOLEAN
    BY <1>2 DEF Edit, Cleared
  <2>3. revision' = acts' /\ author' = acts' /\ acts' \in 0..MaxActs
    BY <1>2 DEF Edit, Edited
  <2> QED
    BY <2>1, <2>2, <2>3
<1>3. ASSUME NEW t \in Texts, OpenFile(t) PROVE DeskInv'
  <2>1. revision' \in 0..MaxActs /\ acts' \in 1..MaxActs /\ revision' = acts'
    BY <1>3 DEF OpenFile
  <2>2. reads' \subseteq [revision : 1..MaxActs, act : 1..MaxActs, text : Texts \ Oversized]
        /\ \A r \in reads' : r.act = r.revision
    BY <1>3, <2>1 DEF OpenFile
  <2>3. error' \in BOOLEAN
    BY <1>3 DEF OpenFile
  <2>4. text' = text /\ author' = author /\ result' = NoResult /\ acts' > acts
    BY <1>3 DEF OpenFile
  <2> QED
    BY <2>1, <2>2, <2>3, <2>4
<1>4. ASSUME NEW r \in reads, Opens(r) PROVE DeskInv'
  <2>1. r.text \in Texts /\ r.act \in 0..MaxActs /\ r.act = r.revision
    OBVIOUS
  <2>2. text' \in Texts
    BY <1>4, <2>1 DEF Opens
  <2>3. error' \in BOOLEAN
    BY <1>4 DEF Opens
  <2>4. author' \in 0..MaxActs /\ author' <= acts
    BY <1>4, <2>1 DEF Opens, IsLatest
  <2>5. reads' \subseteq reads /\ UNCHANGED <<result, revision, acts>>
    BY <1>4 DEF Opens
  <2> QED
    BY <2>2, <2>3, <2>4, <2>5
<1>5. ASSUME NEW r \in reads, CannotOpen(r) PROVE DeskInv'
  BY <1>5 DEF CannotOpen, IsLatest
<1>6. CASE Check
  BY <1>6 DEF Check, ResultOf
<1> QED
  BY <1>1, <1>2, <1>3, <1>4, <1>5, <1>6 DEF Next

(* TypeOK of the desk: a result is only ever that of a text that parses.    *)
THEOREM DeskTypeCorrect == Spec => []TypeOK
<1>1. DeskInv => TypeOK
  BY DEF DeskInv
<1> QED
  BY DeskInit, DeskStep, <1>1, PTL DEF Spec

(* What is on the desk gets newer only: a file that is read late carries a  *)
(* revision of its own and is not shown.                                    *)
LEMMA TextGetsNewer ==
  ASSUME DeskInv, Next
  PROVE  author' >= author
<1> USE DEF DeskInv, TypeOK, RevisionsCountActs
<1>1. ASSUME NEW t \in Texts, Edit(t) PROVE author' >= author
  BY <1>1 DEF Edit
<1>2. ASSUME NEW t \in Texts, OpenFile(t) PROVE author' >= author
  BY <1>2 DEF OpenFile
<1>3. ASSUME NEW r \in reads, Opens(r) PROVE author' >= author
  BY <1>3 DEF Opens, IsLatest
<1>4. ASSUME NEW r \in reads, CannotOpen(r) PROVE author' >= author
  BY <1>4 DEF CannotOpen
<1>5. CASE Check
  BY <1>5 DEF Check
<1> QED
  BY <1>1, <1>2, <1>3, <1>4, <1>5 DEF Next

(* A result becomes stale by a file that comes in, and by nothing else.     *)
LEMMA StaleByFileOnly ==
  ASSUME Next, Stale'
  PROVE  result' = result /\ (Stale \/ \E r \in reads : Opens(r))
<1> DEFINE Kept == result' = result /\ (Stale \/ \E r \in reads : Opens(r))
<1>1. ASSUME NEW t \in Texts, Edit(t) PROVE Kept
  BY <1>1 DEF Edit, Cleared, Stale
<1>2. ASSUME NEW t \in Texts, OpenFile(t) PROVE Kept
  BY <1>2 DEF OpenFile, Stale
<1>3. ASSUME NEW r \in reads, Opens(r) PROVE Kept
  <2>1. result' = result
    BY <1>3 DEF Opens
  <2> QED
    BY <1>3, <2>1
<1>4. ASSUME NEW r \in reads, CannotOpen(r) PROVE Kept
  BY <1>4 DEF CannotOpen, Stale
<1>5. CASE Check
  BY <1>5 DEF Check, ResultOf, Stale
<1> QED
  BY <1>1, <1>2, <1>3, <1>4, <1>5 DEF Next

(* LatestWins: an edit or a file chosen later is never replaced by a file   *)
(* whose reading ends late (openFile's comparison of revisions), and no     *)
(* result outlives an edit.                                                 *)
THEOREM LatestActWins == Spec => LatestWins
<1>1. DeskInv /\ [Next]_vars =>
        [/\ author' >= author
         /\ Stale' => result' = result /\ (Stale \/ \E r \in reads : Opens(r))]_vars
  BY TextGetsNewer, StaleByFileOnly
<1> QED
  BY DeskInit, DeskStep, <1>1, PTL DEF Spec, LatestWins

-----------------------------------------------------------------------------
(* FrontEnds.                                                               *)

Line == F!CommandLines \cup F!ToolCalls

Processes ==
  [line : Line, pc : {"start", "verify", "by_id", "ended"}, exit : {"running", "ok", "failed"},
   error : {0, 401, 503}, chain : {"right", "wrong", "down", "unconfigured"},
   receipt : F!Receipts \cup {F!None}, early : BOOLEAN, faults : BOOLEAN]

\* What the report of a process rests on: it comes at its end; the process began after the
\* receipt was there if it says so; a write it reports was made, a receipt it took for good
\* was anchored, and one it did not find was not there.
Honest(c, x, done, published_, anchored_) ==
  /\ x.exit = "running" \/ x.pc = "ended"
  /\ x.early => x.line.gap \in published_
  /\ x.exit = "ok" /\ x.line.name \in F!CliWrites => c \in done
  /\ x.exit = "ok" /\ x.line.name \in {"verify_file", "verify_id"} /\ x.line.registry
       => x.receipt.content \in anchored_
  /\ x.exit = "failed" /\ x.line.name = "get_receipt" /\ x.line.by = "receipt"
       => x.faults \/ ~x.early

CommandsInv ==
  /\ server \in [local : BOOLEAN, token : {F!None, Operator}]
  /\ published \subseteq Settleable
  /\ file \in F!Receipts
  /\ runs \in [Commands -> {F!NotRun} \cup Processes]
  /\ \A c \in Commands : runs[c] # F!NotRun => Honest(c, runs[c], effects, published, anchored)

\* What is typed concerns a gap.
LEMMA LineOfGap == \A line \in Line : line.gap \in Settleable
BY DEF Line, F!CommandLines, F!ToolCalls

\* A process has begun.
LEMMA ProcessRuns ==
  /\ \A x \in Processes : x # F!NotRun
  /\ F!NotRun.exit = "running" /\ F!NotRun.pc = "idle"
BY DEF Processes, F!NotRun

\* What a process reports stays so.
LEMMA StaysHonest ==
  ASSUME NEW c, NEW x, NEW d1, NEW d2, NEW p1, NEW p2, NEW a1, NEW a2,
         Honest(c, x, d1, p1, a1), d1 \subseteq d2, p1 \subseteq p2, a1 \subseteq a2
  PROVE  Honest(c, x, d2, p2, a2)
BY DEF Honest

\* One process goes on.
LEMMA OneProcess ==
  ASSUME CommandsInv, NEW c \in Commands, NEW x \in Processes,
         runs' = [runs EXCEPT ![c] = x], UNCHANGED <<server, file>>,
         published' \subseteq Settleable,
         effects \subseteq effects', published \subseteq published', anchored \subseteq anchored',
         Honest(c, x, effects', published', anchored')
  PROVE  CommandsInv'
<1>1. runs'[c] = x /\ \A d \in Commands \ {c} : runs'[d] = runs[d]
  BY DEF CommandsInv
<1>2. runs' \in [Commands -> {F!NotRun} \cup Processes]
  BY DEF CommandsInv
<1>3. ASSUME NEW d \in Commands, runs'[d] # F!NotRun
      PROVE  Honest(d, runs'[d], effects', published', anchored')
  <2>1. CASE d = c
    BY <1>1, <2>1
  <2>2. CASE d # c
    BY <1>1, <1>3, <2>2, StaysHonest DEF CommandsInv
  <2> QED
    BY <2>1, <2>2
<1>4. file' \in F!Receipts /\ server' \in [local : BOOLEAN, token : {F!None, Operator}]
  BY DEF CommandsInv
<1> QED
  BY <1>2, <1>3, <1>4 DEF CommandsInv, Honest, Processes, Line, F!NotRun, F!Receipts,
     F!CommandLines, F!ToolCalls, F!CliWrites, F!McpWrites, F!None

\* No command runs at first.
LEMMA CommandsInit == F!Init => CommandsInv
<1> SUFFICES ASSUME F!Init PROVE CommandsInv
  OBVIOUS
<1>1. file \in F!Receipts
  BY InterfacesAssumption DEF F!Init, F!Genuine, F!Receipts, F!FrontEndsAssumption
<1>2. runs = [c \in Commands |-> F!NotRun] /\ published = {}
  BY DEF F!Init
<1>3. server \in [local : BOOLEAN, token : {F!None, Operator}]
  BY DEF F!Init
<1> QED
  BY <1>1, <1>2, <1>3 DEF CommandsInv

\* A receipt of a gap.
LEMMA GenuineTyped == \A g \in Settleable : F!Genuine(g) \in F!Receipts
BY InterfacesAssumption DEF F!Genuine, F!Receipts, F!FrontEndsAssumption

\* A process that is at one of its steps is one.
LEMMA AtStep ==
  ASSUME CommandsInv, NEW c \in Commands, NEW step \in {"start", "verify", "by_id"}, NEW names,
         F!Runs(c, step, names)
  PROVE  /\ runs[c] \in Processes /\ runs[c].pc = step /\ runs[c].line.name \in names
         /\ runs[c].line.gap \in Settleable /\ runs[c].line \in Line
         /\ Honest(c, runs[c], effects, published, anchored)
<1>1. runs[c] # F!NotRun
  BY ProcessRuns DEF F!Runs
<1>2. runs[c] \in Processes
  BY <1>1 DEF CommandsInv
<1> QED
  BY <1>1, <1>2, LineOfGap DEF F!Runs, CommandsInv, Processes

\* What is set twice is what it was set to last.
LEMMA SetTwice ==
  ASSUME NEW f, NEW c \in DOMAIN f, f = [d \in DOMAIN f |-> f[d]], NEW v
  PROVE  /\ [f EXCEPT ![c] = v][c] = v
         /\ \A w : [[f EXCEPT ![c] = v] EXCEPT ![c] = w] = [f EXCEPT ![c] = w]
OBVIOUS

\* A process with one field set anew.
WithPc(p, step) == [p EXCEPT !.pc = step]
WithExit(p, exit) == [p EXCEPT !.exit = exit]
WithFault(p) == [p EXCEPT !.faults = TRUE]
WithReceipt(p, r) == [p EXCEPT !.receipt = r]
WithError(p, n) == [p EXCEPT !.error = n]
WithChain(p, chain) == [p EXCEPT !.chain = chain]

\* A process that has the line of another, and began as it did.
Goes(x, p) == x \in Processes /\ x.line = p.line /\ x.early = p.early

\* It moves on.
LEMMA PcSet ==
  ASSUME NEW p \in Processes, NEW step \in {"verify", "by_id", "ended"}
  PROVE  /\ Goes(WithPc(p, step), p)
         /\ WithPc(p, step).pc = step
         /\ WithPc(p, step).exit = p.exit
         /\ WithPc(p, step).receipt = p.receipt
         /\ WithPc(p, step).faults = p.faults
BY DEF Processes, Goes, WithPc

\* It has an answer.
LEMMA ExitSet ==
  ASSUME NEW p \in Processes, NEW exit \in {"ok", "failed"}
  PROVE  /\ Goes(WithExit(p, exit), p)
         /\ WithExit(p, exit).pc = p.pc
         /\ WithExit(p, exit).exit = exit
         /\ WithExit(p, exit).receipt = p.receipt
         /\ WithExit(p, exit).faults = p.faults
BY DEF Processes, Goes, WithExit

\* A request of it failed.
LEMMA FaultSet ==
  ASSUME NEW p \in Processes
  PROVE  /\ Goes(WithFault(p), p)
         /\ WithFault(p).pc = p.pc
         /\ WithFault(p).exit = p.exit
         /\ WithFault(p).receipt = p.receipt
         /\ WithFault(p).faults = TRUE
BY DEF Processes, Goes, WithFault

\* It has read a receipt.
LEMMA ReceiptSet ==
  ASSUME NEW p \in Processes, NEW r \in F!Receipts
  PROVE  /\ Goes(WithReceipt(p, r), p)
         /\ WithReceipt(p, r).pc = p.pc
         /\ WithReceipt(p, r).exit = p.exit
BY DEF Processes, Goes, WithReceipt

\* It was turned down.
LEMMA ErrorSet ==
  ASSUME NEW p \in Processes, NEW n \in {0, 401, 503}
  PROVE  /\ Goes(WithError(p, n), p)
         /\ WithError(p, n).pc = p.pc
         /\ WithError(p, n).exit = p.exit
BY DEF Processes, Goes, WithError

\* It has asked the chain.
LEMMA ChainSet ==
  ASSUME NEW p \in Processes,
         NEW chain \in {"right", "wrong", "down", "unconfigured"}
  PROVE  /\ Goes(WithChain(p, chain), p)
         /\ WithChain(p, chain).pc = p.pc
         /\ WithChain(p, chain).exit = p.exit
BY DEF Processes, Goes, WithChain

\* The processes are a function.
LEMMA RunsFunction ==
  ASSUME CommandsInv
  PROVE  DOMAIN runs = Commands /\ runs = [d \in DOMAIN runs |-> runs[d]]
BY DEF CommandsInv

\* A process ends.
LEMMA EndTyped ==
  ASSUME CommandsInv, NEW c \in Commands, runs[c] \in Processes,
         NEW exit \in {"ok", "failed"}, F!Ends(c, exit)
  PROVE  \E x \in Processes :
           /\ runs' = [runs EXCEPT ![c] = x]
           /\ x.line = runs[c].line /\ x.early = runs[c].early /\ x.receipt = runs[c].receipt
           /\ x.pc = "ended" /\ x.exit = exit /\ x.faults = runs[c].faults
<1> DEFINE y == WithPc(runs[c], "ended")
           g == [runs EXCEPT ![c] = y]
<1> HIDE DEF y
<1>1. /\ Goes(y, runs[c]) /\ y.receipt = runs[c].receipt /\ y.faults = runs[c].faults
      /\ y.pc = "ended"
  BY PcSet DEF y
<1>2. g[c] = y /\ \A w : [g EXCEPT ![c] = w] = [runs EXCEPT ![c] = w]
  BY RunsFunction, SetTwice
<1>3. y \in Processes
  BY <1>1 DEF Goes
<1> DEFINE x == WithExit(y, exit)
<1>4. runs' = [g EXCEPT ![c] = [g[c] EXCEPT !.exit = exit]]
  BY DEF F!Ends, y, WithPc
<1> HIDE DEF g
<1>5. runs' = [runs EXCEPT ![c] = x]
  BY <1>2, <1>4 DEF WithExit
<1>6. /\ Goes(x, y) /\ x.receipt = y.receipt /\ x.exit = exit /\ x.faults = y.faults
      /\ x.pc = y.pc
  BY <1>3, ExitSet
<1> HIDE DEF x
<1> QED
  BY <1>1, <1>5, <1>6 DEF Goes

\* A request of a process fails, which ends it.
LEMMA BreakTyped ==
  ASSUME CommandsInv, NEW c \in Commands, runs[c] \in Processes, F!Breaks(c)
  PROVE  \E x \in Processes :
           /\ runs' = [runs EXCEPT ![c] = x]
           /\ x.line = runs[c].line /\ x.early = runs[c].early /\ x.receipt = runs[c].receipt
           /\ x.pc = "ended" /\ x.exit = "failed" /\ x.faults = TRUE
<1> DEFINE y == WithPc(runs[c], "ended")
           g == [runs EXCEPT ![c] = y]
<1> HIDE DEF y
<1>1. /\ Goes(y, runs[c]) /\ y.receipt = runs[c].receipt /\ y.faults = runs[c].faults
      /\ y.pc = "ended"
  BY PcSet DEF y
<1>2. g[c] = y /\ \A w : [g EXCEPT ![c] = w] = [runs EXCEPT ![c] = w]
  BY RunsFunction, SetTwice
<1>3. y \in Processes
  BY <1>1 DEF Goes
<1> DEFINE z == WithExit(y, "failed")
           h == [runs EXCEPT ![c] = z]
           x == WithFault(z)
<1>4. runs' = [[g EXCEPT ![c] = [g[c] EXCEPT !.exit = "failed"]]
                 EXCEPT ![c] = [[g EXCEPT ![c] = [g[c] EXCEPT !.exit = "failed"]][c]
                                  EXCEPT !.faults = TRUE]]
  BY DEF F!Breaks, y, WithPc
<1> HIDE DEF g
<1>5. [g EXCEPT ![c] = [g[c] EXCEPT !.exit = "failed"]] = h
  BY <1>2 DEF WithExit
<1>6. runs' = [h EXCEPT ![c] = [h[c] EXCEPT !.faults = TRUE]]
  BY <1>4, <1>5
<1> HIDE DEF z
<1>7. h[c] = z /\ \A w : [h EXCEPT ![c] = w] = [runs EXCEPT ![c] = w]
  BY RunsFunction, SetTwice
<1>8. /\ Goes(z, y) /\ z.receipt = y.receipt /\ z.exit = "failed" /\ z.faults = y.faults
      /\ z.pc = y.pc
  BY <1>3, ExitSet DEF z
<1> HIDE DEF h
<1>9. runs' = [runs EXCEPT ![c] = x]
  BY <1>6, <1>7 DEF WithFault
<1>10. z \in Processes
  BY <1>8 DEF Goes
<1>11. /\ Goes(x, z) /\ x.receipt = z.receipt /\ x.exit = z.exit /\ x.faults = TRUE
      /\ x.pc = z.pc
  BY <1>10, FaultSet
<1> HIDE DEF x
<1> QED
  BY <1>1, <1>8, <1>9, <1>11 DEF Goes

\* A process ends, with or without a fault.
LEMMA EndsTyped ==
  ASSUME CommandsInv, NEW c \in Commands, runs[c] \in Processes,
         NEW exit \in {"ok", "failed"}, F!Ends(c, exit) \/ F!Breaks(c)
  PROVE  \E x \in Processes :
           /\ runs' = [runs EXCEPT ![c] = x]
           /\ x.line = runs[c].line /\ x.early = runs[c].early /\ x.receipt = runs[c].receipt
           /\ x.pc = "ended"
           /\ \/ F!Ends(c, exit) /\ x.exit = exit /\ x.faults = runs[c].faults
              \/ F!Breaks(c) /\ x.exit = "failed" /\ x.faults = TRUE
<1>1. CASE F!Ends(c, exit)
  BY <1>1, EndTyped
<1>2. CASE F!Breaks(c)
  BY <1>2, BreakTyped
<1> QED
  BY <1>1, <1>2

\* Three fields of a process are set, one after the other.
LEMMA ThriceSet ==
  ASSUME CommandsInv, NEW c \in Commands, NEW y, NEW z, NEW x
  PROVE  LET g == [runs EXCEPT ![c] = y]
             h == [g EXCEPT ![c] = z]
         IN  g[c] = y /\ h[c] = z /\ [h EXCEPT ![c] = x] = [runs EXCEPT ![c] = x]
<1> DEFINE g == [runs EXCEPT ![c] = y]
           h == [runs EXCEPT ![c] = z]
<1>1. g[c] = y /\ \A w : [g EXCEPT ![c] = w] = [runs EXCEPT ![c] = w]
  BY RunsFunction, SetTwice
<1>2. h[c] = z /\ \A w : [h EXCEPT ![c] = w] = [runs EXCEPT ![c] = w]
  BY RunsFunction, SetTwice
<1> QED
  BY <1>1, <1>2

\* A command is typed in.
LEMMA StartStep ==
  ASSUME CommandsInv, NEW c \in Commands, NEW line \in Line, F!Start(c, line)
  PROVE  CommandsInv'
<1> DEFINE x == [F!Started(line) EXCEPT !.early = line.gap \in published]
<1>1. runs' = [runs EXCEPT ![c] = x] /\ UNCHANGED <<server, published, anchored, file, effects>>
  BY DEF F!Start
<1>2. /\ x \in Processes /\ x.line = line /\ x.exit = "running"
      /\ x.early => line.gap \in published
  <2> DEFINE early == line.gap \in published
             p == F!Started(line)
  <2>1. p \in Processes /\ p.line = line /\ p.exit = "running"
    BY DEF F!Started, Processes
  <2>2. early \in BOOLEAN
    OBVIOUS
  <2> HIDE DEF early, p
  <2>3. /\ [p EXCEPT !.early = early] \in Processes
        /\ [p EXCEPT !.early = early].line = p.line /\ [p EXCEPT !.early = early].exit = p.exit
        /\ [p EXCEPT !.early = early].early <=> early
    BY <2>1, <2>2 DEF Processes
  <2>4. x = [p EXCEPT !.early = early]
    BY DEF p, early
  <2> HIDE DEF x
  <2> QED
    BY <2>1, <2>3, <2>4 DEF early
<1> HIDE DEF x
<1>3. Honest(c, x, effects', published', anchored')
  BY <1>1, <1>2 DEF Honest
<1> QED
  BY <1>1, <1>2, <1>3, OneProcess DEF CommandsInv

\* A write is turned down by the hook, or sent.
LEMMA WriteStep ==
  ASSUME CommandsInv, NEW c \in Commands, F!Refused(c) \/ F!Write(c)
  PROVE  CommandsInv'
<1>1. /\ runs[c] \in Processes /\ runs[c].line.name \in F!CliWrites
      /\ runs[c].line.gap \in Settleable
      /\ Honest(c, runs[c], effects, published, anchored)
  BY AtStep DEF F!Refused, F!Write
<1>2. CASE F!Refused(c)
  <2> DEFINE n == F!Hook(F!TokenOf(runs[c].line))
             y == WithPc(runs[c], "ended")
             z == WithExit(y, "failed")
             x == WithError(z, n)
             g == [runs EXCEPT ![c] = y]
             h == [g EXCEPT ![c] = z]
  <2>1. runs' = [runs EXCEPT ![c] = x] /\ UNCHANGED <<server, published, anchored, file, effects>>
    <3>1. /\ runs' = [[g EXCEPT ![c] = WithExit(g[c], "failed")]
                        EXCEPT ![c] = WithError([g EXCEPT ![c] = WithExit(g[c], "failed")][c], n)]
          /\ UNCHANGED <<server, published, anchored, file, effects>>
      BY <1>2 DEF F!Refused, WithPc, WithExit, WithError
    <3> HIDE DEF n, y
    <3>2. g[c] = y /\ h[c] = z /\ [h EXCEPT ![c] = x] = [runs EXCEPT ![c] = x]
      BY ThriceSet
    <3> HIDE DEF g
    <3>3. runs' = [h EXCEPT ![c] = WithError(h[c], n)]
      BY <3>1, <3>2
    <3> HIDE DEF h
    <3> QED
      BY <3>1, <3>2, <3>3
  <2>2. n \in {0, 401, 503}
    BY DEF F!Hook
  <2>3. /\ x \in Processes /\ x.line = runs[c].line /\ x.exit = "failed" /\ x.early = runs[c].early
        /\ x.pc = "ended"
    <3> HIDE DEF n, y
    <3>1. y \in Processes /\ y.line = runs[c].line /\ y.early = runs[c].early /\ y.pc = "ended"
      BY <1>1, PcSet DEF Goes, y
    <3> HIDE DEF z
    <3>2. /\ z \in Processes /\ z.line = y.line /\ z.early = y.early /\ z.exit = "failed"
          /\ z.pc = y.pc
      BY <3>1, ExitSet DEF Goes, z
    <3> HIDE DEF x
    <3>3. /\ x \in Processes /\ x.line = z.line /\ x.early = z.early /\ x.exit = z.exit
          /\ x.pc = z.pc
      BY <2>2, <3>2, ErrorSet DEF Goes, x
    <3> QED
      BY <3>1, <3>2, <3>3
  <2> HIDE DEF x
  <2>4. Honest(c, x, effects', published', anchored')
    BY <1>1, <2>1, <2>3 DEF Honest, F!CliWrites
  <2> QED
    BY <2>1, <2>3, <2>4, OneProcess DEF CommandsInv
<1>3. CASE F!Write(c)
  <2>1. PICK took \in BOOLEAN, answered \in BOOLEAN :
          /\ F!Ends(c, F!Exit(took, answered))
          /\ effects' = IF took THEN effects \cup {c} ELSE effects
          /\ IF runs[c].line.name = "finalize"
               THEN /\ published' = IF took THEN published \cup {runs[c].line.gap}
                                            ELSE published
                    /\ anchored' \in {anchored, anchored \cup {runs[c].line.gap}}
               ELSE UNCHANGED <<published, anchored>>
    BY <1>3 DEF F!Write
  <2>2. F!Exit(took, answered) \in {"ok", "failed"} /\ (F!Exit(took, answered) = "ok" => took)
    BY DEF F!Exit
  <2>3. PICK x \in Processes :
          /\ runs' = [runs EXCEPT ![c] = x]
          /\ x.line = runs[c].line /\ x.early = runs[c].early /\ x.pc = "ended"
          /\ x.exit = F!Exit(took, answered) \/ x.exit = "failed"
    BY <1>1, <2>1, <2>2, EndsTyped
  <2>4. /\ published \subseteq published' /\ anchored \subseteq anchored'
        /\ effects \subseteq effects' /\ published' \subseteq Settleable
    BY <1>1, <2>1 DEF CommandsInv
  <2>5. Honest(c, x, effects', published', anchored')
    BY <1>1, <2>1, <2>2, <2>3, <2>4 DEF Honest, F!CliWrites
  <2> QED
    BY <1>3, <2>3, <2>4, <2>5, OneProcess DEF F!Write
<1> QED
  BY <1>2, <1>3

\* A command that reads, asks the doctor or verifies what it has read.
LEMMA VerifyStep ==
  ASSUME CommandsInv, NEW c \in Commands, F!Read(c) \/ F!Verify(c) \/ F!Doctor(c)
  PROVE  CommandsInv'
<1>1. UNCHANGED <<server, published, anchored, file, effects>>
  BY DEF F!Read, F!Verify, F!Doctor
<1>2. CASE F!Read(c)
  <2>1. /\ runs[c] \in Processes /\ runs[c].line.name = "read"
        /\ Honest(c, runs[c], effects, published, anchored)
    BY <1>2, AtStep DEF F!Read
  <2>2. PICK x \in Processes :
          /\ runs' = [runs EXCEPT ![c] = x]
          /\ x.line = runs[c].line /\ x.early = runs[c].early /\ x.pc = "ended"
    BY <1>2, <2>1, EndsTyped DEF F!Read
  <2>3. Honest(c, x, effects', published', anchored')
    BY <1>1, <2>1, <2>2 DEF Honest, F!CliWrites
  <2> QED
    BY <1>1, <2>2, <2>3, OneProcess DEF CommandsInv
<1>3. CASE F!Doctor(c)
  <2>1. /\ runs[c] \in Processes /\ runs[c].line.name = "doctor"
        /\ Honest(c, runs[c], effects, published, anchored)
    BY <1>3, AtStep DEF F!Doctor
  <2>2. PICK chain \in {"right", "wrong", "down", "unconfigured"} :
          runs' = [runs EXCEPT ![c].pc = "ended", ![c].chain = chain,
                               ![c].exit = IF F!Healthy(chain) THEN "ok" ELSE "failed"]
    BY <1>3 DEF F!Doctor
  <2> DEFINE exit == IF F!Healthy(chain) THEN "ok" ELSE "failed"
             y == WithPc(runs[c], "ended")
             z == WithChain(y, chain)
             x == WithExit(z, exit)
             g == [runs EXCEPT ![c] = y]
             h == [g EXCEPT ![c] = z]
  <2>3. runs' = [runs EXCEPT ![c] = x]
    <3>1. runs' = [[g EXCEPT ![c] = WithChain(g[c], chain)]
                     EXCEPT ![c] = WithExit([g EXCEPT ![c] = WithChain(g[c], chain)][c], exit)]
      BY <2>2 DEF WithPc, WithExit, WithChain
    <3> HIDE DEF exit, y
    <3>2. g[c] = y /\ h[c] = z /\ [h EXCEPT ![c] = x] = [runs EXCEPT ![c] = x]
      BY ThriceSet
    <3> HIDE DEF g
    <3>3. runs' = [h EXCEPT ![c] = WithExit(h[c], exit)]
      BY <3>1, <3>2
    <3> HIDE DEF h
    <3> QED
      BY <3>2, <3>3
  <2>4. exit \in {"ok", "failed"}
    OBVIOUS
  <2>5. x \in Processes /\ x.line = runs[c].line /\ x.early = runs[c].early /\ x.pc = "ended"
    <3> HIDE DEF exit, y
    <3>1. y \in Processes /\ y.line = runs[c].line /\ y.early = runs[c].early /\ y.pc = "ended"
      BY <2>1, PcSet DEF Goes, y
    <3> HIDE DEF z
    <3>2. z \in Processes /\ z.line = y.line /\ z.early = y.early /\ z.pc = y.pc
      BY <3>1, ChainSet DEF Goes, z
    <3> HIDE DEF x
    <3>3. x \in Processes /\ x.line = z.line /\ x.early = z.early /\ x.pc = z.pc
      BY <2>4, <3>2, ExitSet DEF Goes, x
    <3> QED
      BY <3>1, <3>2, <3>3
  <2> HIDE DEF exit, x
  <2>6. Honest(c, x, effects', published', anchored')
    BY <1>1, <2>1, <2>5 DEF Honest, F!CliWrites
  <2> QED
    BY <1>1, <2>3, <2>5, <2>6, OneProcess DEF CommandsInv
<1>4. CASE F!Verify(c)
  <2> DEFINE r == runs[c].receipt
             ok == F!HashMatch(r) /\ F!AccountingExact(r)
  <2>1. /\ runs[c] \in Processes /\ runs[c].line.name \in {"verify_file", "verify_id"}
        /\ Honest(c, runs[c], effects, published, anchored)
    BY <1>4, AtStep DEF F!Verify
  <2>2. PICK exit \in {"ok", "failed"} :
          /\ F!Ends(c, exit) \/ F!Breaks(c)
          /\ F!Ends(c, exit) /\ runs[c].line.registry /\ exit = "ok" =>
               r.hash = r.content /\ r.hash \in anchored
          /\ F!Breaks(c) => exit = "failed"
    <3>1. CASE ~runs[c].line.registry
      <4>1. F!Ends(c, IF ok THEN "ok" ELSE "failed")
        BY <1>4, <3>1 DEF F!Verify
      <4>2. F!Ends(c, "ok") \/ F!Ends(c, "failed")
        BY <4>1
      <4> QED
        BY <3>1, <4>2 DEF F!Ends, F!Breaks
    <3>2. CASE runs[c].line.registry /\ F!Breaks(c)
      BY <3>2
    <3>3. CASE runs[c].line.registry /\ ~F!Breaks(c)
      <4>1. F!Ends(c, IF ok /\ r.hash \in anchored THEN "ok" ELSE "failed")
        BY <1>4, <3>3 DEF F!Verify
      <4>2. (F!Ends(c, "ok") /\ r.hash = r.content /\ r.hash \in anchored) \/ F!Ends(c, "failed")
        BY <4>1 DEF F!HashMatch
      <4> QED
        BY <3>3, <4>2
    <3> QED
      BY <3>1, <3>2, <3>3
  <2>3. PICK x \in Processes :
          /\ runs' = [runs EXCEPT ![c] = x]
          /\ x.line = runs[c].line /\ x.early = runs[c].early /\ x.receipt = r /\ x.pc = "ended"
          /\ \/ F!Ends(c, exit) /\ x.exit = exit
             \/ x.exit = "failed"
    BY <2>1, <2>2, EndsTyped
  <2>4. Honest(c, x, effects', published', anchored')
    BY <1>1, <2>1, <2>2, <2>3 DEF Honest, F!CliWrites
  <2> QED
    BY <1>1, <2>3, <2>4, OneProcess DEF CommandsInv
<1> QED
  BY <1>2, <1>3, <1>4

\* The receipt to verify is read.
LEMMA LoadStep ==
  ASSUME CommandsInv, NEW c \in Commands, F!Load(c)
  PROVE  CommandsInv'
<1> DEFINE y == WithPc(runs[c], "verify")
           g == [runs EXCEPT ![c] = y]
<1>1. UNCHANGED <<server, published, anchored, file, effects>>
  BY DEF F!Load
<1>2. /\ runs[c] \in Processes /\ runs[c].line.name \in {"verify_file", "verify_id"}
      /\ runs[c].line.gap \in Settleable /\ runs[c].pc = "start"
      /\ Honest(c, runs[c], effects, published, anchored)
  BY AtStep DEF F!Load
<1>3. CASE F!Breaks(c)
  <2>1. PICK x \in Processes :
          /\ runs' = [runs EXCEPT ![c] = x]
          /\ x.line = runs[c].line /\ x.early = runs[c].early
          /\ x.exit = "failed" /\ x.pc = "ended"
    <3>1. "failed" \in {"ok", "failed"}
      OBVIOUS
    <3> QED
      BY <1>2, <1>3, <3>1, EndsTyped
  <2>2. Honest(c, x, effects', published', anchored')
    BY <1>1, <1>2, <2>1 DEF Honest, F!CliWrites
  <2> QED
    BY <1>1, <2>1, <2>2, OneProcess DEF CommandsInv
<1>4. CASE ~F!Breaks(c)
  <2>1. PICK r \in F!Receipts : runs' = [g EXCEPT ![c] = WithReceipt(g[c], r)]
    <3>1. runs' = [runs EXCEPT ![c].pc = "verify", ![c].receipt = file]
            \/ runs' = [runs EXCEPT ![c].pc = "verify", ![c].receipt = F!Genuine(runs[c].line.gap)]
      BY <1>4 DEF F!Load
    <3>2. file \in F!Receipts /\ F!Genuine(runs[c].line.gap) \in F!Receipts
      BY <1>2, GenuineTyped DEF CommandsInv
    <3> QED
      BY <3>1, <3>2 DEF WithPc, WithReceipt
  <2> DEFINE x == WithReceipt(y, r)
  <2> HIDE DEF y
  <2>2. g[c] = y /\ \A w : [g EXCEPT ![c] = w] = [runs EXCEPT ![c] = w]
    BY RunsFunction, SetTwice
  <2> HIDE DEF g
  <2>3. runs' = [runs EXCEPT ![c] = x]
    BY <2>1, <2>2
  <2>4. Goes(y, runs[c]) /\ y.exit = runs[c].exit
    BY <1>2, PcSet DEF y
  <2>5. y \in Processes
    BY <2>4 DEF Goes
  <2>6. Goes(x, y) /\ x.exit = y.exit
    BY <2>5, ReceiptSet
  <2>7. x \in Processes /\ x.line = runs[c].line /\ x.early = runs[c].early
        /\ x.exit = runs[c].exit
    BY <2>4, <2>6 DEF Goes
  <2> HIDE DEF x
  <2>8. runs[c].exit = "running"
    BY <1>2 DEF Honest
  <2>9. Honest(c, x, effects', published', anchored')
    BY <1>1, <1>2, <2>7, <2>8 DEF Honest
  <2> QED
    BY <1>1, <2>3, <2>7, <2>9, OneProcess DEF CommandsInv
<1> QED
  BY <1>3, <1>4

\* A process ends with the receipt it asked for.
Found(c) == runs' = [runs EXCEPT ![c].pc = "ended", ![c].exit = "ok",
                                 ![c].receipt = F!Genuine(runs[c].line.gap)]

\* It stays honest.
LEMMA FoundStep ==
  ASSUME CommandsInv, NEW c \in Commands, runs[c] \in Processes,
         runs[c].line.name = "get_receipt", runs[c].line.gap \in Settleable,
         Honest(c, runs[c], effects, published, anchored), Found(c),
         UNCHANGED <<server, published, anchored, file, effects>>
  PROVE  CommandsInv'
<1> DEFINE r == F!Genuine(runs[c].line.gap)
           y == WithPc(runs[c], "ended")
           z == WithExit(y, "ok")
           x == WithReceipt(z, r)
           g == [runs EXCEPT ![c] = y]
           h == [g EXCEPT ![c] = z]
<1>1. r \in F!Receipts
  BY GenuineTyped
<1>2. runs' = [runs EXCEPT ![c] = x]
  <2>1. runs' = [[g EXCEPT ![c] = WithExit(g[c], "ok")]
                   EXCEPT ![c] = WithReceipt([g EXCEPT ![c] = WithExit(g[c], "ok")][c], r)]
    BY DEF Found, WithPc, WithExit, WithReceipt
  <2> HIDE DEF r, y, z, x
  <2>2. g[c] = y /\ h[c] = z /\ [h EXCEPT ![c] = x] = [runs EXCEPT ![c] = x]
    BY ThriceSet
  <2> HIDE DEF g
  <2>3. runs' = [[g EXCEPT ![c] = z] EXCEPT ![c] = x]
    BY <2>1, <2>2 DEF z, x
  <2> QED
    BY <2>2, <2>3
<1> HIDE DEF r, y
<1>3. y \in Processes /\ y.line = runs[c].line /\ y.early = runs[c].early /\ y.pc = "ended"
  BY PcSet DEF Goes, y
<1> HIDE DEF z
<1>4. /\ z \in Processes /\ z.line = y.line /\ z.early = y.early /\ z.exit = "ok"
      /\ z.pc = y.pc
  BY <1>3, ExitSet DEF Goes, z
<1> HIDE DEF x
<1>5. /\ x \in Processes /\ x.line = z.line /\ x.early = z.early /\ x.exit = z.exit
      /\ x.pc = z.pc
  BY <1>1, <1>4, ReceiptSet DEF Goes, x
<1>6. Honest(c, x, effects', published', anchored')
  BY <1>3, <1>4, <1>5 DEF Honest, F!CliWrites
<1> QED
  BY <1>2, <1>5, <1>6, OneProcess DEF CommandsInv

\* A receipt is asked for by the gap's id, and then by its own.
LEMMA GetStep ==
  ASSUME CommandsInv, NEW c \in Commands, F!GetByGap(c) \/ F!GetById(c)
  PROVE  CommandsInv'
<1>1. UNCHANGED <<server, published, anchored, file, effects>>
  BY DEF F!GetByGap, F!GetById
<1>2. /\ runs[c] \in Processes /\ runs[c].line.name = "get_receipt"
      /\ runs[c].line.gap \in Settleable /\ runs[c].pc # "ended"
      /\ Honest(c, runs[c], effects, published, anchored)
  BY AtStep DEF F!GetByGap, F!GetById
<1>3. CASE Found(c)
  BY <1>1, <1>2, <1>3, FoundStep
<1>4. ASSUME NEW x \in {WithPc(runs[c], "by_id"), WithFault(WithPc(runs[c], "by_id"))},
             runs' = [runs EXCEPT ![c] = x]
      PROVE  CommandsInv'
  <2> DEFINE y == WithPc(runs[c], "by_id")
  <2> HIDE DEF y
  <2>1. Goes(y, runs[c]) /\ y.exit = runs[c].exit
    BY <1>2, PcSet DEF y
  <2>2. y \in Processes
    BY <2>1 DEF Goes
  <2>3. Goes(WithFault(y), y) /\ WithFault(y).exit = y.exit
    BY <2>2, FaultSet
  <2>4. x = y \/ x = WithFault(y)
    BY <1>4 DEF y
  <2>5. x \in Processes /\ x.line = runs[c].line /\ x.early = runs[c].early /\ x.exit = "running"
    BY <1>2, <2>1, <2>3, <2>4 DEF Goes, Honest
  <2>6. Honest(c, x, effects', published', anchored')
    BY <1>1, <1>2, <2>5 DEF Honest
  <2> QED
    BY <1>1, <1>4, <2>5, <2>6, OneProcess DEF CommandsInv
<1>5. CASE F!GetByGap(c)
  <2> DEFINE y == WithPc(runs[c], "by_id")
             g == [runs EXCEPT ![c] = y]
  <2>1. CASE runs' = g
    BY <1>4, <2>1
  <2>2. CASE runs' = [g EXCEPT ![c] = WithFault(g[c])]
    <3>1. g[c] = y /\ \A w : [g EXCEPT ![c] = w] = [runs EXCEPT ![c] = w]
      <4> HIDE DEF y
      <4> QED
        BY RunsFunction, SetTwice
    <3> HIDE DEF g
    <3>2. runs' = [runs EXCEPT ![c] = WithFault(y)]
      BY <2>2, <3>1
    <3> QED
      BY <1>4, <3>2
  <2>3. Found(c) \/ runs' = g \/ runs' = [g EXCEPT ![c] = WithFault(g[c])]
    BY <1>5 DEF F!GetByGap, Found, WithPc, WithFault
  <2> HIDE DEF g
  <2> QED
    BY <1>3, <2>1, <2>2, <2>3
<1>6. CASE F!GetById(c)
  <2>1. ASSUME F!Breaks(c)
        PROVE  CommandsInv'
    <3>1. PICK x \in Processes :
            /\ runs' = [runs EXCEPT ![c] = x]
            /\ x.line = runs[c].line /\ x.early = runs[c].early /\ x.pc = "ended"
            /\ x.exit = "failed" /\ x.faults = TRUE
      BY <1>2, <2>1, BreakTyped
    <3>2. Honest(c, x, effects', published', anchored')
      BY <1>1, <1>2, <3>1 DEF Honest, F!CliWrites
    <3> QED
      BY <1>1, <3>1, <3>2, OneProcess DEF CommandsInv
  <2>2. ASSUME F!Ends(c, "failed"), ~F!FoundById(runs[c].line)
        PROVE  CommandsInv'
    <3>1. "failed" \in {"ok", "failed"}
      OBVIOUS
    <3>2. PICK x \in Processes :
            /\ runs' = [runs EXCEPT ![c] = x]
            /\ x.line = runs[c].line /\ x.early = runs[c].early /\ x.pc = "ended"
            /\ x.exit = "failed"
      BY <1>2, <2>2, <3>1, EndTyped
    <3>3. x.line.by # "receipt" \/ x.line.gap \notin published
      BY <2>2, <3>2 DEF F!FoundById
    <3>4. Honest(c, x, effects', published', anchored')
      BY <1>1, <1>2, <3>2, <3>3 DEF Honest, F!CliWrites
    <3> QED
      BY <1>1, <3>2, <3>4, OneProcess DEF CommandsInv
  <2> QED
    BY <1>3, <1>6, <2>1, <2>2 DEF F!GetById, Found
<1> QED
  BY <1>5, <1>6

\* Nothing but the file has changed.
LEMMA CommandsSame ==
  ASSUME CommandsInv, file' \in F!Receipts,
         UNCHANGED <<server, published, anchored, effects, runs>>
  PROVE  CommandsInv'
BY DEF CommandsInv

\* Every step of a command keeps the reports honest.
LEMMA CommandsStep == CommandsInv /\ [F!Next]_(F!vars) => CommandsInv'
<1> SUFFICES ASSUME CommandsInv, [F!Next]_(F!vars) PROVE CommandsInv'
  OBVIOUS
<1>1. ASSUME NEW c \in Commands, F!Step(c) PROVE CommandsInv'
  BY <1>1, WriteStep, VerifyStep, LoadStep, GetStep DEF F!Step
<1>2. ASSUME NEW c \in Commands, NEW line \in F!CommandLines \cup F!ToolCalls, F!Start(c, line)
      PROVE  CommandsInv'
  BY <1>2, StartStep DEF Line
<1>3. ASSUME NEW r \in F!Receipts, F!Edit(r) PROVE CommandsInv'
  <2>1. file' \in F!Receipts /\ UNCHANGED <<server, published, anchored, effects, runs>>
    BY <1>3 DEF F!Edit
  <2> QED
    BY <2>1, CommandsSame DEF CommandsInv
<1>4. CASE UNCHANGED F!vars
  <2>1. file' \in F!Receipts /\ UNCHANGED <<server, published, anchored, effects, runs>>
    BY <1>4 DEF F!vars, CommandsInv
  <2> QED
    BY <2>1, CommandsSame
<1> QED
  BY <1>1, <1>2, <1>3, <1>4 DEF F!Next

\* What a command reports is so.
LEMMA HonestReports == CommandsInv => ReportsAreTrue
<1> SUFFICES ASSUME CommandsInv, NEW c \in Commands,
                    runs[c].exit \in {"ok", "failed"}
             PROVE  Honest(c, runs[c], effects, published, anchored)
  BY DEF ReportsAreTrue, F!SuccessTookEffect, F!VerifiedIsAnchored, F!ReceiptIsFound, Honest
<1>1. runs[c] # F!NotRun
  BY ProcessRuns
<1> QED
  BY <1>1 DEF CommandsInv

\* A write that takes effect was sent with the token the API was given.
LEMMA HookHolds ==
  ASSUME CommandsInv, [F!Next]_(F!vars), NEW c \in effects' \ effects
  PROVE  server.local \/ (server.token = Operator /\ F!TokenOf(runs[c].line) = Operator)
<1>1. effects' # effects
  OBVIOUS
<1>2. ASSUME NEW d \in Commands,
             F!Step(d) \/ \E line \in F!CommandLines \cup F!ToolCalls : F!Start(d, line)
      PROVE  effects' = effects \/ F!Write(d)
  <2>1. F!Refused(d) \/ F!Read(d) \/ F!Doctor(d) \/ F!Verify(d) => effects' = effects
    BY DEF F!Refused, F!Read, F!Doctor, F!Verify
  <2>2. F!Load(d) => effects' = effects
    BY DEF F!Load
  <2>3. F!GetByGap(d) \/ F!GetById(d) => effects' = effects
    BY DEF F!GetByGap, F!GetById
  <2>4. ASSUME NEW line, F!Start(d, line) PROVE effects' = effects
    BY <2>4 DEF F!Start
  <2> QED
    BY <1>2, <2>1, <2>2, <2>3, <2>4 DEF F!Step
<1>3. ASSUME NEW r, F!Edit(r) PROVE effects' = effects
  BY <1>3 DEF F!Edit
<1>4. PICK d \in Commands : F!Write(d)
  BY <1>1, <1>2, <1>3 DEF F!Next, F!vars
<1>5. effects' \subseteq effects \cup {d} /\ F!Hook(F!TokenOf(runs[d].line)) = 0
  BY <1>4 DEF F!Write
<1>6. c = d
  BY <1>5
<1>7. server.token \in {F!None, Operator}
  BY DEF CommandsInv
<1> QED
  BY <1>5, <1>6, <1>7 DEF F!Hook

-----------------------------------------------------------------------------
(* EvidenceLab.                                                             *)

\* Requests are numbered by the start they belong to, and the latest is that of the case
\* shown; while it is in flight there is nothing to show for it, nor an error.
RequestsNumbered ==
  /\ mounted => generation <= MaxGeneration
  /\ \A r \in requests : r.token <= generation
  /\ \A r, q \in requests : r.token = q.token => r = q
  /\ \A r \in requests : r.token = generation => mounted /\ r.scenario = scenario
  /\ mounted /\ busy => run = L!None /\ cache[scenario] = L!None /\ ~labError

\* Without a result there is no timeline.
TimelineOfResult == run = L!None => timeline = L!NoTimeline

Request == [token : 1..MaxGeneration, scenario : L!Scenarios, aborted : BOOLEAN]

Playback == [at : 0..L!End, state : {"none", "running", "paused", "done"}]

CaseTyped ==
  /\ scenario \in L!Scenarios
  /\ run \in L!Scenarios \cup {L!None}
  /\ cache \in [L!Scenarios -> L!Scenarios \cup {L!None}]

FlagsTyped ==
  busy \in BOOLEAN /\ labError \in BOOLEAN /\ motionPlaying \in BOOLEAN /\ mounted \in BOOLEAN

CountTyped == generation \in 0..(MaxGeneration + 1) /\ requests \subseteq Request

MotionTyped == chapter \in 0..L!Last /\ timeline \in Playback

LabTyped == CaseTyped /\ FlagsTyped /\ CountTyped /\ MotionTyped

LabInv ==
  /\ LabTyped /\ RequestsNumbered /\ TimelineOfResult
  /\ L!ShownIsChosen /\ L!SelectedIsShown /\ L!BusyIsWaiting
  /\ L!ErrorIsHonest /\ L!PlayingIsMoving

\* The state of the lab is of its type.
LEMMA LabTypes == LabTyped => L!TypeOK
<1> SUFFICES ASSUME LabTyped PROVE L!TypeOK
  OBVIOUS
<1>1. {busy, labError, motionPlaying, mounted} \subseteq BOOLEAN
  BY DEF LabTyped, CaseTyped, FlagsTyped, CountTyped, MotionTyped
<1> QED
  BY <1>1 DEF LabTyped, CaseTyped, FlagsTyped, CountTyped, MotionTyped, L!TypeOK, Request, Playback

\* The first submission of every case.
LEMMA FirstSource == \A s \in L!Scenarios : 1 \in DOMAIN L!Submissions(s)
BY DEF L!Scenarios, L!Submissions, L!Fixtures

\* A case is not the name of no result.
LEMMA NoCase == L!None \notin L!Scenarios
BY DEF L!None, L!Scenarios

\* The first source of a result is selected when it is installed.
LEMMA SelectionShown ==
  ASSUME NEW r \in L!Scenarios \cup {L!None}
  PROVE  L!Selection(r) \in IF r = L!None THEN {L!Nothing} ELSE L!Sources(r) \cup L!Rows(r)
BY FirstSource, NoCase DEF L!Selection, L!Sources, L!Nothing

\* Nothing is requested at first.
LEMMA LabInit == L!Init => LabInv
<1> SUFFICES ASSUME L!Init PROVE LabInv
  OBVIOUS
<1>1. LabTyped
  <2>1. L!NoTimeline \in Playback /\ "mixed" \in L!Scenarios /\ 0 \in 0..L!Last
    BY DEF L!NoTimeline, L!End, Playback, L!Scenarios, L!Last
  <2>2. 0 \in 0..(MaxGeneration + 1)
    BY InterfacesAssumption DEF L!LabAssumption
  <2> QED
    BY <2>1, <2>2 DEF L!Init, LabTyped, CaseTyped, FlagsTyped, CountTyped, MotionTyped
<1>2. RequestsNumbered /\ TimelineOfResult
  BY InterfacesAssumption DEF L!Init, RequestsNumbered, TimelineOfResult, L!LabAssumption
<1> QED
  BY <1>1, <1>2 DEF L!Init, LabInv, L!ShownIsChosen, L!SelectedIsShown, L!BusyIsWaiting, L!InFlight,
     L!ErrorIsHonest, L!PlayingIsMoving, L!NoTimeline

\* Aborting a request leaves what it is a request for.
LEMMA AbortKeeps ==
  ASSUME NEW t, L!Abort(t), requests \subseteq Request,
         \A r, q \in requests : r.token = q.token => r = q
  PROVE  /\ requests' \subseteq Request
         /\ \A q \in requests' : \E r \in requests : r.token = q.token /\ r.scenario = q.scenario
         /\ \A r \in requests : \E q \in requests' : r.token = q.token
         /\ \A r, q \in requests' : r.token = q.token => r = q
<1> DEFINE f(r) == IF r.token = t THEN [r EXCEPT !.aborted = TRUE] ELSE r
<1>1. requests' = {f(r) : r \in requests}
  BY DEF L!Abort
<1>2. ASSUME NEW r \in requests
      PROVE  f(r) \in Request /\ f(r).token = r.token /\ f(r).scenario = r.scenario
  BY DEF Request
<1> HIDE DEF f
<1> QED
  BY <1>1, <1>2

\* What a result played is like.
LEMMA PlayedTyped ==
  ASSUME NEW r
  PROVE  /\ L!Played(r) \in Playback
         /\ r = L!None => L!Played(r) = L!NoTimeline
         /\ r # L!None /\ ~ReducedMotion => L!Played(r).state = "running" /\ L!Played(r) # L!NoTimeline
<1>1. /\ L!NoTimeline \in Playback
      /\ L!NoTimeline.state = "none"
  BY DEF L!NoTimeline, L!End, Playback
<1>2. /\ [at |-> 0, state |-> "running"] \in Playback
      /\ [at |-> 0, state |-> "running"].state = "running"
  BY DEF L!End, Playback
<1> QED
  BY <1>1, <1>2 DEF L!Played

\* Installing a result.
LEMMA Installed ==
  ASSUME NEW r \in L!Scenarios \cup {L!None}, L!InstallOnly(r), motionPlaying \in BOOLEAN
  PROVE  /\ run' = r /\ chapter' = 0 /\ motionPlaying' \in BOOLEAN
         /\ timeline' \in Playback
         /\ TimelineOfResult' /\ L!SelectedIsShown' /\ L!PlayingIsMoving'
<1>1. /\ run' = r /\ chapter' = 0 /\ timeline' = L!Played(r) /\ selected' = L!Selection(r)
      /\ motionPlaying' = (motionPlaying \/ L!Played(r) # L!NoTimeline)
  BY DEF L!InstallOnly, L!Install
<1>2. L!SelectedIsShown'
  BY <1>1, SelectionShown DEF L!SelectedIsShown
<1> QED
  BY <1>1, <1>2, PlayedTyped DEF TimelineOfResult, L!PlayingIsMoving

\* Another case is chosen.
LEMMA ChangeStep ==
  ASSUME LabInv, NEW value \in L!Scenarios, L!Change(value)
  PROVE  LabInv'
<1> USE DEF LabInv
<1>1. /\ mounted /\ mounted' = mounted /\ cache' = cache /\ busy' = FALSE /\ labError' = FALSE
      /\ generation < MaxGeneration /\ generation' = generation + 1 /\ scenario' = value
      /\ L!Abort(generation) /\ L!InstallOnly(cache[value])
  BY DEF L!Change, L!ErrorAfterChange
<1>2. cache[value] \in {L!None, value} /\ motionPlaying \in BOOLEAN
  BY DEF L!ShownIsChosen, LabTyped, FlagsTyped
<1>3. /\ run' = cache[value] /\ chapter' = 0 /\ motionPlaying' \in BOOLEAN
      /\ timeline' \in Playback
      /\ TimelineOfResult' /\ L!SelectedIsShown' /\ L!PlayingIsMoving'
  BY <1>1, <1>2, Installed
<1>4. /\ requests' \subseteq Request
      /\ \A q \in requests' : q.token <= generation
      /\ \A r, q \in requests' : r.token = q.token => r = q
  BY <1>1, AbortKeeps DEF LabTyped, CaseTyped, FlagsTyped, CountTyped, MotionTyped, RequestsNumbered, Request
<1>5. generation \in Nat /\ MaxGeneration \in Nat
  BY InterfacesAssumption DEF L!LabAssumption, LabTyped, CountTyped
<1>6. \A q \in requests' : q.token < generation'
  BY <1>1, <1>4, <1>5 DEF Request
<1>7. LabTyped'
  <2>1. CaseTyped'
    BY <1>1, <1>2, <1>3 DEF LabTyped, CaseTyped
  <2>2. FlagsTyped'
    BY <1>1, <1>3, Zenon DEF LabTyped, FlagsTyped
  <2>3. CountTyped'
    BY <1>1, <1>4, <1>5 DEF CountTyped
  <2>4. MotionTyped'
    BY <1>3 DEF MotionTyped, L!Last
  <2> QED
    BY <2>1, <2>2, <2>3, <2>4 DEF LabTyped
<1>8. RequestsNumbered'
  BY <1>1, <1>4, <1>5, <1>6 DEF RequestsNumbered, Request
<1>9. L!ShownIsChosen' /\ L!BusyIsWaiting' /\ L!ErrorIsHonest'
  BY <1>1, <1>2, <1>3, <1>4, <1>5, <1>6 DEF L!ShownIsChosen, L!BusyIsWaiting, L!ErrorIsHonest, L!InFlight,
     Request
<1> QED
  BY <1>3, <1>7, <1>8, <1>9

\* Nothing but what is played changes, and it is played or paused as the button says.
LEMMA MotionStep ==
  ASSUME LabInv, UNCHANGED <<scenario, busy, labError, cache, generation, requests, mounted, run>>,
         L!SelectedIsShown', motionPlaying' \in BOOLEAN, MotionTyped',
         TimelineOfResult', L!PlayingIsMoving'
  PROVE  LabInv'
<1>1. LabTyped'
  <2>1. CaseTyped' /\ CountTyped'
    BY DEF LabInv, LabTyped, CaseTyped, CountTyped
  <2>2. FlagsTyped'
    BY Zenon DEF LabInv, LabTyped, FlagsTyped
  <2> QED
    BY <2>1, <2>2 DEF LabTyped
<1>2. RequestsNumbered'
  BY DEF LabInv, RequestsNumbered
<1>3. L!ShownIsChosen' /\ L!BusyIsWaiting' /\ L!ErrorIsHonest'
  BY DEF LabInv, L!ShownIsChosen, L!BusyIsWaiting, L!ErrorIsHonest, L!InFlight
<1> QED
  BY <1>1, <1>2, <1>3 DEF LabInv

\* A timeline that is paused where it is, or elsewhere.
LEMMA PausedTyped ==
  ASSUME NEW position \in 0..L!End, L!PausedAt(position)
  PROVE  /\ timeline' \in Playback
         /\ timeline'.state # "running"
         /\ timeline = L!NoTimeline => timeline' = L!NoTimeline
BY DEF L!PausedAt, L!NoTimeline, Playback, L!End

\* The timeline plays on.
LEMMA TickStep ==
  ASSUME LabInv, L!Tick
  PROVE  LabInv'
<1>1. /\ timeline.state = "running"
      /\ UNCHANGED <<scenario, busy, labError, cache, generation, requests, mounted, run, selected>>
  BY DEF L!Tick, L!result
<1>2. PICK position \in 0..L!End :
        /\ timeline' = [at |-> position, state |-> L!StateAt(position)]
        /\ chapter' = L!ChapterAt(position)
        /\ motionPlaying' = L!PlayingAt(position)
  BY DEF L!Tick
<1>3. timeline # L!NoTimeline
  BY <1>1 DEF L!NoTimeline
<1>4. run # L!None
  BY <1>3 DEF LabInv, TimelineOfResult
<1>5. L!StateAt(position) \in {"none", "running", "paused", "done"}
  BY DEF L!StateAt
<1>6. timeline' \in Playback /\ timeline'.state = L!StateAt(position)
  BY <1>2, <1>5 DEF Playback
<1>7. MotionTyped'
  BY <1>2, <1>6 DEF MotionTyped, L!ChapterAt, L!End, L!Last
<1>8. motionPlaying' \in BOOLEAN
  BY <1>2 DEF L!PlayingAt
<1>9. L!PlayingIsMoving'
  <2>1. mounted /\ ~ReducedMotion => motionPlaying
    BY <1>1, <1>4 DEF LabInv, L!PlayingIsMoving
  <2>2. L!StateAt(position) = "running" <=> ~L!StopsAt(position) /\ position # L!End
    BY DEF L!StateAt
  <2> QED
    BY <1>1, <1>2, <1>6, <2>1, <2>2 DEF L!PlayingIsMoving, L!PlayingAt
<1>10. TimelineOfResult' /\ L!SelectedIsShown'
  BY <1>1, <1>4 DEF TimelineOfResult, LabInv, L!SelectedIsShown
<1> QED
  BY <1>1, <1>7, <1>8, <1>9, <1>10, MotionStep

\* The visitor moves through the result.
LEMMA SeekStep ==
  ASSUME LabInv,
         \/ \E index \in 0..L!Last : L!SeekChapter(index)
         \/ \E position \in 0..L!End : L!Slide(position)
  PROVE  LabInv'
<1>1. PICK position \in 0..L!End : L!PausedAt(position)
  BY DEF L!SeekChapter, L!Slide, L!Last, L!End
<1>2. /\ run # L!None /\ motionPlaying' = FALSE
      /\ UNCHANGED <<scenario, busy, labError, cache, generation, requests, mounted, run, selected>>
  BY DEF L!SeekChapter, L!Slide, L!result
<1>3. chapter' \in 0..L!Last
  BY DEF L!SeekChapter, L!Slide, L!ChapterAt, L!End, L!Last, LabInv, LabTyped, MotionTyped
<1>4. MotionTyped' /\ L!PlayingIsMoving'
  BY <1>1, <1>2, <1>3, PausedTyped DEF MotionTyped, L!PlayingIsMoving
<1>5. TimelineOfResult' /\ L!SelectedIsShown'
  BY <1>2 DEF TimelineOfResult, LabInv, L!SelectedIsShown
<1> QED
  BY <1>2, <1>4, <1>5, MotionStep

\* The visitor plays, pauses or replays what is shown.
LEMMA PlayStep ==
  ASSUME LabInv, L!TogglePlay \/ L!ReplayFromStart
  PROVE  LabInv'
<1>1. /\ run # L!None
      /\ UNCHANGED <<scenario, busy, labError, cache, generation, requests, mounted, run, selected, chapter>>
  BY DEF L!TogglePlay, L!ReplayFromStart, L!result
<1>2. timeline' \in Playback /\ motionPlaying' \in BOOLEAN /\ L!PlayingIsMoving'
  <2>1. timeline \in Playback
    BY DEF LabInv, LabTyped, MotionTyped
  <2>2. CASE L!ReplayFromStart
    BY <1>1, <2>2, PlayedTyped DEF L!ReplayFromStart, L!PlayingIsMoving
  <2>3. CASE L!TogglePlay /\ timeline.state = "paused"
    <3>1. timeline' = [timeline EXCEPT !.state = "running"] /\ motionPlaying' = TRUE
      BY <2>3 DEF L!TogglePlay
    <3>2. timeline' \in Playback /\ timeline'.state = "running"
      BY <2>1, <3>1 DEF Playback
    <3> QED
      BY <3>1, <3>2 DEF L!PlayingIsMoving
  <2>4. CASE L!TogglePlay /\ timeline.state # "paused"
    <3>1. L!PausedAt(timeline.at) /\ motionPlaying' = FALSE
      BY <2>4 DEF L!TogglePlay
    <3>2. timeline.at \in 0..L!End
      BY <2>1 DEF Playback
    <3> QED
      BY <3>1, <3>2, PausedTyped DEF L!PlayingIsMoving
  <2> QED
    BY <2>2, <2>3, <2>4
<1>3. MotionTyped'
  BY <1>1, <1>2 DEF MotionTyped, LabInv, LabTyped
<1>4. TimelineOfResult' /\ L!SelectedIsShown'
  BY <1>1 DEF TimelineOfResult, LabInv, L!SelectedIsShown
<1> QED
  BY <1>1, <1>2, <1>3, <1>4, MotionStep

\* The visitor selects a source or a row.
LEMMA SelectStep ==
  ASSUME LabInv, NEW id, L!Select(id)
  PROVE  LabInv'
<1>1. /\ run # L!None /\ selected' = id /\ timeline' = L!Played(run)
      /\ motionPlaying' = (motionPlaying \/ ~ReducedMotion)
      /\ id \in L!Sources(run) \cup L!Rows(run)
      /\ UNCHANGED <<scenario, busy, labError, cache, generation, requests, mounted, run, chapter>>
  BY DEF L!Select
<1>2. MotionTyped'
  BY <1>1, PlayedTyped DEF MotionTyped, LabInv, LabTyped
<1>3. motionPlaying' \in BOOLEAN /\ L!PlayingIsMoving'
  BY <1>1, PlayedTyped DEF L!PlayingIsMoving
<1>4. TimelineOfResult' /\ L!SelectedIsShown'
  BY <1>1 DEF TimelineOfResult, L!SelectedIsShown
<1> QED
  BY <1>1, <1>2, <1>3, <1>4, MotionStep

\* A result that is kept is shown again, or the one shown put away.
LEMMA ReplayStep ==
  ASSUME LabInv, L!Replay \/ L!RestartWalkthrough
  PROVE  LabInv'
<1>1. CASE L!Replay
  <2>1. /\ mounted /\ ~busy /\ cache[scenario] # L!None
        /\ L!Install(cache[scenario]) /\ motionPlaying' = TRUE
        /\ UNCHANGED <<scenario, busy, labError, cache, generation, requests, mounted>>
    BY <1>1 DEF L!Replay, L!Cached
  <2>2. cache[scenario] = scenario /\ scenario \in L!Scenarios
    BY <2>1 DEF LabInv, LabTyped, CaseTyped, L!ShownIsChosen
  <2>3. /\ run' = scenario /\ chapter' = 0 /\ timeline' = L!Played(scenario)
        /\ selected' = L!Selection(scenario)
    BY <2>1, <2>2 DEF L!Install
  <2>4. L!SelectedIsShown'
    BY <2>2, <2>3, SelectionShown DEF L!SelectedIsShown
  <2>5. MotionTyped' /\ TimelineOfResult' /\ L!PlayingIsMoving'
    BY <2>1, <2>3, PlayedTyped DEF MotionTyped, TimelineOfResult, L!PlayingIsMoving, L!Last
  <2>6. LabTyped'
    <3>1. CaseTyped' /\ CountTyped'
      BY <2>1, <2>2, <2>3 DEF LabInv, LabTyped, CaseTyped, CountTyped
    <3>2. FlagsTyped'
      BY <2>1, Zenon DEF LabInv, LabTyped, FlagsTyped
    <3> QED
      BY <2>5, <3>1, <3>2 DEF LabTyped
  <2>7. ~labError
    BY <2>1 DEF LabInv, L!ErrorIsHonest
  <2>8. RequestsNumbered'
    BY <2>1 DEF LabInv, RequestsNumbered
  <2>9. L!ShownIsChosen' /\ L!BusyIsWaiting' /\ L!ErrorIsHonest'
    BY <2>1, <2>3, <2>7 DEF LabInv, L!ShownIsChosen, L!BusyIsWaiting, L!ErrorIsHonest, L!InFlight
  <2> QED
    BY <2>4, <2>5, <2>6, <2>8, <2>9 DEF LabInv
<1>2. CASE L!RestartWalkthrough
  <2>1. /\ mounted /\ run # L!None /\ L!InstallOnly(L!None) /\ labError' = FALSE
        /\ UNCHANGED <<scenario, busy, cache, generation, requests, mounted>>
    BY <1>2 DEF L!RestartWalkthrough
  <2>2. motionPlaying \in BOOLEAN
    BY DEF LabInv, LabTyped, FlagsTyped
  <2>3. /\ run' = L!None /\ chapter' = 0 /\ motionPlaying' \in BOOLEAN
        /\ timeline' \in Playback
        /\ TimelineOfResult' /\ L!SelectedIsShown' /\ L!PlayingIsMoving'
    BY <2>1, <2>2, Installed
  <2>4. LabTyped'
    <3>1. CaseTyped' /\ CountTyped' /\ MotionTyped'
      BY <2>1, <2>3 DEF LabInv, LabTyped, CaseTyped, CountTyped, MotionTyped, L!Last
    <3>2. FlagsTyped'
      BY <2>1, <2>3, Zenon DEF LabInv, LabTyped, FlagsTyped
    <3> QED
      BY <3>1, <3>2 DEF LabTyped
  <2>5. ~busy
    BY <2>1 DEF LabInv, RequestsNumbered
  <2>6. RequestsNumbered'
    BY <2>1, <2>5 DEF LabInv, RequestsNumbered
  <2>7. L!ShownIsChosen' /\ L!BusyIsWaiting' /\ L!ErrorIsHonest'
    BY <2>1, <2>3 DEF LabInv, L!ShownIsChosen, L!BusyIsWaiting, L!ErrorIsHonest, L!InFlight
  <2> QED
    BY <2>3, <2>4, <2>6, <2>7 DEF LabInv
<1> QED
  BY <1>1, <1>2

\* A case that has not run before is started.
LEMMA StartsStep ==
  ASSUME LabInv, L!Start
  PROVE  LabInv'
<1> DEFINE new == [token |-> generation + 1, scenario |-> scenario, aborted |-> FALSE]
<1>1. /\ mounted /\ ~busy /\ cache[scenario] = L!None /\ generation < MaxGeneration
      /\ generation' = generation + 1
      /\ requests' = requests \cup {new}
      /\ busy' = TRUE /\ labError' = FALSE /\ L!InstallOnly(L!None)
      /\ UNCHANGED <<scenario, cache, mounted>>
  BY DEF L!Start, L!Cached
<1>2. motionPlaying \in BOOLEAN
  BY DEF LabInv, LabTyped, FlagsTyped
<1>3. /\ run' = L!None /\ chapter' = 0 /\ motionPlaying' \in BOOLEAN
      /\ timeline' \in Playback
      /\ TimelineOfResult' /\ L!SelectedIsShown' /\ L!PlayingIsMoving'
  BY <1>1, <1>2, Installed
<1>4. generation \in Nat /\ MaxGeneration \in Nat /\ scenario \in L!Scenarios
  BY InterfacesAssumption DEF L!LabAssumption, LabInv, LabTyped, CountTyped, CaseTyped
<1>5. new \in Request /\ new.token = generation + 1 /\ new.scenario = scenario
  BY <1>1, <1>4 DEF Request
<1> HIDE DEF new
<1>6. LabTyped'
  <2>1. CaseTyped' /\ MotionTyped'
    BY <1>1, <1>3 DEF LabInv, LabTyped, CaseTyped, MotionTyped, L!Last
  <2>2. FlagsTyped'
    BY <1>1, <1>3, Zenon DEF LabInv, LabTyped, FlagsTyped
  <2>3. CountTyped'
    BY <1>1, <1>4, <1>5 DEF LabInv, LabTyped, CountTyped
  <2> QED
    BY <2>1, <2>2, <2>3 DEF LabTyped
<1>7. \A r \in requests : r.token \in Int /\ r.token <= generation
  BY DEF LabInv, RequestsNumbered, LabTyped, CountTyped, Request
<1>8. RequestsNumbered'
  <2>1. generation' <= MaxGeneration
    BY <1>1, <1>4
  <2>2. \A r \in requests : r.token < generation'
    BY <1>1, <1>4, <1>7
  <2>3. \A r, q \in requests' : r.token = q.token => r = q
    BY <1>1, <1>4, <1>5, <2>2 DEF LabInv, RequestsNumbered
  <2>4. \A r \in requests' : r.token <= generation' /\ (r.token = generation' => r.scenario = scenario)
    BY <1>1, <1>4, <1>5, <1>7, <2>2
  <2> QED
    BY <1>1, <1>3, <2>1, <2>3, <2>4 DEF RequestsNumbered
<1>9. L!ShownIsChosen' /\ L!BusyIsWaiting' /\ L!ErrorIsHonest'
  BY <1>1, <1>3, <1>5 DEF LabInv, L!ShownIsChosen, L!BusyIsWaiting, L!ErrorIsHonest, L!InFlight
<1> QED
  BY <1>3, <1>6, <1>8, <1>9 DEF LabInv

\* The latest request answers with the result of the case shown.
LEMMA LatestStep ==
  ASSUME LabInv, NEW r \in requests, L!Succeeds(r), L!IsLatest(r)
  PROVE  LabInv'
<1>1. r \in Request /\ r.token = generation
  BY DEF LabInv, LabTyped, CountTyped, L!IsLatest
<1>2. mounted /\ r.scenario = scenario /\ scenario \in L!Scenarios
  BY <1>1 DEF LabInv, RequestsNumbered, LabTyped, CaseTyped
<1>3. /\ requests' = requests \ {r} /\ busy' = FALSE /\ labError' = labError
      /\ cache' = [cache EXCEPT ![scenario] = scenario] /\ L!InstallOnly(scenario)
      /\ UNCHANGED <<scenario, generation, mounted>>
  BY <1>2 DEF L!Succeeds
<1>4. motionPlaying \in BOOLEAN
  BY DEF LabInv, LabTyped, FlagsTyped
<1>5. /\ run' = scenario /\ chapter' = 0 /\ motionPlaying' \in BOOLEAN
      /\ timeline' \in Playback
      /\ TimelineOfResult' /\ L!SelectedIsShown' /\ L!PlayingIsMoving'
  BY <1>2, <1>3, <1>4, Installed
<1>6. busy /\ ~labError
  <2>1. busy
    BY <1>1, <1>2 DEF LabInv, L!BusyIsWaiting, L!InFlight
  <2> QED
    BY <1>2, <2>1 DEF LabInv, RequestsNumbered
<1>7. \A q \in requests' : q \in requests /\ q.token # generation
  BY <1>1, <1>3 DEF LabInv, RequestsNumbered
<1>8. LabTyped'
  <2>1. CaseTyped' /\ CountTyped' /\ MotionTyped'
    BY <1>2, <1>3, <1>5 DEF LabInv, LabTyped, CaseTyped, CountTyped, MotionTyped, L!Last
  <2>2. FlagsTyped'
    BY <1>3, <1>5, Zenon DEF LabInv, LabTyped, FlagsTyped
  <2> QED
    BY <2>1, <2>2 DEF LabTyped
<1>9. RequestsNumbered'
  BY <1>3, <1>7 DEF LabInv, RequestsNumbered
<1>10. L!ShownIsChosen'
  BY <1>2, <1>3, <1>5 DEF LabInv, LabTyped, CaseTyped, L!ShownIsChosen
<1>11. L!BusyIsWaiting' /\ L!ErrorIsHonest'
  BY <1>3, <1>6, <1>7 DEF L!BusyIsWaiting, L!ErrorIsHonest, L!InFlight
<1> QED
  BY <1>5, <1>8, <1>9, <1>10, <1>11 DEF LabInv

\* A request that ends without a result: it is not the latest one, or it failed.
LEMMA AnswerStep ==
  ASSUME LabInv, NEW r \in requests, L!Fails(r) \/ (L!Succeeds(r) /\ ~L!IsLatest(r))
  PROVE  LabInv'
<1>1. /\ requests' = requests \ {r}
      /\ UNCHANGED <<scenario, cache, generation, mounted, run, selected, chapter, motionPlaying,
                     timeline>>
      /\ IF L!IsLatest(r) THEN labError' = TRUE /\ busy' = FALSE ELSE labError' = labError /\ busy' = busy
  BY DEF LabInv, LabTyped, FlagsTyped, L!Fails, L!Succeeds, L!result, L!motion, L!BusyAfter
<1>2. /\ \A q \in requests' : q \in requests
      /\ \A q \in requests : q \in requests' \/ q = r
  BY <1>1
<1>3. LabTyped'
  <2>1. CaseTyped' /\ CountTyped' /\ MotionTyped'
    BY <1>1 DEF LabInv, LabTyped, CaseTyped, CountTyped, MotionTyped
  <2>2. FlagsTyped'
    BY <1>1, Zenon DEF LabInv, LabTyped, FlagsTyped
  <2> QED
    BY <2>1, <2>2 DEF LabTyped
<1>4. /\ TimelineOfResult' /\ L!SelectedIsShown' /\ L!PlayingIsMoving' /\ L!ShownIsChosen'
  BY <1>1 DEF LabInv, TimelineOfResult, L!SelectedIsShown, L!PlayingIsMoving, L!ShownIsChosen
<1>5. CASE L!IsLatest(r)
  <2>1. mounted /\ busy
    BY <1>5 DEF LabInv, RequestsNumbered, L!BusyIsWaiting, L!InFlight, L!IsLatest
  <2>2. run = L!None /\ cache[scenario] = L!None
    BY <2>1 DEF LabInv, RequestsNumbered
  <2>3. \A q \in requests' : q.token # generation
    BY <1>1, <1>5 DEF LabInv, RequestsNumbered, L!IsLatest
  <2>4. RequestsNumbered'
    BY <1>1, <1>2, <1>5 DEF LabInv, RequestsNumbered
  <2>5. L!BusyIsWaiting' /\ L!ErrorIsHonest'
    BY <1>1, <1>5, <2>2, <2>3 DEF L!BusyIsWaiting, L!ErrorIsHonest, L!InFlight
  <2> QED
    BY <1>3, <1>4, <2>4, <2>5 DEF LabInv
<1>6. CASE ~L!IsLatest(r)
  <2>1. RequestsNumbered'
    BY <1>1, <1>2, <1>6 DEF LabInv, RequestsNumbered
  <2>2. L!InFlight(generation)' <=> L!InFlight(generation)
    BY <1>1, <1>2, <1>6 DEF L!InFlight, L!IsLatest
  <2>3. L!BusyIsWaiting' /\ L!ErrorIsHonest'
    BY <1>1, <1>6, <2>2 DEF LabInv, L!BusyIsWaiting, L!ErrorIsHonest
  <2> QED
    BY <1>3, <1>4, <2>1, <2>3 DEF LabInv
<1> QED
  BY <1>5, <1>6

\* A request is aborted by its timer.
LEMMA TimeoutStep ==
  ASSUME LabInv, NEW r \in requests, L!TimesOut(r)
  PROVE  LabInv'
<1>1. /\ L!Abort(r.token)
      /\ UNCHANGED <<scenario, busy, labError, cache, generation, mounted, run, selected, chapter,
                     motionPlaying, timeline>>
  BY DEF L!TimesOut, L!result, L!motion
<1>2. requests \subseteq Request /\ \A p, q \in requests : p.token = q.token => p = q
  BY DEF LabInv, LabTyped, CountTyped, RequestsNumbered
<1>3. /\ requests' \subseteq Request
      /\ \A q \in requests' : \E p \in requests : p.token = q.token /\ p.scenario = q.scenario
      /\ \A p \in requests : \E q \in requests' : p.token = q.token
      /\ \A p, q \in requests' : p.token = q.token => p = q
  BY <1>1, <1>2, AbortKeeps
<1>4. LabTyped'
  <2>1. CaseTyped' /\ CountTyped' /\ MotionTyped'
    BY <1>1, <1>3 DEF LabInv, LabTyped, CaseTyped, CountTyped, MotionTyped
  <2>2. FlagsTyped'
    BY <1>1, Zenon DEF LabInv, LabTyped, FlagsTyped
  <2> QED
    BY <2>1, <2>2 DEF LabTyped
<1>5. RequestsNumbered'
  BY <1>1, <1>3 DEF LabInv, RequestsNumbered
<1>6. L!InFlight(generation)' <=> L!InFlight(generation)
  BY <1>1, <1>3 DEF L!InFlight
<1>7. L!BusyIsWaiting' /\ L!ErrorIsHonest'
  BY <1>1, <1>6 DEF LabInv, L!BusyIsWaiting, L!ErrorIsHonest
<1>8. /\ TimelineOfResult' /\ L!SelectedIsShown' /\ L!PlayingIsMoving' /\ L!ShownIsChosen'
  BY <1>1 DEF LabInv, TimelineOfResult, L!SelectedIsShown, L!PlayingIsMoving, L!ShownIsChosen
<1> QED
  BY <1>4, <1>5, <1>7, <1>8 DEF LabInv

\* The page is left.
LEMMA LeaveStep ==
  ASSUME LabInv, L!Unmount
  PROVE  LabInv'
<1>1. /\ mounted /\ mounted' = FALSE /\ generation' = generation + 1 /\ L!Abort(generation)
      /\ timeline' = L!NoTimeline
      /\ UNCHANGED <<scenario, busy, labError, cache, run, selected, chapter, motionPlaying>>
  BY DEF L!Unmount, L!result
<1>2. requests \subseteq Request /\ \A p, q \in requests : p.token = q.token => p = q
  BY DEF LabInv, LabTyped, CountTyped, RequestsNumbered
<1>3. /\ requests' \subseteq Request
      /\ \A q \in requests' : \E p \in requests : p.token = q.token /\ p.scenario = q.scenario
      /\ \A p, q \in requests' : p.token = q.token => p = q
  BY <1>1, <1>2, AbortKeeps
<1>4. generation \in Nat /\ MaxGeneration \in Nat /\ generation <= MaxGeneration
  BY <1>1, InterfacesAssumption DEF L!LabAssumption, LabInv, LabTyped, CountTyped, RequestsNumbered
<1>5. LabTyped'
  <2>1. CaseTyped'
    BY <1>1 DEF LabInv, LabTyped, CaseTyped
  <2>2. FlagsTyped'
    BY <1>1, Zenon DEF LabInv, LabTyped, FlagsTyped
  <2>3. CountTyped'
    BY <1>1, <1>3, <1>4 DEF CountTyped
  <2>4. MotionTyped'
    BY <1>1, PlayedTyped DEF LabInv, LabTyped, MotionTyped, L!NoTimeline, Playback, L!End
  <2> QED
    BY <2>1, <2>2, <2>3, <2>4 DEF LabTyped
<1>6. \A q \in requests' : q.token \in Int /\ q.token <= generation
  BY <1>3 DEF LabInv, RequestsNumbered, Request
<1>7. RequestsNumbered'
  BY <1>1, <1>3, <1>4, <1>6 DEF RequestsNumbered
<1>8. /\ TimelineOfResult' /\ L!SelectedIsShown' /\ L!PlayingIsMoving' /\ L!ShownIsChosen'
  BY <1>1 DEF LabInv, TimelineOfResult, L!SelectedIsShown, L!PlayingIsMoving, L!ShownIsChosen
<1>9. L!BusyIsWaiting' /\ L!ErrorIsHonest'
  BY <1>1 DEF LabInv, L!BusyIsWaiting, L!ErrorIsHonest
<1> QED
  BY <1>5, <1>7, <1>8, <1>9 DEF LabInv

\* Every step of the lab keeps it consistent.
LEMMA LabStep == LabInv /\ [L!Next]_(L!vars) => LabInv'
<1> SUFFICES ASSUME LabInv, [L!Next]_(L!vars) PROVE LabInv'
  OBVIOUS
<1>1. CASE L!Visitor
  BY <1>1, ChangeStep, ReplayStep, StartsStep, SelectStep, SeekStep, PlayStep, LeaveStep DEF L!Visitor
<1>2. CASE L!Tick
  BY <1>2, TickStep
<1>3. ASSUME NEW r \in requests, L!Succeeds(r) \/ L!Fails(r) \/ L!TimesOut(r)
      PROVE  LabInv'
  BY <1>3, LatestStep, AnswerStep, TimeoutStep
<1>4. CASE UNCHANGED L!vars
  <2>1. UNCHANGED <<scenario, busy, labError, cache, generation, requests, mounted, run, selected,
                    chapter, motionPlaying, timeline>>
    BY <1>4 DEF L!vars, L!result, L!motion
  <2>2. MotionTyped' /\ motionPlaying' \in BOOLEAN
    BY <2>1 DEF LabInv, LabTyped, MotionTyped, FlagsTyped
  <2>3. L!SelectedIsShown' /\ TimelineOfResult' /\ L!PlayingIsMoving'
    BY <2>1 DEF LabInv, L!SelectedIsShown, TimelineOfResult, L!PlayingIsMoving
  <2> QED
    BY <2>1, <2>2, <2>3, MotionStep
<1> QED
  BY <1>1, <1>2, <1>3, <1>4 DEF L!Next

\* What is shown in the lab is that of the case chosen and its latest request.
LEMMA ConsistentLab == LabInv => LabIsConsistent
BY DEF LabInv, LabIsConsistent, RequestsNumbered, L!AskedOnce

-----------------------------------------------------------------------------
(* Demos.                                                                   *)

GapRows ==
  [status : {"detected", "open", "submissions", "settled", "expired", "cancelled"},
   funded : BOOLEAN, sources : SUBSET {1, 2, 4}, anchored : BOOLEAN]

EnvTyped ==
  /\ script \in Scripts /\ wrong \subseteq D!ToSet(D!Checks(script))
  /\ checked \in 0..Len(D!Checks(script)) /\ turn \in 0..3 /\ faults \in 0..MaxFaults

ActorsTyped ==
  /\ pc \in {"checks", "seek", "supply", "settling", "join", "expiring", "cancelling",
             "done", "failed"}
  /\ buyer \in {"idle", "asking", "polling", "done", "failed"}
  /\ creating \in {"no", "approve", "fund", "yes", "failed"}

GapsTyped ==
  /\ gaps \in Seq(GapRows) /\ own \in 0..Len(gaps) /\ picked \in 0..Len(gaps)
  /\ pc \in {"supply", "settling", "join"} => picked # 0

\* What is passed is in place; nothing is asked for before all is.
ChecksFirst ==
  /\ \A i \in 1..checked : D!Checks(script)[i] \notin wrong
  /\ buyer # "idle" => wrong = {}
  /\ pc = "checks" => buyer = "idle"
  /\ pc \notin {"checks", "failed"} => buyer # "idle"
  /\ sent # {} \/ creating # "no" => buyer # "idle"

\* The buyer's gap is the last one until the script has joined the buyer.
OwnIsLast ==
  /\ own # 0 <=> creating # "no"
  /\ script = "local" /\ own = 0 => gaps = <<>>
  /\ pc \in {"seek", "supply", "settling", "join"} => own = 0 \/ own = Len(gaps)
  /\ picked # 0 => picked = own
  /\ buyer \in {"polling", "done"} => creating = "yes"

Waits == gaps[own].funded /\ gaps[own].status \in {"open", "submissions"}

Anchored == gaps[own].anchored /\ ~gaps[own].funded

\* It is funded when its request is answered, until it is settled with a receipt.
OwnIsFunded ==
  /\ creating \in {"approve", "fund", "failed"} => ~gaps[own].funded
  /\ creating = "yes" => Waits \/ Anchored
  /\ creating = "yes" /\ pc \in {"checks", "seek", "supply", "settling"} => Waits
  /\ pc = "settling" => creating = "yes"

\* A script that has joined its buyer has only the gap that expires to cancel.
OwnIsSettled ==
  /\ buyer = "done" => Anchored
  /\ pc \in {"expiring", "cancelling", "done"} => buyer = "done"
  /\ pc = "expiring" => Len(gaps) = own
  /\ pc = "cancelling" => Len(gaps) = own + 1
  /\ D!DoneIsSettled

DemosInv ==
  /\ EnvTyped /\ ActorsTyped /\ GapsTyped
  /\ ChecksFirst /\ OwnIsLast /\ OwnIsFunded /\ OwnIsSettled

\* The state of a script is of its type.
LEMMA DemosTypes == DemosInv => D!TypeOK
<1> SUFFICES ASSUME DemosInv PROVE D!TypeOK
  OBVIOUS
<1>1. \A i \in DOMAIN gaps : gaps[i].sources \subseteq {1, 2, 4}
  <2>1. \A g \in GapRows : g.sources \subseteq {1, 2, 4}
    BY DEF GapRows
  <2>2. \A i \in DOMAIN gaps : gaps[i] \in GapRows
    BY DEF DemosInv, GapsTyped
  <2> QED
    BY <2>1, <2>2
<1> QED
  BY <1>1 DEF DemosInv, EnvTyped, ActorsTyped, GapsTyped, D!TypeOK

\* A list of three, and one of ten.
LEMMA ListOfThree ==
  ASSUME NEW a, NEW b, NEW c
  PROVE  Len(<<a, b, c>>) = 3 /\ DOMAIN <<a, b, c>> = 1..3
OBVIOUS

\* The longer one.
LEMMA ListOfTen ==
  ASSUME NEW a, NEW b, NEW c, NEW d, NEW e, NEW f, NEW g, NEW h, NEW i, NEW j
  PROVE  /\ Len(<<a, b, c, d, e, f, g, h, i, j>>) = 10
         /\ DOMAIN <<a, b, c, d, e, f, g, h, i, j>> = 1..10
OBVIOUS

\* What a script requires is a list.
LEMMA ChecksListed == \A s : Len(D!Checks(s)) \in Nat /\ DOMAIN D!Checks(s) = 1..Len(D!Checks(s))
<1> SUFFICES ASSUME NEW s PROVE \E n \in Nat : Len(D!Checks(s)) = n /\ DOMAIN D!Checks(s) = 1..n
  OBVIOUS
<1>1. CASE s = "mainnet"
  <2>1. D!Checks(s) = <<"MAINNET_ENABLED", "GAP402_NETWORK", "DEMO_CONFIRM", "GAP402_WRITE_TOKEN",
                        "keys", "rpc", "chain_id", "spend_cap", "balance", "DEMO_SOURCE_URLS">>
    BY <1>1, Zenon DEF D!Checks
  <2>2. Len(D!Checks(s)) = 10 /\ DOMAIN D!Checks(s) = 1..10
    BY <2>1, ListOfTen, Zenon
  <2> QED
    BY <2>2
<1>2. CASE s # "mainnet"
  <2>1. D!Checks(s) = <<"anvil", "rpc", "chain_id">>
    BY <1>2, Zenon DEF D!Checks
  <2>2. Len(D!Checks(s)) = 3 /\ DOMAIN D!Checks(s) = 1..3
    BY <2>1, ListOfThree, Zenon
  <2> QED
    BY <2>2
<1> QED
  BY <1>1, <1>2

\* A row of the store set anew.
LEMMA RowSet ==
  ASSUME NEW s \in Seq(GapRows), NEW i \in 1..Len(s), NEW x \in GapRows
  PROVE  /\ [s EXCEPT ![i] = x] \in Seq(GapRows)
         /\ Len([s EXCEPT ![i] = x]) = Len(s)
         /\ [s EXCEPT ![i] = x][i] = x
         /\ \A j \in 1..Len(s) : j # i => [s EXCEPT ![i] = x][j] = s[j]
OBVIOUS

\* A row added.
LEMMA RowAdded ==
  ASSUME NEW s \in Seq(GapRows), NEW x \in GapRows
  PROVE  /\ Append(s, x) \in Seq(GapRows)
         /\ Len(Append(s, x)) = Len(s) + 1
         /\ Append(s, x)[Len(s) + 1] = x
         /\ \A j \in 1..Len(s) : Append(s, x)[j] = s[j]
OBVIOUS

\* The row of a new gap.
LEMMA NewRow ==
  /\ D!NewGap \in GapRows /\ ~D!NewGap.funded
  /\ D!Prior \in GapRows
<1>1. D!NewGap \in GapRows /\ ~D!NewGap.funded
  BY DEF D!NewGap, GapRows
<1>2. [D!NewGap EXCEPT !.status = "open"] \in GapRows
  BY <1>1 DEF GapRows
<1>3. [[D!NewGap EXCEPT !.status = "open"] EXCEPT !.funded = TRUE] \in GapRows
  BY <1>2 DEF GapRows
<1> QED
  BY <1>1, <1>3 DEF D!Prior

\* A script begins with its checks.
LEMMA DemosInit == D!Init => DemosInv
<1> SUFFICES ASSUME D!Init PROVE DemosInv
  OBVIOUS
<1>1. gaps \in Seq(GapRows) /\ (script = "local" => gaps = <<>>)
  <2>1. gaps = <<>> \/ (script = "mainnet" /\ gaps = <<D!Prior>>)
    BY DEF D!Init
  <2>2. <<>> \in Seq(GapRows)
    OBVIOUS
  <2>3. <<D!Prior>> \in Seq(GapRows)
    BY NewRow
  <2> QED
    BY <2>1, <2>2, <2>3
<1>2. EnvTyped
  BY ChecksListed, InterfacesAssumption DEF D!Init, EnvTyped, D!DemosAssumption
<1>3. ActorsTyped /\ GapsTyped
  BY <1>1 DEF D!Init, ActorsTyped, GapsTyped
<1>4. ChecksFirst /\ OwnIsLast /\ OwnIsFunded /\ OwnIsSettled
  BY <1>1 DEF D!Init, ChecksFirst, OwnIsLast, OwnIsFunded, OwnIsSettled, D!DoneIsSettled
<1> QED
  BY <1>2, <1>3, <1>4 DEF DemosInv

\* The script goes on, and neither the buyer nor the gaps change.
LEMMA MainOnly ==
  ASSUME DemosInv, UNCHANGED <<script, wrong, buyer, creating, gaps, own>>,
         checked' \in 0..Len(D!Checks(script)), turn' \in 0..3, faults' \in 0..MaxFaults,
         ActorsTyped', GapsTyped', ChecksFirst',
         picked' # 0 => picked' = own,
         pc' \in {"seek", "supply", "settling", "join"} => own = 0 \/ own = Len(gaps),
         pc' \in {"checks", "seek", "supply", "settling"}
           => pc \in {"checks", "seek", "supply", "settling"},
         pc' = "settling" => creating = "yes",
         pc' \in {"expiring", "cancelling", "done"} => buyer = "done",
         pc' = "expiring" => Len(gaps) = own,
         pc' = "cancelling" => Len(gaps) = own + 1,
         D!DoneIsSettled'
  PROVE  DemosInv'
<1>1. EnvTyped'
  BY DEF DemosInv, EnvTyped
<1>2. OwnIsLast'
  BY DEF DemosInv, OwnIsLast
<1>3. OwnIsFunded'
  BY DEF DemosInv, OwnIsFunded, Waits, Anchored
<1>4. OwnIsSettled'
  BY DEF DemosInv, OwnIsSettled, Anchored
<1> QED
  BY <1>1, <1>2, <1>3, <1>4 DEF DemosInv

\* The script fails.
LEMMA FailStep ==
  ASSUME DemosInv, D!Fails, UNCHANGED <<script, wrong, buyer, creating, gaps, own, sent>>,
         faults' = faults \/ D!Fault
  PROVE  DemosInv'
<1>1. pc' = "failed" /\ UNCHANGED <<checked, picked, turn>>
  BY DEF D!Fails
<1>2. faults' \in 0..MaxFaults
  BY InterfacesAssumption DEF DemosInv, EnvTyped, D!Fault, D!DemosAssumption
<1>3. ActorsTyped' /\ GapsTyped'
  BY <1>1 DEF DemosInv, ActorsTyped, GapsTyped
<1>4. ChecksFirst'
  BY <1>1 DEF DemosInv, ChecksFirst
<1>5. D!DoneIsSettled'
  BY <1>1 DEF D!DoneIsSettled
<1> QED
  BY <1>1, <1>2, <1>3, <1>4, <1>5, MainOnly DEF DemosInv, EnvTyped, OwnIsLast

\* A check is made.
LEMMA CheckStep ==
  ASSUME DemosInv, D!Check
  PROVE  DemosInv'
<1> DEFINE n == Len(D!Checks(script))
<1>1. /\ pc = "checks" /\ checked < n
      /\ UNCHANGED <<script, wrong, buyer, creating, gaps, own, sent, faults>>
  BY DEF D!Check, D!env, D!market
<1>2. CASE D!Passes(checked + 1)
  <2>1. checked' = checked + 1 /\ UNCHANGED <<pc, picked, turn>>
    BY <1>2 DEF D!Check
  <2>2. checked \in 0..n /\ n \in Nat
    BY ChecksListed DEF DemosInv, EnvTyped
  <2>3. checked' \in 0..n
    BY <1>1, <2>1, <2>2
  <2>4. \A i \in 1..checked' : D!Checks(script)[i] \notin wrong
    BY <1>2, <2>1, <2>2 DEF D!Passes, DemosInv, ChecksFirst
  <2>5. ActorsTyped' /\ GapsTyped' /\ ChecksFirst'
    BY <1>1, <2>1, <2>4 DEF DemosInv, ActorsTyped, GapsTyped, ChecksFirst
  <2>6. D!DoneIsSettled'
    BY <1>1, <2>1 DEF D!DoneIsSettled
  <2> QED
    BY <1>1, <2>1, <2>3, <2>5, <2>6, MainOnly DEF DemosInv, EnvTyped, OwnIsLast
<1>3. CASE ~D!Passes(checked + 1)
  BY <1>1, <1>3, FailStep DEF D!Check
<1> QED
  BY <1>2, <1>3

\* All is in place, and the buyer is asked.
LEMMA BuyerStarts ==
  ASSUME DemosInv, D!StartBuyer
  PROVE  DemosInv'
<1>1. /\ pc = "checks" /\ checked = Len(D!Checks(script))
      /\ pc' = "seek" /\ buyer' = "asking"
      /\ UNCHANGED <<script, wrong, checked, picked, turn, creating, gaps, own, faults>>
  BY DEF D!StartBuyer, D!env
<1>2. wrong = {}
  <2>1. \A x \in D!ToSet(D!Checks(script)) : \E i \in 1..checked : x = D!Checks(script)[i]
    BY <1>1, ChecksListed DEF D!ToSet
  <2> QED
    BY <2>1 DEF DemosInv, EnvTyped, ChecksFirst
<1>3. creating = "no" /\ own = 0
  BY <1>1 DEF DemosInv, ChecksFirst, OwnIsLast
<1>4. EnvTyped' /\ ActorsTyped' /\ GapsTyped'
  BY <1>1 DEF DemosInv, EnvTyped, ActorsTyped, GapsTyped
<1>5. ChecksFirst'
  BY <1>1, <1>2 DEF DemosInv, ChecksFirst
<1>6. OwnIsLast' /\ OwnIsFunded' /\ OwnIsSettled'
  BY <1>1, <1>3 DEF DemosInv, OwnIsLast, OwnIsFunded, OwnIsSettled, D!DoneIsSettled
<1> QED
  BY <1>4, <1>5, <1>6 DEF DemosInv

\* The script takes a gap for its buyer's.
LEMMA PicksOwn ==
  ASSUME DemosInv, pc = "seek", pc' = "supply", picked' = own, own # 0,
         UNCHANGED <<script, wrong, checked, turn, buyer, creating, gaps, own, sent, faults>>
  PROVE  DemosInv'
<1>1. ActorsTyped' /\ GapsTyped'
  BY DEF DemosInv, ActorsTyped, GapsTyped
<1>2. ChecksFirst'
  BY DEF DemosInv, ChecksFirst
<1>3. D!DoneIsSettled'
  BY DEF D!DoneIsSettled
<1> QED
  BY <1>1, <1>2, <1>3, MainOnly DEF DemosInv, EnvTyped, OwnIsLast

\* It looks for it.
LEMMA SeeksStep ==
  ASSUME DemosInv, D!Wake \/ D!Poll \/ D!GivesUp
  PROVE  DemosInv'
<1>1. /\ pc = "seek"
      /\ UNCHANGED <<script, wrong, buyer, creating, gaps, own, sent>>
  BY DEF D!Wake, D!Poll, D!GivesUp, D!env, D!market
<1>2. own = 0 \/ own = Len(gaps)
  BY <1>1 DEF DemosInv, OwnIsLast
<1>3. CASE D!Fails /\ (faults' = faults \/ D!Fault)
  BY <1>1, <1>3, FailStep
<1>4. CASE D!Wake
  <2>1. CASE gaps = <<>>
    BY <1>3, <1>4, <2>1 DEF D!Wake
  <2>2. CASE gaps # <<>>
    <3>1. /\ pc' = "supply" /\ picked' = Len(gaps) /\ script = "local"
          /\ UNCHANGED <<checked, turn, faults>>
      BY <1>4, <2>2 DEF D!Wake
    <3>2. own # 0
      BY <2>2, <3>1 DEF DemosInv, OwnIsLast
    <3> QED
      BY <1>1, <1>2, <3>1, <3>2, PicksOwn
  <2> QED
    BY <2>1, <2>2
<1>5. CASE D!Poll
  <2> DEFINE found == {i \in DOMAIN gaps : D!IsFundedGap(i)}
  <2>1. CASE found # {}
    <3>1. /\ pc' = "supply" /\ picked' = CHOOSE i \in found : \A j \in found : i <= j
          /\ UNCHANGED <<checked, turn, faults>>
      BY <1>5, <2>1 DEF D!Poll
    <3>2. DOMAIN gaps = 1..Len(gaps)
      BY DEF DemosInv, GapsTyped
    <3>3. Len(gaps) \in Nat /\ own \in Nat
      BY DEF DemosInv, GapsTyped
    <3>4. ASSUME NEW i, i \in DOMAIN gaps, D!IsFundedGap(i) PROVE own # 0 /\ i = own
      <4>1. own # 0 /\ i >= own
        BY <3>4 DEF D!IsFundedGap
      <4>2. i \in 1..Len(gaps)
        BY <3>2, <3>4, Zenon
      <4> HIDE DEF found
      <4>3. own = Len(gaps)
        BY <1>2, <4>1, Zenon
      <4> QED
        BY <3>3, <4>1, <4>2, <4>3
    <3>5. own # 0 /\ own \in found /\ \A i \in found : i = own
      <4>1. \A i \in found : own # 0 /\ i = own
        BY <3>4, Zenon
      <4> HIDE DEF found
      <4> QED
        BY <2>1, <4>1
    <3> HIDE DEF found
    <3>6. \A j \in found : own <= j
      BY <3>3, <3>5
    <3>7. picked' = own
      BY <3>1, <3>5, <3>6
    <3> QED
      BY <1>1, <3>1, <3>5, <3>7, PicksOwn
  <2>2. CASE found = {}
    BY <1>3, <1>5, <2>2 DEF D!Poll
  <2> QED
    BY <2>1, <2>2
<1>6. CASE D!GivesUp
  BY <1>3, <1>6 DEF D!GivesUp
<1> QED
  BY <1>4, <1>5, <1>6

\* A call of the script fails, or the buyer's promise is rejected unhandled.
LEMMA FailsStep ==
  ASSUME DemosInv, D!CallFails \/ D!Unhandled
  PROVE  DemosInv'
<1>1. D!Fails /\ UNCHANGED <<script, wrong, buyer, creating, gaps, own, sent>>
  BY DEF D!CallFails, D!Unhandled, D!env, D!market
<1>2. faults' = faults \/ D!Fault
  BY DEF D!CallFails, D!Unhandled
<1> QED
  BY <1>1, <1>2, FailStep

\* The script waits for its buyer.
LEMMA JoinStep ==
  ASSUME DemosInv, D!Join
  PROVE  DemosInv'
<1>1. /\ pc = "join" /\ buyer \in {"done", "failed"}
      /\ pc' = IF buyer = "failed" THEN "failed" ELSE IF script = "local" THEN "expiring" ELSE "done"
      /\ UNCHANGED <<script, wrong, checked, picked, turn, buyer, creating, gaps, own, sent, faults>>
  BY DEF D!Join, D!env, D!market
<1>2. ActorsTyped' /\ GapsTyped'
  BY <1>1 DEF DemosInv, ActorsTyped, GapsTyped
<1>3. ChecksFirst'
  BY <1>1 DEF DemosInv, ChecksFirst
<1>4. buyer = "done" => Anchored /\ own = Len(gaps)
  BY <1>1 DEF DemosInv, OwnIsSettled, OwnIsLast
<1>5. Len(gaps) \in Nat
  BY DEF DemosInv, GapsTyped
<1>6. D!DoneIsSettled'
  BY <1>1, <1>4, <1>5 DEF D!DoneIsSettled, Anchored
<1> QED
  BY <1>1, <1>2, <1>3, <1>4, <1>6, MainOnly DEF DemosInv, EnvTyped, OwnIsLast

\* The settlement of a gap with a bounty is sent.
LEMMA FinalizeStep ==
  ASSUME DemosInv, D!Finalize, gaps[picked].funded
  PROVE  DemosInv'
<1>1. /\ pc = "supply" /\ pc' = "settling" /\ sent' = sent \cup {"finalize"}
      /\ UNCHANGED <<script, wrong, checked, picked, turn, buyer, creating, gaps, own, faults>>
  BY DEF D!Finalize, D!env
<1>2. picked = own /\ own # 0
  BY <1>1 DEF DemosInv, GapsTyped, OwnIsLast
<1>3. creating = "yes"
  BY <1>2 DEF DemosInv, ActorsTyped, OwnIsLast, OwnIsFunded
<1>4. ActorsTyped' /\ GapsTyped'
  BY <1>1 DEF DemosInv, ActorsTyped, GapsTyped
<1>5. ChecksFirst'
  BY <1>1, <1>3 DEF DemosInv, ChecksFirst
<1>6. D!DoneIsSettled'
  BY <1>1 DEF D!DoneIsSettled
<1> QED
  BY <1>1, <1>3, <1>4, <1>5, <1>6, MainOnly DEF DemosInv, EnvTyped, OwnIsLast

\* A row with one field set anew.
WithStatus(g, status) == [g EXCEPT !.status = status]
WithFunds(g, funded) == [g EXCEPT !.funded = funded]
WithAnchor(g) == [g EXCEPT !.anchored = TRUE]

\* Its status.
LEMMA StatusSet ==
  ASSUME NEW g \in GapRows,
         NEW status \in {"detected", "open", "submissions", "settled", "expired", "cancelled"}
  PROVE  /\ WithStatus(g, status) \in GapRows /\ WithStatus(g, status).status = status
         /\ WithStatus(g, status).funded = g.funded /\ WithStatus(g, status).anchored = g.anchored
BY DEF GapRows, WithStatus

\* Its bounty.
LEMMA FundsSet ==
  ASSUME NEW g \in GapRows, NEW funded \in BOOLEAN
  PROVE  /\ WithFunds(g, funded) \in GapRows /\ WithFunds(g, funded).status = g.status
         /\ WithFunds(g, funded).funded = funded /\ WithFunds(g, funded).anchored = g.anchored
BY DEF GapRows, WithFunds

\* Its receipt.
LEMMA AnchorSet ==
  ASSUME NEW g \in GapRows
  PROVE  /\ WithAnchor(g) \in GapRows /\ WithAnchor(g).status = g.status
         /\ WithAnchor(g).funded = g.funded /\ WithAnchor(g).anchored = TRUE
BY DEF GapRows, WithAnchor

\* The rows of the store are a function, and the gap of the buyer is one of them.
LEMMA OwnListed ==
  ASSUME DemosInv
  PROVE  /\ Len(gaps) \in Nat /\ own \in Nat /\ picked \in Nat
         /\ DOMAIN gaps = 1..Len(gaps) /\ gaps = [d \in DOMAIN gaps |-> gaps[d]]
         /\ own # 0 => own \in 1..Len(gaps) /\ gaps[own] \in GapRows
BY DEF DemosInv, GapsTyped

\* The row of the buyer's gap is set anew.
LEMMA OwnSet ==
  ASSUME DemosInv, own # 0, NEW x \in GapRows, gaps' = [gaps EXCEPT ![own] = x]
  PROVE  gaps' \in Seq(GapRows) /\ Len(gaps') = Len(gaps) /\ gaps'[own] = x
<1>1. gaps \in Seq(GapRows) /\ own \in 1..Len(gaps)
  BY OwnListed DEF DemosInv, GapsTyped
<1> QED
  BY <1>1, RowSet

\* The handler of the buyer's request lists the gap.
LEMMA PostStep ==
  ASSUME DemosInv, D!Post
  PROVE  DemosInv'
<1>1. /\ pc \notin {"done", "failed"} /\ buyer = "asking" /\ creating = "no"
      /\ gaps' = Append(gaps, D!NewGap) /\ own' = Len(gaps) + 1 /\ creating' = "approve"
      /\ UNCHANGED <<script, wrong, checked, pc, picked, turn, buyer, sent, faults>>
  BY DEF D!Post, D!Running, D!env, D!main
<1>2. own = 0 /\ picked = 0 /\ pc = "seek"
  BY <1>1 DEF DemosInv, ChecksFirst, OwnIsLast, ActorsTyped, GapsTyped, OwnIsSettled
<1>3. /\ gaps' \in Seq(GapRows) /\ Len(gaps') = Len(gaps) + 1 /\ gaps'[own'] = D!NewGap
      /\ Len(gaps) \in Nat
  BY <1>1, RowAdded, NewRow DEF DemosInv, GapsTyped
<1>4. EnvTyped' /\ ActorsTyped'
  BY <1>1 DEF DemosInv, EnvTyped, ActorsTyped
<1>5. GapsTyped' /\ ChecksFirst'
  BY <1>1, <1>2, <1>3 DEF DemosInv, GapsTyped, ChecksFirst
<1>6. OwnIsLast'
  BY <1>1, <1>2, <1>3 DEF OwnIsLast
<1>7. OwnIsFunded' /\ OwnIsSettled'
  BY <1>1, <1>2, <1>3, NewRow DEF OwnIsFunded, OwnIsSettled, D!DoneIsSettled
<1> QED
  BY <1>4, <1>5, <1>6, <1>7 DEF DemosInv

\* Only the buyer, or the handler of its request, goes on, and its gap stays as it is.
LEMMA MarketOnly ==
  ASSUME DemosInv, UNCHANGED <<script, wrong, checked, pc, picked, turn, gaps, own>>,
         faults' \in 0..MaxFaults, ActorsTyped',
         buyer # "idle" /\ buyer' # "idle",
         creating' = "yes" <=> creating = "yes", creating' = "no" <=> creating = "no",
         buyer' \in {"polling", "done"} => creating = "yes",
         buyer' = "done" => Anchored,
         buyer = "done" => buyer' = "done"
  PROVE  DemosInv'
<1>1. EnvTyped' /\ GapsTyped'
  BY DEF DemosInv, EnvTyped, GapsTyped
<1>2. ChecksFirst'
  BY DEF DemosInv, ChecksFirst
<1>3. OwnIsLast'
  BY DEF DemosInv, OwnIsLast
<1>4. OwnIsFunded'
  BY DEF DemosInv, ActorsTyped, OwnIsFunded, Waits, Anchored
<1>5. OwnIsSettled'
  BY DEF DemosInv, OwnIsSettled, Anchored, D!DoneIsSettled
<1> QED
  BY <1>1, <1>2, <1>3, <1>4, <1>5 DEF DemosInv

\* Its approval is mined, it fails or is not answered in time, or the buyer sees how its gap
\* ended or gives up.
LEMMA WaitStep ==
  ASSUME DemosInv,
         \/ D!Approved \/ D!CreateFails \/ D!AnswerTimesOut
         \/ D!BuyerSees \/ D!BuyerTimesOut \/ D!BuyerTimesOutEarly
  PROVE  DemosInv'
<1>1. UNCHANGED <<script, wrong, checked, pc, picked, turn, gaps, own>>
  BY DEF D!Approved, D!CreateFails, D!AnswerTimesOut, D!BuyerSees, D!BuyerTimesOut,
     D!BuyerTimesOutEarly, D!BuyerGivesUp, D!env, D!main
<1>2. faults' = faults \/ D!Fault
  BY DEF D!Approved, D!CreateFails, D!AnswerTimesOut, D!BuyerSees, D!BuyerTimesOut,
     D!BuyerTimesOutEarly
<1>3. faults' \in 0..MaxFaults
  BY <1>2, InterfacesAssumption DEF DemosInv, EnvTyped, D!Fault, D!DemosAssumption
<1>4. buyer \in {"polling", "done"} => creating = "yes"
  BY DEF DemosInv, OwnIsLast
<1>5. creating # "no" => buyer # "idle"
  BY DEF DemosInv, ChecksFirst
<1>6. CASE D!Approved
  <2>1. creating = "approve" /\ creating' = "fund" /\ buyer' = buyer
    BY <1>6 DEF D!Approved
  <2> QED
    BY <1>1, <1>3, <1>4, <1>5, <2>1, MarketOnly DEF DemosInv, ActorsTyped, OwnIsSettled
<1>7. CASE D!CreateFails
  <2>1. creating \in {"approve", "fund"} /\ creating' = "failed" /\ buyer' = "failed"
    BY <1>7 DEF D!CreateFails
  <2> QED
    BY <1>1, <1>3, <1>4, <1>5, <2>1, MarketOnly DEF DemosInv, ActorsTyped
<1>8. CASE D!AnswerTimesOut \/ D!BuyerTimesOut \/ D!BuyerTimesOutEarly
  <2>1. buyer \in {"asking", "polling"} /\ buyer' = "failed" /\ creating' = creating
    BY <1>8 DEF D!AnswerTimesOut, D!BuyerTimesOut, D!BuyerTimesOutEarly, D!BuyerGivesUp
  <2> QED
    BY <1>1, <1>3, <1>4, <1>5, <2>1, MarketOnly DEF DemosInv, ActorsTyped
<1>9. CASE D!BuyerSees
  <2>1. buyer = "polling" /\ buyer' = "done" /\ creating' = creating /\ D!Ended(own)
    BY <1>9 DEF D!BuyerSees
  <2>2. Anchored
    BY <1>4, <2>1 DEF DemosInv, OwnIsFunded, Waits, D!Ended
  <2> QED
    BY <1>1, <1>3, <1>4, <2>1, <2>2, MarketOnly DEF DemosInv, ActorsTyped
<1> QED
  BY <1>6, <1>7, <1>8, <1>9

\* The transaction that funds the gap is mined.
LEMMA FundedStep ==
  ASSUME DemosInv, D!Funded
  PROVE  DemosInv'
<1> DEFINE y == WithStatus(gaps[own], "open")
           x == WithFunds(y, TRUE)
           g == [gaps EXCEPT ![own] = y]
<1>1. /\ pc \notin {"done", "failed"} /\ creating = "fund" /\ creating' = "yes"
      /\ sent' = sent \cup {"fund"}
      /\ buyer' = IF buyer = "asking" THEN "polling" ELSE buyer
      /\ UNCHANGED <<script, wrong, checked, pc, picked, turn, own, faults>>
  BY DEF D!Funded, D!Running, D!env, D!main
<1>2. gaps' = [g EXCEPT ![own] = WithFunds(g[own], TRUE)]
  BY DEF D!Funded, WithStatus, WithFunds
<1>3. own # 0 /\ own \in 1..Len(gaps) /\ gaps[own] \in GapRows
  BY <1>1, OwnListed DEF DemosInv, OwnIsLast
<1>4. y \in GapRows /\ y.status = "open"
  BY <1>3, StatusSet
<1> HIDE DEF y
<1>5. x \in GapRows /\ x.status = "open" /\ x.funded = TRUE
  BY <1>4, FundsSet
<1>6. g[own] = y /\ \A w : [g EXCEPT ![own] = w] = [gaps EXCEPT ![own] = w]
  BY <1>3, OwnListed, SetTwice
<1> HIDE DEF g
<1>7. gaps' = [gaps EXCEPT ![own] = x]
  BY <1>2, <1>6
<1> HIDE DEF x
<1>8. gaps' \in Seq(GapRows) /\ Len(gaps') = Len(gaps) /\ gaps'[own] = x
  BY <1>3, <1>5, <1>7, OwnSet
<1>9. buyer # "idle" /\ buyer \notin {"polling", "done"}
  BY <1>1 DEF DemosInv, ChecksFirst, OwnIsLast
<1>10. EnvTyped' /\ ActorsTyped'
  BY <1>1 DEF DemosInv, EnvTyped, ActorsTyped
<1>11. GapsTyped'
  BY <1>1, <1>8 DEF DemosInv, GapsTyped
<1>12. ChecksFirst'
  BY <1>1, <1>9 DEF DemosInv, ChecksFirst
<1>13. OwnIsLast'
  BY <1>1, <1>3, <1>8 DEF DemosInv, OwnIsLast
<1>14. Waits'
  BY <1>1, <1>5, <1>8 DEF Waits
<1>15. OwnIsFunded'
  BY <1>1, <1>14 DEF OwnIsFunded
<1>16. pc \notin {"expiring", "cancelling", "done"}
  BY <1>9 DEF DemosInv, OwnIsSettled
<1>17. OwnIsSettled'
  BY <1>1, <1>9, <1>16 DEF OwnIsSettled, D!DoneIsSettled
<1> QED
  BY <1>10, <1>11, <1>12, <1>13, <1>15, <1>17 DEF DemosInv

\* A row a supplier has seen, and what it leaves of it.
Offered(g, some) ==
  IF g.status \in {"open", "submissions"} /\ some # {}
    THEN [g EXCEPT !.status = "submissions", !.sources = @ \cup some]
    ELSE g

OfferSame(g, h) ==
  /\ h \in GapRows /\ h.funded = g.funded /\ h.anchored = g.anchored
  /\ g.status \in {"open", "submissions"} => h.status \in {"open", "submissions"}

\* Sources are submitted for a row, or it stays.
LEMMA OfferRow ==
  ASSUME NEW g \in GapRows, NEW some, some \in SUBSET {1, 2, 4}
  PROVE  OfferSame(g, Offered(g, some))
<1> DEFINE h == WithStatus(g, "submissions")
<1>1. h \in GapRows /\ h.funded = g.funded /\ h.anchored = g.anchored /\ h.status = "submissions"
  BY StatusSet
<1>2. Offered(g, some) = g \/ Offered(g, some) = [h EXCEPT !.sources = h.sources \cup some]
  BY Zenon DEF WithStatus, Offered
<1> HIDE DEF h
<1> DEFINE all == h.sources \cup some
<1>3. all \in SUBSET {1, 2, 4}
  BY <1>1 DEF GapRows
<1>4. Offered(g, some) = g \/ Offered(g, some) = [h EXCEPT !.sources = all]
  BY <1>2
<1> HIDE DEF all
<1>5. [h EXCEPT !.sources = all] \in GapRows /\ [h EXCEPT !.sources = all].funded = h.funded
      /\ [h EXCEPT !.sources = all].anchored = h.anchored
      /\ [h EXCEPT !.sources = all].status = h.status
  BY <1>1, <1>3 DEF GapRows
<1> QED
  BY <1>1, <1>4, <1>5 DEF OfferSame

\* A supplier submits what it has for every open gap.
LEMMA SupplyStep ==
  ASSUME DemosInv, D!Supply
  PROVE  DemosInv'
<1> DEFINE some == D!Offers(turn + 1)
           offer(g) == Offered(g, some)
<1>1. /\ pc = "supply" /\ turn < 3 /\ turn' = turn + 1
      /\ gaps' = [i \in DOMAIN gaps |-> offer(gaps[i])]
      /\ UNCHANGED <<script, wrong, checked, pc, picked, buyer, creating, own, sent, faults>>
  <2>1. /\ pc = "supply" /\ turn < 3 /\ turn' = turn + 1
        /\ gaps' = [i \in DOMAIN gaps |-> offer(gaps[i])]
        /\ UNCHANGED <<D!env, checked, pc, picked, buyer, creating, own, sent, faults>>
    BY Zenon DEF D!Supply, Offered
  <2> HIDE DEF offer
  <2> QED
    BY <2>1 DEF D!env
<1>2. turn + 1 \in 1..3
  <2>1. turn \in 0..3 /\ turn < 3
    BY <1>1 DEF DemosInv, EnvTyped
  <2> QED
    BY <2>1
<1>3. some \in SUBSET {1, 2, 4}
  BY <1>2 DEF D!Offers
<1>4. \A g \in GapRows : OfferSame(g, offer(g))
  BY <1>3, OfferRow
<1> HIDE DEF some, offer
<1>5. gaps \in Seq(GapRows) /\ picked = own /\ own # 0
  BY <1>1 DEF DemosInv, GapsTyped, OwnIsLast
<1>6. gaps' \in Seq(GapRows) /\ Len(gaps') = Len(gaps)
  <2>1. \A i \in 1..Len(gaps) : offer(gaps[i]) \in GapRows
    BY <1>4, <1>5 DEF OfferSame
  <2>2. gaps' = [i \in 1..Len(gaps) |-> offer(gaps[i])] /\ Len(gaps) \in Nat
    BY <1>1, <1>5
  <2> QED
    BY <2>1, <2>2
<1>7. OfferSame(gaps[own], gaps'[own])
  BY <1>1, <1>4, <1>5, OwnListed
<1>8. (Waits => Waits') /\ (Anchored <=> Anchored') /\ (~gaps[own].funded => ~gaps'[own].funded)
  BY <1>1, <1>7 DEF Waits, Anchored, OfferSame
<1>9. EnvTyped' /\ ActorsTyped' /\ ChecksFirst'
  BY <1>1, <1>2 DEF DemosInv, EnvTyped, ActorsTyped, ChecksFirst
<1>10. GapsTyped'
  BY <1>1, <1>6 DEF DemosInv, GapsTyped
<1>11. OwnIsLast'
  BY <1>1, <1>5, <1>6 DEF DemosInv, OwnIsLast
<1>12. OwnIsFunded'
  BY <1>1, <1>8 DEF DemosInv, OwnIsFunded
<1>13. OwnIsSettled'
  BY <1>1, <1>8 DEF DemosInv, OwnIsSettled, D!DoneIsSettled
<1> QED
  BY <1>9, <1>10, <1>11, <1>12, <1>13 DEF DemosInv

\* The gap is settled at once, as it has no bounty yet.
LEMMA SettleAtOnce ==
  ASSUME DemosInv, D!Finalize, ~gaps[picked].funded
  PROVE  DemosInv'
<1> DEFINE x == WithStatus(gaps[own], "settled")
<1>1. /\ pc = "supply" /\ pc' = "join"
      /\ gaps' = [gaps EXCEPT ![picked].status = "settled"]
      /\ UNCHANGED <<script, wrong, checked, picked, turn, buyer, creating, own, sent, faults>>
  BY DEF D!Finalize, D!env
<1>2. picked = own /\ own # 0
  BY <1>1 DEF DemosInv, GapsTyped, OwnIsLast
<1>3. gaps' = [gaps EXCEPT ![own] = x] /\ own \in 1..Len(gaps) /\ gaps[own] \in GapRows
  BY <1>1, <1>2, OwnListed DEF WithStatus
<1>4. x \in GapRows /\ x.funded = gaps[own].funded
  BY <1>3, StatusSet
<1> HIDE DEF x
<1>5. gaps' \in Seq(GapRows) /\ Len(gaps') = Len(gaps) /\ gaps'[own] = x
  BY <1>2, <1>3, <1>4, OwnSet
<1>6. creating # "yes" /\ buyer \notin {"polling", "done"}
  BY <1>1, <1>2 DEF DemosInv, OwnIsFunded, OwnIsLast, Waits
<1>7. EnvTyped' /\ ActorsTyped' /\ ChecksFirst'
  BY <1>1 DEF DemosInv, EnvTyped, ActorsTyped, ChecksFirst
<1>8. GapsTyped'
  BY <1>1, <1>2, <1>5 DEF DemosInv, GapsTyped
<1>9. OwnIsLast'
  BY <1>1, <1>2, <1>5 DEF DemosInv, OwnIsLast
<1>10. OwnIsFunded'
  BY <1>1, <1>2, <1>4, <1>5, <1>6 DEF DemosInv, OwnIsFunded
<1>11. OwnIsSettled'
  BY <1>1, <1>6 DEF OwnIsSettled, D!DoneIsSettled
<1> QED
  BY <1>7, <1>8, <1>9, <1>10, <1>11 DEF DemosInv

\* The gap is settled and its receipt anchored.
LEMMA SettledStep ==
  ASSUME DemosInv, D!Settled
  PROVE  DemosInv'
<1> DEFINE y == WithStatus(gaps[own], "settled")
           z == WithAnchor(y)
           x == WithFunds(z, FALSE)
           g == [gaps EXCEPT ![own] = y]
           h == [g EXCEPT ![own] = z]
<1>1. /\ pc = "settling" /\ pc' = "join"
      /\ UNCHANGED <<script, wrong, checked, picked, turn, buyer, creating, own, sent, faults>>
  BY DEF D!Settled, D!env
<1>2. picked = own /\ own # 0 /\ creating = "yes"
  BY <1>1 DEF DemosInv, GapsTyped, OwnIsLast, OwnIsFunded
<1>3. gaps' = [[g EXCEPT ![own] = WithAnchor(g[own])]
                 EXCEPT ![own] = WithFunds([g EXCEPT ![own] = WithAnchor(g[own])][own], FALSE)]
  BY <1>2 DEF D!Settled, WithStatus, WithAnchor, WithFunds
<1>4. own \in 1..Len(gaps) /\ gaps[own] \in GapRows
  BY <1>2, OwnListed
<1>5. y \in GapRows
  BY <1>4, StatusSet
<1> HIDE DEF y
<1>6. g[own] = y /\ \A w : [g EXCEPT ![own] = w] = [gaps EXCEPT ![own] = w]
  BY <1>4, OwnListed, SetTwice
<1>7. z \in GapRows /\ z.anchored = TRUE
  BY <1>5, AnchorSet
<1> HIDE DEF g
<1>8. [gaps EXCEPT ![own] = z][own] = z
      /\ \A w : [[gaps EXCEPT ![own] = z] EXCEPT ![own] = w] = [gaps EXCEPT ![own] = w]
  <2> HIDE DEF z
  <2> QED
    BY <1>4, OwnListed, SetTwice
<1>9. x \in GapRows /\ x.anchored = TRUE /\ x.funded = FALSE
  <2> HIDE DEF z
  <2> QED
    BY <1>7, FundsSet
<1>10. gaps' = [gaps EXCEPT ![own] = x]
  <2>1. WithAnchor(g[own]) = z
    BY <1>6
  <2> HIDE DEF z
  <2> QED
    BY <1>3, <1>6, <1>8, <2>1
<1> HIDE DEF x
<1>11. gaps' \in Seq(GapRows) /\ Len(gaps') = Len(gaps) /\ gaps'[own] = x
  BY <1>2, <1>9, <1>10, OwnSet
<1>12. Anchored'
  BY <1>1, <1>9, <1>11 DEF Anchored
<1>13. EnvTyped' /\ ActorsTyped' /\ ChecksFirst'
  BY <1>1 DEF DemosInv, EnvTyped, ActorsTyped, ChecksFirst
<1>14. GapsTyped'
  BY <1>1, <1>2, <1>11 DEF DemosInv, GapsTyped
<1>15. OwnIsLast'
  BY <1>1, <1>2, <1>11 DEF DemosInv, OwnIsLast
<1>16. OwnIsFunded'
  BY <1>1, <1>2, <1>12 DEF OwnIsFunded
<1>17. OwnIsSettled'
  BY <1>1, <1>12 DEF OwnIsSettled, D!DoneIsSettled
<1> QED
  BY <1>13, <1>14, <1>15, <1>16, <1>17 DEF DemosInv

\* The second gap expires.
LEMMA ExpireStep ==
  ASSUME DemosInv, D!Expire
  PROVE  DemosInv'
<1> DEFINE y == WithStatus(D!NewGap, "expired")
           x == WithFunds(y, TRUE)
<1>1. /\ pc = "expiring" /\ pc' = "cancelling" /\ gaps' = Append(gaps, x)
      /\ UNCHANGED <<script, wrong, checked, picked, turn, buyer, creating, own, sent, faults>>
  BY DEF D!Expire, D!env, WithStatus, WithFunds
<1>2. y \in GapRows
  BY NewRow, StatusSet
<1> HIDE DEF y
<1>3. x \in GapRows
  BY <1>2, FundsSet
<1> HIDE DEF x
<1>4. buyer = "done" /\ Anchored /\ creating = "yes" /\ Len(gaps) = own /\ own # 0
  BY <1>1 DEF DemosInv, OwnIsSettled, OwnIsLast
<1>5. gaps \in Seq(GapRows) /\ own \in 1..Len(gaps) /\ Len(gaps) \in Nat
  BY <1>4, OwnListed DEF DemosInv, GapsTyped
<1>6. gaps' \in Seq(GapRows) /\ Len(gaps') = own + 1 /\ gaps'[own] = gaps[own]
  BY <1>1, <1>3, <1>4, <1>5, RowAdded
<1>7. Anchored'
  BY <1>1, <1>4, <1>6 DEF Anchored
<1>8. EnvTyped' /\ ActorsTyped' /\ ChecksFirst'
  BY <1>1 DEF DemosInv, EnvTyped, ActorsTyped, ChecksFirst
<1>9. GapsTyped'
  BY <1>1, <1>4, <1>5, <1>6 DEF DemosInv, GapsTyped
<1>10. OwnIsLast'
  BY <1>1, <1>4 DEF DemosInv, OwnIsLast
<1>11. OwnIsFunded'
  BY <1>1, <1>4, <1>7 DEF OwnIsFunded
<1>12. OwnIsSettled'
  BY <1>1, <1>4, <1>6, <1>7 DEF OwnIsSettled, D!DoneIsSettled
<1> QED
  BY <1>8, <1>9, <1>10, <1>11, <1>12 DEF DemosInv

\* And is cancelled.
LEMMA CancelStep ==
  ASSUME DemosInv, D!Cancel
  PROVE  DemosInv'
<1> DEFINE n == Len(gaps)
           y == WithStatus(gaps[n], "cancelled")
           x == WithFunds(y, FALSE)
<1>1. /\ pc = "cancelling" /\ pc' = "done" /\ sent' = sent \cup {"cancel"}
      /\ gaps' = [gaps EXCEPT ![n] = x]
      /\ UNCHANGED <<script, wrong, checked, picked, turn, buyer, creating, own, faults>>
  BY DEF D!Cancel, D!env, D!Cancelled, WithStatus, WithFunds
<1>2. buyer = "done" /\ Anchored /\ creating = "yes" /\ n = own + 1 /\ own # 0
  BY <1>1 DEF DemosInv, OwnIsSettled, OwnIsLast
<1>3. gaps \in Seq(GapRows) /\ own \in Nat /\ n \in 1..Len(gaps) /\ gaps[n] \in GapRows
      /\ own \in 1..Len(gaps) /\ own # n
  BY <1>2 DEF DemosInv, GapsTyped
<1>4. y \in GapRows
  BY <1>3, StatusSet
<1> HIDE DEF y
<1>5. x \in GapRows /\ x.funded = FALSE
  BY <1>4, FundsSet
<1> HIDE DEF x
<1>6. gaps' \in Seq(GapRows) /\ Len(gaps') = n /\ gaps'[own] = gaps[own] /\ gaps'[n] = x
  BY <1>1, <1>3, <1>5, RowSet
<1>7. Anchored'
  BY <1>1, <1>2, <1>6 DEF Anchored
<1>8. EnvTyped' /\ ActorsTyped' /\ ChecksFirst'
  BY <1>1, <1>2 DEF DemosInv, EnvTyped, ActorsTyped, ChecksFirst
<1>9. GapsTyped'
  <2>1. own \in 0..n /\ picked \in 0..n
    BY DEF DemosInv, GapsTyped
  <2>2. picked' = picked /\ own' = own /\ pc' = "done"
    BY <1>1
  <2>3. gaps' \in Seq(GapRows) /\ Len(gaps') = n
    BY <1>6
  <2> HIDE DEF n
  <2> QED
    BY <2>1, <2>2, <2>3 DEF GapsTyped
<1>10. OwnIsLast'
  BY <1>1, <1>2 DEF DemosInv, OwnIsLast
<1>11. OwnIsFunded'
  BY <1>1, <1>2, <1>7 DEF OwnIsFunded
<1>12. D!DoneIsSettled'
  <2>1. \A i \in own..n : i = own \/ i = n
    BY <1>2, <1>3
  <2> HIDE DEF n
  <2> QED
    BY <1>1, <1>5, <1>6, <1>7, <2>1 DEF D!DoneIsSettled, Anchored
<1>13. OwnIsSettled'
  BY <1>1, <1>2, <1>7, <1>12 DEF OwnIsSettled
<1> QED
  BY <1>8, <1>9, <1>10, <1>11, <1>13 DEF DemosInv

\* Every step of a script keeps it safe.
LEMMA DemosStep == DemosInv /\ [D!Next]_(D!vars) => DemosInv'
<1> SUFFICES ASSUME DemosInv, [D!Next]_(D!vars) PROVE DemosInv'
  OBVIOUS
<1>1. CASE D!Main
  BY <1>1, CheckStep, BuyerStarts, SeeksStep, SupplyStep, FinalizeStep, SettleAtOnce, SettledStep,
     JoinStep, ExpireStep, CancelStep DEF D!Main
<1>2. CASE D!Buyer
  BY <1>2, PostStep, WaitStep, FundedStep, FailsStep DEF D!Buyer
<1>3. CASE D!Wake \/ D!Faulty
  BY <1>3, SeeksStep, FailsStep, WaitStep DEF D!Faulty
<1>4. CASE UNCHANGED D!vars
  <2>1. UNCHANGED <<script, wrong, checked, pc, picked, turn, buyer, creating, gaps, own, sent, faults>>
    BY <1>4 DEF D!vars, D!env, D!main, D!market
  <2>2. EnvTyped' /\ ActorsTyped' /\ GapsTyped'
    BY <2>1 DEF DemosInv, EnvTyped, ActorsTyped, GapsTyped
  <2>3. ChecksFirst' /\ OwnIsLast'
    BY <2>1 DEF DemosInv, ChecksFirst, OwnIsLast
  <2>4. OwnIsFunded' /\ OwnIsSettled'
    BY <2>1 DEF DemosInv, OwnIsFunded, OwnIsSettled, Waits, Anchored, D!DoneIsSettled
  <2> QED
    BY <2>2, <2>3, <2>4 DEF DemosInv
<1> QED
  BY <1>1, <1>2, <1>3, <1>4 DEF D!Next

\* A script sends nothing unless all is in place, and settles the gap of its own buyer.
LEMMA SafeScripts == DemosInv => ScriptsAreSafe
BY DEF DemosInv, ScriptsAreSafe, ChecksFirst, OwnIsLast, OwnIsSettled, D!FailsClosed, D!SettlesItsOwn

-----------------------------------------------------------------------------
(* All of them, one at a time.                                              *)

InterfacesInv == DeskInv /\ LabInv /\ CommandsInv /\ DemosInv

\* What is used goes on, and the others stay as they are.
LEMMA InterfacesInductive ==
  /\ MCInit => InterfacesInv
  /\ InterfacesInv /\ [MCNext]_mcVars => InterfacesInv'
<1>1. MCInit => InterfacesInv
  BY DeskInit, LabInit, CommandsInit, DemosInit DEF MCInit, InterfacesInv
<1>2. ASSUME InterfacesInv, [MCNext]_mcVars PROVE InterfacesInv'
  <2>1. labVars' = labVars => UNCHANGED L!vars
    BY DEF labVars, L!vars, L!result, L!motion
  <2>2. commandVars' = commandVars => UNCHANGED F!vars
    BY DEF commandVars, F!vars
  <2>3. demoVars' = demoVars => UNCHANGED D!vars
    BY DEF demoVars, D!vars, D!env, D!main, D!market
  <2>4. [Next]_vars /\ [L!Next]_(L!vars) /\ [F!Next]_(F!vars) /\ [D!Next]_(D!vars)
    BY <1>2, <2>1, <2>2, <2>3, Zenon DEF MCNext, mcVars, Alone, AtDesk, AtLab, AtCommands, AtDemos
  <2> QED
    BY <1>2, <2>4, DeskStep, LabStep, CommandsStep, DemosStep DEF InterfacesInv
<1> QED
  BY <1>1, <1>2

\* The invariant of all of them.
LEMMA InterfacesKeepInv == MCSpec => []InterfacesInv
BY InterfacesInductive, PTL DEF MCSpec

(* InterfacesTypeOK: the types of the pages and scripts.                    *)
THEOREM InterfacesTypeCorrect == MCSpec => []InterfacesTypeOK
<1>1. InterfacesInv => InterfacesTypeOK
  BY LabTypes, DemosTypes DEF InterfacesInv, InterfacesTypeOK, DeskInv, LabInv
<1> QED
  BY <1>1, InterfacesKeepInv, PTL

(* LabIsConsistent: results, selection, errors, the button that waits and   *)
(* the one that plays are those of the case chosen and its latest request,  *)
(* in whatever order answers, timers and clicks come.                       *)
THEOREM LabStaysConsistent == MCSpec => []LabIsConsistent
<1>1. InterfacesInv => LabIsConsistent
  BY ConsistentLab DEF InterfacesInv
<1> QED
  BY <1>1, InterfacesKeepInv, PTL

(* ReportsAreTrue: a write a command reports has taken effect, a receipt it *)
(* takes for good was anchored, and one it does not find was not there,     *)
(* whatever fails on the way.                                               *)
THEOREM CommandsReportTruly == MCSpec => []ReportsAreTrue
<1>1. InterfacesInv => ReportsAreTrue
  BY HonestReports DEF InterfacesInv
<1> QED
  BY <1>1, InterfacesKeepInv, PTL

(* ScriptsAreSafe: nothing is sent unless all that a script requires is in  *)
(* place, the gap supplied and settled is the one this run's buyer funded,  *)
(* and a run that finishes leaves no escrow of its own behind.              *)
THEOREM ScriptsStaySafe == MCSpec => []ScriptsAreSafe
<1>1. InterfacesInv => ScriptsAreSafe
  BY SafeScripts DEF InterfacesInv
<1> QED
  BY <1>1, InterfacesKeepInv, PTL

(* WritesAuthorized: beyond a test network of one's own, a write that takes *)
(* effect was sent with the token the API was given.                        *)
THEOREM OnlyAuthorizedWrites == MCSpec => WritesAuthorized
<1>1. InterfacesInv /\ [MCNext]_mcVars =>
        [\A c \in effects' \ effects :
           server.local \/ (server.token = Operator /\ F!TokenOf(runs[c].line) = Operator)]_(F!vars)
  <2> SUFFICES ASSUME InterfacesInv, [MCNext]_mcVars, NEW c \in effects' \ effects
               PROVE  server.local \/ (server.token = Operator /\ F!TokenOf(runs[c].line) = Operator)
    OBVIOUS
  <2>1. commandVars' = commandVars => UNCHANGED F!vars
    BY DEF commandVars, F!vars
  <2>2. [F!Next]_(F!vars)
    BY <2>1, Zenon DEF MCNext, mcVars, Alone, AtDesk, AtLab, AtCommands, AtDemos
  <2> QED
    BY <2>2, HookHolds DEF InterfacesInv
<1> QED
  BY <1>1, InterfacesInductive, InterfacesKeepInv, PTL DEF MCSpec, WritesAuthorized, F!WritesAuthorized
=============================================================================
