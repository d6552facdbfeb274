---------------------------- MODULE AgentsProofs ----------------------------
(***************************************************************************)
(* Theorems about the programs that act on evidence before it is judged:   *)
(* Commitments, for any requests, hashes and any cap; Keryx, for any       *)
(* claims and threshold; Supplier, for any suppliers, gaps, sources and    *)
(* other clients, and any URLs.                                            *)
(***************************************************************************)
EXTENDS MCAgents, Sequences, TLAPS, FunctionTheorems, FiniteSetTheorems, WellFoundedInduction

-----------------------------------------------------------------------------
(* Commitments.                                                             *)

MadeCalls ==
  [pc : {"committing", "answered", "failed"}, asked : Input, stored : Hashes,
   duplicate : BOOLEAN, tx : {"none", "pending", "mined", "reverted"}, alive : BOOLEAN]

CallsTyped == calls \in [Calls -> {NotMade} \cup MadeCalls]

Row == [url : Urls, hash : Hashes, by : Suppliers]

StateTyped ==
  /\ rows \subseteq Row
  /\ commitments \in [Hashes -> Suppliers \cup {None}]
  /\ CallsTyped

\* What a request is answered with, or pins, is a submission for its URL.
AnswersAreStored ==
  \A c \in Calls : Asked(c) =>
    \E r \in rows : r.url = calls[c].asked.url /\ r.hash = calls[c].stored

\* Only a request that asked for it goes on to a transaction.
OnlyAsAsked ==
  \A c \in Calls : Asked(c) /\ (calls[c].pc = "committing" \/ calls[c].tx # "none") =>
    calls[c].asked.commit

CommitInv == StateTyped /\ AnswersAreStored /\ OnlyAsAsked /\ CommittedIsStored

\* A request that was made is none that was not.
LEMMA MadeIsAsked == \A x \in MadeCalls : x # NotMade
BY DEF MadeCalls, NotMade

(* Nothing is asked or committed at first.                                  *)
LEMMA CommitInit == Init => CommitInv
<1> SUFFICES ASSUME Init PROVE CommitInv
  OBVIOUS
<1>1. StateTyped
  BY DEF Init, StateTyped, CallsTyped
<1>2. \A c \in Calls : ~Asked(c)
  BY DEF Init, Asked
<1>3. AnswersAreStored /\ OnlyAsAsked
  BY <1>2 DEF AnswersAreStored, OnlyAsAsked
<1>4. CommittedIsStored
  BY DEF Init, CommittedIsStored
<1> QED
  BY <1>1, <1>3, <1>4 DEF CommitInv

\* What a call is between its submission and its answer never changes: what it was
\* asked and what it stored; and it enters a transaction from committing only.
GoesOn(c) ==
  /\ calls'[c] \in {NotMade} \cup MadeCalls
  /\ calls'[c] # NotMade <=> calls[c] # NotMade
  /\ calls[c] # NotMade =>
       /\ calls'[c].asked = calls[c].asked /\ calls'[c].stored = calls[c].stored
       /\ calls'[c].pc = "committing" => calls[c].pc = "committing"
       /\ calls'[c].tx # "none" => calls[c].tx # "none" \/ calls[c].pc = "committing"

(* A step in which every call goes on and nothing is stored or pinned.      *)
LEMMA CallsGoOn ==
  ASSUME CommitInv, UNCHANGED <<rows, commitments>>,
         calls' = [c \in Calls |-> calls'[c]], \A c \in Calls : GoesOn(c)
  PROVE  CommitInv'
<1>1. StateTyped'
  BY DEF CommitInv, StateTyped, CallsTyped, GoesOn
<1>2. AnswersAreStored'
  BY DEF CommitInv, AnswersAreStored, Asked, GoesOn
<1>3. OnlyAsAsked'
  BY DEF CommitInv, OnlyAsAsked, Asked, GoesOn
<1>4. CommittedIsStored'
  BY DEF CommitInv, CommittedIsStored, Asked, GoesOn
<1> QED
  BY <1>1, <1>2, <1>3, <1>4 DEF CommitInv

(* The steps of one call after its submission.                              *)
LEMMA OneGoesOn ==
  ASSUME CommitInv, NEW c \in Calls, NEW x \in MadeCalls,
         calls[c] # NotMade, calls' = [calls EXCEPT ![c] = x],
         x.asked = calls[c].asked, x.stored = calls[c].stored,
         x.pc = "committing" => calls[c].pc = "committing",
         x.tx # "none" => calls[c].tx # "none" \/ calls[c].pc = "committing"
  PROVE  /\ calls' = [d \in Calls |-> calls'[d]]
         /\ \A d \in Calls : GoesOn(d)
<1>1. x # NotMade
  BY MadeIsAsked
<1>2. calls \in [Calls -> {NotMade} \cup MadeCalls]
  BY DEF CommitInv, StateTyped, CallsTyped
<1>3. calls'[c] = x /\ \A d \in Calls \ {c} : calls'[d] = calls[d]
  BY <1>2
<1>4. GoesOn(c)
  BY <1>1, <1>3 DEF GoesOn
<1>5. \A d \in Calls \ {c} : GoesOn(d)
  BY <1>2, <1>3 DEF GoesOn
<1> QED
  BY <1>2, <1>4, <1>5

\* A call that is running was made, and is typed.
LEMMA RunningIsMade ==
  ASSUME CommitInv, NEW c \in Calls, calls[c] # NotMade
  PROVE  calls[c] \in MadeCalls
BY DEF CommitInv, StateTyped, CallsTyped

\* A call that runs was made.
LEMMA RunningIsAsked == \A c \in Calls : Running(c) => calls[c] # NotMade
BY DEF Running, NotMade

(* A submission is stored or found, and the request pins that one's hash.   *)
LEMMA SubmitStep ==
  ASSUME CommitInv, NEW c \in Calls, NEW input \in Input, Submit(c, input)
  PROVE  CommitInv'
<1> DEFINE fresh == [url |-> input.url, hash |-> input.hash, by |-> input.by]
           duplicate == Existing(input.url) # {}
           made(row) == [Made(input) EXCEPT !.pc = IF input.commit THEN @ ELSE "answered",
                                            !.stored = HashToPin(input, row),
                                            !.duplicate = duplicate]
<1>1. PICK row \in (IF duplicate THEN Existing(input.url) ELSE {fresh}) :
        rows' = rows \cup {row} /\ calls' = [calls EXCEPT ![c] = made(row)]
  BY DEF Submit
<1>2. row \in Row /\ row.url = input.url
  BY DEF CommitInv, StateTyped, Row, Existing, Input
<1>3. made(row) \in MadeCalls
  BY <1>2 DEF Made, MadeCalls, HashToPin, Row
<1>4. /\ made(row).asked = input /\ made(row).stored = row.hash /\ made(row).tx = "none"
      /\ made(row).pc = "committing" => input.commit
  BY DEF Made, HashToPin, Input
<1>5. /\ made(row) # NotMade /\ calls[c] = NotMade
      /\ commitments' = commitments
  BY <1>3, MadeIsAsked DEF Submit
<1> HIDE DEF made
<1>6. /\ calls'[c] = made(row) /\ \A d \in Calls \ {c} : calls'[d] = calls[d]
      /\ CallsTyped'
  BY <1>1, <1>3 DEF CommitInv, StateTyped, CallsTyped
<1>7. StateTyped'
  BY <1>1, <1>2, <1>5, <1>6 DEF CommitInv, StateTyped
<1>8. AnswersAreStored'
  BY <1>1, <1>2, <1>4, <1>6 DEF CommitInv, AnswersAreStored, Asked
<1>9. OnlyAsAsked'
  BY <1>4, <1>6 DEF CommitInv, OnlyAsAsked, Asked
<1>10. CommittedIsStored'
  BY <1>1, <1>5, <1>6 DEF CommitInv, CommittedIsStored, Asked
<1> QED
  BY <1>7, <1>8, <1>9, <1>10 DEF CommitInv

(* A transaction is mined: what it pins is the hash its request stored.     *)
LEMMA MinedStep ==
  ASSUME CommitInv, NEW c \in Calls, Mined(c)
  PROVE  CommitInv'
<1> DEFINE h == calls[c].stored
<1>1. calls[c] # NotMade /\ calls[c] \in MadeCalls /\ calls[c].tx = "pending"
      /\ rows' = rows
  BY RunningIsMade DEF Mined
<1>2. CASE ~MayCommit(h)
  <2> DEFINE x == [calls[c] EXCEPT !.tx = "reverted"]
  <2>1. calls' = [calls EXCEPT ![c] = x] /\ UNCHANGED <<rows, commitments>>
    BY <1>2 DEF Mined
  <2>2. x \in MadeCalls
    BY <1>1 DEF MadeCalls
  <2>3. x.asked = calls[c].asked /\ x.stored = calls[c].stored /\ x.pc = calls[c].pc
    BY <1>1 DEF MadeCalls
  <2> HIDE DEF x
  <2> QED
    BY <1>1, <2>1, <2>2, <2>3, OneGoesOn, CallsGoOn
<1>3. CASE MayCommit(h)
  <2> DEFINE x == [calls[c] EXCEPT !.tx = "mined"]
  <2>1. /\ calls' = [calls EXCEPT ![c] = x]
        /\ commitments' = [commitments EXCEPT ![h] = calls[c].asked.by]
    BY <1>3 DEF Mined
  <2>2. x \in MadeCalls /\ h \in Hashes /\ calls[c].asked.by \in Suppliers
    BY <1>1 DEF MadeCalls, Input
  <2>3. x.asked = calls[c].asked /\ x.stored = calls[c].stored /\ x.pc = calls[c].pc
    BY <1>1 DEF MadeCalls
  <2> HIDE DEF x
  <2>4. \A d \in Calls : GoesOn(d)
    BY <1>1, <2>1, <2>2, <2>3, OneGoesOn
  <2>5. StateTyped'
    BY <1>1, <2>1, <2>2, <2>4 DEF CommitInv, StateTyped, CallsTyped, GoesOn
  <2>6. AnswersAreStored'
    BY <1>1, <2>4 DEF CommitInv, AnswersAreStored, Asked, GoesOn
  <2>7. OnlyAsAsked'
    BY <2>4 DEF CommitInv, OnlyAsAsked, Asked, GoesOn
  <2>8. ASSUME NEW k \in Hashes, commitments'[k] # None
        PROVE  \E d \in Calls, r \in rows' :
                 /\ Asked(d)' /\ calls'[d].asked.by = commitments'[k]
                 /\ calls'[d].asked.commit
                 /\ r.url = calls'[d].asked.url /\ r.hash = k
    <3>1. CASE k = h
      <4>1. PICK r \in rows : r.url = calls[c].asked.url /\ r.hash = h
        BY <1>1 DEF CommitInv, AnswersAreStored, Asked
      <4>2. calls[c].asked.commit
        BY <1>1 DEF CommitInv, OnlyAsAsked, Asked
      <4>3. commitments'[k] = calls[c].asked.by
        BY <2>1, <2>2, <3>1 DEF CommitInv, StateTyped
      <4>4. Asked(c)' /\ calls'[c].asked = calls[c].asked
        BY <1>1, <2>4 DEF GoesOn, Asked
      <4> QED
        BY <1>1, <3>1, <4>1, <4>2, <4>3, <4>4
    <3>2. CASE k # h
      <4>1. commitments'[k] = commitments[k]
        BY <2>1, <2>2, <3>2 DEF CommitInv, StateTyped
      <4> QED
        BY <1>1, <2>4, <2>8, <4>1 DEF CommitInv, CommittedIsStored, Asked, GoesOn
    <3> QED
      BY <3>1, <3>2
  <2> QED
    BY <2>5, <2>6, <2>7, <2>8 DEF CommitInv, CommittedIsStored
<1> QED
  BY <1>2, <1>3

(* Every step keeps the invariant.                                          *)
LEMMA CommitStep ==
  ASSUME CommitInv, [Next]_vars
  PROVE  CommitInv'
<1>1. ASSUME UNCHANGED <<rows, commitments, calls>>
      PROVE  CommitInv'
  BY <1>1 DEF CommitInv, StateTyped, CallsTyped, AnswersAreStored, OnlyAsAsked,
              CommittedIsStored, Asked
<1>2. ASSUME NEW c \in Calls, Send(c)
      PROVE  CommitInv'
  <2>1. calls[c] # NotMade /\ calls[c] \in MadeCalls /\ calls[c].pc = "committing"
    BY <1>2, RunningIsAsked, RunningIsMade DEF Send, Running
  <2>2. PICK x \in {[calls[c] EXCEPT !.tx = "pending"], [calls[c] EXCEPT !.pc = "failed"]} :
          calls' = [calls EXCEPT ![c] = x] /\ UNCHANGED <<rows, commitments>>
    BY <1>2 DEF Send
  <2>3. x \in MadeCalls /\ x.asked = calls[c].asked /\ x.stored = calls[c].stored
    BY <2>1 DEF MadeCalls
  <2> QED
    BY <2>1, <2>2, <2>3, OneGoesOn, CallsGoOn
<1>3. ASSUME NEW c \in Calls, Answers(c) \/ Throws(c)
      PROVE  CommitInv'
  <2>1. calls[c] # NotMade /\ calls[c] \in MadeCalls /\ calls[c].pc = "committing"
    BY <1>3, RunningIsAsked, RunningIsMade DEF Answers, Throws, Running
  <2>2. PICK x \in {[calls[c] EXCEPT !.pc = "answered"], [calls[c] EXCEPT !.pc = "failed"]} :
          calls' = [calls EXCEPT ![c] = x] /\ UNCHANGED <<rows, commitments>>
    BY <1>3 DEF Answers, Throws
  <2>3. x \in MadeCalls /\ x.asked = calls[c].asked /\ x.stored = calls[c].stored
    BY <2>1 DEF MadeCalls
  <2> QED
    BY <2>1, <2>2, <2>3, OneGoesOn, CallsGoOn
<1>4. CASE Crash
  <2>1. /\ calls' = [c \in Calls |->
                       IF Running(c) THEN [calls[c] EXCEPT !.alive = FALSE] ELSE calls[c]]
        /\ UNCHANGED <<rows, commitments>>
    BY <1>4 DEF Crash
  <2>2. ASSUME NEW c \in Calls, Running(c)
        PROVE  GoesOn(c)
    <3>1. calls[c] # NotMade /\ calls[c] \in MadeCalls
      BY <2>2, RunningIsAsked, RunningIsMade
    <3> DEFINE x == [calls[c] EXCEPT !.alive = FALSE]
    <3>2. /\ x \in MadeCalls /\ x.asked = calls[c].asked /\ x.stored = calls[c].stored
          /\ x.pc = calls[c].pc /\ x.tx = calls[c].tx
      BY <3>1 DEF MadeCalls
    <3>3. calls'[c] = x
      BY <2>1, <2>2
    <3> HIDE DEF x
    <3> QED
      BY <3>1, <3>2, <3>3, MadeIsAsked DEF GoesOn
  <2>3. ASSUME NEW c \in Calls, ~Running(c)
        PROVE  GoesOn(c)
    BY <2>1, <2>3 DEF GoesOn, CommitInv, StateTyped, CallsTyped
  <2>4. calls' = [c \in Calls |-> calls'[c]]
    BY <2>1
  <2> QED
    BY <2>1, <2>2, <2>3, <2>4, CallsGoOn
<1> QED
  BY <1>1, <1>2, <1>3, <1>4, SubmitStep, MinedStep
  DEF Next, vars, DeadlinePasses, Closes

(* CommittedIsStored: whatever is pinned on the chain is a submission that  *)
(* the API has stored, for the supplier that asked for it, however many     *)
(* requests run, fail, are repeated or lose their server.                   *)
THEOREM PinnedIsStored == Spec => []CommittedIsStored
<1>1. CommitInv => CommittedIsStored
  BY DEF CommitInv
<1> QED
  BY CommitInit, CommitStep, <1>1, PTL DEF Spec

-----------------------------------------------------------------------------
(* The pipeline of Keryx.                                                   *)

KGap == [claim : K!Claims, state : K!Endings \cup {"live"}]

Waits == pc \in {"poll", "receipt"}

PipelineTyped ==
  /\ pool \subseteq K!Evidence
  /\ gaps \in Seq(KGap)
  /\ pc \in {"detect", "poll", "receipt", "answer"}
  /\ Waits => gaps # <<>> /\ K!Gap.claim \in K!Unsupported
  /\ overdue \in BOOLEAN
  /\ nulls \in [K!Claims -> Nat]

\* The gaps opened for a claim that may be settled, or are, without being waited for.
Behind(c) ==
  {i \in DOMAIN gaps : gaps[i].claim = c /\ gaps[i].state # "empty" /\ ~(Waits /\ i = Len(gaps))}

\* Each of them was given up for a null, but for the one that was merged.
GivenUp ==
  \A c \in K!Claims :
    Cardinality(Behind(c)) <= nulls[c] + (IF c \in K!Unsupported THEN 0 ELSE 1)

KeryxInv == PipelineTyped /\ GivenUp

\* The gaps of a pipeline are finitely many.
LEMMA BehindFinite ==
  ASSUME PipelineTyped, NEW c
  PROVE  IsFiniteSet(Behind(c)) /\ Cardinality(Behind(c)) \in Nat
<1>1. Len(gaps) \in Nat /\ DOMAIN gaps = 1..Len(gaps)
  BY DEF PipelineTyped
<1>2. IsFiniteSet(DOMAIN gaps)
  BY <1>1, FS_Interval
<1>3. Behind(c) \in SUBSET DOMAIN gaps
  BY DEF Behind
<1> QED
  BY <1>2, <1>3, FS_Subset, FS_CardinalityType

\* A set that gains one element grows by one, or not at all.
LEMMA GainsOne ==
  ASSUME NEW A, IsFiniteSet(A), NEW x, NEW B \in SUBSET (A \cup {x})
  PROVE  IsFiniteSet(B) /\ Cardinality(B) \in Nat /\ Cardinality(B) <= Cardinality(A) + 1
<1>1. /\ IsFiniteSet(A \cup {x}) /\ Cardinality(A) \in Nat
      /\ Cardinality(A \cup {x}) \in {Cardinality(A), Cardinality(A) + 1}
  BY FS_AddElement, FS_CardinalityType
<1>2. IsFiniteSet(B) /\ Cardinality(B) <= Cardinality(A \cup {x}) /\ Cardinality(B) \in Nat
  BY <1>1, FS_Subset, FS_CardinalityType
<1> QED
  BY <1>1, <1>2

\* A set of naturals has a least element.
LEMMA LeastOfNaturals ==
  ASSUME NEW A \in SUBSET Nat, A # {}
  PROVE  \E x \in A : \A y \in A : x <= y
<1> DEFINE R == {p \in Nat \X Nat : p[1] < p[2]}
<1>1. IsWellFoundedOn(R, Nat)
  BY NatLessThanWellFounded DEF OpToRel
<1>2. \E x \in A : \A y \in A : <<y, x>> \notin R
  <2> HIDE DEF R
  <2> QED
    BY <1>1, WFMin
<1>3. PICK x \in A : \A y \in A : <<y, x>> \notin R
  BY <1>2
<1>4. ASSUME NEW y \in A PROVE x <= y
  <2>1. x \in Nat /\ y \in Nat
    OBVIOUS
  <2>2. y < x => <<y, x>> \in R
    BY <2>1
  <2> QED
    BY <1>3, <2>1, <2>2
<1> QED
  BY <1>4

\* The claim a gap is opened for has no independent source.
LEMMA TargetUnsupported == K!Unsupported # {} => K!Target \in K!Unsupported
<1> SUFFICES ASSUME K!Unsupported # {} PROVE K!Target \in K!Unsupported
  OBVIOUS
<1>1. K!Unsupported \subseteq Nat
  BY AgentsAssumption DEF K!Unsupported, K!Claims, K!KeryxAssumption
<1>2. \E x \in K!Unsupported : \A y \in K!Unsupported : x <= y
  BY <1>1, LeastOfNaturals
<1> QED
  BY <1>2 DEF K!Target, K!Min

\* At first there is no gap.
LEMMA KeryxInit == K!Init => KeryxInv
<1> SUFFICES ASSUME K!Init PROVE KeryxInv
  OBVIOUS
<1>1. PipelineTyped
  <2>1. pool \subseteq K!Evidence /\ pc = "detect" /\ overdue = FALSE
    BY DEF K!Init
  <2>2. gaps \in Seq(KGap)
    BY DEF K!Init
  <2>3. nulls \in [K!Claims -> Nat]
    BY DEF K!Init
  <2> QED
    BY <2>1, <2>2, <2>3 DEF PipelineTyped, Waits
<1>2. \A c \in K!Claims : Behind(c) = {}
  BY DEF K!Init, Behind
<1>3. GivenUp
  BY <1>1, <1>2, FS_EmptySet DEF GivenUp, K!Init
<1> QED
  BY <1>1, <1>3 DEF KeryxInv

\* A step that changes neither what is known nor what was given up, and brings no gap
\* from those waited for, or empty, into those left behind.
LEMMA NothingGivenUp ==
  ASSUME KeryxInv, PipelineTyped', UNCHANGED <<pool, nulls>>,
         \A c \in K!Claims : Behind(c)' \subseteq Behind(c)
  PROVE  KeryxInv'
<1> SUFFICES ASSUME NEW c \in K!Claims
             PROVE  Cardinality(Behind(c)') <= nulls'[c] + (IF c \in K!Unsupported' THEN 0 ELSE 1)
  BY DEF KeryxInv, GivenUp
<1>1. IsFiniteSet(Behind(c)) /\ Cardinality(Behind(c)) \in Nat
  BY BehindFinite DEF KeryxInv
<1>2. Cardinality(Behind(c)') <= Cardinality(Behind(c)) /\ Cardinality(Behind(c)') \in Nat
  BY <1>1, FS_Subset, FS_CardinalityType
<1>3. K!Unsupported' = K!Unsupported /\ nulls[c] \in Nat
  BY DEF K!Unsupported, KeryxInv, PipelineTyped
<1>4. Cardinality(Behind(c)) <= nulls[c] + (IF c \in K!Unsupported THEN 0 ELSE 1)
  BY DEF KeryxInv, GivenUp
<1> DEFINE x == Cardinality(Behind(c))
           y == Cardinality(Behind(c)')
<1> HIDE DEF x, y
<1>5. y <= x /\ x \in Nat /\ y \in Nat /\ nulls'[c] = nulls[c]
  BY <1>1, <1>2 DEF x, y
<1>6. y <= nulls'[c] + (IF c \in K!Unsupported' THEN 0 ELSE 1)
  BY <1>3, <1>4, <1>5 DEF x
<1> QED
  BY <1>6 DEF y

\* A step that leaves one gap of a claim behind, for a null or for evidence of the claim.
LEMMA OneGivenUp ==
  ASSUME KeryxInv, PipelineTyped', NEW d \in K!Claims, NEW i,
         d \in K!Unsupported,
         Behind(d)' \subseteq Behind(d) \cup {i},
         nulls'[d] = nulls[d] + 1 \/ (nulls'[d] = nulls[d] /\ d \notin K!Unsupported'),
         \A c \in K!Claims \ {d} :
           /\ Behind(c)' \subseteq Behind(c) /\ nulls'[c] = nulls[c]
           /\ c \in K!Unsupported' <=> c \in K!Unsupported
  PROVE  KeryxInv'
<1> SUFFICES ASSUME NEW c \in K!Claims
             PROVE  Cardinality(Behind(c)') <= nulls'[c] + (IF c \in K!Unsupported' THEN 0 ELSE 1)
  BY DEF KeryxInv, GivenUp
<1> DEFINE x == Cardinality(Behind(c))
           y == Cardinality(Behind(c)')
<1>1. IsFiniteSet(Behind(c)) /\ x \in Nat
  BY BehindFinite DEF KeryxInv
<1>2. /\ nulls[c] \in Nat /\ nulls'[c] \in Nat
      /\ x <= nulls[c] + (IF c \in K!Unsupported THEN 0 ELSE 1)
  BY DEF KeryxInv, GivenUp, PipelineTyped
<1>3. CASE c = d
  <2>1. y \in Nat /\ y <= x + 1
    BY <1>1, <1>3, GainsOne
  <2> HIDE DEF x, y
  <2>2. y <= nulls'[c] + (IF c \in K!Unsupported' THEN 0 ELSE 1)
    BY <1>1, <1>2, <1>3, <2>1
  <2> QED
    BY <2>2 DEF y
<1>4. CASE c # d
  <2>1. y \in Nat /\ y <= x
    BY <1>1, <1>4, FS_Subset, FS_CardinalityType
  <2> HIDE DEF x, y
  <2>2. y <= nulls'[c] + (IF c \in K!Unsupported' THEN 0 ELSE 1)
    BY <1>1, <1>2, <1>4, <2>1
  <2> QED
    BY <2>2 DEF y
<1> QED
  BY <1>3, <1>4

\* createGap, whose answer arrives or not.
LEMMA OpenGapStep == KeryxInv /\ K!OpenGap => KeryxInv'
<1> SUFFICES ASSUME KeryxInv, K!OpenGap PROVE KeryxInv'
  OBVIOUS
<1> DEFINE new == [claim |-> K!Target, state |-> "live"]
           n == Len(gaps)
<1>1. K!Target \in K!Unsupported /\ K!Target \in K!Claims
  BY TargetUnsupported DEF K!OpenGap, K!Insufficient, K!Unsupported
<1>2. /\ pc = "detect" /\ ~Waits /\ gaps' = Append(gaps, new) /\ overdue' = FALSE
      /\ UNCHANGED pool /\ K!Unsupported' = K!Unsupported
  BY DEF K!OpenGap, Waits, K!Unsupported
<1>3. new \in KGap /\ gaps \in Seq(KGap) /\ n \in Nat
  BY <1>1 DEF KGap, KeryxInv, PipelineTyped
<1>4. /\ gaps' \in Seq(KGap) /\ Len(gaps') = n + 1 /\ gaps'[n + 1] = new /\ gaps' # <<>>
      /\ DOMAIN gaps' = DOMAIN gaps \cup {n + 1} /\ \A i \in DOMAIN gaps : gaps'[i] = gaps[i]
      /\ DOMAIN gaps = 1..n
  BY <1>2, <1>3
<1>5. K!Gap' = new /\ K!Gap'.claim = K!Target
  BY <1>4 DEF K!Gap
<1> HIDE DEF new, n
<1>6. CASE pc' = "poll" /\ UNCHANGED nulls
  <2>1. PipelineTyped'
    BY <1>1, <1>2, <1>4, <1>5, <1>6 DEF KeryxInv, PipelineTyped, Waits
  <2>2. \A c \in K!Claims : Behind(c)' \subseteq Behind(c)
    BY <1>2, <1>3, <1>4, <1>6 DEF Behind, Waits
  <2> QED
    BY <1>2, <1>6, <2>1, <2>2, NothingGivenUp
<1>7. CASE pc' = "detect" /\ nulls' = [nulls EXCEPT ![K!Target] = @ + 1]
  <2>1. /\ nulls' \in [K!Claims -> Nat] /\ nulls'[K!Target] = nulls[K!Target] + 1
        /\ \A c \in K!Claims \ {K!Target} : nulls'[c] = nulls[c]
    BY <1>1, <1>7 DEF KeryxInv, PipelineTyped
  <2>2. PipelineTyped'
    BY <1>2, <1>4, <1>7, <2>1 DEF KeryxInv, PipelineTyped, Waits
  <2>3. \A c \in K!Claims : Behind(c)' \subseteq Behind(c) \cup {n + 1}
    BY <1>2, <1>3, <1>4, <1>7 DEF Behind, Waits
  <2>4. \A c \in K!Claims \ {K!Target} : Behind(c)' \subseteq Behind(c)
    BY <1>2, <1>3, <1>4, <1>7 DEF Behind, Waits, new
  <2> QED
    BY <1>1, <1>2, <2>1, <2>2, <2>3, <2>4, OneGivenUp
<1> QED
  BY <1>6, <1>7 DEF K!OpenGap

\* What a step that leaves the gaps and goes back to detecting leaves behind.
LEMMA LastLeftBehind ==
  ASSUME KeryxInv, Waits, UNCHANGED gaps, pc' = "detect", NEW d, d = K!Gap.claim
  PROVE  /\ d \in K!Unsupported /\ d \in K!Claims
         /\ Behind(d)' \subseteq Behind(d) \cup {Len(gaps)}
         /\ \A c \in K!Claims \ {d} : Behind(c)' \subseteq Behind(c)
         /\ K!Gap.state = "empty" => \A c \in K!Claims : Behind(c)' \subseteq Behind(c)
<1>1. d \in K!Unsupported /\ d \in K!Claims
  BY DEF KeryxInv, PipelineTyped, K!Unsupported
<1>2. \A c : Behind(c)' \subseteq Behind(c) \cup {Len(gaps)}
  BY DEF Behind
<1>3. \A c : c # d => Len(gaps) \notin Behind(c)'
  BY DEF Behind, K!Gap
<1>4. K!Gap.state = "empty" => \A c : Len(gaps) \notin Behind(c)'
  BY DEF Behind, K!Gap
<1>5. \A c : c # d => Behind(c)' \subseteq Behind(c)
  BY <1>2, <1>3
<1>6. K!Gap.state = "empty" => \A c : Behind(c)' \subseteq Behind(c)
  BY <1>2, <1>4
<1> QED
  BY <1>1, <1>2, <1>5, <1>6

\* The pipeline starts again, for a null.
LEMMA StartsAgainStep == KeryxInv /\ Waits /\ K!StartsAgain => KeryxInv'
<1> SUFFICES ASSUME KeryxInv, Waits, K!StartsAgain PROVE KeryxInv'
  OBVIOUS
<1> SUFFICES ASSUME NEW d, d = K!Gap.claim PROVE KeryxInv'
  OBVIOUS
<1>1. /\ UNCHANGED <<pool, gaps, overdue>> /\ pc' = "detect"
      /\ nulls' = [nulls EXCEPT ![d] = @ + 1] /\ K!Unsupported' = K!Unsupported
  BY DEF K!StartsAgain, K!Unsupported
<1>2. /\ d \in K!Unsupported /\ d \in K!Claims
      /\ Behind(d)' \subseteq Behind(d) \cup {Len(gaps)}
      /\ \A c \in K!Claims \ {d} : Behind(c)' \subseteq Behind(c)
  BY <1>1, LastLeftBehind
<1>3. /\ nulls' \in [K!Claims -> Nat] /\ nulls'[d] = nulls[d] + 1
      /\ \A c \in K!Claims \ {d} : nulls'[c] = nulls[c]
  BY <1>1, <1>2 DEF KeryxInv, PipelineTyped
<1>4. PipelineTyped'
  BY <1>1, <1>3 DEF KeryxInv, PipelineTyped, Waits
<1> QED
  BY <1>1, <1>2, <1>3, <1>4, OneGivenUp

\* What was accepted is merged, and its claim is supported from then on.
LEMMA MergeStep == KeryxInv /\ K!Merge => KeryxInv'
<1> SUFFICES ASSUME KeryxInv, K!Merge PROVE KeryxInv'
  OBVIOUS
<1> SUFFICES ASSUME NEW d, d = K!Gap.claim PROVE KeryxInv'
  OBVIOUS
<1>1. /\ UNCHANGED <<gaps, overdue, nulls>> /\ pc' = "detect" /\ Waits
      /\ K!Gap.state \in {"settled", "empty"}
      /\ pool' = IF K!Gap.state = "settled" THEN pool \cup K!Merged(d) ELSE pool
  BY DEF K!Merge, Waits
<1>2. /\ d \in K!Unsupported /\ d \in K!Claims
      /\ Behind(d)' \subseteq Behind(d) \cup {Len(gaps)}
      /\ \A c \in K!Claims \ {d} : Behind(c)' \subseteq Behind(c)
      /\ K!Gap.state = "empty" => \A c \in K!Claims : Behind(c)' \subseteq Behind(c)
  BY <1>1, LastLeftBehind
<1>3. pool' \subseteq K!Evidence
  <2>1. [claim |-> d, independent |-> TRUE] \in K!Evidence
    BY <1>2 DEF K!Evidence
  <2> QED
    BY <1>1, <2>1 DEF KeryxInv, PipelineTyped, K!Merged
<1>4. PipelineTyped'
  BY <1>1, <1>3 DEF KeryxInv, PipelineTyped, Waits
<1>5. CASE K!Gap.state = "empty"
  BY <1>1, <1>2, <1>4, <1>5, NothingGivenUp
<1>6. CASE K!Gap.state = "settled"
  <2>1. pool' = pool \cup {[claim |-> d, independent |-> TRUE]}
    BY <1>1, <1>6 DEF K!Merged
  <2>2. d \notin K!Unsupported'
    BY <1>2, <2>1 DEF K!Unsupported
  <2>3. ASSUME NEW c \in K!Claims \ {d} PROVE c \in K!Unsupported' <=> c \in K!Unsupported
    <3>1. [claim |-> c, independent |-> TRUE] # [claim |-> d, independent |-> TRUE]
      OBVIOUS
    <3> QED
      BY <2>1, <3>1 DEF K!Unsupported
  <2> QED
    BY <1>1, <1>2, <1>4, <2>2, <2>3, OneGivenUp
<1> QED
  BY <1>1, <1>5, <1>6

\* A gap comes to its end, waited for or not.
LEMMA EndStep == ASSUME KeryxInv, NEW i \in DOMAIN gaps, K!End(i) PROVE KeryxInv'
<1>1. PICK state \in K!Endings : gaps' = [gaps EXCEPT ![i].state = state]
  BY DEF K!End
<1>2. UNCHANGED <<pool, pc, overdue, nulls>> /\ gaps[i].state = "live" /\ gaps[i] \in KGap
      /\ K!Unsupported' = K!Unsupported
  BY DEF K!End, KeryxInv, PipelineTyped, K!Unsupported
<1> DEFINE x == [gaps[i] EXCEPT !.state = state]
<1>3. x \in KGap /\ x.claim = gaps[i].claim /\ gaps' = [gaps EXCEPT ![i] = x]
  BY <1>1, <1>2 DEF KGap
<1> HIDE DEF x
<1>4. /\ gaps' \in Seq(KGap) /\ Len(gaps') = Len(gaps) /\ DOMAIN gaps' = DOMAIN gaps
      /\ \A j \in DOMAIN gaps : gaps'[j].claim = gaps[j].claim /\ (j # i => gaps'[j] = gaps[j])
      /\ gaps' # <<>>
  BY <1>3 DEF KeryxInv, PipelineTyped
<1>5. PipelineTyped'
  <2>1. Waits' => Len(gaps) \in DOMAIN gaps
    BY <1>2 DEF KeryxInv, PipelineTyped, Waits
  <2> QED
    BY <1>2, <1>4, <2>1 DEF KeryxInv, PipelineTyped, Waits, K!Gap
<1>6. \A c \in K!Claims : Behind(c)' \subseteq Behind(c)
  BY <1>2, <1>4 DEF Behind, Waits
<1> QED
  BY <1>2, <1>5, <1>6, NothingGivenUp

\* Every step keeps the invariant of the pipeline.
LEMMA KeryxStep == KeryxInv /\ [K!Next]_(K!vars) => KeryxInv'
<1> SUFFICES ASSUME KeryxInv, [K!Next]_(K!vars) PROVE KeryxInv'
  OBVIOUS
<1>1. CASE UNCHANGED K!vars
  BY <1>1 DEF K!vars, KeryxInv, PipelineTyped, GivenUp, Behind, Waits, K!Gap, K!Unsupported
<1>2. CASE K!Answer \/ K!Overdue \/ K!Ended
  <2>1. PipelineTyped' /\ UNCHANGED <<pool, nulls>>
    BY <1>2 DEF K!Answer, K!Overdue, K!Ended, KeryxInv, PipelineTyped, Waits, K!Gap, K!Unsupported
  <2>2. \A c \in K!Claims : Behind(c)' \subseteq Behind(c)
    BY <1>2 DEF K!Answer, K!Overdue, K!Ended, Behind, Waits
  <2> QED
    BY <2>1, <2>2, NothingGivenUp
<1>3. CASE K!OpenGap
  BY <1>3, OpenGapStep
<1>4. CASE K!PollFails \/ K!TimesOut \/ K!NoReceipt
  BY <1>4, StartsAgainStep DEF K!PollFails, K!TimesOut, K!NoReceipt, Waits
<1>5. CASE K!Merge
  BY <1>5, MergeStep
<1>6. CASE \E i \in DOMAIN gaps : K!End(i)
  BY <1>6, EndStep
<1> QED
  BY <1>1, <1>2, <1>3, <1>4, <1>5, <1>6 DEF K!Next

\* What was settled of a claim is behind, or the one gap that is waited for.
LEMMA InvPaysOnce == KeryxInv => K!PaidOncePerClaim
<1> DEFINE A(c) == {i \in DOMAIN gaps : gaps[i].claim = c /\ gaps[i].state = "settled"}
<1> SUFFICES ASSUME KeryxInv, NEW c \in K!Claims
             PROVE  Cardinality(A(c)) <= 1 + nulls[c]
  BY DEF K!PaidOncePerClaim, K!Cardinality, Cardinality
<1> DEFINE x == Cardinality(Behind(c))
           y == Cardinality(A(c))
<1>1. /\ IsFiniteSet(Behind(c)) /\ x \in Nat /\ nulls[c] \in Nat
      /\ x <= nulls[c] + (IF c \in K!Unsupported THEN 0 ELSE 1)
  BY BehindFinite DEF KeryxInv, PipelineTyped, GivenUp
<1>2. CASE Waits /\ K!Gap.claim = c
  <2>1. c \in K!Unsupported
    BY <1>2 DEF KeryxInv, PipelineTyped
  <2>2. A(c) \subseteq Behind(c) \cup {Len(gaps)}
    BY DEF Behind
  <2>3. y \in Nat /\ y <= x + 1
    BY <1>1, <2>2, GainsOne
  <2> HIDE DEF A, x, y
  <2>4. y <= 1 + nulls[c]
    BY <1>1, <2>1, <2>3
  <2> QED
    BY <2>4 DEF y
<1>3. CASE ~(Waits /\ K!Gap.claim = c)
  <2>1. A(c) \subseteq Behind(c)
    BY <1>3 DEF Behind, K!Gap
  <2>2. y \in Nat /\ y <= x
    BY <1>1, <2>1, FS_Subset, FS_CardinalityType
  <2> HIDE DEF A, x, y
  <2>3. y <= 1 + nulls[c]
    BY <1>1, <2>2
  <2> QED
    BY <2>3 DEF y
<1> QED
  BY <1>2, <1>3

\* The types of the pipeline.
LEMMA InvTypesPipeline == KeryxInv => K!TypeOK
<1> SUFFICES ASSUME KeryxInv PROVE K!TypeOK
  OBVIOUS
<1>1. \A i \in DOMAIN gaps : gaps[i] \in KGap
  BY DEF KeryxInv, PipelineTyped
<1>2. \A i \in DOMAIN gaps : gaps[i].claim \in K!Claims /\ gaps[i].state \in K!Endings \cup {"live"}
  BY <1>1 DEF KGap
<1>3. \A c \in K!Claims : nulls[c] \in Nat
  BY DEF KeryxInv, PipelineTyped
<1> QED
  BY <1>2, <1>3 DEF KeryxInv, PipelineTyped, K!TypeOK, Waits

-----------------------------------------------------------------------------
(* Orders of finite sets, on which the sequences of Urls rest.              *)

IsOrder(R, A) ==
  /\ \A x, y \in A : <<x, y>> \in R \/ <<y, x>> \in R
  /\ \A x, y \in A : <<x, y>> \in R /\ <<y, x>> \in R => x = y
  /\ \A x, y, z \in A : <<x, y>> \in R /\ <<y, z>> \in R => <<x, z>> \in R

UpTo(A, R, x) == {y \in A : <<y, x>> \in R}
Rank(A, R, x) == Cardinality(UpTo(A, R, x))

\* A rank is a place, and no two elements have the same.
LEMMA RanksDiffer ==
  ASSUME NEW A, NEW R, IsFiniteSet(A), IsOrder(R, A)
  PROVE  /\ Cardinality(A) \in Nat
         /\ \A x \in A : Rank(A, R, x) \in 1..Cardinality(A)
         /\ \A x, y \in A : <<x, y>> \in R <=> Rank(A, R, x) <= Rank(A, R, y)
         /\ \A x, y \in A : Rank(A, R, x) = Rank(A, R, y) => x = y
<1>1. Cardinality(A) \in Nat
  BY FS_CardinalityType
<1>2. ASSUME NEW x \in A
      PROVE  IsFiniteSet(UpTo(A, R, x)) /\ Rank(A, R, x) \in 1..Cardinality(A)
  <2>1. UpTo(A, R, x) \in SUBSET A /\ x \in UpTo(A, R, x)
    BY DEF IsOrder, UpTo
  <2>2. /\ IsFiniteSet(UpTo(A, R, x)) /\ Cardinality(UpTo(A, R, x)) <= Cardinality(A)
        /\ Cardinality(UpTo(A, R, x)) \in Nat /\ Cardinality(UpTo(A, R, x)) # 0
    BY <2>1, FS_Subset, FS_CardinalityType, FS_EmptySet
  <2> QED
    BY <1>1, <2>2 DEF Rank
<1>3. ASSUME NEW x \in A, NEW y \in A, <<x, y>> \in R
      PROVE  /\ Rank(A, R, x) <= Rank(A, R, y)
             /\ Rank(A, R, x) = Rank(A, R, y) => x = y
  <2>1. UpTo(A, R, x) \in SUBSET UpTo(A, R, y)
    BY <1>3 DEF IsOrder, UpTo
  <2>2. y \in UpTo(A, R, y)
    BY DEF IsOrder, UpTo
  <2>3. /\ Rank(A, R, x) <= Rank(A, R, y)
        /\ Rank(A, R, x) = Rank(A, R, y) => y \in UpTo(A, R, x)
    BY <1>2, <2>1, <2>2, FS_Subset DEF Rank
  <2> QED
    BY <1>3, <2>3 DEF IsOrder, UpTo
<1>4. ASSUME NEW x \in A, NEW y \in A, Rank(A, R, x) <= Rank(A, R, y)
      PROVE  <<x, y>> \in R
  <2> SUFFICES ASSUME <<x, y>> \notin R PROVE FALSE
    OBVIOUS
  <2>1. <<y, x>> \in R /\ x # y
    BY DEF IsOrder
  <2> QED
    BY <1>1, <1>2, <1>3, <1>4, <2>1
<1>5. ASSUME NEW x \in A, NEW y \in A, Rank(A, R, x) = Rank(A, R, y) PROVE x = y
  BY <1>2, <1>3, <1>5 DEF IsOrder
<1> QED
  BY <1>1, <1>2, <1>3, <1>4, <1>5

\* Every place is the rank of an element, which InOrder gives.
LEMMA InOrderOf ==
  ASSUME NEW A, NEW R, IsFiniteSet(A), IsOrder(R, A)
  PROVE  /\ DOMAIN S!InOrder(A, R) = 1..Cardinality(A)
         /\ \A k \in 1..Cardinality(A) :
              S!InOrder(A, R)[k] \in A /\ Rank(A, R, S!InOrder(A, R)[k]) = k
         /\ \A x \in A : S!InOrder(A, R)[Rank(A, R, x)] = x
<1> DEFINE n == Cardinality(A)
           f == [x \in A |-> Rank(A, R, x)]
<1>1. /\ n \in Nat /\ \A x \in A : Rank(A, R, x) \in 1..n
      /\ \A x, y \in A : Rank(A, R, x) = Rank(A, R, y) => x = y
  BY RanksDiffer
<1>2. IsFiniteSet(1..n) /\ Cardinality(1..n) = n
  <2> HIDE DEF n
  <2> QED
    BY <1>1, FS_Interval
<1>3. f \in Injection(A, 1..n)
  BY <1>1 DEF Injection, IsInjective
<1>4. f \in Surjection(A, 1..n)
  BY <1>2, <1>3, FS_Injection
<1>5. \A k \in 1..n : \E x \in A : Rank(A, R, x) = k
  BY <1>4 DEF Surjection
<1>6. S!InOrder(A, R) = [k \in 1..n |-> CHOOSE x \in A : Rank(A, R, x) = k]
  BY DEF S!InOrder, S!Cardinality, Cardinality, Rank, UpTo
<1>7. \A k \in 1..n : S!InOrder(A, R)[k] \in A /\ Rank(A, R, S!InOrder(A, R)[k]) = k
  BY <1>5, <1>6
<1>8. \A x \in A : S!InOrder(A, R)[Rank(A, R, x)] = x
  BY <1>1, <1>7
<1> QED
  BY <1>6, <1>7, <1>8

\* A map that keeps the order keeps the places.
LEMMA OrderKept ==
  ASSUME NEW A, NEW R, IsFiniteSet(A), IsOrder(R, A),
         NEW B, NEW Q, IsFiniteSet(B), IsOrder(Q, B),
         NEW f \in Bijection(A, B), \A x, y \in A : <<x, y>> \in R <=> <<f[x], f[y]>> \in Q
  PROVE  /\ Cardinality(A) = Cardinality(B)
         /\ \A k \in 1..Cardinality(A) : S!InOrder(B, Q)[k] = f[S!InOrder(A, R)[k]]
<1>1. Cardinality(A) = Cardinality(B)
  BY FS_Bijection DEF ExistsBijection
<1>2. ASSUME NEW x \in A PROVE f[x] \in B /\ Rank(B, Q, f[x]) = Rank(A, R, x)
  <2> DEFINE U == UpTo(A, R, x)
             V == UpTo(B, Q, f[x])
             g == [y \in U |-> f[y]]
  <2>1. f \in [A -> B] /\ f[x] \in B
    BY DEF Bijection, Injection
  <2>2. g \in Injection(U, V)
    BY DEF Bijection, Injection, IsInjective, UpTo
  <2>3. g \in Surjection(U, V)
    <3>1. g \in [U -> V]
      BY <2>2 DEF Injection
    <3>2. \A z \in V : \E y \in U : g[y] = z
      BY DEF Bijection, Surjection, UpTo
    <3> QED
      BY <3>1, <3>2 DEF Surjection
  <2>4. ExistsBijection(U, V)
    BY <2>2, <2>3 DEF Bijection, ExistsBijection
  <2>5. IsFiniteSet(U)
    BY FS_Subset DEF UpTo
  <2> QED
    BY <2>1, <2>4, <2>5, FS_Bijection DEF Rank
<1>3. ASSUME NEW k \in 1..Cardinality(A)
      PROVE  S!InOrder(B, Q)[k] = f[S!InOrder(A, R)[k]]
  <2> DEFINE x == S!InOrder(A, R)[k]
  <2>1. x \in A /\ Rank(A, R, x) = k
    BY InOrderOf
  <2>2. f[x] \in B /\ Rank(B, Q, f[x]) = k
    BY <1>2, <2>1
  <2> HIDE DEF x
  <2>3. S!InOrder(B, Q)[k] = f[x]
    BY <2>2, InOrderOf
  <2> QED
    BY <2>3 DEF x
<1> QED
  BY <1>1, <1>3

\* To the element at the same place.
PlaceMap(A, R, B, Q) == [x \in A |-> S!InOrder(B, Q)[Rank(A, R, x)]]

\* What is at the same places of sets of the same size keeps the order.
LEMMA PlacesKept ==
  ASSUME NEW A, NEW R, IsFiniteSet(A), IsOrder(R, A),
         NEW B, NEW Q, IsFiniteSet(B), IsOrder(Q, B), Cardinality(A) = Cardinality(B)
  PROVE  /\ PlaceMap(A, R, B, Q) \in Bijection(A, B)
         /\ \A x, y \in A : <<x, y>> \in R <=>
              <<PlaceMap(A, R, B, Q)[x], PlaceMap(A, R, B, Q)[y]>> \in Q
<1> DEFINE f == PlaceMap(A, R, B, Q)
<1>1. \A x \in A : f[x] \in B /\ Rank(B, Q, f[x]) = Rank(A, R, x)
  BY RanksDiffer, InOrderOf DEF PlaceMap
<1>2. ASSUME NEW x \in A, NEW y \in A
      PROVE  <<x, y>> \in R <=> <<f[x], f[y]>> \in Q
  <2>1. <<x, y>> \in R <=> Rank(A, R, x) <= Rank(A, R, y)
    BY RanksDiffer
  <2>2. f[x] \in B /\ f[y] \in B
    BY <1>1
  <2>3. <<f[x], f[y]>> \in Q <=> Rank(B, Q, f[x]) <= Rank(B, Q, f[y])
    BY <2>2, RanksDiffer
  <2> QED
    BY <1>1, <2>1, <2>3
<1>3. f \in Injection(A, B)
  <2>1. \A x, y \in A : f[x] = f[y] => x = y
    <3>1. \A x, y \in A : f[x] = f[y] => Rank(A, R, x) = Rank(A, R, y)
      BY <1>1
    <3> QED
      BY <3>1, RanksDiffer
  <2>2. f \in [A -> B]
    BY <1>1 DEF PlaceMap
  <2> QED
    BY <2>1, <2>2 DEF Injection, IsInjective
<1>4. f \in Surjection(A, B)
  BY <1>3, FS_Injection
<1> QED
  BY <1>2, <1>3, <1>4 DEF Bijection

-----------------------------------------------------------------------------
(* Pages and their canonical addresses.                                     *)

Parameter == [name : Nat, value : Nat]
Queries == Seq(Parameter)

With(q, n) == {i \in DOMAIN q : q[i].name = n}

\* The places of a query are finitely many, and in both orders.
LEMMA PlacesOrdered ==
  ASSUME NEW q \in Queries, NEW A \in SUBSET DOMAIN q
  PROVE  /\ IsFiniteSet(A) /\ A \subseteq Nat
         /\ IsOrder(S!Upwards(A), A) /\ IsOrder(S!ByName(q, A), A)
         /\ \A i, j \in A : <<i, j>> \in S!Upwards(A) <=> i <= j
         /\ \A i, j \in A : <<i, j>> \in S!ByName(q, A) <=>
              q[i].name < q[j].name \/ (q[i].name = q[j].name /\ i <= j)
<1>1. Len(q) \in Nat /\ DOMAIN q = 1..Len(q) /\ \A i \in A : i \in Nat /\ q[i].name \in Nat
  <2>1. Len(q) \in Nat /\ DOMAIN q = 1..Len(q)
    BY DEF Queries
  <2>2. ASSUME NEW i \in A PROVE i \in Nat /\ q[i].name \in Nat
    <3>1. i \in 1..Len(q)
      BY <2>1
    <3>2. q[i] \in Parameter
      BY <3>1 DEF Queries
    <3> QED
      BY <2>1, <3>1, <3>2 DEF Parameter
  <2> QED
    BY <2>1, <2>2
<1>2. IsFiniteSet(A)
  <2>1. IsFiniteSet(1..Len(q))
    BY <1>1, FS_Interval
  <2> QED
    BY <1>1, <2>1, FS_Subset
<1>3. \A i, j \in A : <<i, j>> \in S!Upwards(A) <=> i <= j
  BY DEF S!Upwards
<1>4. \A i, j \in A : <<i, j>> \in S!ByName(q, A) <=>
              q[i].name < q[j].name \/ (q[i].name = q[j].name /\ i <= j)
  BY DEF S!ByName
<1>5. IsOrder(S!Upwards(A), A)
  BY <1>1, <1>3 DEF IsOrder
<1>6. IsOrder(S!ByName(q, A), A)
  <2>1. ASSUME NEW i \in A, NEW j \in A
        PROVE  /\ <<i, j>> \in S!ByName(q, A) \/ <<j, i>> \in S!ByName(q, A)
               /\ <<i, j>> \in S!ByName(q, A) /\ <<j, i>> \in S!ByName(q, A) => i = j
    <3>1. i \in Nat /\ j \in Nat /\ q[i].name \in Nat /\ q[j].name \in Nat
      BY <1>1
    <3> QED
      BY <1>4, <3>1
  <2>2. ASSUME NEW i \in A, NEW j \in A, NEW k \in A,
               <<i, j>> \in S!ByName(q, A), <<j, k>> \in S!ByName(q, A)
        PROVE  <<i, k>> \in S!ByName(q, A)
    <3>1. /\ i \in Nat /\ j \in Nat /\ k \in Nat
          /\ q[i].name \in Nat /\ q[j].name \in Nat /\ q[k].name \in Nat
      BY <1>1
    <3>2. /\ q[i].name < q[j].name \/ (q[i].name = q[j].name /\ i <= j)
          /\ q[j].name < q[k].name \/ (q[j].name = q[k].name /\ j <= k)
      BY <1>4, <2>2
    <3>3. q[i].name < q[k].name \/ (q[i].name = q[k].name /\ i <= k)
      BY <3>1, <3>2
    <3> QED
      BY <1>4, <3>3
  <2> QED
    BY <2>1, <2>2 DEF IsOrder
<1> QED
  BY <1>1, <1>2, <1>3, <1>4, <1>5, <1>6

\* Two queries have the same parameters, in the same order for each name.
Matches(q, r, f) ==
  /\ f \in Bijection(S!Stripped(q), S!Stripped(r))
  /\ \A i \in S!Stripped(q) : r[f[i]] = q[i]
  /\ \A i, j \in S!Stripped(q) :
       <<i, j>> \in S!ByName(q, S!Stripped(q)) <=> <<f[i], f[j]>> \in S!ByName(r, S!Stripped(r))

\* Sequences taken from two queries at places that a map matches are the same.
LEMMA SameAtPlaces ==
  ASSUME NEW q, NEW A, NEW R, IsFiniteSet(A), IsOrder(R, A),
         NEW r, NEW B, NEW Q, IsFiniteSet(B), IsOrder(Q, B),
         NEW f \in Bijection(A, B), \A i \in A : r[f[i]] = q[i],
         \A i, j \in A : <<i, j>> \in R <=> <<f[i], f[j]>> \in Q
  PROVE  S!AtPlaces(q, A, R) = S!AtPlaces(r, B, Q)
<1>1. /\ Cardinality(A) = Cardinality(B)
      /\ \A k \in 1..Cardinality(A) : S!InOrder(B, Q)[k] = f[S!InOrder(A, R)[k]]
  BY OrderKept
<1>2. /\ DOMAIN S!InOrder(A, R) = 1..Cardinality(A)
      /\ \A k \in 1..Cardinality(A) : S!InOrder(A, R)[k] \in A
  BY InOrderOf
<1>3. DOMAIN S!InOrder(B, Q) = 1..Cardinality(B)
  BY InOrderOf
<1>4. \A k \in 1..Cardinality(A) : r[S!InOrder(B, Q)[k]] = q[S!InOrder(A, R)[k]]
  BY <1>1, <1>2
<1> QED
  BY <1>1, <1>2, <1>3, <1>4 DEF S!AtPlaces

\* Places at which two queries have the same sequence are matched by a map.
LEMMA PlacesMatch ==
  ASSUME NEW q, NEW A, NEW R, IsFiniteSet(A), IsOrder(R, A),
         NEW r, NEW B, NEW Q, IsFiniteSet(B), IsOrder(Q, B),
         S!AtPlaces(q, A, R) = S!AtPlaces(r, B, Q)
  PROVE  /\ PlaceMap(A, R, B, Q) \in Bijection(A, B)
         /\ \A i \in A : r[PlaceMap(A, R, B, Q)[i]] = q[i]
         /\ \A i, j \in A : <<i, j>> \in R <=>
              <<PlaceMap(A, R, B, Q)[i], PlaceMap(A, R, B, Q)[j]>> \in Q
<1> DEFINE f == PlaceMap(A, R, B, Q)
<1>1. /\ DOMAIN S!InOrder(A, R) = 1..Cardinality(A)
      /\ \A x \in A : Rank(A, R, x) \in 1..Cardinality(A) /\ S!InOrder(A, R)[Rank(A, R, x)] = x
      /\ Cardinality(A) \in Nat
  BY InOrderOf, RanksDiffer
<1>2. DOMAIN S!InOrder(B, Q) = 1..Cardinality(B) /\ Cardinality(B) \in Nat
  BY InOrderOf, RanksDiffer
<1>3. /\ S!AtPlaces(q, A, R) = [k \in DOMAIN S!InOrder(A, R) |-> q[S!InOrder(A, R)[k]]]
      /\ S!AtPlaces(r, B, Q) = [k \in DOMAIN S!InOrder(B, Q) |-> r[S!InOrder(B, Q)[k]]]
  BY DEF S!AtPlaces
<1>4. 1..Cardinality(A) = 1..Cardinality(B)
  BY <1>1, <1>2, <1>3
<1>5. Cardinality(A) = Cardinality(B)
  <2> DEFINE n == Cardinality(A)
             m == Cardinality(B)
  <2>1. n \in Nat /\ m \in Nat /\ 1..n = 1..m
    BY <1>1, <1>2, <1>4
  <2> HIDE DEF n, m
  <2>2. n = m
    <3>1. n <= m
      <4> SUFFICES ASSUME n > m PROVE FALSE
        BY <2>1
      <4>1. n \in 1..n /\ n \notin 1..m
        BY <2>1
      <4> QED
        BY <2>1, <4>1
    <3>2. m <= n
      <4> SUFFICES ASSUME m > n PROVE FALSE
        BY <2>1
      <4>1. m \in 1..m /\ m \notin 1..n
        BY <2>1
      <4> QED
        BY <2>1, <4>1
    <3> QED
      BY <2>1, <3>1, <3>2
  <2> QED
    BY <2>2 DEF n, m
<1>6. ASSUME NEW k \in 1..Cardinality(A)
      PROVE  r[S!InOrder(B, Q)[k]] = q[S!InOrder(A, R)[k]]
  <2>1. S!AtPlaces(q, A, R)[k] = q[S!InOrder(A, R)[k]]
    BY <1>1, <1>3
  <2>2. S!AtPlaces(r, B, Q)[k] = r[S!InOrder(B, Q)[k]]
    BY <1>2, <1>3, <1>5
  <2> QED
    BY <2>1, <2>2
<1>7. ASSUME NEW i \in A PROVE r[f[i]] = q[i]
  <2>1. Rank(A, R, i) \in 1..Cardinality(A) /\ S!InOrder(A, R)[Rank(A, R, i)] = i
    BY <1>1
  <2>2. f[i] = S!InOrder(B, Q)[Rank(A, R, i)]
    BY DEF PlaceMap
  <2> QED
    BY <1>6, <2>1, <2>2
<1>8. /\ f \in Bijection(A, B)
      /\ \A i, j \in A : <<i, j>> \in R <=> <<f[i], f[j]>> \in Q
  BY <1>5, PlacesKept
<1> QED
  BY <1>7, <1>8

\* The places of a query that are kept, and those of one name, are some of its places.
LEMMA KeptPlaces ==
  ASSUME NEW q \in Queries
  PROVE  /\ S!Stripped(q) \subseteq DOMAIN q
         /\ \A n : With(q, n) \subseteq DOMAIN q
         /\ \A n : n # S!Tracking => With(q, n) \subseteq S!Stripped(q)
         /\ \A i \in S!Stripped(q) : q[i].name # S!Tracking /\ i \in With(q, q[i].name)
         /\ \A n : S!Named(q, n) = S!AtPlaces(q, With(q, n), S!Upwards(With(q, n)))
BY DEF S!Stripped, With, S!Named, S!Filtered

\* Canonical queries are the same when the parameters that are kept match.
LEMMA CanonicalIsMatch ==
  ASSUME NEW q \in Queries, NEW r \in Queries
  PROVE  S!CanonicalQuery(q) = S!CanonicalQuery(r) <=> \E f : Matches(q, r, f)
<1> DEFINE A == S!Stripped(q)
           B == S!Stripped(r)
           R == S!ByName(q, A)
           Q == S!ByName(r, B)
<1>1. IsFiniteSet(A) /\ IsOrder(R, A) /\ IsFiniteSet(B) /\ IsOrder(Q, B)
  BY KeptPlaces, PlacesOrdered
<1>2. S!CanonicalQuery(q) = S!AtPlaces(q, A, R) /\ S!CanonicalQuery(r) = S!AtPlaces(r, B, Q)
  BY DEF S!CanonicalQuery
<1>3. \A f : Matches(q, r, f) <=>
        /\ f \in Bijection(A, B) /\ \A i \in A : r[f[i]] = q[i]
        /\ \A i, j \in A : <<i, j>> \in R <=> <<f[i], f[j]>> \in Q
  BY DEF Matches
<1> HIDE DEF A, B, R, Q
<1>4. ASSUME S!CanonicalQuery(q) = S!CanonicalQuery(r)
      PROVE  \E f : Matches(q, r, f)
  <2> DEFINE f == PlaceMap(A, R, B, Q)
  <2>1. S!AtPlaces(q, A, R) = S!AtPlaces(r, B, Q)
    BY <1>2, <1>4
  <2>2. /\ f \in Bijection(A, B) /\ \A i \in A : r[f[i]] = q[i]
        /\ \A i, j \in A : <<i, j>> \in R <=> <<f[i], f[j]>> \in Q
    BY <1>1, <2>1, PlacesMatch
  <2> HIDE DEF f
  <2> QED
    BY <1>3, <2>2
<1>5. ASSUME NEW f, Matches(q, r, f)
      PROVE  S!CanonicalQuery(q) = S!CanonicalQuery(r)
  <2>1. /\ f \in Bijection(A, B) /\ \A i \in A : r[f[i]] = q[i]
        /\ \A i, j \in A : <<i, j>> \in R <=> <<f[i], f[j]>> \in Q
    BY <1>3, <1>5
  <2>2. S!AtPlaces(q, A, R) = S!AtPlaces(r, B, Q)
    BY <1>1, <2>1, SameAtPlaces
  <2> QED
    BY <1>2, <2>2
<1> QED
  BY <1>4, <1>5

\* The names of a query are those of its places.
LEMMA NamesOf ==
  ASSUME NEW q \in Queries, NEW n
  PROVE  n \in {p.name : p \in S!ToSet(q)} <=> With(q, n) # {}
BY DEF S!ToSet, With

\* Parameters that match are the same for each name.
LEMMA MatchIsSameQuery ==
  ASSUME NEW q \in Queries, NEW r \in Queries, NEW f, Matches(q, r, f)
  PROVE  S!SameQuery(q, r)
<1> SUFFICES ASSUME NEW n, n # S!Tracking PROVE S!Named(q, n) = S!Named(r, n)
  BY DEF S!SameQuery
<1> DEFINE A == With(q, n)
           B == With(r, n)
           g == [i \in A |-> f[i]]
<1>1. /\ A \subseteq S!Stripped(q) /\ B \subseteq S!Stripped(r)
      /\ S!Stripped(q) \subseteq DOMAIN q /\ S!Stripped(r) \subseteq DOMAIN r
      /\ S!Named(q, n) = S!AtPlaces(q, A, S!Upwards(A))
      /\ S!Named(r, n) = S!AtPlaces(r, B, S!Upwards(B))
  BY KeptPlaces
<1>2. /\ IsFiniteSet(A) /\ IsOrder(S!Upwards(A), A)
      /\ IsFiniteSet(B) /\ IsOrder(S!Upwards(B), B)
  BY <1>1, PlacesOrdered
<1>3. /\ f \in [S!Stripped(q) -> S!Stripped(r)]
      /\ \A i, j \in S!Stripped(q) : f[i] = f[j] => i = j
      /\ \A j \in S!Stripped(r) : \E i \in S!Stripped(q) : f[i] = j
      /\ \A i \in S!Stripped(q) : r[f[i]] = q[i]
  BY DEF Matches, Bijection, Injection, Surjection, IsInjective
<1>4. \A i \in S!Stripped(q) : f[i] \in B <=> i \in A
  BY <1>1, <1>3 DEF With
<1>5. g \in Injection(A, B)
  <2>1. g \in [A -> B]
    BY <1>1, <1>4
  <2>2. \A i, j \in A : g[i] = g[j] => i = j
    BY <1>1, <1>3
  <2> QED
    BY <2>1, <2>2 DEF Injection, IsInjective
<1>6. g \in Surjection(A, B)
  <2>1. g \in [A -> B]
    BY <1>1, <1>4
  <2>2. \A j \in B : \E i \in A : g[i] = j
    BY <1>1, <1>3, <1>4
  <2> QED
    BY <2>1, <2>2 DEF Surjection
<1>7. \A i \in A : r[g[i]] = q[i]
  BY <1>1, <1>3
<1>8. ASSUME NEW i \in A, NEW j \in A
      PROVE  <<i, j>> \in S!Upwards(A) <=> <<g[i], g[j]>> \in S!Upwards(B)
  <2>1. i \in S!Stripped(q) /\ j \in S!Stripped(q) /\ f[i] \in B /\ f[j] \in B
    BY <1>1, <1>4
  <2>2. /\ <<i, j>> \in S!Upwards(A) <=> i <= j
        /\ <<f[i], f[j]>> \in S!Upwards(B) <=> f[i] <= f[j]
        /\ i \in Nat /\ j \in Nat /\ f[i] \in Nat /\ f[j] \in Nat
    BY <1>1, <2>1, PlacesOrdered
  <2>3. /\ <<i, j>> \in S!ByName(q, S!Stripped(q)) <=>
             q[i].name < q[j].name \/ (q[i].name = q[j].name /\ i <= j)
        /\ <<f[i], f[j]>> \in S!ByName(r, S!Stripped(r)) <=>
             r[f[i]].name < r[f[j]].name \/ (r[f[i]].name = r[f[j]].name /\ f[i] <= f[j])
    BY <1>1, <2>1, PlacesOrdered
  <2>4. q[i].name = n /\ q[j].name = n /\ r[f[i]].name = n /\ r[f[j]].name = n
    BY <2>1 DEF With
  <2>5. n \in Nat
    <3>1. q[i] \in Parameter
      BY <1>1, <2>1 DEF Queries
    <3> QED
      BY <2>4, <3>1 DEF Parameter
  <2>6. <<i, j>> \in S!ByName(q, S!Stripped(q)) <=> <<f[i], f[j]>> \in S!ByName(r, S!Stripped(r))
    BY <2>1 DEF Matches
  <2>7. i <= j <=> f[i] <= f[j]
    BY <2>3, <2>4, <2>5, <2>6
  <2> QED
    BY <2>2, <2>7
<1> HIDE DEF A, B, g
<1>9. g \in Bijection(A, B)
  BY <1>5, <1>6 DEF Bijection
<1> QED
  BY <1>1, <1>2, <1>7, <1>8, <1>9, SameAtPlaces

\* Parameters that are the same for each name match.
LEMMA SameQueryIsMatch ==
  ASSUME NEW q \in Queries, NEW r \in Queries, S!SameQuery(q, r)
  PROVE  \E f : Matches(q, r, f)
<1> DEFINE A == S!Stripped(q)
           B == S!Stripped(r)
           G(n) == PlaceMap(With(q, n), S!Upwards(With(q, n)), With(r, n), S!Upwards(With(r, n)))
           f == [i \in A |-> G(q[i].name)[i]]
<1>1. ASSUME NEW n, n # S!Tracking, With(q, n) # {} \/ With(r, n) # {}
      PROVE  /\ With(q, n) \subseteq A /\ With(r, n) \subseteq B
             /\ G(n) \in Bijection(With(q, n), With(r, n))
             /\ \A i \in With(q, n) : r[G(n)[i]] = q[i]
             /\ \A i, j \in With(q, n) : i <= j <=> G(n)[i] <= G(n)[j]
  <2>1. S!Named(q, n) = S!Named(r, n)
    BY <1>1, NamesOf DEF S!SameQuery
  <2>2. /\ With(q, n) \in SUBSET DOMAIN q /\ With(r, n) \in SUBSET DOMAIN r
        /\ With(q, n) \subseteq A /\ With(r, n) \subseteq B
        /\ S!Named(q, n) = S!AtPlaces(q, With(q, n), S!Upwards(With(q, n)))
        /\ S!Named(r, n) = S!AtPlaces(r, With(r, n), S!Upwards(With(r, n)))
    BY <1>1, KeptPlaces
  <2>3. /\ IsFiniteSet(With(q, n)) /\ IsOrder(S!Upwards(With(q, n)), With(q, n))
        /\ IsFiniteSet(With(r, n)) /\ IsOrder(S!Upwards(With(r, n)), With(r, n))
        /\ \A i, j \in With(q, n) : <<i, j>> \in S!Upwards(With(q, n)) <=> i <= j
        /\ \A i, j \in With(r, n) : <<i, j>> \in S!Upwards(With(r, n)) <=> i <= j
    BY <2>2, PlacesOrdered
  <2> DEFINE g == G(n)
  <2>4. S!AtPlaces(q, With(q, n), S!Upwards(With(q, n)))
          = S!AtPlaces(r, With(r, n), S!Upwards(With(r, n)))
    BY <2>1, <2>2
  <2>5. /\ g \in Bijection(With(q, n), With(r, n))
        /\ \A i \in With(q, n) : r[g[i]] = q[i]
        /\ \A i, j \in With(q, n) : <<i, j>> \in S!Upwards(With(q, n)) <=>
             <<g[i], g[j]>> \in S!Upwards(With(r, n))
    BY <2>4, <2>3, PlacesMatch
  <2> HIDE DEF g
  <2>6. \A i \in With(q, n) : g[i] \in With(r, n)
    BY <2>5 DEF Bijection, Injection
  <2>7. \A i, j \in With(q, n) : i <= j <=> g[i] <= g[j]
    BY <2>3, <2>5, <2>6
  <2> QED
    BY <2>2, <2>5, <2>7 DEF g
<1> HIDE DEF G
<1>2. ASSUME NEW i \in A
      PROVE  /\ i \in With(q, q[i].name) /\ q[i].name # S!Tracking
             /\ f[i] = G(q[i].name)[i] /\ f[i] \in With(r, q[i].name) /\ f[i] \in B
             /\ r[f[i]] = q[i]
  <2>1. i \in With(q, q[i].name) /\ q[i].name # S!Tracking
    BY KeptPlaces
  <2> DEFINE n == q[i].name
  <2>2. /\ With(r, n) \subseteq B /\ G(n) \in [With(q, n) -> With(r, n)]
        /\ r[G(n)[i]] = q[i]
    BY <1>1, <2>1 DEF Bijection, Injection
  <2> QED
    BY <2>1, <2>2
<1>3. f \in Injection(A, B)
  <2>1. f \in [A -> B]
    BY <1>2
  <2>2. ASSUME NEW i \in A, NEW j \in A, f[i] = f[j] PROVE i = j
    <3> DEFINE n == q[i].name
    <3>1. q[j].name = n
      BY <1>2, <2>2
    <3>2. G(n) \in Injection(With(q, n), With(r, n))
      BY <1>1, <1>2 DEF Bijection
    <3>3. i \in With(q, n) /\ j \in With(q, n) /\ G(n)[i] = G(n)[j]
      BY <1>2, <2>2, <3>1
    <3> QED
      BY <3>2, <3>3 DEF Injection, IsInjective
  <2> QED
    BY <2>1, <2>2 DEF Injection, IsInjective
<1>4. f \in Surjection(A, B)
  <2>1. f \in [A -> B]
    BY <1>2
  <2>2. ASSUME NEW j \in B PROVE \E i \in A : f[i] = j
    <3> DEFINE n == r[j].name
    <3>1. j \in With(r, n) /\ n # S!Tracking
      BY KeptPlaces
    <3>2. With(q, n) \subseteq A /\ G(n) \in Surjection(With(q, n), With(r, n))
      BY <1>1, <3>1 DEF Bijection
    <3>3. PICK i \in With(q, n) : G(n)[i] = j
      BY <3>1, <3>2 DEF Surjection
    <3>4. i \in A /\ q[i].name = n
      BY <3>2 DEF With
    <3> QED
      BY <1>2, <3>3, <3>4
  <2> QED
    BY <2>1, <2>2 DEF Surjection
<1>5. ASSUME NEW i \in A, NEW j \in A
      PROVE  <<i, j>> \in S!ByName(q, A) <=> <<f[i], f[j]>> \in S!ByName(r, B)
  <2>1. /\ f[i] \in B /\ f[j] \in B /\ r[f[i]] = q[i] /\ r[f[j]] = q[j]
    BY <1>2
  <2>2. /\ A \in SUBSET DOMAIN q /\ B \in SUBSET DOMAIN r
    BY KeptPlaces
  <2>3. /\ <<i, j>> \in S!ByName(q, A) <=>
             q[i].name < q[j].name \/ (q[i].name = q[j].name /\ i <= j)
        /\ <<f[i], f[j]>> \in S!ByName(r, B) <=>
             r[f[i]].name < r[f[j]].name \/ (r[f[i]].name = r[f[j]].name /\ f[i] <= f[j])
    BY <2>1, <2>2, PlacesOrdered
  <2>4. q[i].name = q[j].name => (i <= j <=> f[i] <= f[j])
    <3> SUFFICES ASSUME q[i].name = q[j].name PROVE i <= j <=> f[i] <= f[j]
      OBVIOUS
    <3>1. i \in With(q, q[i].name) /\ j \in With(q, q[i].name) /\ q[i].name # S!Tracking
      BY <1>2
    <3>2. f[i] = G(q[i].name)[i] /\ f[j] = G(q[i].name)[j]
      BY <1>2
    <3> QED
      BY <1>1, <3>1, <3>2
  <2> QED
    BY <2>1, <2>3, <2>4
<1> HIDE DEF f
<1>6. Matches(q, r, f)
  BY <1>2, <1>3, <1>4, <1>5 DEF Matches, Bijection
<1> QED
  BY <1>6

\* A canonical query is a query.
LEMMA CanonicalQueryTyped == \A q \in Queries : S!CanonicalQuery(q) \in Queries
<1> SUFFICES ASSUME NEW q \in Queries PROVE S!CanonicalQuery(q) \in Queries
  OBVIOUS
<1> DEFINE A == S!Stripped(q)
           R == S!ByName(q, A)
           o == S!InOrder(A, R)
<1>1. A \in SUBSET DOMAIN q /\ IsFiniteSet(A) /\ IsOrder(R, A)
  BY KeptPlaces, PlacesOrdered
<1>2. Cardinality(A) \in Nat /\ DOMAIN o = 1..Cardinality(A) /\ \A k \in DOMAIN o : o[k] \in A
  BY <1>1, FS_CardinalityType, InOrderOf
<1>3. S!CanonicalQuery(q) = [k \in DOMAIN o |-> q[o[k]]]
  BY DEF S!CanonicalQuery, S!AtPlaces
<1>4. \A i \in DOMAIN q : q[i] \in Parameter
  BY DEF Queries
<1> HIDE DEF A, R, o
<1>5. S!CanonicalQuery(q) \in [1..Cardinality(A) -> Parameter]
  BY <1>1, <1>2, <1>3, <1>4
<1> QED
  BY <1>2, <1>5 DEF Queries

\* Of an address with no more slashes than are stripped, one is left at the root, and
\* none elsewhere.
LEMMA SlashesByPath ==
  ASSUME NEW u, S!Parsed(u), u.slashes <= 1
  PROVE  S!SlashesLeft(u) = IF u.path = S!Root THEN 1 ELSE 0
BY DEF S!Parsed, S!SlashesLeft

\* canonicalizeUrl makes one address of two exactly when they are of one page, at whatever
\* ports, and it leaves as many slashes of the one as of the other.
LEMMA OneAddressPerPage ==
  ASSUME NEW u, S!Parsed(u), NEW v, S!Parsed(v)
  PROVE  S!Canonical(u) = S!Canonical(v) <=>
           S!SamePageAtSomePort(u, v) /\ S!SlashesLeft(u) = S!SlashesLeft(v)
<1>1. u.query \in Queries /\ v.query \in Queries
  BY DEF S!Parsed, Queries, Parameter
<1>2. S!CanonicalQuery(u.query) = S!CanonicalQuery(v.query) <=> S!SameQuery(u.query, v.query)
  BY <1>1, CanonicalIsMatch, MatchIsSameQuery, SameQueryIsMatch
<1>3. S!Canonical(u) = S!Canonical(v) <=>
        /\ S!WithoutWww(u.host) = S!WithoutWww(v.host) /\ u.path = v.path
        /\ S!SlashesLeft(u) = S!SlashesLeft(v)
        /\ S!CanonicalQuery(u.query) = S!CanonicalQuery(v.query)
  BY DEF S!Canonical
<1> QED
  BY <1>2, <1>3 DEF S!SamePageAtSomePort

\* What canonicalizeUrl makes of an address is one.
LEMMA CanonicalIsParsed ==
  ASSUME NEW u, S!Parsed(u)
  PROVE  S!Parsed(S!Canonical(u))
<1> DEFINE c == S!Canonical(u)
<1>1. u.query \in Queries
  BY DEF S!Parsed, Queries, Parameter
<1>2. /\ c.port = 0 /\ c.path = u.path /\ c.slashes = S!SlashesLeft(u)
      /\ c.query = S!CanonicalQuery(u.query)
  BY DEF S!Canonical
<1>3. c.query \in Queries
  BY <1>1, <1>2, CanonicalQueryTyped
<1>4. S!SlashesLeft(u) \in Nat /\ (u.path = S!Root => S!SlashesLeft(u) >= 1)
  BY DEF S!Parsed, S!SlashesLeft
<1> HIDE DEF c
<1>5. S!Parsed(c)
  BY <1>2, <1>3, <1>4 DEF S!Parsed, Queries, Parameter
<1> QED
  BY <1>5 DEF c

-----------------------------------------------------------------------------
(* The suppliers: the submissions stored.                                   *)

Clients == Suppliers \cup {OtherClient}

\* A submission is stored under the canonical address of what was sent.
RowOf(r) == r.by \in Clients /\ S!Parsed(r.sent) /\ r.canonical = S!Canonical(r.sent)

RowsInv ==
  /\ status \in [S!Gaps -> S!Accepting \cup {"expired", "settled"}]
  /\ listed = [g \in S!Gaps |-> listed[g]]
  /\ \A g \in S!Gaps : IsFiniteSet(listed[g]) /\ \A r \in listed[g] : RowOf(r)
  /\ \A g \in S!Gaps : \A q, r \in listed[g] : q.canonical = r.canonical => q = r
  /\ merged # <<>> => S!SamePageAtSomePort(merged[1], merged[2])

RowSet(s) == UNION {{g} \X {r \in listed[g] : r.by = s} : g \in S!Gaps}

\* The submissions of a supplier, in all gaps, are finitely many.
LEMMA RowSetOf ==
  ASSUME RowsInv, NEW s
  PROVE  /\ IsFiniteSet(RowSet(s)) /\ S!RowsBy(s) = Cardinality(RowSet(s)) /\ S!RowsBy(s) \in Nat
         /\ \A p : p \in RowSet(s) <=>
              \E g \in S!Gaps : \E r \in listed[g] : r.by = s /\ p = <<g, r>>
<1> DEFINE Of(g) == {g} \X {r \in listed[g] : r.by = s}
           f == [g \in S!Gaps |-> Of(g)]
           T == {Of(g) : g \in S!Gaps}
<1>1. IsFiniteSet(S!Gaps)
  <2>1. MaxGap \in Nat
    BY AgentsAssumption DEF S!SupplierAssumption
  <2> QED
    BY <2>1, FS_Interval DEF S!Gaps
<1>2. \A g \in S!Gaps : IsFiniteSet(Of(g))
  <2> SUFFICES ASSUME NEW g \in S!Gaps PROVE IsFiniteSet(Of(g))
    OBVIOUS
  <2>1. IsFiniteSet({r \in listed[g] : r.by = s})
    BY FS_Subset DEF RowsInv
  <2> QED
    BY <2>1, FS_Singleton, FS_Product
<1>3. IsFiniteSet(T)
  <2>1. f \in Surjection(S!Gaps, T)
    BY DEF Surjection
  <2> QED
    BY <1>1, <2>1, FS_Surjection
<1>4. IsFiniteSet(UNION T)
  BY <1>2, <1>3, FS_UNION
<1>5. RowSet(s) = UNION T
  BY DEF RowSet
<1>6. S!RowsBy(s) = Cardinality(RowSet(s))
  BY DEF S!RowsBy, RowSet, S!Cardinality, Cardinality
<1>7. \A p : p \in RowSet(s) <=> \E g \in S!Gaps : \E r \in listed[g] : r.by = s /\ p = <<g, r>>
  BY DEF RowSet
<1> QED
  BY <1>4, <1>5, <1>6, <1>7, FS_CardinalityType

\* As long as the submissions stay, so do the counts.
LEMMA RowsKept ==
  ASSUME listed' = listed, NEW s
  PROVE  S!RowsBy(s)' = S!RowsBy(s)
BY DEF S!RowsBy, S!Gaps

\* A submission is stored unless its page has one, which is then the answer.
LEMMA SubmissionStep ==
  ASSUME RowsInv, NEW g \in S!Gaps, NEW u, S!Parsed(u), NEW by \in Clients,
         S!SubmitEvidence(g, u, by)
  PROVE  /\ RowsInv'
         /\ \A s : S!RowsBy(s)' =
              S!RowsBy(s) + IF by = s /\ ~S!IsDuplicate(g, S!Canonical(u)) THEN 1 ELSE 0
<1> DEFINE page == S!Canonical(u)
           row == [canonical |-> page, sent |-> u, by |-> by]
<1>1. CASE S!IsDuplicate(g, page)
  <2>1. PICK r \in S!Stored(g, page) : merged' = <<u, r.sent>>
    BY <1>1 DEF S!SubmitEvidence
  <2>2. listed' = listed /\ status' = status
    BY <1>1 DEF S!SubmitEvidence
  <2>3. r \in listed[g] /\ r.canonical = page
    BY <2>1 DEF S!Stored
  <2>4. RowOf(r)
    BY <2>3 DEF RowsInv
  <2>5. S!SamePageAtSomePort(u, r.sent)
    BY <2>3, <2>4, OneAddressPerPage DEF RowOf
  <2>6. merged'[1] = u /\ merged'[2] = r.sent
    BY <2>1
  <2> HIDE DEF page
  <2>7. S!SamePageAtSomePort(merged'[1], merged'[2])
    BY <2>5, <2>6
  <2>8. RowsInv'
    BY <2>2, <2>7 DEF RowsInv, RowOf, Clients, S!Gaps, S!Accepting, S!SamePageAtSomePort,
       S!SameQuery, S!Parsed
  <2>9. \A s : S!RowsBy(s) \in Nat /\ S!RowsBy(s)' = S!RowsBy(s)
    BY <2>2, RowsKept, RowSetOf
  <2> QED
    BY <1>1, <2>8, <2>9 DEF page
<1>2. CASE ~S!IsDuplicate(g, page)
  <2>1. /\ listed' = [listed EXCEPT ![g] = @ \cup {row}]
        /\ status' = [status EXCEPT ![g] = "submissions"] /\ merged' = merged
    BY <1>2 DEF S!SubmitEvidence
  <2>2. row.canonical = page /\ row.sent = u /\ row.by = by
    OBVIOUS
  <2>3. \A r \in listed[g] : r.canonical # page
    BY <1>2 DEF S!IsDuplicate, S!Stored
  <2>4. RowOf(row)
    BY <2>2 DEF RowOf
  <2> HIDE DEF row, page
  <2>5. \A h \in S!Gaps : listed'[h] = IF h = g THEN listed[g] \cup {row} ELSE listed[h]
    BY <2>1 DEF RowsInv
  <2>6. RowsInv'
    <3>1. status' \in [S!Gaps -> S!Accepting \cup {"expired", "settled"}]
      BY <2>1 DEF RowsInv, S!Accepting
    <3>2. listed' = [h \in S!Gaps |-> listed'[h]]
      BY <2>1 DEF RowsInv
    <3>3. \A h \in S!Gaps : IsFiniteSet(listed'[h]) /\ \A r \in listed'[h] : RowOf(r)
      BY <2>4, <2>5, FS_AddElement DEF RowsInv
    <3>4. \A h \in S!Gaps : \A q, r \in listed'[h] : q.canonical = r.canonical => q = r
      BY <2>2, <2>3, <2>5 DEF RowsInv
    <3>5. merged' # <<>> => S!SamePageAtSomePort(merged'[1], merged'[2])
      BY <2>1 DEF RowsInv
    <3> QED
      BY <3>1, <3>2, <3>3, <3>4, <3>5 DEF RowsInv, RowOf, Clients, S!Gaps, S!Accepting,
         S!SamePageAtSomePort, S!SameQuery, S!Parsed
  <2>7. ASSUME NEW s PROVE S!RowsBy(s)' = S!RowsBy(s) + IF by = s THEN 1 ELSE 0
    <3>1. S!RowsBy(s)' = Cardinality(RowSet(s)')
      BY DEF S!RowsBy, RowSet, S!Cardinality, Cardinality, S!Gaps
    <3>2. RowSet(s)' = UNION {{h} \X {r \in listed'[h] : r.by = s} : h \in S!Gaps}
      BY DEF RowSet, S!Gaps
    <3>3. \A p : p \in RowSet(s)' <=>
             \E h \in S!Gaps : \E r \in listed'[h] : r.by = s /\ p = <<h, r>>
      BY <3>2
    <3>4. /\ IsFiniteSet(RowSet(s)) /\ S!RowsBy(s) = Cardinality(RowSet(s))
          /\ S!RowsBy(s) \in Nat
      BY RowSetOf
    <3>5. \A p : p \in RowSet(s) <=>
             \E h \in S!Gaps : \E r \in listed[h] : r.by = s /\ p = <<h, r>>
      BY RowSetOf
    <3>6. \A p : p \in RowSet(s)' <=> p \in RowSet(s) \/ (by = s /\ p = <<g, row>>)
      BY <2>2, <2>5, <3>3, <3>5
    <3>7. <<g, row>> \notin RowSet(s)
      BY <2>2, <2>3, <3>5
    <3>8. CASE by = s
      <4>1. RowSet(s)' = RowSet(s) \cup {<<g, row>>}
        BY <3>6, <3>8
      <4> QED
        BY <3>1, <3>4, <3>7, <3>8, <4>1, FS_AddElement
    <3>9. CASE by # s
      <4>1. RowSet(s)' = RowSet(s)
        BY <3>6, <3>9
      <4> QED
        BY <3>1, <3>4, <3>9, <4>1
    <3> QED
      BY <3>8, <3>9
  <2> QED
    BY <1>2, <2>6, <2>7 DEF page
<1> QED
  BY <1>1, <1>2

-----------------------------------------------------------------------------
(* The suppliers: what they know and count.                                 *)

\* What is taken from a sequence is a sequence of the same things.
LEMMA FilteredTyped ==
  ASSUME NEW E, NEW q \in Seq(E), NEW A \in SUBSET DOMAIN q
  PROVE  S!Filtered(q, A) \in Seq(E)
<1> DEFINE R == S!Upwards(A)
           o == S!InOrder(A, R)
<1>1. Len(q) \in Nat /\ DOMAIN q = 1..Len(q) /\ \A i \in DOMAIN q : q[i] \in E
  OBVIOUS
<1>2. IsFiniteSet(A) /\ \A i \in A : i \in Nat
  <2>1. IsFiniteSet(1..Len(q))
    BY <1>1, FS_Interval
  <2> QED
    BY <1>1, <2>1, FS_Subset
<1>3. IsOrder(R, A)
  BY <1>2 DEF S!Upwards, IsOrder
<1>4. Cardinality(A) \in Nat /\ DOMAIN o = 1..Cardinality(A) /\ \A k \in DOMAIN o : o[k] \in A
  BY <1>2, <1>3, FS_CardinalityType, InOrderOf
<1>5. S!Filtered(q, A) = [k \in DOMAIN o |-> q[o[k]]]
  BY DEF S!Filtered, S!AtPlaces
<1> HIDE DEF R, o
<1>6. S!Filtered(q, A) \in [1..Cardinality(A) -> E]
  BY <1>1, <1>4, <1>5
<1> QED
  BY <1>4, <1>6

View == [gap : S!Gaps, status : S!Listed]
Offers == UNION {S!ToSet(Found[s]) : s \in Suppliers}

AgentStates ==
  [pc : {"idle", "live", "next", "submit"}, queue : Seq(View), todo : Seq(Offers),
   before : Nat, submitted : Nat, skipped : Nat]

AgentsTyped ==
  /\ agents \in [Suppliers -> AgentStates]
  /\ \A s \in Suppliers : agents[s].pc = "submit" => agents[s].queue # <<>>

MarketTyped ==
  /\ time \in [S!Gaps -> {"long", "short", "over"}]
  /\ evaluating \in [S!Gaps -> S!Accepting \cup {"none", "expired", "settled"}]
  /\ failures \in 0..MaxFailures

SupplierInv == RowsInv /\ AgentsTyped /\ MarketTyped /\ S!CountsAreRows

\* A list is one of gaps with the status that was asked for.
LEMMA ListTyped ==
  ASSUME NEW wanted \in S!Listed
  PROVE  S!WithStatus(wanted) \in Seq(View)
<1> DEFINE q == [g \in S!Gaps |-> g]
           A == {g \in S!Gaps : S!Seen(g) = wanted}
           gs == S!Filtered(q, A)
<1>1. MaxGap \in Nat /\ S!Gaps = 1..MaxGap
  BY AgentsAssumption DEF S!SupplierAssumption, S!Gaps
<1>2. q \in Seq(S!Gaps) /\ A \in SUBSET DOMAIN q
  BY <1>1
<1>3. S!WithStatus(wanted) = [i \in DOMAIN gs |-> [gap |-> gs[i], status |-> wanted]]
  BY DEF S!WithStatus
<1> HIDE DEF q, A
<1>4. gs \in Seq(S!Gaps)
  BY <1>2, FilteredTyped
<1> HIDE DEF gs
<1>5. \A i \in DOMAIN gs : [gap |-> gs[i], status |-> wanted] \in View
  BY <1>4 DEF View
<1>6. Len(gs) \in Nat /\ DOMAIN gs = 1..Len(gs)
  BY <1>4
<1>7. S!WithStatus(wanted) \in [1..Len(gs) -> View]
  BY <1>3, <1>5, <1>6
<1> QED
  BY <1>6, <1>7

\* What a supplier goes through is among what it found.
LEMMA CandidatesTyped ==
  ASSUME NEW s \in Suppliers
  PROVE  S!Candidates(s) \in Seq(Offers)
<1> DEFINE A == {n \in DOMAIN Found[s] : S!Selects(KindOf[s], Found[s][n])}
<1>1. Found[s] \in Seq(S!ToSet(Found[s]))
  BY AgentsAssumption DEF S!SupplierAssumption
<1>2. S!ToSet(Found[s]) \subseteq Offers
  BY DEF Offers
<1>3. Found[s] \in Seq(Offers)
  BY <1>1, <1>2
<1>4. S!Candidates(s) = S!Filtered(Found[s], A)
  BY DEF S!Candidates
<1>5. A \in SUBSET DOMAIN Found[s]
  OBVIOUS
<1> HIDE DEF A
<1> QED
  BY <1>3, <1>4, <1>5, FilteredTyped

\* What is found has an address, or one that does not parse.
LEMMA OffersAreParsed == \A c \in Offers : S!Parsed(c.url)
BY AgentsAssumption DEF Offers, S!SupplierAssumption

\* As long as the submissions stay, a gap may change its status.
LEMMA RowsStay ==
  ASSUME RowsInv, UNCHANGED <<listed, merged>>,
         status' \in [S!Gaps -> S!Accepting \cup {"expired", "settled"}]
  PROVE  RowsInv'
BY DEF RowsInv, RowOf, Clients, S!Gaps, S!Accepting, S!SamePageAtSomePort, S!SameQuery, S!Parsed

\* One supplier goes on.
LEMMA AgentGoesOn ==
  ASSUME SupplierInv, RowsInv', MarketTyped',
         NEW s \in Suppliers, NEW x \in AgentStates, agents' = [agents EXCEPT ![s] = x],
         x.pc = "submit" => x.queue # <<>>,
         \A t \in Suppliers \ {s} : S!RowsBy(t)' = S!RowsBy(t),
         x.pc # "idle" => S!RowsBy(s)' = x.before + x.submitted
  PROVE  SupplierInv'
<1>1. agents'[s] = x /\ \A t \in Suppliers \ {s} : agents'[t] = agents[t]
  BY DEF SupplierInv, AgentsTyped
<1>2. AgentsTyped'
  <2>1. agents' \in [Suppliers -> AgentStates]
    BY DEF SupplierInv, AgentsTyped
  <2>2. \A t \in Suppliers : agents'[t].pc = "submit" => agents'[t].queue # <<>>
    BY <1>1 DEF SupplierInv, AgentsTyped
  <2> QED
    BY <2>1, <2>2 DEF AgentsTyped, AgentStates, View, S!Gaps, S!Listed
<1>3. \A t \in Suppliers :
        agents'[t].pc # "idle" => S!RowsBy(t)' = agents'[t].before + agents'[t].submitted
  BY <1>1 DEF SupplierInv, S!CountsAreRows
<1>4. S!CountsAreRows'
  BY <1>3 DEF S!CountsAreRows
<1> QED
  BY <1>2, <1>4 DEF SupplierInv

\* The gaps change, and no supplier does.
LEMMA GapsGoOn ==
  ASSUME SupplierInv, RowsInv', MarketTyped', UNCHANGED agents,
         \A t \in Suppliers : S!RowsBy(t)' = S!RowsBy(t)
  PROVE  SupplierInv'
<1>1. AgentsTyped'
  BY DEF SupplierInv, AgentsTyped, AgentStates, View, S!Gaps, S!Listed
<1>2. S!CountsAreRows'
  BY DEF SupplierInv, S!CountsAreRows
<1> QED
  BY <1>1, <1>2 DEF SupplierInv

\* At first nothing is submitted.
LEMMA SupplierInit == S!Init => SupplierInv
<1> SUFFICES ASSUME S!Init PROVE SupplierInv
  OBVIOUS
<1>1. RowsInv
  BY FS_EmptySet DEF S!Init, RowsInv, S!Accepting
<1>2. AgentsTyped
  <2>1. S!Idle \in AgentStates /\ S!Idle.pc = "idle"
    BY DEF S!Idle, AgentStates
  <2> QED
    BY <2>1 DEF S!Init, AgentsTyped
<1>3. MarketTyped
  BY AgentsAssumption DEF S!Init, MarketTyped, S!SupplierAssumption
<1>4. S!CountsAreRows
  BY DEF S!Init, S!CountsAreRows, S!Idle
<1> QED
  BY <1>1, <1>2, <1>3, <1>4 DEF SupplierInv

\* A gap that is seen keeps its status, or has expired.
LEMMA SeenTyped ==
  ASSUME RowsInv
  PROVE  \A g \in S!Gaps : S!Seen(g) \in S!Accepting \cup {"expired", "settled"}
BY DEF RowsInv, S!Seen, S!Accepting

\* A step of a supplier in which it submits nothing.
LEMMA QuietStep ==
  ASSUME SupplierInv, NEW s \in Suppliers, NEW x \in AgentStates,
         agents' = [agents EXCEPT ![s] = x], UNCHANGED <<listed, merged, time, evaluating>>,
         failures' \in 0..MaxFailures,
         status' \in [S!Gaps -> S!Accepting \cup {"expired", "settled"}],
         x.pc = "submit" => x.queue # <<>>,
         x.pc # "idle" => S!RowsBy(s) = x.before + x.submitted
  PROVE  SupplierInv'
<1>1. RowsInv'
  BY RowsStay DEF SupplierInv
<1>2. MarketTyped'
  BY DEF SupplierInv, MarketTyped, S!Gaps, S!Accepting
<1>3. \A t \in Suppliers : S!RowsBy(t)' = S!RowsBy(t)
  BY RowsKept
<1> QED
  BY <1>1, <1>2, <1>3, AgentGoesOn

\* A supplier asks for the gaps without a submission, and for those with.
LEMMA ListStep ==
  ASSUME SupplierInv, NEW s \in Suppliers, S!ListOpen(s) \/ S!ListLive(s)
  PROVE  SupplierInv'
<1>1. agents[s] \in AgentStates
  BY DEF SupplierInv, AgentsTyped
<1>2. status' \in [S!Gaps -> S!Accepting \cup {"expired", "settled"}]
  BY SeenTyped DEF S!ListOpen, S!ListLive, S!ListGaps, SupplierInv
<1>3. failures' \in 0..MaxFailures /\ UNCHANGED <<listed, merged, time, evaluating>>
  BY DEF S!ListOpen, S!ListLive, SupplierInv, MarketTyped
<1>4. CASE S!ListOpen(s)
  <2> DEFINE q == S!WithStatus("open")
             n == S!RowsBy(s)
             x == [S!Idle EXCEPT !.pc = "live", !.queue = q, !.before = n]
  <2>1. agents' = [agents EXCEPT ![s] = x]
    BY <1>4 DEF S!ListOpen
  <2>2. q \in Seq(View) /\ n \in Nat
    BY ListTyped, RowSetOf DEF S!Listed, SupplierInv
  <2> HIDE DEF q, n
  <2>3. x \in AgentStates /\ x.pc = "live" /\ x.before = n /\ x.submitted = 0
    <3>1. S!Idle \in AgentStates /\ S!Idle.submitted = 0
      BY DEF AgentStates, S!Idle
    <3> QED
      BY <2>2, <3>1 DEF AgentStates
  <2> HIDE DEF x
  <2>4. S!RowsBy(s) = x.before + x.submitted
    BY <2>2, <2>3 DEF n
  <2> QED
    BY <1>2, <1>3, <2>1, <2>3, <2>4, QuietStep
<1>5. CASE S!ListLive(s)
  <2> DEFINE q == agents[s].queue \o S!WithStatus("submissions")
             x == [agents[s] EXCEPT !.pc = "next", !.queue = q]
  <2>1. agents' = [agents EXCEPT ![s] = x] /\ agents[s].pc = "live"
    BY <1>1, <1>5 DEF S!ListLive, AgentStates, SupplierInv, AgentsTyped
  <2>2. q \in Seq(View)
    <3>1. S!WithStatus("submissions") \in Seq(View)
      BY ListTyped DEF S!Listed
    <3> QED
      BY <1>1, <3>1 DEF AgentStates
  <2> HIDE DEF q
  <2>3. /\ x \in AgentStates /\ x.pc = "next"
        /\ x.before = agents[s].before /\ x.submitted = agents[s].submitted
    BY <1>1, <2>2 DEF AgentStates
  <2>4. S!RowsBy(s) = x.before + x.submitted
    BY <2>1, <2>3 DEF SupplierInv, S!CountsAreRows
  <2> HIDE DEF x
  <2> QED
    BY <1>2, <1>3, <2>1, <2>3, <2>4, QuietStep
<1> QED
  BY <1>4, <1>5

\* A supplier goes to the next gap, or searches for one.
LEMMA QueueStep ==
  ASSUME SupplierInv, NEW s \in Suppliers, S!Skip(s) \/ S!Search(s) \/ S!NextGap(s)
  PROVE  SupplierInv'
<1>1. agents[s] \in AgentStates
  BY DEF SupplierInv, AgentsTyped
<1>2. /\ agents[s].pc # "idle" /\ agents[s].queue # <<>>
      /\ UNCHANGED <<listed, merged, time, evaluating, failures, status>>
  BY DEF S!Skip, S!Search, S!NextGap, S!gapVars, SupplierInv, AgentsTyped
<1>3. /\ Tail(agents[s].queue) \in Seq(View)
      /\ S!Candidates(s) \in Seq(Offers)
      /\ agents[s].skipped + 1 \in Nat
  BY <1>1, <1>2, CandidatesTyped DEF AgentStates
<1>4. PICK x \in {[agents[s] EXCEPT !.queue = Tail(agents[s].queue),
                                    !.skipped = agents[s].skipped + 1],
                  [agents[s] EXCEPT !.pc = "submit", !.todo = S!Candidates(s)],
                  [agents[s] EXCEPT !.pc = "next", !.queue = Tail(agents[s].queue)]} :
        agents' = [agents EXCEPT ![s] = x] /\ (x.pc = "submit" => x.queue = agents[s].queue)
  <2>1. CASE S!Skip(s)
    BY <1>1, <2>1 DEF S!Skip, AgentStates, SupplierInv, AgentsTyped
  <2>2. CASE S!Search(s)
    BY <1>1, <2>2 DEF S!Search, AgentStates, SupplierInv, AgentsTyped
  <2>3. CASE S!NextGap(s)
    BY <1>1, <2>3 DEF S!NextGap, AgentStates, SupplierInv, AgentsTyped
  <2> QED
    BY <2>1, <2>2, <2>3
<1>5. x \in AgentStates /\ x.before = agents[s].before /\ x.submitted = agents[s].submitted
  BY <1>1, <1>3, <1>4 DEF AgentStates
<1>6. S!RowsBy(s) = x.before + x.submitted
  BY <1>2, <1>5 DEF SupplierInv, S!CountsAreRows
<1>7. /\ failures' \in 0..MaxFailures
      /\ status' \in [S!Gaps -> S!Accepting \cup {"expired", "settled"}]
  BY <1>2 DEF SupplierInv, MarketTyped, RowsInv
<1> QED
  BY <1>2, <1>4, <1>5, <1>6, <1>7, QuietStep

\* A supplier is refused, fails or is done.
LEMMA RoundEndsStep ==
  ASSUME SupplierInv, NEW s \in Suppliers, S!Refused(s) \/ S!Fails(s) \/ S!Done(s)
  PROVE  SupplierInv'
<1>1. S!Idle \in AgentStates /\ S!Idle.pc = "idle"
  BY DEF S!Idle, AgentStates
<1>2. agents' = [agents EXCEPT ![s] = S!Idle] /\ UNCHANGED <<listed, merged, time, evaluating>>
  BY DEF S!Refused, S!Fails, S!Done, S!gapVars
<1>3. failures' \in 0..MaxFailures
  BY AgentsAssumption
  DEF S!Refused, S!Fails, S!Done, SupplierInv, MarketTyped, S!SupplierAssumption
<1>4. status' \in [S!Gaps -> S!Accepting \cup {"expired", "settled"}]
  <2>1. status \in [S!Gaps -> S!Accepting \cup {"expired", "settled"}]
    BY DEF SupplierInv, RowsInv
  <2>2. CASE S!Refused(s)
    <3> DEFINE g == Head(agents[s].queue).gap
    <3>1. agents[s] \in AgentStates /\ agents[s].queue # <<>>
      BY <2>2 DEF S!Refused, SupplierInv, AgentsTyped
    <3>2. Head(agents[s].queue) \in View
      BY <3>1 DEF AgentStates
    <3>3. g \in S!Gaps
      BY <3>2 DEF View
    <3>4. status' = status \/ status' = [status EXCEPT ![g] = S!Seen(g)]
      BY <2>2 DEF S!Refused
    <3> QED
      BY <2>1, <3>3, <3>4, SeenTyped DEF SupplierInv
  <2>3. CASE S!Fails(s) \/ S!Done(s)
    BY <2>1, <2>3 DEF S!Fails, S!Done, S!gapVars
  <2> QED
    BY <2>2, <2>3
<1> QED
  BY <1>1, <1>2, <1>3, <1>4, QuietStep

\* A supplier submits, and has its answer or not.
LEMMA SendStep ==
  ASSUME SupplierInv, NEW s \in Suppliers, S!Submit(s) \/ S!AnswerLost(s)
  PROVE  SupplierInv'
<1> DEFINE g == Head(agents[s].queue).gap
           u == S!Canonical(Head(agents[s].todo).url)
           new == ~S!IsDuplicate(g, S!Canonical(u))
<1>1. /\ agents[s] \in AgentStates /\ agents[s].pc = "submit"
      /\ agents[s].queue # <<>> /\ agents[s].todo # <<>>
  BY DEF S!Submit, S!AnswerLost, SupplierInv, AgentsTyped
<1>2. Head(agents[s].queue) \in View /\ Head(agents[s].todo) \in Offers
      /\ Tail(agents[s].todo) \in Seq(Offers)
  BY <1>1 DEF AgentStates
<1>3. g \in S!Gaps /\ S!Parsed(u) /\ s \in Clients
  BY <1>2, OffersAreParsed, CanonicalIsParsed DEF View, Clients
<1>4. S!SubmitEvidence(g, u, s)
  BY DEF S!Submit, S!AnswerLost
<1>5. MarketTyped'
  BY AgentsAssumption DEF S!Submit, S!AnswerLost, SupplierInv, MarketTyped, S!SupplierAssumption,
     S!Gaps, S!Accepting
<1> HIDE DEF g, u
<1>6. /\ RowsInv'
      /\ \A t : S!RowsBy(t)' = S!RowsBy(t) + IF s = t /\ new THEN 1 ELSE 0
  BY <1>3, <1>4, SubmissionStep DEF SupplierInv
<1>7. \A t : S!RowsBy(t) \in Nat
  BY RowSetOf DEF SupplierInv
<1>8. \A t \in Suppliers \ {s} : S!RowsBy(t)' = S!RowsBy(t)
  BY <1>6, <1>7
<1>9. CASE S!Submit(s)
  <2> DEFINE n == S!Counted(agents[s].submitted, S!IsDuplicate(g, S!Canonical(u)))
             x == [agents[s] EXCEPT !.todo = Tail(agents[s].todo), !.submitted = n]
  <2>1. agents' = [agents EXCEPT ![s] = x]
    BY <1>1, <1>9 DEF S!Submit, SupplierInv, AgentsTyped, AgentStates, g, u
  <2>2. agents[s].submitted \in Nat /\ agents[s].before \in Nat
    BY <1>1 DEF AgentStates
  <2>3. n = agents[s].submitted + IF new THEN 1 ELSE 0
    BY <2>2 DEF S!Counted
  <2> HIDE DEF n, new
  <2>4. n \in Nat
    BY <2>2, <2>3
  <2>5. /\ x \in AgentStates /\ x.queue = agents[s].queue
        /\ x.before = agents[s].before /\ x.submitted = n
    BY <1>1, <1>2, <2>4 DEF AgentStates
  <2>6. S!RowsBy(s) = agents[s].before + agents[s].submitted
    BY <1>1 DEF SupplierInv, S!CountsAreRows
  <2>7. S!RowsBy(s)' = x.before + x.submitted
    BY <1>6, <2>2, <2>3, <2>5, <2>6
  <2> HIDE DEF x
  <2> QED
    BY <1>1, <1>5, <1>6, <1>8, <2>1, <2>5, <2>7, AgentGoesOn
<1>10. CASE S!AnswerLost(s)
  <2>1. agents' = [agents EXCEPT ![s] = S!Idle]
    BY <1>10 DEF S!AnswerLost
  <2>2. S!Idle \in AgentStates /\ S!Idle.pc = "idle"
    BY DEF S!Idle, AgentStates
  <2> QED
    BY <1>5, <1>6, <1>8, <2>1, <2>2, AgentGoesOn
<1> QED
  BY <1>9, <1>10

\* The steps of others: a submission, a verdict, the settlement, the clock.
LEMMA OthersStep ==
  ASSUME SupplierInv, NEW g \in S!Gaps,
         \/ \E u \in OtherUrls : S!OtherSubmits(g, u)
         \/ S!StartEvaluation(g) \/ S!EndEvaluation(g) \/ S!Settle(g) \/ S!TimePasses(g)
  PROVE  SupplierInv'
<1>1. status \in [S!Gaps -> S!Accepting \cup {"expired", "settled"}]
  BY DEF SupplierInv, RowsInv
<1>2. ASSUME NEW u \in OtherUrls, S!OtherSubmits(g, u)
      PROVE  SupplierInv'
  <2>1. S!Parsed(u) /\ OtherClient \in Clients /\ OtherClient \notin Suppliers
    BY AgentsAssumption DEF S!SupplierAssumption, Clients
  <2>2. /\ RowsInv'
        /\ \A t : S!RowsBy(t)' = S!RowsBy(t)
             + IF OtherClient = t /\ ~S!IsDuplicate(g, S!Canonical(u)) THEN 1 ELSE 0
    BY <1>2, <2>1, SubmissionStep DEF S!OtherSubmits, SupplierInv
  <2>3. \A t : S!RowsBy(t) \in Nat
    BY RowSetOf DEF SupplierInv
  <2>4. \A t \in Suppliers : S!RowsBy(t)' = S!RowsBy(t)
    BY <2>1, <2>2, <2>3
  <2>5. MarketTyped'
    BY <1>2 DEF S!OtherSubmits, SupplierInv, MarketTyped, S!Gaps, S!Accepting
  <2> QED
    BY <1>2, <2>2, <2>4, <2>5, GapsGoOn DEF S!OtherSubmits
<1>3. CASE S!StartEvaluation(g) \/ S!EndEvaluation(g) \/ S!Settle(g) \/ S!TimePasses(g)
  <2>1. UNCHANGED <<listed, merged, agents, failures>>
    BY <1>3 DEF S!StartEvaluation, S!EndEvaluation, S!Settle, S!TimePasses
  <2>2. status' \in [S!Gaps -> S!Accepting \cup {"expired", "settled"}]
    BY <1>1, <1>3 DEF S!StartEvaluation, S!EndEvaluation, S!Settle, S!TimePasses, S!Accepting
  <2>3. MarketTyped'
    <3>1. time' \in [S!Gaps -> {"long", "short", "over"}]
      BY <1>3 DEF S!StartEvaluation, S!EndEvaluation, S!Settle, S!TimePasses, SupplierInv,
         MarketTyped
    <3>2. evaluating' \in [S!Gaps -> S!Accepting \cup {"none", "expired", "settled"}]
      BY <1>1, <1>3 DEF S!StartEvaluation, S!EndEvaluation, S!Settle, S!TimePasses, SupplierInv,
         MarketTyped
    <3> QED
      BY <2>1, <3>1, <3>2 DEF SupplierInv, MarketTyped, S!Gaps, S!Accepting
  <2>4. \A t \in Suppliers : S!RowsBy(t)' = S!RowsBy(t)
    BY <2>1, RowsKept
  <2>5. RowsInv'
    BY <2>1, <2>2, RowsStay DEF SupplierInv
  <2> QED
    BY <2>1, <2>3, <2>4, <2>5, GapsGoOn
<1> QED
  BY <1>2, <1>3

\* Every step keeps the invariant of the suppliers.
LEMMA SupplierStep == SupplierInv /\ [S!Next]_(S!vars) => SupplierInv'
<1> SUFFICES ASSUME SupplierInv, [S!Next]_(S!vars) PROVE SupplierInv'
  OBVIOUS
<1>1. CASE UNCHANGED S!vars
  <2>1. /\ UNCHANGED <<listed, merged, agents, failures, status, time, evaluating>>
    BY <1>1 DEF S!vars, S!gapVars
  <2>2. RowsInv'
    BY <2>1, RowsStay DEF SupplierInv, RowsInv
  <2>3. MarketTyped'
    BY <2>1 DEF SupplierInv, MarketTyped, S!Gaps, S!Accepting
  <2>4. \A t \in Suppliers : S!RowsBy(t)' = S!RowsBy(t)
    BY <2>1, RowsKept
  <2> QED
    BY <2>1, <2>2, <2>3, <2>4, GapsGoOn
<1>2. ASSUME NEW s \in Suppliers, S!Runs(s) \/ S!AnswerLost(s) \/ S!Fails(s)
      PROVE  SupplierInv'
  BY <1>2, ListStep, QueueStep, RoundEndsStep, SendStep DEF S!Runs
<1>3. CASE \E g \in S!Gaps : \/ \E u \in OtherUrls : S!OtherSubmits(g, u)
                             \/ S!StartEvaluation(g) \/ S!EndEvaluation(g)
                             \/ S!Settle(g) \/ S!TimePasses(g)
  BY <1>3, OthersStep
<1> QED
  BY <1>1, <1>2, <1>3 DEF S!Next

\* Two submissions of a gap are of two pages, and a duplicate is of the page of the first.
LEMMA InvKeepsPages == SupplierInv => PagesAreRows
<1> SUFFICES ASSUME SupplierInv PROVE PagesAreRows
  OBVIOUS
<1>1. ASSUME NEW g \in S!Gaps, NEW q \in listed[g], NEW r \in listed[g], q # r
      PROVE  S!SamePage(q.sent, r.sent) => q.sent.slashes > 1 \/ r.sent.slashes > 1
  <2>1. RowOf(q) /\ RowOf(r) /\ q.canonical # r.canonical
    BY <1>1 DEF SupplierInv, RowsInv
  <2>2. S!Parsed(q.sent) /\ S!Parsed(r.sent) /\ S!Canonical(q.sent) # S!Canonical(r.sent)
    BY <2>1 DEF RowOf
  <2>3. S!SamePage(q.sent, r.sent) => S!SlashesLeft(q.sent) # S!SlashesLeft(r.sent)
    BY <2>2, OneAddressPerPage DEF S!SamePage
  <2>4. ASSUME S!SamePage(q.sent, r.sent), ~(q.sent.slashes > 1), ~(r.sent.slashes > 1)
        PROVE  FALSE
    <3>1. q.sent.slashes <= 1 /\ r.sent.slashes <= 1
      BY <2>2, <2>4 DEF S!Parsed
    <3>2. q.sent.path = r.sent.path
      BY <2>4 DEF S!SamePage, S!SamePageAtSomePort
    <3> QED
      BY <2>2, <2>3, <2>4, <3>1, <3>2, SlashesByPath
  <2> QED
    BY <2>4
<1>2. S!OneRowPerPage
  BY <1>1 DEF S!OneRowPerPage
<1>3. S!DistinctPagesKept
  BY DEF SupplierInv, RowsInv, S!DistinctPagesKept
<1> QED
  BY <1>2, <1>3 DEF PagesAreRows

\* The types of the suppliers.
LEMMA InvTypesSuppliers == SupplierInv => S!TypeOK
<1> SUFFICES ASSUME SupplierInv PROVE S!TypeOK
  OBVIOUS
<1>1. \A g \in S!Gaps : \A r \in listed[g] : r.by \in Suppliers \cup {OtherClient}
  BY DEF SupplierInv, RowsInv, RowOf, Clients
<1>2. ASSUME NEW s \in Suppliers
      PROVE  /\ agents[s].pc \in {"idle", "live", "next", "submit"}
             /\ agents[s].pc = "submit" => agents[s].queue # <<>>
             /\ \A v \in S!ToSet(agents[s].queue) : v.gap \in S!Gaps /\ v.status \in S!Listed
  <2>1. agents[s] \in AgentStates
    BY DEF SupplierInv, AgentsTyped
  <2>2. /\ agents[s].pc \in {"idle", "live", "next", "submit"}
        /\ agents[s].queue \in Seq(View)
    BY <2>1 DEF AgentStates
  <2>3. \A v \in S!ToSet(agents[s].queue) : v \in View
    BY <2>2 DEF S!ToSet
  <2> QED
    BY <2>2, <2>3 DEF View, SupplierInv, AgentsTyped
<1> QED
  BY <1>1, <1>2 DEF S!TypeOK, SupplierInv, RowsInv, MarketTyped

-----------------------------------------------------------------------------
(* All three.                                                               *)

BountyTyped == late \in BOOLEAN /\ closed \in BOOLEAN /\ count \in 0..MaxCommitments

\* The contract counts no more commitments than it may have.
LEMMA BountyStep == BountyTyped /\ [Next]_vars => BountyTyped'
<1> SUFFICES ASSUME BountyTyped, [Next]_vars PROVE BountyTyped'
  OBVIOUS
<1>1. MaxCommitments \in Nat
  BY AgentsAssumption DEF CommitmentsAssumption
<1>2. ASSUME NEW c \in Calls, Mined(c)
      PROVE  BountyTyped'
  BY <1>1, <1>2 DEF Mined, MayCommit, HasRoom, BountyTyped
<1>3. ASSUME NEW c \in Calls, Send(c) \/ Answers(c) \/ Throws(c)
      PROVE  UNCHANGED <<late, closed, count>>
  BY <1>3 DEF Send, Answers, Throws
<1>5. ASSUME NEW c \in Calls, NEW input \in Input, Submit(c, input)
      PROVE  UNCHANGED <<late, closed, count>>
  BY <1>5 DEF Submit
<1>4. ASSUME Crash \/ DeadlinePasses \/ Closes \/ UNCHANGED vars
      PROVE  BountyTyped'
  BY <1>4 DEF Crash, DeadlinePasses, Closes, vars, BountyTyped
<1> QED
  BY <1>2, <1>3, <1>4, <1>5 DEF Next, BountyTyped

\* The types of the commitments.
LEMMA InvTypesCommitments == CommitInv /\ BountyTyped => TypeOK
<1> SUFFICES ASSUME CommitInv, BountyTyped PROVE TypeOK
  OBVIOUS
<1>1. ASSUME NEW c \in Calls, Asked(c)
      PROVE  /\ calls[c].pc \in {"committing", "answered", "failed"}
             /\ calls[c].asked \in Input /\ calls[c].stored \in Hashes
             /\ calls[c].tx \in {"none", "pending", "mined", "reverted"}
  <2>1. calls[c] \in MadeCalls
    BY <1>1 DEF CommitInv, StateTyped, CallsTyped, Asked
  <2> QED
    BY <2>1 DEF MadeCalls
<1> QED
  BY <1>1 DEF TypeOK, CommitInv, StateTyped, BountyTyped, Row

AgentsInv == CommitInv /\ BountyTyped /\ KeryxInv /\ SupplierInv

\* Whoever acts, the others' invariants stay.
LEMMA AgentsInductive ==
  /\ MCInit => AgentsInv
  /\ AgentsInv /\ [MCNext]_mcVars => AgentsInv'
<1>1. ASSUME MCInit PROVE AgentsInv
  <2>1. BountyTyped
    <3>1. MaxCommitments \in Nat
      BY AgentsAssumption DEF CommitmentsAssumption
    <3>2. late \in BOOLEAN /\ closed \in BOOLEAN /\ count = 0
      BY <1>1 DEF MCInit, Init
    <3> QED
      BY <3>1, <3>2 DEF BountyTyped
  <2> QED
    BY <1>1, <2>1, CommitInit, KeryxInit, SupplierInit DEF MCInit, AgentsInv
<1>2. ASSUME AgentsInv, [MCNext]_mcVars PROVE AgentsInv'
  <2>1. [Next]_vars /\ [K!Next]_(K!vars) /\ [S!Next]_(S!vars)
    <3>1. supplierVars' = supplierVars => UNCHANGED S!vars
      BY DEF supplierVars, S!vars, S!gapVars
    <3>2. keryxVars' = keryxVars => UNCHANGED K!vars
      BY DEF keryxVars, K!vars
    <3> QED
      BY <1>2, <3>1, <3>2 DEF MCNext, mcVars, Alone
  <2> QED
    BY <1>2, <2>1, CommitStep, BountyStep, KeryxStep, SupplierStep DEF AgentsInv
<1> QED
  BY <1>1, <1>2

\* The invariant holds throughout.
LEMMA AgentsKeepInv == MCSpec => []AgentsInv
BY AgentsInductive, PTL DEF MCSpec

(* AgentsTypeOK: the types of the requests, of the pipeline and of the      *)
(* suppliers with the gaps they see.                                        *)
THEOREM AgentsTypeCorrect == MCSpec => []AgentsTypeOK
<1>1. AgentsInv => AgentsTypeOK
  BY InvTypesCommitments, InvTypesSuppliers, InvTypesPipeline DEF AgentsInv, AgentsTypeOK
<1> QED
  BY <1>1, AgentsKeepInv, PTL

(* PagesAreRows: however suppliers and other clients spell the address of a *)
(* page at its port, with whatever query and at most one trailing slash, a  *)
(* gap has one submission of it; and a duplicate, of any address, is        *)
(* answered with the submission of its own page, at that or another port.   *)
THEOREM OnePagePerRow == MCSpec => []PagesAreRows
<1>1. AgentsInv => PagesAreRows
  BY InvKeepsPages DEF AgentsInv
<1> QED
  BY <1>1, AgentsKeepInv, PTL

(* CountsAreRows: what a round of a supplier reports as submitted are the   *)
(* rows it added, whoever else submits the same pages.                      *)
THEOREM RoundsCountRows == MCSpec => []CountsAreRows
<1>1. AgentsInv => CountsAreRows
  BY DEF AgentsInv, SupplierInv, CountsAreRows
<1> QED
  BY <1>1, AgentsKeepInv, PTL

(* PaidOncePerClaim: the pipeline has paid for a claim once at most, and    *)
(* once more for each time that it was told of no receipt.                  *)
THEOREM PaidOnlyAsTold == MCSpec => []PaidOncePerClaim
<1>1. AgentsInv => PaidOncePerClaim
  BY InvPaysOnce DEF AgentsInv, PaidOncePerClaim
<1> QED
  BY <1>1, AgentsKeepInv, PTL
=============================================================================
