---------------------------- MODULE EvidenceLab ----------------------------
(***************************************************************************)
(* The lab of the web explorer (apps/web/components/evidence-lab.tsx):     *)
(* a visitor chooses a case, runs it through the proxy route and runDemo   *)
(* of the API, and walks through the result, which a timeline also plays.  *)
(*                                                                         *)
(* An event handler, the rendering it causes and the effect that follows   *)
(* are one step; the code after an await is another.  The result of a case *)
(* is fixed, so that it is named by its case.  Of the timeline (GSAP, from *)
(* outside) there is its position, by the chapter reached, and whether it  *)
(* runs; texts and animations are left out.                                *)
(***************************************************************************)
EXTENDS Naturals, Sequences, FiniteSets

CONSTANTS ReducedMotion,   \* the visitor's system asks for no animations
          MaxGeneration    \* bound: starts and changes of the case

\* Of the constants, for those who instantiate this module.
LabAssumption == ReducedMotion \in BOOLEAN /\ MaxGeneration \in Nat

VARIABLES scenario, run, busy, error, chapter, selected, motionPlaying,
          cache,        \* case -> the result kept for it
          generation,   \* number of the latest start or change
          requests,     \* the requests in flight
          timeline,
          mounted

result == <<run, selected>>
motion == <<chapter, motionPlaying, timeline>>
vars == <<scenario, busy, error, cache, generation, requests, mounted, result, motion>>

None == "none"

-----------------------------------------------------------------------------
(* runDemo.                                                                 *)

Scenarios == {"mixed", "rejected", "insufficient"}

Fixtures ==
  <<[domain |-> "acme.example.com", days |-> 1, onTopic |-> TRUE],
    [domain |-> "reporter.example.net", days |-> 2, onTopic |-> TRUE],
    [domain |-> "archive.example.org", days |-> 400, onTopic |-> FALSE]>>

MaxSourceDays == 30

MinIndependentSources(s) == IF s = "insufficient" THEN 3 ELSE 0

\* The repost of the first one is a duplicate and no submission.
Submissions(s) == IF s = "rejected" THEN SubSeq(Fixtures, 3, 3) ELSE Fixtures

Accepted(s) ==
  {i \in DOMAIN Submissions(s) :
     Submissions(s)[i].onTopic /\ Submissions(s)[i].days <= MaxSourceDays}

\* buildPlan does not throw.
HasPlan(s) ==
  Cardinality({Submissions(s)[i].domain : i \in Accepted(s)}) >= MinIndependentSources(s)

\* What can be selected: a source of a result, or a row of any allocation.
Source(s, i) == <<s, i>>
Nothing == Source(None, 0)
VerifierFee == Source(None, 1)
Refund == Source(None, 2)

Sources(s) == {Source(s, i) : i \in DOMAIN Submissions(s)}

\* The rows of the allocation: one per payout, one for the refund.
Rows(s) ==
  IF HasPlan(s) THEN {Source(s, i) : i \in Accepted(s)} \cup {VerifierFee, Refund} ELSE {}

-----------------------------------------------------------------------------
(* The timeline.                                                            *)

Last == 4      \* the chapter in the receipt
End == 5       \* the position behind it

\* The end would be a chapter of its own.
ChapterAtBug(position) == position

ChapterAt(position) == IF position = End THEN Last ELSE position

NoTimeline == [at |-> 0, state |-> "none"]

\* What the effect makes for a result shown: a timeline that plays from the start.
Played(r) ==
  IF r = None \/ ReducedMotion THEN NoTimeline ELSE [at |-> 0, state |-> "running"]

\* A result without a plan stops playing at the allocation it has not got.
StopsAt(position) == position = 3 /\ timeline.at # 3 /\ ~HasPlan(run)

\* The end of the timeline is not noticed.
PlayingAtBug(position) == motionPlaying /\ ~StopsAt(position)

PlayingAt(position) == motionPlaying /\ ~StopsAt(position) /\ position # End

StateAt(position) ==
  IF position = End THEN "done" ELSE IF StopsAt(position) THEN "paused" ELSE "running"

Tick ==
  /\ timeline.state = "running"
  /\ \E position \in {timeline.at, timeline.at + 1} \cap 0..End :
       /\ timeline' = [at |-> position, state |-> StateAt(position)]
       /\ chapter' = ChapterAt(position)
       /\ motionPlaying' = PlayingAt(position)
  /\ UNCHANGED <<scenario, busy, error, cache, generation, requests, mounted, result>>

PausedAt(position) ==
  timeline' = IF timeline = NoTimeline THEN NoTimeline
              ELSE [at |-> position, state |-> "paused"]

-----------------------------------------------------------------------------
(* The handlers.                                                            *)

\* The selection is kept, which may be of another result.
SelectionBug(r) == IF selected = Nothing /\ r # None THEN Source(r, 1) ELSE selected

Selection(r) == IF r = None THEN Nothing ELSE Source(r, 1)

Install(r) ==
  /\ run' = r
  /\ selected' = Selection(r)
  /\ chapter' = 0
  /\ timeline' = Played(r)

\* install, for a handler that says nothing else of the playback.
InstallOnly(r) ==
  Install(r) /\ motionPlaying' = (motionPlaying \/ Played(r) # NoTimeline)

Abort(token) ==
  requests' = {IF r.token = token THEN [r EXCEPT !.aborted = TRUE] ELSE r : r \in requests}

\* An error of the case left is kept.
ErrorAfterChangeBug == error

ErrorAfterChange == FALSE

Change(value) ==
  /\ mounted /\ value # scenario /\ generation < MaxGeneration
  /\ generation' = generation + 1
  /\ Abort(generation)
  /\ busy' = FALSE
  /\ error' = ErrorAfterChange
  /\ scenario' = value
  /\ InstallOnly(cache[value])
  /\ UNCHANGED <<cache, mounted>>

\* Every start asks the server.
CachedBug == None

\* The result start finds in the cache.
Cached == cache[scenario]

\* Start of a case that has run before: its result is installed and played again.
Replay ==
  /\ mounted /\ ~busy /\ Cached # None
  /\ Install(Cached)
  /\ motionPlaying' = TRUE
  /\ UNCHANGED <<scenario, busy, error, cache, generation, requests, mounted>>

\* Start of another one, up to the await of the response.
Start ==
  /\ mounted /\ ~busy /\ Cached = None /\ generation < MaxGeneration
  /\ generation' = generation + 1
  /\ requests' = requests \cup
                   {[token |-> generation + 1, scenario |-> scenario, aborted |-> FALSE]}
  /\ busy' = TRUE
  /\ error' = FALSE
  /\ InstallOnly(None)
  /\ UNCHANGED <<scenario, cache, mounted>>

\* Every response is taken for the latest.
IsLatestBug(r) == mounted

IsLatest(r) == r.token = generation

\* A response with a result; a body that was read before the abort arrives all the same.
Succeeds(r) ==
  /\ requests' = requests \ {r}
  /\ IF IsLatest(r)
     THEN /\ cache' = [cache EXCEPT ![r.scenario] = r.scenario]
          /\ InstallOnly(r.scenario)
          /\ busy' = FALSE
          /\ UNCHANGED error
     ELSE UNCHANGED <<cache, busy, error, result, motion>>
  /\ UNCHANGED <<scenario, generation, mounted>>

\* A stale request clears the flag of the latest one.
BusyAfterBug(r) == FALSE

BusyAfter(r) == busy /\ ~IsLatest(r)

\* A response that is an error (the route answers 503 when the API does not within 15
\* seconds), one that does not come, or the rejection of an aborted request.
Fails(r) ==
  /\ requests' = requests \ {r}
  /\ error' = (error \/ IsLatest(r))
  /\ busy' = BusyAfter(r)
  /\ UNCHANGED <<scenario, cache, generation, mounted, result, motion>>

\* The timer is not set.
TimerBug(r) == FALSE

Timer(r) == ~r.aborted

TimesOut(r) ==
  /\ Timer(r)
  /\ Abort(r.token)
  /\ UNCHANGED <<scenario, busy, error, cache, generation, mounted, result, motion>>

RestartWalkthrough ==
  /\ mounted /\ run # None
  /\ InstallOnly(None)
  /\ error' = FALSE
  /\ UNCHANGED <<scenario, busy, cache, generation, requests, mounted>>

\* A source, in the diagram or the desk, or a row of the allocation while it is shown:
\* the effect plays from the start again.
Select(id) ==
  /\ mounted /\ run # None /\ id # selected
  /\ id \in Sources(run) \cup (IF chapter = 3 THEN Rows(run) ELSE {})
  /\ selected' = id
  /\ timeline' = Played(run)
  /\ motionPlaying' = (motionPlaying \/ ~ReducedMotion)
  /\ UNCHANGED <<scenario, busy, error, cache, generation, requests, mounted, run, chapter>>

\* The chapters' buttons, and those for the previous and the next one.
SeekChapter(index) ==
  /\ mounted /\ run # None
  /\ PausedAt(index)
  /\ motionPlaying' = FALSE
  /\ chapter' = index
  /\ UNCHANGED <<scenario, busy, error, cache, generation, requests, mounted, result>>

\* The slider; whether a timeline that is sought tells its position is its own affair.
Slide(position) ==
  /\ mounted /\ run # None
  /\ PausedAt(position)
  /\ motionPlaying' = FALSE
  /\ chapter' \in {chapter, IF ReducedMotion THEN chapter ELSE ChapterAt(position)}
  /\ UNCHANGED <<scenario, busy, error, cache, generation, requests, mounted, result>>

TogglePlay ==
  /\ mounted /\ run # None
  /\ IF timeline.state = "paused"
     THEN timeline' = [timeline EXCEPT !.state = "running"] /\ motionPlaying' = TRUE
     ELSE PausedAt(timeline.at) /\ motionPlaying' = FALSE
  /\ UNCHANGED <<scenario, busy, error, cache, generation, requests, mounted, result, chapter>>

ReplayFromStart ==
  /\ mounted /\ run # None
  /\ timeline' = Played(run)
  /\ motionPlaying' = TRUE
  /\ UNCHANGED <<scenario, busy, error, cache, generation, requests, mounted, result, chapter>>

Unmount ==
  /\ mounted
  /\ mounted' = FALSE
  /\ generation' = generation + 1
  /\ Abort(generation)
  /\ timeline' = NoTimeline
  /\ UNCHANGED <<scenario, busy, error, cache, result, chapter, motionPlaying>>

-----------------------------------------------------------------------------
Init ==
  /\ scenario = "mixed"
  /\ run = None /\ selected = Nothing
  /\ busy = FALSE /\ error = FALSE
  /\ chapter = 0 /\ motionPlaying = FALSE /\ timeline = NoTimeline
  /\ cache = [s \in Scenarios |-> None]
  /\ generation = 0 /\ requests = {}
  /\ mounted = TRUE

Visitor ==
  \/ \E value \in Scenarios : Change(value)
  \/ Replay \/ Start \/ RestartWalkthrough
  \/ \E id \in Sources(run) \cup Rows(run) : run # None /\ Select(id)
  \/ \E index \in 0..Last : SeekChapter(index)
  \/ \E position \in 0..End : Slide(position)
  \/ TogglePlay \/ ReplayFromStart
  \/ Unmount

Next ==
  \/ Visitor
  \/ Tick
  \/ \E r \in requests : Succeeds(r) \/ Fails(r) \/ TimesOut(r)

Spec == Init /\ [][Next]_vars

InFlight(t) == \E r \in requests : r.token = t

\* The browser's timers fire and its aborted requests are rejected.  Nothing is assumed
\* of the server, nor of the visitor.
FairSpec ==
  Spec /\ \A t \in 1..MaxGeneration :
            /\ WF_vars(\E r \in requests : r.token = t /\ TimesOut(r))
            /\ WF_vars(\E r \in requests : r.token = t /\ r.aborted /\ Fails(r))

-----------------------------------------------------------------------------
(* Correctness.                                                             *)

TypeOK ==
  /\ scenario \in Scenarios
  /\ run \in Scenarios \cup {None}
  /\ {busy, error, motionPlaying, mounted} \subseteq BOOLEAN
  /\ chapter \in 0..Last
  /\ cache \in [Scenarios -> Scenarios \cup {None}]
  /\ generation \in 0..(MaxGeneration + 1)
  /\ requests \subseteq [token : 1..MaxGeneration, scenario : Scenarios, aborted : BOOLEAN]
  /\ timeline \in [at : 0..End, state : {"none", "running", "paused", "done"}]

(* Whatever the order in which requests are started, abandoned and          *)
(* answered: the result shown, and each one kept, is that of the case it is *)
(* shown for (docs/frontend-design.md:61-62).                               *)
ShownIsChosen ==
  /\ run \in {None, scenario}
  /\ \A s \in Scenarios : cache[s] \in {None, s}

(* What is selected is a source or a payment of the result shown, never one *)
(* of another case: its checks, amount and receipt entry are found.         *)
SelectedIsShown ==
  selected \in IF run = None THEN {Nothing} ELSE Sources(run) \cup Rows(run)

(* The page waits exactly while the request of the latest start is in       *)
(* flight: no stale answer frees the button, none blocks it.                *)
BusyIsWaiting == mounted => (busy <=> InFlight(generation))

(* "No successful step is inferred" (evidence-lab.tsx:277): with an error   *)
(* there is no result, shown or kept, and the case can be run again.        *)
ErrorIsHonest == error => run = None /\ cache[scenario] = None /\ (mounted => ~busy)

(* The button that says Pause has something to pause, and the one that says *)
(* Play nothing that plays.  (With reduced motion there is no timeline, and *)
(* Replay shows Pause all the same.)                                        *)
PlayingIsMoving ==
  run # None /\ mounted /\ ~ReducedMotion => (motionPlaying <=> timeline.state = "running")

(* "Replay makes no new request": the page never waits for a result it      *)
(* already keeps, and a case is asked for until it is answered once.        *)
AskedOnce == mounted /\ busy => cache[scenario] = None

(* A request comes to its end within its timeout whatever the server does,  *)
(* also when the case is changed or the page left meanwhile.                *)
RequestsEnd == \A t \in 1..MaxGeneration : InFlight(t) ~> ~InFlight(t)
=============================================================================
