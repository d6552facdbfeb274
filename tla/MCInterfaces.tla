---------------------------- MODULE MCInterfaces ----------------------------
(***************************************************************************)
(* What a person uses, for TLC: the proof inspector (ProofDesk) and the    *)
(* lab (EvidenceLab) of the web explorer, the commands of the CLI and the  *)
(* MCP server (FrontEnds) and the demo scripts (Demos).  They share        *)
(* nothing but the API, which each of them models as it sees it; a         *)
(* behaviour is that of one of them, and the others stay as they began.    *)
(***************************************************************************)
EXTENDS ProofDesk, TLC

CONSTANTS ReducedMotion, MaxGeneration,                      \* of EvidenceLab
          c1, c2,
          Commands, Settleable, Contents, Exact, Operator,   \* of FrontEnds
          Scripts, MaxFaults                                 \* of Demos

VARIABLES at,                                                \* what is used
          scenario, run, busy, labError, chapter, selected, motionPlaying, cache,
          generation, requests, timeline, mounted,
          server, shell, published, anchored, file, effects, runs,
          script, wrong, checked, pc, buyer, creating, gaps, own, picked, turn, sent, faults

L == INSTANCE EvidenceLab WITH error <- labError
F == INSTANCE FrontEnds
D == INSTANCE Demos

ASSUME InterfacesAssumption == L!LabAssumption /\ F!FrontEndsAssumption /\ D!DemosAssumption

-----------------------------------------------------------------------------
(* The instances: one gap; a forged receipt that adds up and one that does  *)
(* not.                                                                     *)

Genuines == {"genuine"}
Balanced == {"genuine", "forged"}
All == {"genuine", "forged", "unbalanced"}

\* The commands are alike; the liveness properties are about behaviours of the lab and of
\* the scripts, in which no command runs, so that the symmetry identifies none of their
\* states with another.
TwoCommands == {c1, c2}
Renaming == Permutations(TwoCommands)

-----------------------------------------------------------------------------
(* One at a time.                                                           *)

labVars == <<scenario, run, busy, labError, chapter, selected, motionPlaying, cache,
             generation, requests, timeline, mounted>>
commandVars == <<server, shell, published, anchored, file, effects, runs>>
demoVars == <<script, wrong, checked, pc, buyer, creating, gaps, own, picked, turn, sent, faults>>
mcVars == <<at, vars, labVars, commandVars, demoVars>>

MCInit ==
  /\ at \in {"desk", "lab", "commands", "demos"}
  /\ Init /\ L!Init
  /\ F!Init /\ (at # "commands" => server.local /\ shell = Operator /\ server.token = shell)
  /\ D!Init /\ (at # "demos" => wrong = {} /\ gaps = <<>> /\ script = "local")

Alone(who, others) == at = who /\ UNCHANGED <<at, others>>

AtDesk == Alone("desk", <<labVars, commandVars, demoVars>>)
AtLab == Alone("lab", <<vars, commandVars, demoVars>>)
AtCommands == Alone("commands", <<vars, labVars, demoVars>>)
AtDemos == Alone("demos", <<vars, labVars, commandVars>>)

MCNext ==
  \/ AtDesk /\ Next
  \/ AtLab /\ L!Next
  \/ AtCommands /\ F!Next
  \/ AtDemos /\ D!Next

\* The browser's timers fire and aborted requests are rejected; a script's awaited calls
\* end, each in a time of its own: as in EvidenceLab and Demos.
LabFairness ==
  \A t \in 1..MaxGeneration :
    /\ WF_mcVars(AtLab /\ \E r \in requests : r.token = t /\ L!TimesOut(r))
    /\ WF_mcVars(AtLab /\ \E r \in requests : r.token = t /\ r.aborted /\ L!Fails(r))

DemoFairness ==
  WF_mcVars(AtDemos /\ D!Main) /\ WF_mcVars(AtDemos /\ D!Buyer) /\ WF_mcVars(AtDemos /\ D!Wake)

MCSpec == MCInit /\ [][MCNext]_mcVars /\ LabFairness /\ DemoFairness

-----------------------------------------------------------------------------
(* Correctness, beside LatestWins of ProofDesk.                             *)

(* The types of the pages and scripts.                                      *)
InterfacesTypeOK == TypeOK /\ L!TypeOK /\ D!TypeOK

(* EvidenceLab: results, selection, errors, the button that waits and the   *)
(* one that plays are those of the chosen case and its latest request, in   *)
(* whatever order answers, timers and clicks come.                          *)
LabIsConsistent ==
  /\ L!ShownIsChosen /\ L!SelectedIsShown /\ L!AskedOnce
  /\ L!BusyIsWaiting /\ L!ErrorIsHonest /\ L!PlayingIsMoving

(* FrontEnds: a write that takes effect was sent with the API's token.      *)
WritesAuthorized == F!WritesAuthorized

(* FrontEnds: what a command reports is so: a write it reports has taken    *)
(* effect, a receipt it takes for good was anchored, and one it does not    *)
(* find was not there.                                                      *)
ReportsAreTrue == F!SuccessTookEffect /\ F!VerifiedIsAnchored /\ F!ReceiptIsFound

(* Demos: nothing is sent unless all that a script requires is in place,    *)
(* the gap supplied and settled is the one this run's buyer funded, and a   *)
(* run that finishes leaves no escrow of its own behind.                    *)
ScriptsAreSafe == D!FailsClosed /\ D!SettlesItsOwn /\ D!DoneIsSettled

(* EvidenceLab and Demos: a request of the page comes to its end whatever   *)
(* the server does; a script comes to its end, and to a good one when no    *)
(* call fails and the gap it supplies has been funded, which the local      *)
(* script does not wait for.                                                *)
EverythingEnds == L!RequestsEnd /\ (at = "demos" => D!Completes)
=============================================================================
