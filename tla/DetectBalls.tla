---------------------------- MODULE DetectBalls ----------------------------
(***************************************************************************)
(* The reports of the main loop (src/runtime.cpp): detect_balls has every  *)
(* image identified and dispatches an action to the throttler, one tag for *)
(* each outcome.  Balls reset the tag of their absence; the other two tags *)
(* are never reset.                                                        *)
(***************************************************************************)
EXTENDS ActionThrottler

VARIABLES
  registered,  \* the tags main() has registered before its loop
  seen         \* history: the outcome of the last image

dvars == << vars, registered, seen >>

Outcomes == {"error", "none", "balls"}

Tag(o) == CASE o = "error" -> "identify_error"
            [] o = "none"  -> "no_balls_detected"
            [] o = "balls" -> "balls_detected"

Quota(o) == CASE o = "error" -> 1
              [] o = "none"  -> 3
              [] o = "balls" -> 10

ASSUME TagsAssumption ==
  Tags = {Tag(o) : o \in Outcomes} /\ {Quota(o) : o \in Outcomes} \subseteq Quotas

DInit ==
  /\ Init
  /\ registered = {}
  /\ seen = "nothing"

\* main() registers the tags in the order of the code.
Register(o) ==
  /\ o = "error" => registered = {"none"}
  /\ o = "balls" => registered = {"none", "error"}
  /\ o \notin registered
  /\ RegisterAction(Tag(o), Quota(o))
  /\ registered' = registered \union {o}
  /\ UNCHANGED seen

\* An image cannot be identified, or has no balls.
Detect(o) ==
  /\ registered = Outcomes
  /\ o # "balls"
  /\ Dispatch(Tag(o))
  /\ seen' = o
  /\ UNCHANGED registered

\* Balls reset the tag of their absence.  Defect: they do not.
NothingReset(acts) == acts

AbsenceReset(acts) == ResetOf(acts, Tag("none"))

DetectSome ==
  /\ registered = Outcomes
  /\ Affordable
  /\ metronome' = CounterTicked(metronome)
  /\ actions' = AbsenceReset(Dispatched(Tag("balls")))
  /\ Count(Tag("balls"), {Tag("none")})
  /\ seen' = "balls"
  /\ UNCHANGED registered

DetectStep == Detect("error") \/ Detect("none") \/ DetectSome

DNext ==
  \/ \E o \in Outcomes : Register(o)
  \/ DetectStep
  \/ TimePasses /\ UNCHANGED << registered, seen >>

\* The main loop goes on, images keep coming and time passes.
DSpec ==
  /\ DInit /\ [][DNext]_dvars
  /\ \A o \in Outcomes : WF_dvars(Register(o))
  /\ WF_dvars(DetectStep) /\ WF_dvars(TimePasses /\ UNCHANGED << registered, seen >>)

-----------------------------------------------------------------------------
(* Properties.                                                             *)

\* An outcome that lasts is reported until its quota is spent, whatever was
\* reported or throttled before: "no balls" anew after balls were seen, errors
\* and balls once the quota of the whole run is spent.
LastingOutcomeReported ==
  \A o \in Outcomes : <>[](seen = o) => <>[](executed[Tag(o)] = Quota(o))
=============================================================================
