-------------------------- MODULE ActionThrottler --------------------------
(***************************************************************************)
(* util::ActionThrottler (src/module/debug/action_throttler.hpp): actions  *)
(* have a tag; at most one action is executed per interval, whatever its   *)
(* tag, and an action at most as often as the quota of its tag, until the  *)
(* tag is reset.  One metronome serves all tags.                           *)
(*                                                                         *)
(* The module has the state, the operations and what is promised of them,  *)
(* and no Next: the client is the main loop (see DetectBalls).             *)
(***************************************************************************)
EXTENDS TimesLimit, FramerateCounter

CONSTANTS
  Tags,           \* the tags the client uses
  Quotas,         \* the quotas it registers them with
  Interval,       \* the interval of the metronome
  MaxRate         \* bound: dispatches per second

ASSUME ThrottlerAssumption ==
  /\ Quotas \subseteq Nat
  /\ Second \in Nat /\ Interval \in Nat \ {0} /\ MaxRate \in Nat
  /\ Oldest \in Nat /\ Oldest > Second /\ Oldest > Interval

VARIABLES
  metronome, actions,
  executed,     \* history: how often each tag was executed since its last reset
  last_action,  \* history: the age of the last action that was executed
  within        \* history: how many dispatches there were within each age

vars == << metronome, actions, executed, last_action, within >>

Init ==
  /\ metronome = FramerateCounter(Interval)
  /\ actions = [t \in {} |-> TimesLimit(0)]
  /\ executed = [t \in Tags |-> 0]
  /\ last_action = Oldest
  /\ within = [age \in 0 .. Second |-> 0]

-----------------------------------------------------------------------------
\* actions_[tag] is the object l, whether or not the tag was there before.
With(acts, tag, l) ==
  [t \in DOMAIN acts \union {tag} |-> IF t = tag THEN l ELSE acts[t]]

Registered(acts, tag, quota) ==
  With(acts, tag, IF tag \in DOMAIN acts
                  THEN Enable(Reset([acts[tag] EXCEPT !.limit = quota]))
                  ELSE TimesLimit(quota))

ResetOf(acts, tag) ==
  IF tag \in DOMAIN acts THEN With(acts, tag, Enable(Reset(acts[tag]))) ELSE acts

\* dispatch(tag) executes the action of the tag.
Executes(tag) ==
  Reaches(metronome) /\ tag \in DOMAIN actions /\ Allows(actions[tag])

\* What dispatch(tag) leaves of the limits: a beat of the metronome is lost
\* to a tag that is not registered or whose quota is spent.
Dispatched(tag) ==
  IF ~Reaches(metronome) \/ tag \notin DOMAIN actions
  THEN actions
  ELSE LET ticked == Ticked(actions[tag]) IN
       With(actions, tag, IF Executes(tag) THEN ticked ELSE Disable(ticked))

\* The history of a dispatch.
Count(tag, reset) ==
  /\ executed' = [t \in Tags |-> IF t \in reset THEN 0
                                 ELSE executed[t] + (IF t = tag /\ Executes(t) THEN 1 ELSE 0)]
  /\ last_action' = IF Executes(tag) THEN 0 ELSE last_action
  /\ within' = [age \in 0 .. Second |-> within[age] + 1]

\* The client takes some time for what it dispatches.
Affordable == within[Second] < MaxRate

RegisterAction(tag, quota) ==
  /\ actions' = Registered(actions, tag, quota)
  /\ executed' = [executed EXCEPT ![tag] = 0]
  /\ UNCHANGED << metronome, last_action, within >>

Dispatch(tag) ==
  /\ Affordable
  /\ metronome' = CounterTicked(metronome)
  /\ actions' = Dispatched(tag)
  /\ Count(tag, {})

TimePasses ==
  /\ metronome' = CounterAged(metronome)
  /\ last_action' = Older(last_action)
  /\ within' = [age \in 0 .. Second |-> IF age = 0 THEN 0 ELSE within[age - 1]]
  /\ UNCHANGED << actions, executed >>

-----------------------------------------------------------------------------
(* Properties.                                                             *)

\* An action is only executed when more than an interval has passed since the
\* last one, whatever their tags and whatever was reset in between.
OnePerInterval ==
  [][(\E t \in Tags : executed'[t] > executed[t]) => last_action > Interval]_vars

\* No tag is executed more often than its quota between two resets, and none
\* is off before its quota is spent.
QuotaKept ==
  \A t \in DOMAIN actions :
    /\ executed[t] <= actions[t].limit
    /\ actions[t].stop => executed[t] = actions[t].limit

\* After a tick, fps() is the number of ticks of the last second.
FpsIsRate ==
  within[0] > 0 => Fps(metronome) = within[Second]
=============================================================================
