-------------------------- MODULE DetectBallsProofs --------------------------
(***************************************************************************)
(* Proofs about ActionThrottler and its client DetectBalls, for every      *)
(* interval of the metronome, every rate of images and every clock.        *)
(*                                                                         *)
(* The lemmas about the operations of the throttler hold of any tags and   *)
(* any quotas; only the last part is about the tags of the main loop.      *)
(***************************************************************************)
EXTENDS DetectBalls, TLAPS

\* The objects of TimesLimit.
Limits == [count : Nat, limit : Nat, stop : BOOLEAN]

\* A limit l whose action was executed n times since it was last reset.  Once
\* it is switched off its own count is of no use: it is one too high.
LimitState(l, n) ==
  /\ l \in Limits
  /\ n \in 0 .. l.limit
  /\ IF l.stop THEN n = l.limit ELSE n = l.count

\* The limits acts of the tags that are registered, when each tag t has been
\* executed counts[t] times.
LimitsHold(acts, counts) ==
  /\ counts \in [Tags -> Nat]
  /\ DOMAIN acts \subseteq Tags
  /\ \A t \in DOMAIN acts : LimitState(acts[t], counts[t])

QuotaInv == LimitsHold(actions, executed)

\* The metronome has its interval, and has noted a beat since the last action
\* or with it.
BeatInv ==
  /\ metronome \in [frame_times : {metronome.frame_times}, last_reach : Nat, interval : {Interval}]
  /\ metronome.last_reach \in 0 .. last_action
  /\ last_action \in 0 .. Oldest

\* The times of the counter are those of the dispatches, the last ones last, and
\* none within a second is missing; after a tick there are no others.
FpsInv ==
  LET times == metronome.frame_times IN
  /\ times \in Seq(Nat)
  /\ within \in [0 .. Second -> Nat]
  /\ \A age \in 0 .. Second :
       /\ within[age] <= Len(times)
       /\ \A k \in 1 .. Len(times) : times[k] <= age <=> k > Len(times) - within[age]
  /\ within[0] > 0 => Len(times) = within[Second]

\* The inductive invariant.
DInv == QuotaInv /\ BeatInv /\ FpsInv

-----------------------------------------------------------------------------
(* What the operations of TimesLimit do to a limit.                        *)

LEMMA LimitFresh ==
  ASSUME NEW q \in Nat
  PROVE  LimitState(TimesLimit(q), 0)
  BY DEF LimitState, Limits, TimesLimit

LEMMA LimitReset ==
  ASSUME NEW l \in Limits
  PROVE  LimitState(Enable(Reset(l)), 0)
<1>1. /\ Enable(Reset(l)) \in Limits
      /\ Enable(Reset(l)).count = 0 /\ Enable(Reset(l)).limit = l.limit /\ ~Enable(Reset(l)).stop
  BY DEF Limits, Enable, Reset
<1>2. QED
  BY <1>1 DEF LimitState, Limits

\* An action that is allowed is counted.
LEMMA LimitCounts ==
  ASSUME NEW l, NEW n, LimitState(l, n), Allows(l)
  PROVE  LimitState(Ticked(l), n + 1)
<1>1. n \in Nat /\ n < l.limit
  BY DEF LimitState, Allows
<1>2. QED
  BY <1>1 DEF LimitState, Limits, Allows, Ticked

\* One that is refused is refused until the next reset.
LEMMA LimitSpent ==
  ASSUME NEW l, NEW n, LimitState(l, n), ~Allows(l)
  PROVE  LimitState(Disable(Ticked(l)), n)
<1>1. l \in Limits
  BY DEF LimitState
<1>2. CASE l.stop
  <2>1. Disable(Ticked(l)) = l
    BY <1>1, <1>2 DEF Limits, Disable, Ticked
  <2>2. QED
    BY <2>1
<1>3. CASE ~l.stop
  <2>1. n = l.limit
    BY <1>3 DEF LimitState, Limits, Allows
  <2>2. Ticked(l) \in Limits /\ Ticked(l).limit = l.limit
    BY <1>1, <1>3 DEF Limits, Ticked
  <2>3. /\ Disable(Ticked(l)) \in Limits
        /\ Disable(Ticked(l)).limit = l.limit /\ Disable(Ticked(l)).stop
    BY <2>2 DEF Limits, Disable
  <2>4. QED
    BY <1>1, <2>1, <2>3 DEF LimitState, Limits
<1>4. QED
  BY <1>1, <1>2, <1>3

-----------------------------------------------------------------------------
(* The operations of the throttler, for any tag.                           *)

\* The object of one tag is replaced.
LEMMA WithHolds ==
  ASSUME NEW acts, NEW counts, LimitsHold(acts, counts),
         NEW tag \in Tags, NEW l, NEW n \in Nat, LimitState(l, n)
  PROVE  LimitsHold(With(acts, tag, l), [counts EXCEPT ![tag] = n])
<1>1. DOMAIN With(acts, tag, l) = DOMAIN acts \union {tag}
  BY DEF With
<1>2. \A t \in DOMAIN acts \union {tag} : With(acts, tag, l)[t] = IF t = tag THEN l ELSE acts[t]
  BY DEF With
<1>3. \A t \in Tags : [counts EXCEPT ![tag] = n][t] = IF t = tag THEN n ELSE counts[t]
  BY DEF LimitsHold
<1>4. QED
  BY <1>1, <1>2, <1>3 DEF LimitsHold

\* A tag that is registered again keeps its object, which is renewed.
LEMMA RegisterHolds ==
  ASSUME NEW acts, NEW counts, LimitsHold(acts, counts), NEW tag \in Tags, NEW quota \in Nat
  PROVE  LimitsHold(Registered(acts, tag, quota), [counts EXCEPT ![tag] = 0])
<1>1. CASE tag \in DOMAIN acts
  <2>1. [acts[tag] EXCEPT !.limit = quota] \in Limits
    BY <1>1 DEF LimitsHold, LimitState, Limits
  <2>2. QED
    BY <1>1, <2>1, LimitReset, WithHolds DEF Registered
<1>2. CASE tag \notin DOMAIN acts
  BY <1>2, LimitFresh, WithHolds DEF Registered
<1>3. QED
  BY <1>1, <1>2

\* A tag is reset, if it is registered.
LEMMA ResetHolds ==
  ASSUME NEW acts, NEW counts, LimitsHold(acts, counts), NEW tag \in Tags
  PROVE  LimitsHold(ResetOf(acts, tag), [counts EXCEPT ![tag] = 0])
<1>1. CASE tag \in DOMAIN acts
  <2>1. acts[tag] \in Limits
    BY <1>1 DEF LimitsHold, LimitState
  <2>2. QED
    BY <1>1, <2>1, LimitReset, WithHolds DEF ResetOf
<1>2. CASE tag \notin DOMAIN acts
  BY <1>2 DEF ResetOf, LimitsHold
<1>3. QED
  BY <1>1, <1>2

\* How often each tag has been executed after a dispatch that resets nothing.
Counted(tag) == [t \in Tags |-> executed[t] + (IF t = tag /\ Executes(t) THEN 1 ELSE 0)]

\* A dispatch counts what it executes, and switches off what it refuses.
LEMMA DispatchHolds ==
  ASSUME QuotaInv, NEW tag \in Tags
  PROVE  LimitsHold(Dispatched(tag), Counted(tag))
<1>a. executed \in [Tags -> Nat]
  BY DEF QuotaInv, LimitsHold
<1>1. CASE ~Reaches(metronome) \/ tag \notin DOMAIN actions
  <2>1. ~Executes(tag) /\ Dispatched(tag) = actions
    BY <1>1 DEF Executes, Dispatched
  <2>2. \A t \in Tags : Counted(tag)[t] = executed[t]
    BY <1>a, <2>1 DEF Counted
  <2>3. QED
    BY <1>a, <2>1, <2>2 DEF QuotaInv, LimitsHold, Counted
<1>2. CASE Reaches(metronome) /\ tag \in DOMAIN actions
  <2>1. LimitState(actions[tag], executed[tag]) /\ executed[tag] \in Nat
    BY <1>2 DEF QuotaInv, LimitsHold
  <2>2. CASE Allows(actions[tag])
    <3>1. Counted(tag) = [executed EXCEPT ![tag] = executed[tag] + 1]
      <4>1. \A t \in Tags : Counted(tag)[t] = IF t = tag THEN executed[t] + 1 ELSE executed[t]
        BY <1>a, <1>2, <2>2 DEF Executes, Counted
      <4>2. QED
        BY <1>a, <4>1 DEF Counted
    <3>2. Dispatched(tag) = With(actions, tag, Ticked(actions[tag]))
      BY <1>2, <2>2 DEF Dispatched, Executes
    <3>3. LimitState(Ticked(actions[tag]), executed[tag] + 1) /\ executed[tag] + 1 \in Nat
      BY <2>1, <2>2, LimitCounts
    <3>4. LimitsHold(With(actions, tag, Ticked(actions[tag])),
                     [executed EXCEPT ![tag] = executed[tag] + 1])
      BY <3>3, WithHolds DEF QuotaInv
    <3>5. QED
      BY <3>1, <3>2, <3>4
  <2>3. CASE ~Allows(actions[tag])
    <3>1. Counted(tag) = [executed EXCEPT ![tag] = executed[tag]]
      <4>1. \A t \in Tags : Counted(tag)[t] = executed[t]
        BY <1>a, <1>2, <2>3 DEF Executes, Counted
      <4>2. QED
        BY <1>a, <4>1 DEF Counted
    <3>2. Dispatched(tag) = With(actions, tag, Disable(Ticked(actions[tag])))
      BY <1>2, <2>3 DEF Dispatched, Executes
    <3>3. LimitState(Disable(Ticked(actions[tag])), executed[tag])
      BY <2>1, <2>3, LimitSpent
    <3>4. LimitsHold(With(actions, tag, Disable(Ticked(actions[tag]))),
                     [executed EXCEPT ![tag] = executed[tag]])
      BY <2>1, <3>3, WithHolds DEF QuotaInv
    <3>5. QED
      BY <3>1, <3>2, <3>4
  <2>4. QED
    BY <2>2, <2>3
<1>3. QED
  BY <1>1, <1>2

\* A beat of the metronome is noted; an action is only executed at a beat.
LEMMA DispatchBeats ==
  ASSUME BeatInv, NEW tag, metronome' = CounterTicked(metronome),
         last_action' = IF Executes(tag) THEN 0 ELSE last_action
  PROVE  BeatInv'
<1>1. metronome' \in [frame_times : {Recent(Append(metronome.frame_times, 0))},
                      last_reach : {Noted(metronome)}, interval : {Interval}]
  BY DEF BeatInv, CounterTicked
<1>2. Oldest \in Nat
  BY ThrottlerAssumption
<1>3. CASE Reaches(metronome)
  BY <1>1, <1>2, <1>3 DEF BeatInv, Noted
<1>4. CASE ~Reaches(metronome)
  BY <1>1, <1>2, <1>4 DEF BeatInv, Noted, Executes
<1>5. QED
  BY <1>3, <1>4

\* Time passes for the metronome and for the last action.
LEMMA TimeBeats ==
  ASSUME BeatInv, TimePasses
  PROVE  BeatInv'
<1> DEFINE times == metronome.frame_times
<1>1. metronome' \in [frame_times : {[k \in DOMAIN times |-> Older(times[k])]},
                      last_reach : {Older(metronome.last_reach)}, interval : {Interval}]
  BY DEF BeatInv, CounterAged, TimePasses
<1>2. last_action' = Older(last_action)
  BY DEF TimePasses
<1>3. /\ Older(metronome.last_reach) \in 0 .. Older(last_action)
      /\ Older(last_action) \in 0 .. Oldest
  BY ThrottlerAssumption DEF BeatInv, Older
<1>4. QED
  BY <1>1, <1>2, <1>3 DEF BeatInv

\* What is dropped of a sequence whose first n times are too old, and no others.
LEMMA RecentDrops ==
  ASSUME NEW times \in Seq(Nat), NEW n \in 0 .. Len(times),
         \A k \in 1 .. Len(times) : times[k] <= Second <=> k > n
  PROVE  Recent(times) = SubSeq(times, n + 1, Len(times))
<1> DEFINE First(k) == /\ \A j \in 1 .. k - 1 : times[j] > Second
                       /\ k <= Len(times) => times[k] <= Second
<1>1. Second \in Nat /\ Len(times) \in Nat /\ \A k \in 1 .. Len(times) : times[k] \in Nat
  BY ThrottlerAssumption
<1>2. First(n + 1) /\ n + 1 \in 1 .. Len(times) + 1
  BY <1>1
<1>3. ASSUME NEW k \in 1 .. Len(times) + 1, First(k) PROVE k = n + 1
  <2>1. ASSUME k < n + 1 PROVE FALSE
    <3>1. k <= Len(times) /\ ~(k > n)
      BY <1>1, <2>1
    <3>2. QED
      BY <1>3, <3>1
  <2>2. ASSUME k > n + 1 PROVE FALSE
    <3>1. n + 1 \in 1 .. k - 1 /\ n + 1 \in 1 .. Len(times)
      BY <1>1, <2>2
    <3>2. times[n + 1] > Second /\ times[n + 1] <= Second
      BY <1>3, <3>1
    <3>3. QED
      BY <1>1, <3>1, <3>2
  <2>3. QED
    BY <1>1, <2>1, <2>2
<1>4. (CHOOSE k \in 1 .. Len(times) + 1 : First(k)) = n + 1
  <2> HIDE DEF First
  <2>1. QED
    BY <1>2, <1>3
<1>5. QED
  BY <1>4 DEF Recent

\* A tick adds its own time, and leaves those of the last second.
LEMMA DispatchRates ==
  ASSUME FpsInv, metronome' = CounterTicked(metronome),
         within' = [age \in 0 .. Second |-> within[age] + 1]
  PROVE  FpsInv'
<1> DEFINE times == metronome.frame_times
           ticked == metronome'.frame_times
           all == Append(times, 0)
           kept == within[Second]
           n == Len(times) - kept
<1>a. Second \in Nat /\ Second \in 0 .. Second /\ 0 \in 0 .. Second
  BY ThrottlerAssumption
<1>b. /\ times \in Seq(Nat) /\ within \in [0 .. Second -> Nat]
      /\ \A age \in 0 .. Second :
           /\ within[age] <= Len(times)
           /\ \A k \in 1 .. Len(times) : times[k] <= age <=> k > Len(times) - within[age]
  BY DEF FpsInv
<1>c. Len(times) \in Nat /\ \A k \in 1 .. Len(times) : times[k] \in Nat
  BY <1>b
<1>1. /\ all \in Seq(Nat) /\ Len(all) = Len(times) + 1
      /\ \A k \in 1 .. Len(times) : all[k] = times[k]
      /\ all[Len(times) + 1] = 0
  BY <1>b
<1>2. kept \in Nat /\ n \in 0 .. Len(times) /\ n \in 0 .. Len(all) /\ n + kept = Len(times)
  <2>1. kept \in Nat /\ kept <= Len(times)
    BY <1>a, <1>b
  <2>2. Len(times) \in Nat /\ Len(all) = Len(times) + 1
    BY <1>c, <1>1
  <2> HIDE DEF kept, all, times
  <2>3. QED
    BY <2>1, <2>2
<1>3. ASSUME NEW k \in 1 .. Len(all)
      PROVE  all[k] <= Second <=> k > n
  <2>1. CASE k = Len(times) + 1
    <3>1. all[k] = 0
      BY <1>1, <2>1
    <3> HIDE DEF all, n, times
    <3>2. QED
      BY <1>a, <1>c, <1>2, <2>1, <3>1
  <2>2. CASE k # Len(times) + 1
    <3>1. k \in 1 .. Len(times)
      BY <1>c, <1>1, <2>2
    <3>2. all[k] = times[k]
      BY <1>1, <3>1
    <3>3. times[k] <= Second <=> k > n
      BY <1>a, <1>b, <3>1
    <3>4. QED
      BY <3>2, <3>3
  <2>3. QED
    BY <2>1, <2>2
<1>4. ticked = Recent(all)
  BY DEF CounterTicked
<1>5. within' \in [0 .. Second -> Nat] /\ \A age \in 0 .. Second : within'[age] = within[age] + 1
  BY <1>b
<1>6. ASSUME NEW age \in 0 .. Second, NEW k \in 1 .. Len(times)
      PROVE  times[k] <= age <=> k > n + kept - within[age]
  <2>1. times[k] <= age <=> k > Len(times) - within[age]
    BY <1>b
  <2>2. within[age] \in Nat
    BY <1>b
  <2> HIDE DEF n, kept, times
  <2>3. QED
    BY <1>2, <2>1, <2>2
<1>7. \A age \in 0 .. Second : within[age] \in Nat /\ within[age] <= n + kept
  BY <1>b, <1>2
<1>8. \A k \in 1 .. Len(times) : times[k] <= Second <=> k > n
  BY <1>a, <1>b
<1> HIDE DEF all, n, kept, times, ticked
<1>9. ticked = SubSeq(all, n + 1, Len(all))
  BY <1>1, <1>2, <1>3, <1>4, RecentDrops
<1>10. Len(all) = n + kept + 1
  BY <1>1, <1>2, <1>c
<1>11. ticked \in Seq(Nat) /\ Len(ticked) = kept + 1
  BY <1>1, <1>2, <1>9, <1>10
<1>12. \A k \in 1 .. kept + 1 : ticked[k] = all[n + k]
  BY <1>1, <1>2, <1>9, <1>10
<1>13. ASSUME NEW age \in 0 .. Second
       PROVE  /\ within'[age] <= kept + 1
              /\ \A k \in 1 .. kept + 1 : ticked[k] <= age <=> k > kept + 1 - within'[age]
  <2> DEFINE w == within[age]
  <2>1. w \in Nat /\ w <= n + kept /\ within'[age] = w + 1
    BY <1>5, <1>7
  <2>2. \A k \in 1 .. n + kept : times[k] <= age <=> k > n + kept - w
    BY <1>2, <1>6
  <2> HIDE DEF w
  <2>3. w <= kept
    <3> SUFFICES ASSUME w > kept PROVE FALSE
      BY <1>2, <2>1
    <3>1. n \in 1 .. n + kept
      BY <1>2, <2>1
    <3>2. times[n] <= age /\ ~(times[n] <= Second)
      BY <1>2, <1>8, <2>1, <2>2, <3>1
    <3>3. times[n] \in Nat
      BY <1>2, <1>c, <3>1
    <3>4. QED
      BY <1>a, <3>2, <3>3
  <2>4. ASSUME NEW k \in 1 .. kept + 1
        PROVE  ticked[k] <= age <=> k > kept - w
    <3>1. CASE k = kept + 1
      <4>1. ticked[k] = 0
        BY <1>1, <1>2, <1>12, <3>1
      <4>2. QED
        BY <1>a, <1>2, <2>1, <3>1, <4>1
    <3>2. CASE k # kept + 1
      <4>1. k \in 1 .. kept /\ n + k \in 1 .. n + kept
        BY <1>2, <3>2
      <4>2. ticked[k] = times[n + k]
        BY <1>1, <1>2, <1>12, <4>1
      <4>3. times[n + k] <= age <=> n + k > n + kept - w
        BY <2>2, <4>1
      <4>4. QED
        BY <1>2, <2>1, <4>1, <4>2, <4>3
    <3>3. QED
      BY <3>1, <3>2
  <2>5. QED
    BY <1>2, <2>1, <2>3, <2>4
<1>14. Len(ticked) = within'[Second]
  BY <1>a, <1>5, <1>11 DEF kept
<1>15. /\ ticked \in Seq(Nat) /\ within' \in [0 .. Second -> Nat]
       /\ \A age \in 0 .. Second :
            /\ within'[age] <= Len(ticked)
            /\ \A k \in 1 .. Len(ticked) : ticked[k] <= age <=> k > Len(ticked) - within'[age]
  <2>1. ASSUME NEW age \in 0 .. Second
        PROVE  /\ within'[age] <= Len(ticked)
               /\ \A k \in 1 .. Len(ticked) :
                    ticked[k] <= age <=> k > Len(ticked) - within'[age]
    <3>1. Len(ticked) = kept + 1
      BY <1>11
    <3>2. within'[age] <= Len(ticked)
      BY <1>13, <3>1
    <3>3. ASSUME NEW k \in 1 .. Len(ticked)
          PROVE  ticked[k] <= age <=> k > Len(ticked) - within'[age]
      <4>1. k \in 1 .. kept + 1
        BY <3>1
      <4>2. ticked[k] <= age <=> k > kept + 1 - within'[age]
        BY <1>13, <4>1
      <4>3. within'[age] \in Nat
        BY <1>5
      <4>4. QED
        BY <1>2, <3>1, <4>2, <4>3
    <3>4. QED
      BY <3>2, <3>3
  <2>2. QED
    BY <1>5, <1>11, <2>1
<1>16. QED
  BY <1>14, <1>15 DEF FpsInv, ticked

\* All times get older together.
LEMMA TimeRates ==
  ASSUME FpsInv, TimePasses
  PROVE  FpsInv'
<1> DEFINE times == metronome.frame_times
           aged == metronome'.frame_times
<1>a. Second \in Nat /\ Oldest \in Nat /\ Oldest > Second
  BY ThrottlerAssumption
<1>b. /\ times \in Seq(Nat) /\ within \in [0 .. Second -> Nat]
      /\ \A age \in 0 .. Second :
           /\ within[age] <= Len(times)
           /\ \A k \in 1 .. Len(times) : times[k] <= age <=> k > Len(times) - within[age]
  BY DEF FpsInv
<1>1. aged = [k \in 1 .. Len(times) |-> Older(times[k])]
  BY <1>b DEF TimePasses, CounterAged
<1>2. ASSUME NEW k \in 1 .. Len(times)
      PROVE  times[k] \in Nat /\ Older(times[k]) \in Nat
  <2>1. times[k] \in Nat
    BY <1>b
  <2> HIDE DEF times
  <2>2. QED
    BY <1>a, <2>1 DEF Older
<1>3. /\ aged \in Seq(Nat) /\ Len(aged) = Len(times) /\ Len(times) \in Nat
      /\ \A k \in 1 .. Len(times) : aged[k] = Older(times[k])
  BY <1>1, <1>2, <1>b
<1>4. /\ within' \in [0 .. Second -> Nat]
      /\ \A age \in 0 .. Second : within'[age] = IF age = 0 THEN 0 ELSE within[age - 1]
  BY <1>a, <1>b DEF TimePasses
<1>5. ASSUME NEW age \in 0 .. Second
      PROVE  /\ within'[age] <= Len(times)
             /\ \A k \in 1 .. Len(times) : aged[k] <= age <=> k > Len(times) - within'[age]
  <2>1. CASE age = 0
    <3>1. \A k \in 1 .. Len(times) : ~(Older(times[k]) <= 0)
      BY <1>a, <1>2 DEF Older
    <3>2. QED
      BY <1>3, <1>4, <2>1, <3>1
  <2>2. CASE age # 0
    <3>1. age - 1 \in 0 .. Second
      BY <1>a, <2>2
    <3>2. \A k \in 1 .. Len(times) : Older(times[k]) <= age <=> times[k] <= age - 1
      BY <1>a, <1>2 DEF Older
    <3>3. within'[age] = within[age - 1]
      BY <1>4, <2>2
    <3>4. QED
      BY <1>3, <1>b, <3>1, <3>2, <3>3
  <2>3. QED
    BY <2>1, <2>2
<1>6. within'[0] = 0
  BY <1>a, <1>4
<1>7. QED
  BY <1>3, <1>4, <1>5, <1>6 DEF FpsInv

-----------------------------------------------------------------------------
(* The main loop as the client.                                            *)

\* The invariant holds before main() registers the tags.
LEMMA DInitInv == DInit => DInv
<1> SUFFICES ASSUME DInit PROVE DInv
  OBVIOUS
<1>1. QuotaInv
  BY DEF DInit, Init, QuotaInv, LimitsHold
<1>2. BeatInv
  BY ThrottlerAssumption DEF DInit, Init, BeatInv, FramerateCounter
<1>3. FpsInv
  BY ThrottlerAssumption DEF DInit, Init, FpsInv, FramerateCounter
<1>4. QED
  BY <1>1, <1>2, <1>3 DEF DInv

\* The tags and quotas of the code.
LEMMA TagsOfOutcomes ==
  \A o \in Outcomes : Tag(o) \in Tags /\ Quota(o) \in Nat
<1>1. \A o \in Outcomes : Tag(o) \in Tags
  BY TagsAssumption
<1>2. \A o \in Outcomes : Quota(o) \in Nat
  BY DEF Outcomes, Quota
<1>3. QED
  BY <1>1, <1>2

\* Every step keeps the invariant.
LEMMA DNextInv == DInv /\ [DNext]_dvars => DInv'
<1> SUFFICES ASSUME DInv, [DNext]_dvars PROVE DInv'
  OBVIOUS
<1>a. QuotaInv /\ BeatInv /\ FpsInv /\ executed \in [Tags -> Nat]
  BY DEF DInv, QuotaInv, LimitsHold
<1>1. ASSUME NEW o \in Outcomes, Register(o) PROVE DInv'
  <2>1. /\ actions' = Registered(actions, Tag(o), Quota(o))
        /\ executed' = [executed EXCEPT ![Tag(o)] = 0]
        /\ UNCHANGED << metronome, last_action, within >>
    BY <1>1 DEF Register, RegisterAction
  <2>2. QuotaInv'
    BY <1>a, <2>1, TagsOfOutcomes, RegisterHolds DEF QuotaInv
  <2>3. BeatInv'
    BY <1>a, <2>1 DEF BeatInv
  <2>4. FpsInv'
    BY <1>a, <2>1 DEF FpsInv
  <2>5. QED
    BY <2>2, <2>3, <2>4 DEF DInv
<1>2. ASSUME NEW o \in Outcomes, Detect(o) PROVE DInv'
  <2>1. /\ actions' = Dispatched(Tag(o)) /\ metronome' = CounterTicked(metronome)
        /\ Count(Tag(o), {})
    BY <1>2 DEF Detect, Dispatch
  <2>2. executed' = Counted(Tag(o))
    BY <2>1 DEF Count, Counted
  <2>3. QuotaInv'
    BY <1>a, <2>1, <2>2, TagsOfOutcomes, DispatchHolds DEF QuotaInv
  <2>4. BeatInv'
    BY <1>a, <2>1, DispatchBeats DEF Count
  <2>5. FpsInv'
    BY <1>a, <2>1, DispatchRates DEF Count
  <2>6. QED
    BY <2>3, <2>4, <2>5 DEF DInv
<1>3. CASE DetectSome
  <2> DEFINE some == Tag("balls")
             none == Tag("none")
  <2>1. /\ actions' = ResetOf(Dispatched(some), none) /\ metronome' = CounterTicked(metronome)
        /\ Count(some, {none})
    BY <1>3 DEF DetectSome, AbsenceReset
  <2>2. some \in Tags /\ none \in Tags
    BY TagsOfOutcomes DEF Outcomes
  <2> HIDE DEF some, none
  <2>3. LimitsHold(Dispatched(some), Counted(some))
    BY <1>a, <2>2, DispatchHolds
  <2>4. executed' = [Counted(some) EXCEPT ![none] = 0]
    BY <2>1 DEF Count, Counted
  <2>5. QuotaInv'
    BY <2>1, <2>2, <2>3, <2>4, ResetHolds DEF QuotaInv
  <2>6. BeatInv'
    BY <1>a, <2>1, DispatchBeats DEF Count
  <2>7. FpsInv'
    BY <1>a, <2>1, DispatchRates DEF Count
  <2>8. QED
    BY <2>5, <2>6, <2>7 DEF DInv
<1>4. CASE TimePasses
  <2>1. UNCHANGED << actions, executed >>
    BY <1>4 DEF TimePasses
  <2>2. QED
    BY <1>a, <1>4, <2>1, TimeBeats, TimeRates DEF QuotaInv, DInv
<1>5. CASE UNCHANGED dvars
  BY <1>a, <1>5 DEF dvars, vars, QuotaInv, BeatInv, FpsInv, DInv
<1>6. QED
  BY <1>1, <1>2, <1>3, <1>4, <1>5 DEF DNext, DetectStep, Outcomes

-----------------------------------------------------------------------------
(* The theorems.                                                           *)

\* DInv is an invariant of the reports of the main loop.
THEOREM DInvCorrect == DSpec => []DInv
  BY DInitInv, DNextInv, PTL DEF DSpec

\* No tag is executed more often than its quota between two resets, and none
\* is off before its quota is spent.
THEOREM QuotaCorrect == DSpec => []QuotaKept
<1>1. DInv => QuotaKept
  BY DEF DInv, QuotaInv, LimitsHold, LimitState, Limits, QuotaKept
<1>2. QED
  BY <1>1, DInvCorrect, PTL

\* Actions are more than an interval apart, whatever their tags.
THEOREM IntervalCorrect == DSpec => OnePerInterval
<1>1. DInv /\ [DNext]_dvars =>
        [(\E t \in Tags : executed'[t] > executed[t]) => last_action > Interval]_vars
  <2> SUFFICES ASSUME DInv, [DNext]_dvars, NEW t \in Tags, executed'[t] > executed[t]
               PROVE  last_action > Interval
    OBVIOUS
  <2>a. executed \in [Tags -> Nat]
    BY DEF DInv, QuotaInv, LimitsHold
  <2>1. \E tag, reset : Count(tag, reset)
    <3>1. ASSUME NEW o, Register(o) PROVE FALSE
      <4>1. executed' = [executed EXCEPT ![Tag(o)] = 0]
        BY <3>1 DEF Register, RegisterAction
      <4>2. QED
        BY <2>a, <4>1
    <3>2. UNCHANGED executed => FALSE
      BY <2>a
    <3>3. QED
      BY <3>1, <3>2 DEF DNext, DetectStep, Detect, Dispatch, DetectSome, TimePasses, dvars, vars
  <2>2. Reaches(metronome)
    BY <2>a, <2>1 DEF Count, Executes
  <2>3. metronome.last_reach > Interval
    BY <2>2 DEF DInv, BeatInv, Reaches
  <2>4. QED
    BY <2>3, ThrottlerAssumption DEF DInv, BeatInv
<1>2. QED
  BY <1>1, DInvCorrect, PTL DEF DSpec, OnePerInterval

\* After a tick fps() is the number of ticks of the last second, whatever the
\* rate at which they come and however many were too old at once.
THEOREM RateCorrect == DSpec => []FpsIsRate
<1>1. DInv => FpsIsRate
  BY DEF DInv, FpsInv, FpsIsRate, Fps
<1>2. QED
  BY <1>1, DInvCorrect, PTL
=============================================================================
