-------------------------- MODULE FramerateCounter --------------------------
(***************************************************************************)
(* FramerateCounter (src/module/debug/framerate.hpp): the times of the     *)
(* ticks of the last second, and a metronome that says at which tick more  *)
(* than an interval has gone by since it last said so.                     *)
(*                                                                         *)
(* A point in time is represented by its age, in the unit of the clock; an *)
(* age of Oldest stands for every greater one.                             *)
(***************************************************************************)
EXTENDS Integers, Sequences

CONSTANTS
  Second,  \* a second
  Oldest   \* greater than a second and than every interval

Older(age) == IF age < Oldest THEN age + 1 ELSE age

\* A counter that has not ticked: last_reach_interval_timestamp is the epoch
\* of the clock.
FramerateCounter(i) ==
  [frame_times |-> << >>, last_reach |-> Oldest, interval |-> i]

\* The value tick() returns, and the object it leaves behind.
Reaches(c) == c.interval > 0 /\ c.last_reach > c.interval

\* Defects: the times that are too old stay; the metronome does not note when
\* it has said so.
All(times) == times
NotNoted(c) == c.last_reach

\* The front is dropped while it is too old.
Recent(times) ==
  LET first == CHOOSE k \in 1 .. Len(times) + 1 :
                 /\ \A j \in 1 .. k - 1 : times[j] > Second
                 /\ k <= Len(times) => times[k] <= Second
  IN SubSeq(times, first, Len(times))

Noted(c) == IF Reaches(c) THEN 0 ELSE c.last_reach

CounterTicked(c) ==
  [c EXCEPT !.frame_times = Recent(Append(@, 0)), !.last_reach = Noted(c)]

Fps(c) == Len(c.frame_times)

\* A unit of time goes by.
CounterAged(c) ==
  [c EXCEPT !.frame_times = [k \in DOMAIN @ |-> Older(@[k])],
            !.last_reach  = Older(@)]
=============================================================================
