----------------------------- MODULE TimesLimit -----------------------------
(***************************************************************************)
(* util::TimesLimit (src/utility/times_limit.hpp): a counter that allows   *)
(* an event a limited number of times, until it is reset, and a switch     *)
(* that refuses every event without counting it.                           *)
(***************************************************************************)
EXTENDS Integers

TimesLimit(n) == [count |-> 0, limit |-> n, stop |-> FALSE]

\* The objects with limit n that have counted at most one event too many.
LimitsOf(n) == [count : 0 .. n + 1, limit : {n}, stop : BOOLEAN]

\* Defects: one event more than the limit; the switch cannot be turned on again.
AllowsOneMore(l) == ~l.stop /\ l.count <= l.limit
EnableNothing(l) == l

\* The value tick() returns, and the object it leaves behind.
Allows(l) == ~l.stop /\ l.count < l.limit
Ticked(l) == IF l.stop THEN l ELSE [l EXCEPT !.count = @ + 1]

Enabled(l)  == ~l.stop
Enable(l)   == [l EXCEPT !.stop = FALSE]
Disable(l)  == [l EXCEPT !.stop = TRUE]
Reset(l)    == [l EXCEPT !.count = 0]
=============================================================================
