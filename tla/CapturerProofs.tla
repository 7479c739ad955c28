--------------------------- MODULE CapturerProofs ---------------------------
(***************************************************************************)
(* Proofs about Capturer, for all values of the two limits and for every   *)
(* behavior of the device.                                                 *)
(***************************************************************************)
EXTENDS Capturer, TLAPS

\* The life of the thread and that of the main thread.
LifeInv ==
  /\ thread = "none" <=> main \in {"initialize", "panicked"}
  /\ main = "destroyed" => thread = "ended"
  /\ stop_requested => ~running

\* The counter of failures agrees with the history, and only failed_callback
\* is ever past its limit.
FailedInv ==
  /\ ~capture_failed_limit.stop
  /\ capture_failed_limit.count = failures
  /\ DisconnectsAtLimit

\* The counter of failed reconnections agrees with what was printed, and is
\* switched off when it passes its limit.
ErrorInv ==
  /\ printed = error_limit.count
  /\ error_limit.stop <=> error_limit.count = ErrorTimes + 1
  /\ lost => printed > 0

\* How many interface calls a thread that must stop has still been able to
\* make, at each point of its loop.
LateInv ==
  /\ running => late_calls = 0
  /\ thread \in {"stop?", "connected?", "connect", "wait_image"} => late_calls = 0
  /\ thread \in {"reconnect_wait", "disconnect"} => late_calls <= 1
  /\ late_calls <= 2

\* The inductive invariant.
Inv == TypeOK /\ LifeInv /\ FailedInv /\ ErrorInv /\ LateInv

-----------------------------------------------------------------------------
(* What the operations of TimesLimit do.                                   *)

\* The fields of a limit.
LEMMA LimitFields ==
  ASSUME NEW n \in Nat, NEW l \in LimitsOf(n)
  PROVE  l.count \in 0 .. n + 1 /\ l.limit = n /\ l.stop \in BOOLEAN
  BY DEF LimitsOf

\* A fresh limit.
LEMMA LimitInit ==
  ASSUME NEW n \in Nat
  PROVE  TimesLimit(n) \in LimitsOf(n)
  BY DEF LimitsOf, TimesLimit

\* A limit that is on and has not passed its limit counts by one.
LEMMA LimitTicks ==
  ASSUME NEW n \in Nat, NEW l \in LimitsOf(n), ~l.stop, l.count <= n
  PROVE  /\ Ticked(l) \in LimitsOf(n)
         /\ Ticked(l).count = l.count + 1
         /\ ~Ticked(l).stop
         /\ Allows(l) <=> l.count < n
<1>1. l.count + 1 \in 0 .. n + 1
  BY LimitFields
<1>2. QED
  BY <1>1 DEF LimitsOf, Ticked, Allows

\* A limit that is off refuses and does not count.
LEMMA LimitRefuses ==
  ASSUME NEW n \in Nat, NEW l \in LimitsOf(n), l.stop
  PROVE  Ticked(l) = l /\ ~Allows(l) /\ ~Enabled(l)
  BY DEF Ticked, Allows, Enabled

\* Switching a limit on and off, and resetting it.
LEMMA LimitSwitches ==
  ASSUME NEW n \in Nat, NEW l \in LimitsOf(n)
  PROVE  /\ Disable(l) \in LimitsOf(n)
         /\ Disable(l).stop /\ Disable(l).count = l.count
         /\ Reset(l) \in LimitsOf(n)
         /\ Reset(l).count = 0 /\ Reset(l).stop = l.stop
         /\ Enable(Reset(l)) \in LimitsOf(n)
         /\ Enable(Reset(l)).count = 0 /\ ~Enable(Reset(l)).stop
<1>1. /\ Disable(l) \in LimitsOf(n)
      /\ Disable(l).stop /\ Disable(l).count = l.count
  BY DEF LimitsOf, Disable
<1>2. /\ Reset(l) \in LimitsOf(n)
      /\ Reset(l).count = 0 /\ Reset(l).stop = l.stop
  BY DEF LimitsOf, Reset
<1>3. ASSUME NEW m \in LimitsOf(n)
      PROVE  Enable(m) \in LimitsOf(n) /\ Enable(m).count = m.count /\ ~Enable(m).stop
  BY DEF LimitsOf, Enable
<1>4. QED
  BY <1>1, <1>2, <1>3

-----------------------------------------------------------------------------
(* The invariant is inductive.                                             *)

LEMMA InitInv == Init => Inv
<1> SUFFICES ASSUME Init PROVE Inv
  OBVIOUS
<1> USE LimitsAssumption DEF Init, MostFailures, MostPrinted, MostLateCalls
<1>a. capture_failed_limit \in LimitsOf(FailedTimes) /\ error_limit \in LimitsOf(ErrorTimes)
  BY LimitInit
<1>b. failures \in 0 .. MostFailures /\ printed \in 0 .. MostPrinted /\ late_calls \in 0 .. MostLateCalls
  OBVIOUS
<1>1. TypeOK
  <2> HIDE LimitsAssumption DEF MostFailures, MostPrinted, MostLateCalls
  <2> QED
    BY <1>a, <1>b DEF TypeOK
<1>2. LifeInv /\ LateInv
  BY DEF LifeInv, LateInv
<1>3. FailedInv /\ ErrorInv
  BY DEF FailedInv, DisconnectsAtLimit, ErrorInv, TimesLimit
<1>4. QED
  BY <1>1, <1>2, <1>3 DEF Inv

\* Every step keeps the invariant.
LEMMA NextInv == Inv /\ [Next]_vars => Inv'
<1> SUFFICES ASSUME Inv, [Next]_vars PROVE Inv'
  OBVIOUS
<1> USE LimitsAssumption DEF limits, history, MostFailures, MostPrinted, MostLateCalls, CountUpTo
<1>a. TypeOK /\ LifeInv /\ FailedInv /\ ErrorInv /\ LateInv
  BY DEF Inv
<1>b. capture_failed_limit \in LimitsOf(FailedTimes) /\ error_limit \in LimitsOf(ErrorTimes)
  BY <1>a DEF TypeOK
<1>c. late_calls \in 0 .. 3 /\ (CountCall => late_calls' \in 0 .. 3)
  BY <1>a DEF TypeOK, CountCall, MustStop
<1>1. CASE Initialize
  <2> USE <1>a, <1>1 DEF Initialize, InitializeThread
  <2>1. TypeOK'
    BY DEF TypeOK
  <2>2. LifeInv'
    BY DEF LifeInv
  <2>3. FailedInv'
    BY DEF FailedInv, DisconnectsAtLimit, LifeInv
  <2>4. ErrorInv'
    BY DEF ErrorInv
  <2>5. LateInv'
    BY DEF LateInv, LifeInv, TypeOK
  <2>6. QED
    BY <2>1, <2>2, <2>3, <2>4, <2>5 DEF Inv
<1>2. CASE InitializeFails /\ UNCHANGED connected
  <2> USE <1>a, <1>2 DEF InitializeFails
  <2>1. TypeOK'
    BY DEF TypeOK
  <2>2. LifeInv'
    BY DEF LifeInv
  <2>3. FailedInv'
    BY DEF FailedInv, DisconnectsAtLimit
  <2>4. ErrorInv'
    BY DEF ErrorInv
  <2>5. LateInv'
    BY DEF LateInv, LifeInv, TypeOK
  <2>6. QED
    BY <2>1, <2>2, <2>3, <2>4, <2>5 DEF Inv
<1>3. CASE RequestStop /\ UNCHANGED connected
  <2> USE <1>a, <1>3 DEF RequestStop
  <2>1. TypeOK'
    BY DEF TypeOK
  <2>2. LifeInv'
    BY DEF LifeInv
  <2>3. FailedInv'
    BY DEF FailedInv, DisconnectsAtLimit
  <2>4. ErrorInv'
    BY DEF ErrorInv
  <2>5. LateInv'
    BY DEF LateInv, LifeInv, TypeOK
  <2>6. QED
    BY <2>1, <2>2, <2>3, <2>4, <2>5 DEF Inv
<1>4. CASE Join /\ UNCHANGED connected
  <2> USE <1>a, <1>4 DEF Join, Joined
  <2>1. TypeOK'
    BY DEF TypeOK
  <2>2. LifeInv'
    BY DEF LifeInv
  <2>3. FailedInv'
    BY DEF FailedInv, DisconnectsAtLimit
  <2>4. ErrorInv'
    BY DEF ErrorInv
  <2>5. LateInv'
    BY DEF LateInv, LifeInv, TypeOK
  <2>6. QED
    BY <2>1, <2>2, <2>3, <2>4, <2>5 DEF Inv
<1>5. CASE CheckRunning /\ UNCHANGED connected
  <2> USE <1>a, <1>5 DEF CheckRunning, GetRunning
  <2>1. TypeOK'
    BY DEF TypeOK
  <2>2. LifeInv'
    BY DEF LifeInv
  <2>3. FailedInv'
    BY DEF FailedInv, DisconnectsAtLimit
  <2>4. ErrorInv'
    BY DEF ErrorInv
  <2>5. LateInv'
    BY DEF LateInv, LifeInv, TypeOK
  <2>6. QED
    BY <2>1, <2>2, <2>3, <2>4, <2>5 DEF Inv
<1>6. CASE CheckStop /\ UNCHANGED connected
  <2> USE <1>a, <1>6 DEF CheckStop
  <2>1. TypeOK'
    BY DEF TypeOK
  <2>2. LifeInv'
    BY DEF LifeInv
  <2>3. FailedInv'
    BY DEF FailedInv, DisconnectsAtLimit
  <2>4. ErrorInv'
    BY DEF ErrorInv
  <2>5. LateInv'
    BY DEF LateInv, LifeInv, TypeOK
  <2>6. QED
    BY <2>1, <2>2, <2>3, <2>4, <2>5 DEF Inv
<1>7. CASE ReconnectWaited /\ UNCHANGED connected
  <2> USE <1>a, <1>7 DEF ReconnectWaited
  <2>1. TypeOK'
    BY DEF TypeOK
  <2>2. LifeInv'
    BY DEF LifeInv
  <2>3. FailedInv'
    BY DEF FailedInv, DisconnectsAtLimit
  <2>4. ErrorInv'
    BY DEF ErrorInv
  <2>5. LateInv'
    BY DEF LateInv, LifeInv, TypeOK
  <2>6. QED
    BY <2>1, <2>2, <2>3, <2>4, <2>5 DEF Inv
<1>8. CASE CheckConnected(connected) /\ UNCHANGED connected
  <2> USE <1>a, <1>8 DEF CheckConnected, Usable
  <2>1. TypeOK'
    BY DEF TypeOK
  <2>2. LifeInv'
    BY DEF LifeInv
  <2>3. FailedInv'
    BY DEF FailedInv, DisconnectsAtLimit
  <2>4. ErrorInv'
    BY DEF ErrorInv
  <2>5. LateInv'
    BY DEF LateInv, LifeInv, TypeOK
  <2>6. QED
    BY <2>1, <2>2, <2>3, <2>4, <2>5 DEF Inv
<1>9. CASE SetRunning /\ UNCHANGED connected
  <2> USE <1>a, <1>9 DEF SetRunning
  <2>1. TypeOK'
    BY DEF TypeOK
  <2>2. LifeInv'
    BY DEF LifeInv
  <2>3. FailedInv'
    BY DEF FailedInv, DisconnectsAtLimit
  <2>4. ErrorInv'
    BY DEF ErrorInv
  <2>5. LateInv'
    BY DEF LateInv, LifeInv, TypeOK
  <2>6. QED
    BY <2>1, <2>2, <2>3, <2>4, <2>5 DEF Inv
<1>10. CASE LoseConnection
  <2> USE <1>a, <1>10 DEF LoseConnection
  <2>1. TypeOK'
    BY DEF TypeOK
  <2>2. LifeInv'
    BY DEF LifeInv
  <2>3. FailedInv'
    BY DEF FailedInv, DisconnectsAtLimit
  <2>4. ErrorInv'
    BY DEF ErrorInv
  <2>5. LateInv'
    BY DEF LateInv, LifeInv, TypeOK
  <2>6. QED
    BY <2>1, <2>2, <2>3, <2>4, <2>5 DEF Inv
<1>11. CASE Disconnect
  <2> USE <1>a, <1>11 DEF Disconnect, DisconnectReturns
  <2>1. TypeOK'
    BY <1>c DEF TypeOK
  <2>2. LifeInv' /\ ErrorInv'
    BY DEF LifeInv, ErrorInv
  <2>3. FailedInv'
    BY DEF FailedInv, DisconnectsAtLimit
  <2>4. LateInv'
    BY DEF LateInv, LifeInv, TypeOK, CountCall, MustStop
  <2>5. QED
    BY <2>1, <2>2, <2>3, <2>4 DEF Inv
<1>12. CASE ImageArrives /\ UNCHANGED connected
  <2> USE <1>a, <1>12 DEF ImageArrives
  <2>1. TypeOK'
    BY <1>c DEF TypeOK
  <2>2. LifeInv' /\ ErrorInv'
    BY DEF LifeInv, ErrorInv
  <2>3. FailedInv'
    BY DEF FailedInv, DisconnectsAtLimit
  <2>4. LateInv'
    BY DEF LateInv, LifeInv, TypeOK, CountCall, MustStop
  <2>5. QED
    BY <2>1, <2>2, <2>3, <2>4 DEF Inv
<1>13. CASE UNCHANGED vars
  <2> USE <1>a, <1>13 DEF vars
  <2>1. TypeOK'
    BY DEF TypeOK
  <2>2. LifeInv'
    BY DEF LifeInv
  <2>3. FailedInv'
    BY DEF FailedInv, DisconnectsAtLimit
  <2>4. ErrorInv'
    BY DEF ErrorInv
  <2>5. LateInv'
    BY DEF LateInv, LifeInv, TypeOK
  <2>6. QED
    BY <2>1, <2>2, <2>3, <2>4, <2>5 DEF Inv
<1>14. CASE ConnectSucceeds /\ connected' = TRUE
  <2> USE <1>14 DEF ConnectSucceeds
  <2>1. /\ error_limit' \in LimitsOf(ErrorTimes)
        /\ error_limit'.count = 0 /\ ~error_limit'.stop
    BY <1>b, LimitSwitches
  <2>2. TypeOK'
    <3>1. late_calls' \in 0 .. MostLateCalls /\ printed' \in 0 .. MostPrinted
      BY <1>c
    <3> HIDE LimitsAssumption DEF MostPrinted, MostLateCalls, MostFailures, CountUpTo
    <3> QED
      BY <1>a, <2>1, <3>1 DEF TypeOK
  <2>3. LifeInv' /\ FailedInv'
    BY <1>a DEF LifeInv, FailedInv, DisconnectsAtLimit
  <2>4. ErrorInv'
    BY <2>1 DEF ErrorInv
  <2>5. LateInv'
    BY <1>a DEF LateInv, LifeInv, TypeOK, CountCall, MustStop
  <2>6. QED
    BY <2>2, <2>3, <2>4, <2>5 DEF Inv
<1>15. CASE ConnectFails /\ connected' = FALSE
  <2> USE <1>15 DEF ConnectFails
  <2>a. error_limit.count \in 0 .. ErrorTimes + 1 /\ printed = error_limit.count
    BY <1>a, <1>b, LimitFields DEF ErrorInv
  <2>1. ASSUME error_limit.stop
        PROVE  error_limit' \in LimitsOf(ErrorTimes) /\ printed' \in 0 .. ErrorTimes + 2 /\ ErrorInv'
    <3>1. UNCHANGED << error_limit, printed >>
      BY <2>1, <1>b, <2>a, LimitRefuses
    <3>2. printed > 0
      BY <1>a, <2>1, <2>a DEF ErrorInv
    <3>3. QED
      BY <1>a, <1>b, <2>a, <3>1, <3>2 DEF ErrorInv
  <2>2. ASSUME ~error_limit.stop
        PROVE  error_limit' \in LimitsOf(ErrorTimes) /\ printed' \in 0 .. ErrorTimes + 2 /\ ErrorInv'
    <3> DEFINE ticked == Ticked(error_limit)
    <3>1. error_limit.count <= ErrorTimes
      BY <1>a, <2>2, <2>a DEF ErrorInv
    <3>2. /\ ticked \in LimitsOf(ErrorTimes)
          /\ ticked.count = error_limit.count + 1 /\ ~ticked.stop
          /\ Allows(error_limit) <=> error_limit.count < ErrorTimes
      BY <1>b, <2>2, <3>1, LimitTicks
    <3>3. /\ Disable(ticked) \in LimitsOf(ErrorTimes)
          /\ Disable(ticked).stop /\ Disable(ticked).count = ticked.count
          /\ Enabled(ticked)
      BY <3>2, LimitSwitches DEF Enabled
    <3> HIDE DEF ticked
    <3>4. /\ error_limit' = IF Allows(error_limit) THEN ticked ELSE Disable(ticked)
          /\ printed' = CountUpTo(printed, MostPrinted)
      BY <3>3 DEF ticked
    <3>5. printed' = printed + 1
      BY <2>a, <3>1, <3>4
    <3>6. QED
      BY <2>a, <3>1, <3>2, <3>3, <3>4, <3>5 DEF ErrorInv
  <2>3. TypeOK' /\ ErrorInv'
    BY <1>a, <1>c, <2>1, <2>2 DEF TypeOK
  <2>4. LifeInv' /\ FailedInv'
    BY <1>a DEF LifeInv, FailedInv, DisconnectsAtLimit
  <2>5. LateInv'
    BY <1>a DEF LateInv, LifeInv, TypeOK, CountCall, MustStop
  <2>6. QED
    BY <2>3, <2>4, <2>5 DEF Inv
<1>16. CASE ImageFails /\ UNCHANGED connected
  <2> USE <1>16 DEF ImageFails
  <2>1. failures \in Nat /\ failures <= FailedTimes
    BY <1>a DEF FailedInv, DisconnectsAtLimit, TypeOK
  <2>2. /\ capture_failed_limit' \in LimitsOf(FailedTimes)
        /\ capture_failed_limit'.count = failures + 1 /\ ~capture_failed_limit'.stop
        /\ thread' = IF failures < FailedTimes THEN "running?" ELSE "disconnect"
    BY <1>a, <1>b, <2>1, LimitTicks DEF FailedInv
  <2>3. TypeOK'
    BY <1>a, <1>c, <2>1, <2>2 DEF TypeOK
  <2>4. LifeInv' /\ ErrorInv'
    BY <1>a DEF LifeInv, ErrorInv
  <2>5. FailedInv'
    BY <2>1, <2>2 DEF FailedInv, DisconnectsAtLimit
  <2>6. LateInv'
    BY <1>a DEF LateInv, LifeInv, TypeOK, CountCall, MustStop
  <2>7. QED
    BY <2>3, <2>4, <2>5, <2>6 DEF Inv
<1>17. CASE FailedWaited /\ UNCHANGED connected
  <2> USE <1>17 DEF FailedWaited
  <2>1. /\ capture_failed_limit' \in LimitsOf(FailedTimes)
        /\ capture_failed_limit'.count = 0 /\ ~capture_failed_limit'.stop
    BY <1>a, <1>b, LimitSwitches DEF FailedInv
  <2>2. TypeOK' /\ FailedInv'
    BY <1>a, <2>1 DEF TypeOK, FailedInv, DisconnectsAtLimit
  <2>3. LifeInv' /\ ErrorInv' /\ LateInv'
    BY <1>a DEF LifeInv, ErrorInv, LateInv, TypeOK
  <2>4. QED
    BY <2>2, <2>3 DEF Inv
<1>18. QED
  BY <1>1, <1>2, <1>3, <1>4, <1>5, <1>6, <1>7, <1>8, <1>9, <1>10, <1>11,
     <1>12, <1>13, <1>14, <1>15, <1>16, <1>17
     DEF Next, MainStep, ThreadStep, QuietStep, Arrive, Connect, WaitImage, Finished

-----------------------------------------------------------------------------
(* The theorems.                                                           *)

\* Inv is an invariant of the specification, and so are its parts.
THEOREM InvCorrect == Spec => []Inv
  BY InitInv, NextInv, PTL DEF Spec

\* The types hold for ever; neither limit counts past one event too many.
THEOREM TypeCorrect == Spec => []TypeOK
<1>1. Inv => TypeOK
  BY DEF Inv
<1>2. QED
  BY <1>1, InvCorrect, PTL

\* The interface is called only while the Capturer that owns it exists.
THEOREM InterfaceCorrect == Spec => []InterfaceOutlivesThread
<1>1. Inv => InterfaceOutlivesThread
  BY DEF Inv, TypeOK, LifeInv, InterfaceOutlivesThread
<1>2. QED
  BY <1>1, InvCorrect, PTL

\* The thread disconnects after exactly one failure more than the limit.
THEOREM DisconnectCorrect == Spec => []DisconnectsAtLimit
<1>1. Inv => DisconnectsAtLimit
  BY DEF Inv, FailedInv
<1>2. QED
  BY <1>1, InvCorrect, PTL

\* However long an outage lasts, and however many there were before, it is
\* reported at least once and at most as often as the limit and one more.
THEOREM ReportsCorrect == Spec => []OutagesReported
<1>1. Inv => OutagesReported
  BY LimitsAssumption, LimitFields DEF Inv, TypeOK, ErrorInv, OutagesReported
<1>2. QED
  BY <1>1, InvCorrect, PTL

\* A thread that must stop makes at most two more calls that may take long.
THEOREM StopCorrect == Spec => []StopsPromptly
<1>1. Inv => StopsPromptly
  BY DEF Inv, LateInv, StopsPromptly
<1>2. QED
  BY <1>1, InvCorrect, PTL
=============================================================================
