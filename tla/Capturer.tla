------------------------------ MODULE Capturer ------------------------------
(***************************************************************************)
(* kernel::Capturer (src/kernel/capturer.cpp): the runtime thread that     *)
(* connects to a source of images, reads images from it and reconnects     *)
(* when it fails, and the life of that thread: started by initialize,      *)
(* stopped and joined by the destructor.                                   *)
(*                                                                         *)
(* The source is a cap::Interface.  Here it is any device that answers     *)
(* connected(), connect(), wait_image() and disconnect(): every call       *)
(* returns, with any outcome, and the connection may be lost at any time.  *)
(* VideoCapturer puts LocalVideo in its place.  What success_callback does *)
(* with an image is the subject of CaptureQueue.                           *)
(***************************************************************************)
EXTENDS Integers, TimesLimit

CONSTANTS
  FailedTimes,  \* capture_failed_limit's limit (3 in the code)
  ErrorTimes    \* error_limit's limit (3 in the code)

ASSUME LimitsAssumption == FailedTimes \in Nat /\ ErrorTimes \in Nat

VARIABLES
  main,            \* where the main thread is in the life of the Capturer
  thread,          \* program counter of runtime_task
  running,         \* util::get_running()
  stop_requested,  \* the stop token of runtime_thread
  connected,       \* interface->connected()
  capture_failed_limit, error_limit,
  failures,        \* history: failed wait_image() since the last disconnect()
  lost,            \* history: a connect() failed since the last one that did not
  printed,         \* history: error reports since the last successful connect()
  late_calls       \* history: interface calls made although the thread must stop

limits   == << capture_failed_limit, error_limit >>
history  == << failures, lost, printed, late_calls >>
vars     == << main, thread, running, stop_requested, connected, limits, history >>

\* The thread has been told to end, by either of its two conditions.
MustStop == stop_requested \/ ~running

\* The history variables count up to one more than the properties allow.
MostFailures  == FailedTimes + 2
MostPrinted   == ErrorTimes + 2
MostLateCalls == 3

CountUpTo(n, most) == IF n < most THEN n + 1 ELSE n

\* An interface call that may take long is made.
CountCall ==
  late_calls' = IF MustStop THEN CountUpTo(late_calls, MostLateCalls) ELSE late_calls

Init ==
  /\ main = "initialize"
  /\ thread = "none"
  /\ running = TRUE
  /\ stop_requested = FALSE
  /\ connected = FALSE
  /\ capture_failed_limit = TimesLimit(FailedTimes)
  /\ error_limit = TimesLimit(ErrorTimes)
  /\ failures = 0
  /\ lost = FALSE
  /\ printed = 0
  /\ late_calls = 0

-----------------------------------------------------------------------------
(* The main thread.                                                        *)

\* initialize() instantiates and configures the interface and starts the
\* thread.  The result of configuring it is ignored (cap::Adapter).
InitializeThread ==
  /\ main = "initialize"
  /\ main' = "loop"
  /\ thread' = "running?"
  /\ UNCHANGED << running, stop_requested, limits, history >>

\* An unknown source, a field that is missing or of another type: panic()
\* throws and nobody catches, before there is a thread.
InitializeFails ==
  /\ main = "initialize"
  /\ main' = "panicked"
  /\ UNCHANGED << thread, running, stop_requested, limits, history >>

\* util::set_running(false).  The repository declares it and has no call.
SetRunning ==
  /\ main = "loop"
  /\ running
  /\ running' = FALSE
  /\ UNCHANGED << main, thread, stop_requested, limits, history >>

\* The main loop ends, main() returns, ~Impl requests the stop.
RequestStop ==
  /\ main = "loop"
  /\ ~running
  /\ main' = "join"
  /\ stop_requested' = TRUE
  /\ UNCHANGED << thread, running, limits, history >>

\* Defect: the destructor does not wait for the thread.
Detached == TRUE

Joined == thread = "ended"

\* ~Impl has joined the thread; the interface is destroyed with the Impl.
Join ==
  /\ main = "join"
  /\ Joined
  /\ main' = "destroyed"
  /\ UNCHANGED << thread, running, stop_requested, limits, history >>

-----------------------------------------------------------------------------
(* The thread's side of runtime_task.                                      *)

\* Defect: the loop does not look at util::get_running().
GoesOn == TRUE

GetRunning == running

CheckRunning ==
  /\ thread = "running?"
  /\ thread' = IF GetRunning THEN "stop?" ELSE "ended"
  /\ UNCHANGED << main, running, stop_requested, limits, history >>

CheckStop ==
  /\ thread = "stop?"
  /\ thread' = IF stop_requested THEN "ended" ELSE "connected?"
  /\ UNCHANGED << main, running, stop_requested, limits, history >>

\* Defect: the loop reads images without asking for the connection.
Assumed(c) == TRUE

Usable(c) == c

\* interface->connected() has returned c.
CheckConnected(c) ==
  /\ thread = "connected?"
  /\ thread' = IF Usable(c) THEN "wait_image" ELSE "connect"
  /\ UNCHANGED << main, running, stop_requested, limits, history >>

\* reconnect: interface->connect() has succeeded.
ConnectSucceeds ==
  /\ thread = "connect"
  /\ thread' = "reconnect_wait"
  /\ error_limit' = Enable(Reset(error_limit))
  /\ lost' = FALSE
  /\ printed' = 0
  /\ CountCall
  /\ UNCHANGED << main, running, stop_requested, capture_failed_limit, failures >>

\* reconnect: interface->connect() has failed.  The first errors are
\* printed, then a last line says that they no longer are.
ConnectFails ==
  /\ thread = "connect"
  /\ thread' = "reconnect_wait"
  /\ LET ticked == Ticked(error_limit)
         last   == ~Allows(error_limit) /\ Enabled(ticked)
     IN  /\ error_limit' = IF last THEN Disable(ticked) ELSE ticked
         /\ printed' = IF Allows(error_limit) \/ last THEN CountUpTo(printed, MostPrinted)
                                                     ELSE printed
  /\ lost' = TRUE
  /\ CountCall
  /\ UNCHANGED << main, running, stop_requested, capture_failed_limit, failures >>

ReconnectWaited ==
  /\ thread = "reconnect_wait"
  /\ thread' = "running?"
  /\ UNCHANGED << main, running, stop_requested, limits, history >>

\* wait_image() has returned an image; success_callback hands it over.
ImageArrives ==
  /\ thread = "wait_image"
  /\ thread' = "running?"
  /\ CountCall
  /\ UNCHANGED << main, running, stop_requested, limits, failures, lost, printed >>

\* wait_image() has failed: failed_callback.
ImageFails ==
  /\ thread = "wait_image"
  /\ thread' = IF Allows(capture_failed_limit) THEN "running?" ELSE "disconnect"
  /\ capture_failed_limit' = Ticked(capture_failed_limit)
  /\ failures' = CountUpTo(failures, MostFailures)
  /\ CountCall
  /\ UNCHANGED << main, running, stop_requested, error_limit, lost, printed >>

\* failed_callback has called interface->disconnect().
DisconnectReturns ==
  /\ thread = "disconnect"
  /\ thread' = "failed_wait"
  /\ CountCall
  /\ UNCHANGED << main, running, stop_requested, limits, failures, lost, printed >>

\* failed_callback resets the counter after its sleep.
FailedWaited ==
  /\ thread = "failed_wait"
  /\ thread' = "running?"
  /\ capture_failed_limit' = Reset(capture_failed_limit)
  /\ failures' = 0
  /\ UNCHANGED << main, running, stop_requested, error_limit, lost, printed,
                  late_calls >>

-----------------------------------------------------------------------------
(* Each step with what any device may do in it.                            *)

Initialize  == InitializeThread /\ connected' \in BOOLEAN
Connect     == \/ ConnectSucceeds /\ connected' = TRUE
               \/ ConnectFails /\ connected' = FALSE
Arrive      == connected /\ ImageArrives /\ UNCHANGED connected
WaitImage   == ImageFails /\ UNCHANGED connected
Disconnect  == DisconnectReturns /\ connected' = FALSE

\* The device loses its connection without being asked to.
LoseConnection ==
  /\ connected
  /\ connected' = FALSE
  /\ UNCHANGED << main, thread, running, stop_requested, limits, history >>

MainStep ==
  \/ Initialize
  \/ (InitializeFails \/ RequestStop \/ Join) /\ UNCHANGED connected

\* The steps of the thread that hand nothing over.
QuietStep ==
  \/ (CheckRunning \/ CheckStop \/ ReconnectWaited \/ FailedWaited)
       /\ UNCHANGED connected
  \/ CheckConnected(connected) /\ UNCHANGED connected
  \/ Connect \/ WaitImage \/ Disconnect

ThreadStep == QuietStep \/ Arrive

\* The process has nothing left to do.
Finished == main \in {"panicked", "destroyed"} /\ UNCHANGED vars

Next ==
  \/ MainStep
  \/ ThreadStep
  \/ SetRunning /\ UNCHANGED connected
  \/ LoseConnection
  \/ Finished

Spec == Init /\ [][Next]_vars

\* Both threads are scheduled and every call of the interface returns.
FairSpec == Spec /\ WF_vars(MainStep) /\ WF_vars(ThreadStep)

-----------------------------------------------------------------------------
(* Properties.                                                             *)

\* Every variable has its type; neither limit counts further than one past
\* its limit.
TypeOK ==
  /\ main \in {"initialize", "loop", "join", "destroyed", "panicked"}
  /\ thread \in {"none", "running?", "stop?", "connected?", "connect",
                 "reconnect_wait", "wait_image", "disconnect", "failed_wait",
                 "ended"}
  /\ running \in BOOLEAN
  /\ stop_requested \in BOOLEAN
  /\ connected \in BOOLEAN
  /\ capture_failed_limit \in LimitsOf(FailedTimes)
  /\ error_limit \in LimitsOf(ErrorTimes)
  /\ failures \in 0 .. MostFailures
  /\ lost \in BOOLEAN
  /\ printed \in 0 .. MostPrinted
  /\ late_calls \in 0 .. MostLateCalls

\* The interface is only called while the Capturer that owns it exists: the
\* thread is between its start and its end, and ~Impl has not returned.
InterfaceOutlivesThread ==
  thread \notin {"none", "ended"} => main \in {"loop", "join"}

\* The thread disconnects after exactly one failure more than the limit,
\* counted since the previous time it did, however images come in between.
DisconnectsAtLimit ==
  /\ failures <= FailedTimes + 1
  /\ thread \in {"disconnect", "failed_wait"} <=> failures = FailedTimes + 1

\* However long the source stays away, and however many outages were throttled
\* before, this one is reported, at most as often as the limit says and then
\* once more with "stop printing errors".
OutagesReported == printed <= ErrorTimes + 1 /\ (lost => printed > 0)

\* Once it must stop, the thread completes the iteration it is in: at most
\* one connect() or wait_image() and one disconnect().
StopsPromptly == late_calls <= 2

\* The thread is never stuck with a source that gives no images: images
\* arrive again and again, or it reconnects again and again, or it ends.
KeepsTrying ==
  \/ []<><<ImageArrives>>_vars
  \/ []<>(thread = "connect")
  \/ <>[](thread \in {"none", "ended"})
=============================================================================
