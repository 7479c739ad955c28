--------------------------- MODULE VideoCapturer ---------------------------
(***************************************************************************)
(* The runtime thread of kernel::Capturer with cap::LocalVideo as its      *)
(* interface: source: "local_video".  Every step of the thread that calls  *)
(* the interface is a step of Capturer joined to an operation of           *)
(* LocalVideo, which decides the outcome.                                  *)
(***************************************************************************)
EXTENDS LocalVideo

CONSTANTS FailedTimes, ErrorTimes  \* as in Capturer

ASSUME TimesAssumption == FailedTimes \in Nat /\ ErrorTimes \in Nat

VARIABLES
  main, thread, running, stop_requested, capture_failed_limit, error_limit,
  failures, lost, printed, late_calls,   \* as in Capturer
  stamp,   \* history: timestamp of the last image, or NoStamp
  epoch    \* history: when the frame before the first one would have been due

NoStamp == -1

Thread == INSTANCE Capturer WITH connected <- Connected

threadvars == << main, thread, running, stop_requested, capture_failed_limit,
                 error_limit, failures, lost, printed, late_calls >>
world      == << options, file, now >>
history    == << stamp, epoch >>
vars       == << threadvars, world, video, history >>

Init ==
  /\ InitVideo
  /\ Thread!Init
  /\ stamp = NoStamp
  /\ epoch = 0

-----------------------------------------------------------------------------
\* The epoch of a video that has just been opened.
OpenedNow == epoch' = IF Connected' THEN now ELSE epoch

Initialize ==
  /\ Thread!InitializeThread
  /\ ConfigureYaml
  /\ OpenedNow
  /\ UNCHANGED << world, stamp >>

Connect ==
  /\ \/ Thread!ConnectSucceeds /\ ConnectVideo
     \/ Thread!ConnectFails /\ ConnectVideoFails
  /\ OpenedNow
  /\ UNCHANGED << world, stamp >>

\* The thread sleeps inside wait_image().
WaitImage ==
  /\ thread = "wait_image"
  /\ WaitForFrame
  /\ UNCHANGED << threadvars, world, history >>

\* wait_image() returns frame position, stamped with last_read_time.
ImageRead ==
  /\ Thread!ImageArrives
  /\ \/ ReadFrame /\ UNCHANGED epoch
     \/ ReadRewinds /\ epoch' = now - interval_duration
  /\ stamp' = last_read_time'
  /\ UNCHANGED world

ImageNotRead ==
  /\ Thread!ImageFails
  /\ WaitIsRefused \/ ReadFails
  /\ UNCHANGED << world, history >>

Disconnect ==
  /\ Thread!DisconnectReturns
  /\ DisconnectVideo
  /\ UNCHANGED << world, history >>

ThreadStep ==
  \/ /\ \/ Thread!CheckRunning \/ Thread!CheckStop
        \/ Thread!CheckConnected(Connected)
        \/ Thread!ReconnectWaited \/ Thread!FailedWaited
     /\ UNCHANGED << video, world, history >>
  \/ Connect \/ WaitImage \/ ImageRead \/ ImageNotRead \/ Disconnect

MainStep ==
  \/ Initialize
  \/ /\ Thread!InitializeFails \/ Thread!RequestStop \/ Thread!Join
     /\ UNCHANGED << video, world, history >>

Tick == TimePasses /\ UNCHANGED << options, file, threadvars, video, history >>

WorldStep ==
  \/ Tick
  \/ FileChanges /\ UNCHANGED << options, now, threadvars, video, history >>
  \/ Thread!SetRunning /\ UNCHANGED << video, world, history >>

Finished == main \in {"panicked", "destroyed"} /\ UNCHANGED vars

Next == MainStep \/ ThreadStep \/ WorldStep \/ Finished

Spec == Init /\ [][Next]_vars

\* The threads are scheduled, time passes, a thread wakes after its sleep.
FairSpec == Spec /\ WF_vars(MainStep) /\ WF_vars(ThreadStep) /\ WF_vars(Tick)

-----------------------------------------------------------------------------
(* Properties.                                                             *)

\* LocalVideo is an interface that Capturer may use: the thread with it does
\* nothing that the thread with an arbitrary device does not do.
ImplementsCapturer == Thread!Spec

\* The timestamps of two images are at least one frame interval apart, even
\* if the video started again, failed or was reopened in between, and none
\* lies in the future of the moment the image was read.
StampsSpaced ==
  [][ImageRead => /\ stamp = NoStamp \/ stamp' >= stamp + Interval
                  /\ stamp' <= now]_vars

\* Without allow_skipping the timestamp of a frame is the time at which it is
\* due, however late it was read, as long as no read has failed.
NoDrift ==
  [][ImageRead /\ ~allow_skipping /\ failures = 0
       => stamp' = epoch' + position' * Interval]_vars

\* A file that can be read for ever is opened, if it existed when the
\* program read its configuration.
ReopensConfigured ==
  <>[](file = "good" /\ configured) =>
    []<>(Connected \/ thread \in {"none", "ended"})

-----------------------------------------------------------------------------
(* What the documentation says and the code does not do.                   *)

\* "Failed to reconnect to capturer, retry soon": a file that appears is
\* opened by one of the retries.
RetriesReopen ==
  <>[](file = "good") => []<>(Connected \/ thread \in {"none", "ended"})
=============================================================================
