------------------------- MODULE VideoCapturerProofs -------------------------
(***************************************************************************)
(* Proofs about VideoCapturer, for videos of every length, every frame     *)
(* interval, every limit and every moment at which the file changes: the   *)
(* thread with LocalVideo implements Capturer, so that what is proved of   *)
(* Capturer holds of it, and the timestamps keep their distance.           *)
(***************************************************************************)
EXTENDS VideoCapturer, TLAPS

\* Where the thread is says whether the video is open: it is opened only by
\* the thread or before it starts, and closed only by the thread.  A sleep of
\* wait_image() ends before the thread does anything else.
PlaceInv ==
  /\ main = "initialize" => thread = "none" /\ ~Connected
  /\ thread \in {"connect", "failed_wait"} => ~Connected
  /\ thread \in {"wait_image", "disconnect"} => Connected
  /\ wake # Awake => thread = "wait_image"

\* The clocks; the interval of a video that is open is the one of its rate.
ClockInv ==
  /\ now \in Nat
  /\ last_read_time \in Nat
  /\ wake \in Nat \union {Awake}
  /\ interval_duration \in Nat
  /\ Connected => interval_duration = Interval
  /\ wake # Awake => last_read_time <= wake

\* The next timestamp: while wait_image() sleeps it is fixed, at least one
\* interval after the last one; before, it may not lie before the last one.
StampInv ==
  /\ stamp \in Nat \union {NoStamp}
  /\ stamp <= now
  /\ stamp <= last_read_time
  /\ wake # Awake /\ stamp # NoStamp => stamp + Interval <= last_read_time

\* The inductive invariant of the timestamps.
StampsInv == PlaceInv /\ ClockInv /\ StampInv

-----------------------------------------------------------------------------
\* The invariant holds initially.
LEMMA InitStamps == Init => StampsInv
  BY DEF Init, InitVideo, Thread!Init, StampsInv, PlaceInv, ClockInv, StampInv, Connected,
         Awake, NoStamp

\* The thread is where it is because of what its video is.
LEMMA NextPlace == PlaceInv /\ [Next]_vars => PlaceInv'
<1> SUFFICES ASSUME PlaceInv, [Next]_vars PROVE PlaceInv'
  OBVIOUS
<1> USE DEF PlaceInv, Connected, video
<1>1. CASE Initialize
  BY <1>1 DEF Initialize, Thread!InitializeThread, ConfigureYaml, ConfigureFails,
              ConfigureFindsNothing, ConfigureCannotOpen, ConfigureOpens
<1>2. CASE Connect
  BY <1>2 DEF Connect, Thread!ConnectSucceeds, Thread!ConnectFails, ConnectVideo,
              ConnectVideoFails, ConfigureFails, ConfigureFindsNothing,
              ConfigureCannotOpen, ConfigureOpens
<1>3. CASE WaitImage
  BY <1>3 DEF WaitImage, WaitForFrame, threadvars
<1>4. CASE ImageRead
  BY <1>4 DEF ImageRead, Thread!ImageArrives, ReadFrame, ReadRewinds, Slept
<1>5. CASE ImageNotRead
  BY <1>5 DEF ImageNotRead, Thread!ImageFails, WaitIsRefused, ReadFails, Slept
<1>6. CASE Disconnect
  BY <1>6 DEF Disconnect, Thread!DisconnectReturns, DisconnectVideo, Reset
<1>7. CASE (Thread!CheckRunning \/ Thread!CheckStop \/ Thread!CheckConnected(Connected)
             \/ Thread!ReconnectWaited \/ Thread!FailedWaited) /\ UNCHANGED video
  BY <1>7 DEF Thread!CheckRunning, Thread!CheckStop, Thread!CheckConnected,
              Thread!ReconnectWaited, Thread!FailedWaited, Thread!Usable
<1>8. CASE (Thread!InitializeFails \/ Thread!RequestStop \/ Thread!Join
             \/ Thread!SetRunning) /\ UNCHANGED video
  BY <1>8 DEF Thread!InitializeFails, Thread!RequestStop, Thread!Join, Thread!SetRunning
<1>9. CASE UNCHANGED << threadvars, video >>
  BY <1>9 DEF threadvars
<1>10. QED
  BY <1>1, <1>2, <1>3, <1>4, <1>5, <1>6, <1>7, <1>8, <1>9
     DEF Next, MainStep, ThreadStep, WorldStep, Tick, Finished, vars

\* No step moves a clock backwards, or the next timestamp too near the last.
LEMMA NextStamp ==
  StampsInv /\ [Next]_vars => ClockInv' /\ StampInv'
<1> SUFFICES ASSUME PlaceInv, ClockInv, StampInv, [Next]_vars
             PROVE  ClockInv' /\ StampInv'
  BY DEF StampsInv
<1> USE VideoAssumption DEF ClockInv, StampInv, Connected, video, world, history,
                            Awake, NoStamp
<1>1. ASSUME ConfigureFails(TRUE) \/ ConfigureFails(configured) \/ ConfigureOpens(TRUE)
               \/ ConfigureOpens(configured),
             UNCHANGED << world, stamp >>, wake = Awake
      PROVE  ClockInv' /\ StampInv'
  BY <1>1 DEF ConfigureFails, ConfigureFindsNothing, ConfigureCannotOpen, ConfigureOpens,
              TargetInterval
<1>2. CASE Initialize
  BY <1>1, <1>2 DEF Initialize, ConfigureYaml, PlaceInv, Thread!InitializeThread
<1>3. CASE Connect
  BY <1>1, <1>3 DEF Connect, ConnectVideo, ConnectVideoFails, PlaceInv,
                    Thread!ConnectSucceeds, Thread!ConnectFails
<1>4. CASE WaitImage
  BY <1>4 DEF WaitImage, WaitForFrame
<1>5. CASE ImageRead
  BY <1>5 DEF ImageRead, ReadFrame, ReadRewinds, Slept
<1>6. CASE ImageNotRead
  BY <1>6 DEF ImageNotRead, WaitIsRefused, ReadFails, Slept
<1>7. CASE Disconnect
  BY <1>7 DEF Disconnect, DisconnectVideo, Reset, PlaceInv, Thread!DisconnectReturns
<1>8. CASE Tick
  BY <1>8 DEF Tick, TimePasses
<1>9. CASE UNCHANGED << now, video, history >>
  BY <1>9
<1>10. QED
  BY <1>2, <1>3, <1>4, <1>5, <1>6, <1>7, <1>8, <1>9
     DEF Next, MainStep, ThreadStep, WorldStep, Finished, vars

\* Every step keeps the invariant of the timestamps.
LEMMA NextStamps == StampsInv /\ [Next]_vars => StampsInv'
  BY NextPlace, NextStamp DEF StampsInv

\* StampsInv is an invariant of the specification.
THEOREM StampsInvCorrect == Spec => []StampsInv
  BY InitStamps, NextStamps, PTL DEF Spec

\* The timestamps of two images are at least one frame interval apart, whatever
\* happened in between, and none lies in the future.
THEOREM StampsCorrect == Spec => StampsSpaced
<1>1. StampsInv =>
        (ImageRead => /\ stamp = NoStamp \/ stamp' >= stamp + Interval
                      /\ stamp' <= now)
  BY VideoAssumption
     DEF StampsInv, ClockInv, StampInv, ImageRead, ReadFrame, ReadRewinds, Slept,
         Awake, NoStamp
<1>2. QED
  BY <1>1, StampsInvCorrect, PTL DEF StampsSpaced

-----------------------------------------------------------------------------
(* Without allow_skipping the schedule never moves.                        *)

\* The frame that the thread sleeps for, or has read.
Due == IF wake # Awake THEN position + 1 ELSE position

\* Until a read fails, last_read_time is the time at which that frame is due.
\* The history counts a failure until the video has been closed.
DriftInv ==
  /\ position \in Nat
  /\ epoch \in Int
  /\ failures \in Nat
  /\ ~allow_skipping /\ failures = 0 /\ Connected
       => last_read_time = epoch + Due * Interval

\* A failed read is counted.
LEMMA FailureCounts ==
  ASSUME failures \in Nat, Thread!ImageFails
  PROVE  failures' \in Nat \ {0}
  BY TimesAssumption DEF Thread!ImageFails, Thread!CountUpTo, Thread!MostFailures

\* No step moves the schedule of a video that is open.
LEMMA NextDrift == StampsInv /\ DriftInv /\ [Next]_vars => DriftInv'
<1> SUFFICES ASSUME PlaceInv, ClockInv, DriftInv, [Next]_vars PROVE DriftInv'
  BY DEF StampsInv
<1> USE VideoAssumption DEF DriftInv, Due, Connected, video, world, history, allow_skipping
<1>1. ASSUME ConfigureFails(TRUE) \/ ConfigureFails(configured) \/ ConfigureOpens(TRUE)
               \/ ConfigureOpens(configured),
             ~Connected, wake = Awake, OpenedNow, UNCHANGED << world, stamp, failures >>
      PROVE  DriftInv'
  BY <1>1 DEF ConfigureFails, ConfigureFindsNothing, ConfigureCannotOpen, ConfigureOpens,
              TargetInterval, OpenedNow, ClockInv
<1>2. CASE Initialize
  BY <1>1, <1>2 DEF Initialize, ConfigureYaml, PlaceInv, Thread!InitializeThread,
                    Thread!history
<1>3. CASE Connect
  BY <1>1, <1>3 DEF Connect, ConnectVideo, ConnectVideoFails, PlaceInv,
                    Thread!ConnectSucceeds, Thread!ConnectFails
<1>4. CASE WaitImage
  BY <1>4 DEF WaitImage, WaitForFrame, ClockInv, Skips, threadvars, Awake
<1>5. CASE ImageRead
  <2> USE <1>5 DEF Awake
  <2>a. /\ wake # Awake /\ Connected /\ interval_duration = Interval
        /\ now \in Nat /\ Interval \in Nat /\ last_read_time \in Nat
        /\ UNCHANGED << options, failures, capturer >> /\ wake' = Awake
    BY DEF ImageRead, ReadFrame, ReadRewinds, Slept, ClockInv, PlaceInv,
           Thread!ImageArrives
  <2>1. CASE ReadFrame /\ UNCHANGED epoch
    BY <2>a, <2>1 DEF ReadFrame
  <2>2. CASE ReadRewinds /\ epoch' = now - interval_duration
    <3>1. /\ position' = 1 /\ last_read_time' = now /\ epoch' = now - Interval
          /\ Due' = 1
      BY <2>a, <2>2 DEF ReadRewinds
    <3>2. epoch' \in Int /\ last_read_time' = epoch' + Due' * Interval
      BY <2>a, <3>1
    <3>3. QED
      BY <2>a, <3>1, <3>2
  <2>3. QED
    BY <2>1, <2>2 DEF ImageRead
<1>6. CASE ImageNotRead
  BY <1>6, FailureCounts DEF ImageNotRead, WaitIsRefused, ReadFails
<1>7. CASE Disconnect
  BY <1>7 DEF Disconnect, DisconnectVideo, Reset, Thread!DisconnectReturns
<1>8. CASE Thread!FailedWaited /\ UNCHANGED << video, world, history >>
  BY <1>8 DEF Thread!FailedWaited, PlaceInv
<1>9. CASE UNCHANGED << options, position, epoch, failures, capturer, last_read_time, wake >>
  BY <1>9
<1>10. CASE (Thread!CheckRunning \/ Thread!CheckStop \/ Thread!CheckConnected(Connected)
              \/ Thread!ReconnectWaited \/ Thread!InitializeFails \/ Thread!RequestStop
              \/ Thread!Join \/ Thread!SetRunning)
             /\ UNCHANGED << video, world, history >>
  BY <1>9, <1>10
     DEF Thread!CheckRunning, Thread!CheckStop, Thread!CheckConnected,
         Thread!ReconnectWaited, Thread!InitializeFails, Thread!RequestStop,
         Thread!Join, Thread!SetRunning, Thread!history
<1>11. CASE \/ Tick
            \/ FileChanges /\ UNCHANGED << options, now, threadvars, video, history >>
  BY <1>9, <1>11 DEF Tick, threadvars
<1>12. CASE UNCHANGED vars
  BY <1>9, <1>12 DEF vars, threadvars
<1>13. QED
  <2> HIDE DEF DriftInv, Due, Connected, video, world, history, allow_skipping
  <2>1. CASE MainStep
    BY <1>2, <1>10, <2>1 DEF MainStep
  <2>2. CASE ThreadStep
    BY <1>3, <1>4, <1>5, <1>6, <1>7, <1>8, <1>10, <2>2 DEF ThreadStep
  <2>3. CASE WorldStep
    BY <1>10, <1>11, <2>3 DEF WorldStep
  <2>4. QED
    BY <1>12, <2>1, <2>2, <2>3 DEF Next, Finished

\* Without allow_skipping every frame is stamped with the time at which it is
\* due, however late it was read, as long as no read has failed.
THEOREM DriftCorrect == Spec => NoDrift
<1>1. Init => DriftInv
  BY DEF Init, InitVideo, Thread!Init, DriftInv, Connected
<1>2. StampsInv /\ DriftInv =>
        (ImageRead /\ ~allow_skipping /\ failures = 0
           => stamp' = epoch' + position' * Interval)
  BY VideoAssumption
     DEF StampsInv, ClockInv, PlaceInv, DriftInv, Due, ImageRead, ReadFrame, ReadRewinds,
         Slept, Thread!ImageArrives
<1>3. QED
  BY <1>1, <1>2, StampsInvCorrect, NextDrift, PTL DEF Spec, NoDrift

-----------------------------------------------------------------------------
(* The refinement: LocalVideo is a device that Capturer may use.           *)

\* Every step is one of the thread with some device, or does not show.
LEMMA StepMaps == PlaceInv /\ [Next]_vars => [Thread!Next]_(Thread!vars)
<1> SUFFICES ASSUME PlaceInv, [Next]_vars PROVE [Thread!Next]_(Thread!vars)
  OBVIOUS
<1> USE DEF PlaceInv, Connected, video
<1>1. CASE Initialize
  BY <1>1 DEF Initialize, Thread!Initialize, Thread!MainStep, Thread!Next
<1>2. CASE Connect
  <2>1. CASE Thread!ConnectSucceeds /\ ConnectVideo
    BY <2>1 DEF ConnectVideo, ConfigureOpens, Thread!Connect, Thread!QuietStep,
                Thread!ThreadStep, Thread!Next
  <2>2. CASE Thread!ConnectFails /\ ConnectVideoFails
    <3>1. Connected' = FALSE
      BY <2>2 DEF Thread!ConnectFails, ConnectVideoFails, ConfigureFails,
                  ConfigureFindsNothing, ConfigureCannotOpen
    <3>2. QED
      BY <2>2, <3>1 DEF Thread!Connect, Thread!QuietStep, Thread!ThreadStep, Thread!Next
  <2>3. QED
    BY <1>2, <2>1, <2>2 DEF Connect
<1>3. CASE WaitImage
  BY <1>3 DEF WaitImage, WaitForFrame, threadvars, Thread!vars, Thread!limits,
              Thread!history
<1>4. CASE ImageRead
  <2>1. Connected /\ UNCHANGED Connected
    BY <1>4 DEF ImageRead, Thread!ImageArrives, ReadFrame, ReadRewinds
  <2>2. QED
    BY <1>4, <2>1 DEF ImageRead, Thread!Arrive, Thread!ThreadStep, Thread!Next
<1>5. CASE ImageNotRead
  <2>1. UNCHANGED Connected
    BY <1>5 DEF ImageNotRead, WaitIsRefused, ReadFails
  <2>2. QED
    BY <1>5, <2>1 DEF ImageNotRead, Thread!WaitImage, Thread!QuietStep,
                      Thread!ThreadStep, Thread!Next
<1>6. CASE Disconnect
  <2>1. Connected' = FALSE
    BY <1>6 DEF Disconnect, DisconnectVideo, Reset
  <2>2. QED
    BY <1>6, <2>1 DEF Disconnect, Thread!Disconnect, Thread!QuietStep,
                      Thread!ThreadStep, Thread!Next
<1>7. CASE (Thread!CheckRunning \/ Thread!CheckStop \/ Thread!CheckConnected(Connected)
             \/ Thread!ReconnectWaited \/ Thread!FailedWaited) /\ UNCHANGED video
  BY <1>7 DEF Thread!QuietStep, Thread!ThreadStep, Thread!Next
<1>8. CASE (Thread!InitializeFails \/ Thread!RequestStop \/ Thread!Join
             \/ Thread!SetRunning) /\ UNCHANGED video
  BY <1>8 DEF Thread!MainStep, Thread!Next
<1>9. CASE UNCHANGED << threadvars, video >>
  BY <1>9 DEF threadvars, Thread!vars, Thread!limits, Thread!history
<1>10. QED
  BY <1>1, <1>2, <1>3, <1>4, <1>5, <1>6, <1>7, <1>8, <1>9
     DEF Next, MainStep, ThreadStep, WorldStep, Tick, Finished, vars

\* LocalVideo does nothing that Capturer's arbitrary device does not do.
THEOREM CapturerCorrect == Spec => ImplementsCapturer
<1>1. Init => Thread!Init
  BY DEF Init, InitVideo, Thread!Init, Connected
<1>2. StampsInv => PlaceInv
  BY DEF StampsInv
<1>3. QED
  BY <1>1, <1>2, StepMaps, StampsInvCorrect, PTL DEF Spec, ImplementsCapturer, Thread!Spec

(* What is proved of Capturer holds of the thread with LocalVideo.         *)

Proofs == INSTANCE CapturerProofs WITH connected <- Connected

\* Capturer is instantiated twice, by VideoCapturer and here with its proofs:
\* the two instances are the same specification.
LEMMA SameSpec ==
  /\ Thread!Init => Proofs!Init
  /\ [Thread!Next]_(Thread!vars) => [Proofs!Next]_(Proofs!vars)
<1>1. Thread!Init => Proofs!Init
  BY DEF Thread!Init, Proofs!Init, Thread!TimesLimit, Proofs!TimesLimit
<1>2. [Thread!Next]_(Thread!vars) => [Proofs!Next]_(Proofs!vars)
  BY DEF
         Thread!Next, Thread!vars, Thread!limits, Thread!history, Thread!MainStep,
         Thread!Initialize, Thread!InitializeThread, Thread!InitializeFails,
         Thread!RequestStop, Thread!Join, Thread!Joined, Thread!SetRunning,
         Thread!LoseConnection, Thread!Finished, Thread!ThreadStep,
         Thread!QuietStep, Thread!Arrive, Thread!Connect, Thread!WaitImage,
         Thread!Disconnect, Thread!CheckRunning, Thread!GetRunning,
         Thread!CheckStop, Thread!CheckConnected, Thread!Usable,
         Thread!ReconnectWaited, Thread!FailedWaited, Thread!ConnectSucceeds,
         Thread!ConnectFails, Thread!ImageArrives, Thread!ImageFails,
         Thread!DisconnectReturns, Thread!CountCall, Thread!MustStop,
         Thread!CountUpTo, Thread!MostFailures, Thread!MostPrinted,
         Thread!MostLateCalls, Thread!Allows, Thread!Ticked, Thread!Enabled,
         Thread!Enable, Thread!Disable, Thread!Reset, Proofs!Next, Proofs!vars,
         Proofs!limits, Proofs!history, Proofs!MainStep, Proofs!Initialize,
         Proofs!InitializeThread, Proofs!InitializeFails, Proofs!RequestStop,
         Proofs!Join, Proofs!Joined, Proofs!SetRunning, Proofs!LoseConnection,
         Proofs!Finished, Proofs!ThreadStep, Proofs!QuietStep, Proofs!Arrive,
         Proofs!Connect, Proofs!WaitImage, Proofs!Disconnect, Proofs!CheckRunning,
         Proofs!GetRunning, Proofs!CheckStop, Proofs!CheckConnected,
         Proofs!Usable, Proofs!ReconnectWaited, Proofs!FailedWaited,
         Proofs!ConnectSucceeds, Proofs!ConnectFails, Proofs!ImageArrives,
         Proofs!ImageFails, Proofs!DisconnectReturns, Proofs!CountCall,
         Proofs!MustStop, Proofs!CountUpTo, Proofs!MostFailures,
         Proofs!MostPrinted, Proofs!MostLateCalls, Proofs!Allows, Proofs!Ticked,
         Proofs!Enabled, Proofs!Enable, Proofs!Disable, Proofs!Reset
<1>3. QED
  BY <1>1, <1>2

\* With LocalVideo too the thread calls its interface only while the Capturer
\* exists, disconnects at its limit, reports every outage and stops promptly.
THEOREM ThreadCorrect ==
  Spec => [](/\ Thread!InterfaceOutlivesThread /\ Thread!DisconnectsAtLimit
             /\ Thread!OutagesReported /\ Thread!StopsPromptly)
<1>1. Proofs!LimitsAssumption
  BY TimesAssumption DEF Proofs!LimitsAssumption
<1>2. Spec => Proofs!Spec
  BY SameSpec, CapturerCorrect, PTL DEF ImplementsCapturer, Thread!Spec, Proofs!Spec
<1>3. /\ Proofs!InterfaceOutlivesThread => Thread!InterfaceOutlivesThread
      /\ Proofs!DisconnectsAtLimit => Thread!DisconnectsAtLimit
      /\ Proofs!OutagesReported => Thread!OutagesReported
      /\ Proofs!StopsPromptly => Thread!StopsPromptly
  BY DEF Proofs!InterfaceOutlivesThread, Thread!InterfaceOutlivesThread,
         Proofs!DisconnectsAtLimit, Thread!DisconnectsAtLimit,
         Proofs!OutagesReported, Thread!OutagesReported,
         Proofs!StopsPromptly, Thread!StopsPromptly
<1>4. QED
  BY <1>1, <1>2, <1>3, Proofs!InterfaceCorrect, Proofs!DisconnectCorrect,
     Proofs!ReportsCorrect, Proofs!StopCorrect, PTL
=============================================================================
