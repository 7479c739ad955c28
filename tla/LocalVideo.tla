----------------------------- MODULE LocalVideo -----------------------------
(***************************************************************************)
(* cap::LocalVideo (src/module/capturer/local_video.cpp): a source that    *)
(* plays a video file at a steady rate, with the part of cap::Adapter that *)
(* configures it.  cv::VideoCapture is external: it opens the file or not, *)
(* reads the next frame or fails, and seeks to the first frame or fails.   *)
(*                                                                         *)
(* The module has the state of one LocalVideo, one action for each of its  *)
(* operations and no Next: the caller is a thread (see VideoCapturer).     *)
(***************************************************************************)
EXTENDS Integers

CONSTANTS
  Length,         \* frames in the video
  Interval,       \* time between frames at the target rate
  MaxTime         \* bound: the clock stops there

ASSUME VideoAssumption ==
  /\ Length \in Nat \ {0}
  /\ Interval \in Nat
  /\ MaxTime \in Nat

VARIABLES
  options,            \* what the YAML says of looping and skipping
  file,               \* the file at the configured location
  configured,         \* config holds the YAML's values, not the empty defaults
  capturer,           \* the optional cv::VideoCapture
  position,           \* frames read since the beginning of the video
  interval_duration,
  last_read_time,
  now,                \* Clock::now()
  wake                \* when the sleep of wait_image ends, or Awake

video == << configured, capturer, position, interval_duration, last_read_time, wake >>

Time  == 0 .. MaxTime
Awake == -1              \* no wait_image is in progress

Connected == capturer = "open"

loop_play      == options.loop_play
allow_skipping == options.allow_skipping

InitVideo ==
  /\ options \in [loop_play : BOOLEAN, allow_skipping : BOOLEAN]
  /\ file \in {"missing", "broken", "good"}
  /\ configured = FALSE
  /\ capturer = "empty"
  /\ position = 0
  /\ interval_duration = 0
  /\ last_read_time = 0
  /\ now = 0
  /\ wake = Awake

-----------------------------------------------------------------------------
(* configure(), called with the YAML's values at initialization and with   *)
(* the stored ones by connect().  It stores the values only after it has   *)
(* seen the file, and opens the file only after that.                      *)

\* The location is empty or there is no file there.
ConfigureFindsNothing(location) ==
  /\ ~location \/ file = "missing"
  /\ UNCHANGED video

\* The constructor of cv::VideoCapture throws or leaves an object that is
\* not opened.
ConfigureCannotOpen(location) ==
  /\ location
  /\ file = "broken"
  /\ configured' = TRUE
  /\ capturer' \in {"empty", "closed"}
  /\ UNCHANGED << position, interval_duration, last_read_time, wake >>

\* The interval of a video that is opened.  Defect: it is what it was.
Unchanged == interval_duration

TargetInterval == Interval

ConfigureOpens(location) ==
  /\ location
  /\ file = "good"
  /\ configured' = TRUE
  /\ capturer' = "open"
  /\ position' = 0
  /\ interval_duration' = TargetInterval
  /\ last_read_time' = now
  /\ UNCHANGED wake

ConfigureFails(location) ==
  ConfigureFindsNothing(location) \/ ConfigureCannotOpen(location)

\* Adapter::configure_yaml drops the result of configure.
ConfigureYaml == ConfigureFails(TRUE) \/ ConfigureOpens(TRUE)

ConnectVideo      == ConfigureOpens(configured)
ConnectVideoFails == ConfigureFails(configured)

\* The video once it is disconnected.  Defect: it stays open.
StillOpen == capturer

Reset == "empty"

DisconnectVideo ==
  /\ capturer' = Reset
  /\ interval_duration' = 0
  /\ UNCHANGED << configured, position, last_read_time, wake >>

-----------------------------------------------------------------------------
(* wait_image(): a sleep until the next frame is due, then a read.         *)

WaitIsRefused ==
  /\ wake = Awake
  /\ ~Connected
  /\ UNCHANGED video

\* A late frame restarts the schedule.  Defect: whatever the configuration.
Always == TRUE

Skips == allow_skipping

\* A frame that is not late is due one interval after the previous one.  A
\* late one is read at once; with allow_skipping the schedule restarts now.
WaitForFrame ==
  /\ wake = Awake
  /\ Connected
  /\ LET expected == last_read_time + interval_duration IN
       /\ wake' = IF expected > now THEN expected ELSE now
       /\ last_read_time' = IF expected <= now /\ Skips
                            THEN now ELSE expected
  /\ UNCHANGED << configured, capturer, position, interval_duration >>

Slept == wake # Awake /\ now >= wake

ReadFrame ==
  /\ Slept
  /\ position < Length
  /\ position' = position + 1
  /\ wake' = Awake
  /\ UNCHANGED << configured, capturer, interval_duration, last_read_time >>

\* The read fails, at the end of the file or because of an error, and the
\* video starts again from its first frame.
ReadRewinds ==
  /\ Slept
  /\ loop_play
  /\ position' = 1
  /\ last_read_time' = now
  /\ wake' = Awake
  /\ UNCHANGED << configured, capturer, interval_duration >>

\* The read fails, and so does the attempt to start again if there is one:
\* the seek, which moves the position or not, or the read after it.
ReadFails ==
  /\ Slept
  /\ position' \in {position} \union (IF loop_play THEN {0} ELSE {})
  /\ wake' = Awake
  /\ UNCHANGED << configured, capturer, interval_duration, last_read_time >>

-----------------------------------------------------------------------------
(* The world around it.                                                    *)

TimePasses == now < MaxTime /\ now' = now + 1

\* Somebody creates, damages, repairs or removes the file.  A video that is
\* open stays open.
FileChanges == file' \in {"missing", "broken", "good"} \ {file}
=============================================================================
