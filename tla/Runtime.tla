------------------------------- MODULE Runtime -------------------------------
(***************************************************************************)
(* main() of src/runtime.cpp with the components it owns: the Capturer and *)
(* its thread, the capture queue between them, the Identifier, and the     *)
(* Visualization with its StreamSession and the streaming thread.          *)
(*                                                                         *)
(* The main thread is a program counter, step.  The Capturer is the module *)
(* Capturer, with the part of the main thread that concerns it computed    *)
(* from step.  The queue is DropOldestQueue, which CaptureQueue implements *)
(* as long as two calls of pop() do not overlap.  The build has assertions *)
(* (with NDEBUG the newest image of an overflow leaks, see CaptureQueue).  *)
(***************************************************************************)
EXTENDS Visualization, SequencesExt

CONSTANTS Capacity, FailedTimes, ErrorTimes

ASSUME TimesAssumption == FailedTimes \in Nat /\ ErrorTimes \in Nat

VARIABLES
  step,               \* program counter of main()
  use_visualization, use_painted_image,
  balls,              \* the image in hand shows balls
  capture_thread, capture_stop, running, connected, capture_failed_limit,
  error_limit, failures, lost, printed, late_calls,   \* those of Capturer
  captured, offered, capture_queue, overflowed,       \* those of DropOldestQueue
  image,              \* the image main() has fetched
  live                \* images allocated and not deleted

\* Where main() is in the life of the Capturer.
Life ==
  CASE step \in {"configure", "capturer"} -> "initialize"
    [] step = "join"                      -> "join"
    [] step = "returned"                  -> "destroyed"
    [] step = "terminated"                -> "panicked"
    [] OTHER                              -> "loop"

Thread == INSTANCE Capturer WITH
  main <- Life, thread <- capture_thread, stop_requested <- capture_stop

Queue == INSTANCE DropOldestQueue WITH
  queue <- capture_queue, taken <- image, misused <- FALSE

switches == << use_visualization, use_painted_image >>
capturer == << capture_thread, capture_stop, running, connected,
               capture_failed_limit, error_limit, failures, lost, printed, late_calls >>
images   == << captured, offered, capture_queue, overflowed, image, live >>
rvars    == << step, switches, balls, capturer, images, vvars >>

RInit ==
  /\ step = "configure"
  /\ VInit
  /\ Thread!Init
  /\ Queue!Init
  /\ use_visualization = FALSE /\ use_painted_image = FALSE
  /\ balls = FALSE
  /\ live = {}

-----------------------------------------------------------------------------
(* Before the loop.                                                        *)

\* configuration() has read the file, which holds both switches.
Configure ==
  /\ step = "configure"
  /\ step' = "capturer"
  /\ use_visualization' \in BOOLEAN
  /\ use_painted_image' \in BOOLEAN
  /\ UNCHANGED << balls, capturer, images, vvars >>

\* The file is missing or unreadable, a switch is missing, a component fails
\* and handle_result panics, or sync_identify, which is noexcept, throws.
\* Nobody catches: the process ends with all its threads.
Terminate ==
  /\ step \in {"configure", "capturer", "identifier", "visualization", "detect"}
  /\ step' = "terminated"
  /\ capture_thread' = "none"
  /\ thread' = "none"
  /\ UNCHANGED << switches, balls, capture_stop, running, connected, capture_failed_limit,
                  error_limit, failures, lost, printed, late_calls, images, here, call,
                  held, queue, stop_requested, writing >>

InitializeCapturer ==
  /\ step = "capturer"
  /\ step' = "identifier"
  /\ Thread!Initialize
  /\ UNCHANGED << switches, balls, images, vvars >>

\* The path of the model is put into the configuration; the model compiles.
InitializeIdentifier ==
  /\ step = "identifier"
  /\ step' = IF use_visualization THEN "visualization" ELSE "running?"
  /\ UNCHANGED << switches, balls, capturer, images, vvars >>

InitializeVisualization ==
  /\ step = "visualization"
  /\ step' = "running?"
  /\ \E type \in {"RTP_JPEG", "RTP_H264"}, host \in Hosts : VInitialize(type, host)
  /\ UNCHANGED << switches, balls, capturer, images >>

-----------------------------------------------------------------------------
(* The loop.                                                               *)

\* What follows a step of the loop.  Defect: the image is sent, then painted.
AfterSendFirst ==
  [detect |-> "send", send |-> "paint", paint |-> "release"]

After ==
  [detect |-> "paint", paint |-> "send", send |-> "release"]

\* get_running().
CheckRunning ==
  /\ step = "running?"
  /\ step' = IF running THEN "fetch" ELSE "destroy visualization"
  /\ UNCHANGED << switches, balls, capturer, images, vvars >>

FetchImage ==
  /\ step = "fetch"
  /\ Queue!Take
  /\ step' = "detect"
  /\ UNCHANGED << switches, balls, capturer, live, vvars >>

\* Where main() goes on without an image.  Defect: it polls the queue.
Poll == "fetch"

Retry == "running?"

FetchNothing ==
  /\ step = "fetch"
  /\ capture_queue = << >>
  /\ step' = Retry
  /\ UNCHANGED << switches, balls, capturer, images, vvars >>

\* sync_identify: balls, none, or an error, which is as good as none.
Identify == balls' \in BOOLEAN

DetectBalls ==
  /\ step = "detect"
  /\ Identify
  /\ step' = After[step]
  /\ UNCHANGED << switches, capturer, images, vvars >>

\* visualize_detection draws the balls into the pixels of the image.
PaintImage ==
  /\ step = "paint"
  /\ use_painted_image /\ balls
  /\ step' = After[step]
  /\ UNCHANGED << switches, balls, capturer, images, vvars >>

PaintNothing ==
  /\ step = "paint"
  /\ ~(use_painted_image /\ balls)
  /\ step' = After[step]
  /\ UNCHANGED << switches, balls, capturer, images, vvars >>

\* visualize_detection calls send_image() of an initialized Visualization.
BeginSend ==
  /\ step = "send"
  /\ step' = IF is_initialized THEN "sending" ELSE After["send"]
  /\ sending' = IF is_initialized THEN "begin" ELSE "no"
  /\ UNCHANGED << switches, balls, capturer, images, vars, is_initialized,
                  size_determined, session_config, pipeline, sdp >>

SendImage ==
  /\ step = "sending"
  /\ SendStep(image)
  /\ step' = IF sending' = "no" THEN After["send"] ELSE "sending"
  /\ UNCHANGED << switches, balls, capturer, images >>

\* The unique_ptr goes out of scope.
ReleaseImage ==
  /\ step = "release"
  /\ live' = live \ {image}
  /\ step' = "running?"
  /\ UNCHANGED << switches, balls, capturer, captured, offered, capture_queue,
                  overflowed, image, vvars >>

-----------------------------------------------------------------------------
(* The end: the components are destroyed in the reverse order.             *)

DestroyVisualization ==
  /\ step = "destroy visualization"
  /\ DestroyBegins \/ DestroyJoins
  /\ step' = IF call' = "destroyed" THEN "destroy capturer" ELSE step
  /\ UNCHANGED << here, switches, balls, capturer, images >>

DestroyCapturer ==
  /\ \/ step = "destroy capturer" /\ step' = "join" /\ Thread!RequestStop
     \/ step = "join" /\ step' = "returned" /\ Thread!Join
  /\ UNCHANGED << connected, switches, balls, images, vvars >>

MainStep ==
  \/ Configure \/ InitializeCapturer \/ InitializeIdentifier
  \/ InitializeVisualization \/ Terminate
  \/ CheckRunning \/ FetchImage \/ FetchNothing \/ DetectBalls
  \/ PaintImage \/ PaintNothing \/ BeginSend \/ SendImage \/ ReleaseImage
  \/ DestroyVisualization \/ DestroyCapturer

-----------------------------------------------------------------------------
(* The other threads, and what is outside the program.                     *)

\* success_callback pushes the image it has been given.
CaptureStep ==
  /\ step # "terminated"
  /\ UNCHANGED << step, switches, balls, vvars >>
  /\ \/ /\ offered = Queue!NoImage
        /\ \/ Thread!QuietStep /\ UNCHANGED << captured, offered, live >>
           \/ Thread!Arrive /\ Queue!Offer /\ live' = live \union {captured'}
        /\ UNCHANGED << capture_queue, overflowed, image >>
     \/ /\ \/ (Queue!Accept \/ Queue!Overflow) /\ UNCHANGED live
           \/ Queue!DropOldest /\ live' = live \ {Head(capture_queue)}
           \/ Queue!DropNewest /\ live' = live \ {offered}
        /\ UNCHANGED capturer

StreamStep ==
  /\ ThreadStep
  /\ UNCHANGED << step, switches, balls, capturer, images, here >>

\* set_running(false), which the repository declares and never calls, and
\* the device, which may lose its connection.
Outside ==
  /\ UNCHANGED << step, switches, balls, images, vvars >>
  /\ \/ Thread!SetRunning /\ UNCHANGED connected
     \/ Thread!LoseConnection

Finish == step \in {"returned", "terminated"} /\ UNCHANGED rvars

RNext == MainStep \/ CaptureStep \/ StreamStep \/ Outside \/ Finish

RSpec == RInit /\ [][RNext]_rvars

\* Every thread is scheduled, and every call of the main thread goes on.
RFairSpec ==
  RSpec /\ WF_rvars(MainStep) /\ WF_rvars(CaptureStep) /\ WF_rvars(StreamStep)

-----------------------------------------------------------------------------
(* Properties.                                                             *)

\* The main thread never paints an image whose pixels the stream shares: one
\* that waits in the session's queue or is being written.
PaintedAlone ==
  [][PaintImage =>
       /\ \A i \in DOMAIN buffer : buffer[i] # image
       /\ thread = "write" => current_frame # image]_rvars

\* The images alive when main() has returned are those nobody has fetched
\* from the capture queue, which are raw pointers that ~Impl leaves there.
OnlyQueueLeaks ==
  step = "returned" => live = ToSet(capture_queue)

\* Whatever the source, the Identifier and the stream do, the program ends
\* once running is cleared.
ProgramEnds == ~running ~> step \in {"returned", "terminated"}
=============================================================================
