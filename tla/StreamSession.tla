---------------------------- MODULE StreamSession ----------------------------
(***************************************************************************)
(* debug::StreamSession (stream_session.cpp) with its StreamContext        *)
(* (stream_context.cpp): the caller pushes frames into a bounded           *)
(* spsc_queue, a streaming thread pops them and writes them to the video   *)
(* writer of the context.  Opening the session again stops and joins the   *)
(* old thread, empties the queue and replaces the context.                 *)
(*                                                                         *)
(* The caller is any sequential client: it opens, pushes and destroys the  *)
(* session in any order.  Visualization is the client of the program.  The *)
(* video writer is external: it opens or not, and every write returns.     *)
(***************************************************************************)
EXTENDS Integers, Sequences

CONSTANTS
  BufferCapacity,  \* frames the queue holds (100 in the code)
  MaxFrames,       \* bound: frames the client has
  MaxOpens         \* bound: times the client opens the session

ASSUME SessionAssumption ==
  BufferCapacity \in Nat \ {0} /\ MaxFrames \in Nat /\ MaxOpens \in Nat

VARIABLES
  call,            \* the call of the client that is in progress
  context,         \* the context in use: they are numbered; 0 is nullptr
  sender,          \* context->opened()
  buffer,          \* the queue
  thread,          \* program counter of streaming_thread; "none": no thread
  stop_requested,  \* the stop token of the thread
  current_frame,
  frame,           \* number of the last frame the client pushed
  started_for,     \* history: the context the thread was started for
  sent_for,        \* history: the context in use when a frame was pushed
  written          \* history: the last frame written

held    == << context, sender, started_for >>
queue   == << buffer, frame, sent_for >>
writing == << current_frame, written >>
vars    == << call, held, queue, thread, stop_requested, writing >>

Frames  == 1 .. MaxFrames
NoFrame == 0
Opened  == context # 0 /\ sender

Init ==
  /\ call = "none"
  /\ context = 0 /\ sender = FALSE /\ started_for = 0
  /\ buffer = << >> /\ frame = 0 /\ sent_for = [f \in Frames |-> 0]
  /\ thread = "none" /\ stop_requested = FALSE
  /\ current_frame = NoFrame /\ written = NoFrame

-----------------------------------------------------------------------------
(* initialize(), step by step.                                             *)

\* There is a thread to stop and to join.  Defect: nobody looks.
NotLooking == FALSE

HasThread == thread # "none"

OpenBegins ==
  /\ call = "none"
  /\ context < MaxOpens
  /\ call' = IF HasThread THEN "join" ELSE "renew"
  /\ stop_requested' = HasThread
  /\ UNCHANGED << held, queue, thread, writing >>

OpenJoins ==
  /\ call = "join"
  /\ thread = "ended"
  /\ thread' = "none"
  /\ call' = "renew"
  /\ UNCHANGED << held, queue, stop_requested, writing >>

\* consume_all empties the queue.  Defect: it does not.
Kept == buffer

Consumed == << >>

\* A new context replaces the old one.
OpenRenews ==
  /\ call = "renew"
  /\ call' = "open"
  /\ buffer' = Consumed
  /\ context' = context + 1
  /\ sender' = FALSE
  /\ UNCHANGED << frame, sent_for, started_for, thread, stop_requested, writing >>

\* The pipeline opens and a new thread starts.
OpenSucceeds ==
  /\ call = "open"
  /\ call' = "none"
  /\ sender' = TRUE
  /\ thread' = "check"
  /\ stop_requested' = FALSE
  /\ started_for' = context
  /\ UNCHANGED << context, queue, writing >>

OpenFails ==
  /\ call = "open"
  /\ call' = "none"
  /\ UNCHANGED << held, queue, thread, stop_requested, writing >>

-----------------------------------------------------------------------------
(* push_frame and the destructor.                                          *)

\* The queue takes a frame.  Defect: it takes one too many.
HasRoomAndOne == Len(buffer) <= BufferCapacity

HasRoom == Len(buffer) < BufferCapacity

\* The client pushes frame f, the newest it has, or drops it.
PushFrame(f) ==
  /\ call = "none"
  /\ f > frame
  /\ frame' = f
  /\ IF HasRoom
     THEN /\ buffer' = Append(buffer, f)
          /\ sent_for' = [sent_for EXCEPT ![f] = context]
     ELSE UNCHANGED << buffer, sent_for >>
  /\ UNCHANGED << call, held, thread, stop_requested, writing >>

\* The members are destroyed in reverse order: the jthread, which stops and
\* joins its thread, then the queue, then the context.
DestroyBegins ==
  /\ call = "none"
  /\ call' = "destroy"
  /\ stop_requested' = TRUE
  /\ UNCHANGED << held, queue, thread, writing >>

DestroyJoins ==
  /\ call = "destroy"
  /\ thread \in {"none", "ended"}
  /\ call' = "destroyed"
  /\ thread' = "none"
  /\ buffer' = << >>
  /\ context' = 0
  /\ sender' = FALSE
  /\ UNCHANGED << frame, sent_for, started_for, stop_requested, writing >>

-----------------------------------------------------------------------------
(* streaming_thread.                                                       *)

\* The thread looks at its stop token.  Defect: it does not.
GoesOn == FALSE

MustStop == stop_requested

CheckStop ==
  /\ thread = "check"
  /\ thread' = IF MustStop THEN "ended" ELSE "pop"
  /\ UNCHANGED << call, held, queue, stop_requested, writing >>

PopNothing ==
  /\ thread = "pop"
  /\ buffer = << >>
  /\ thread' = "check"
  /\ UNCHANGED << call, held, queue, stop_requested, writing >>

\* What a pop leaves in the queue.  Defect: the frame, too.
Peeked == buffer

Popped == Tail(buffer)

PopFrame ==
  /\ thread = "pop"
  /\ buffer # << >>
  /\ current_frame' = Head(buffer)
  /\ buffer' = Popped
  /\ thread' = "write"
  /\ UNCHANGED << call, held, frame, sent_for, stop_requested, written >>

\* context->write(current_frame), which does nothing unless it is opened.
WriteFrame ==
  /\ thread = "write"
  /\ thread' = "check"
  /\ written' = IF Opened THEN current_frame ELSE written
  /\ UNCHANGED << call, held, queue, stop_requested, current_frame >>

-----------------------------------------------------------------------------
OpenSteps == OpenJoins \/ OpenRenews \/ OpenSucceeds \/ OpenFails

ThreadStep == CheckStop \/ PopNothing \/ PopFrame \/ WriteFrame

\* The session is gone.
Finished == call = "destroyed" /\ UNCHANGED vars

Next ==
  \/ OpenBegins \/ OpenSteps
  \/ \E f \in Frames : PushFrame(f)
  \/ DestroyBegins \/ DestroyJoins
  \/ ThreadStep
  \/ Finished

Spec == Init /\ [][Next]_vars

\* The thread is scheduled, and a call that has begun goes on.
FairSpec == Spec /\ WF_vars(ThreadStep) /\ WF_vars(OpenSteps \/ DestroyJoins)

-----------------------------------------------------------------------------
(* Properties.                                                             *)

TypeOK ==
  /\ call \in {"none", "join", "renew", "open", "destroy", "destroyed"}
  /\ context \in 0 .. MaxOpens
  /\ sender \in BOOLEAN
  /\ buffer \in Seq(Frames) /\ Len(buffer) <= BufferCapacity
  /\ thread \in {"none", "check", "pop", "write", "ended"}
  /\ stop_requested \in BOOLEAN
  /\ current_frame \in Frames \union {NoFrame}
  /\ frame \in 0 .. MaxFrames
  /\ started_for \in 0 .. MaxOpens
  /\ sent_for \in [Frames -> 0 .. MaxOpens]
  /\ written \in Frames \union {NoFrame}

\* The thread runs with the context it was started for, opened, from its
\* first step to its last: nobody replaces or destroys it under the thread, or
\* empties or destroys the queue, which has one consumer at any time.
ContextOutlivesThread ==
  thread \notin {"none", "ended"} =>
    context = started_for /\ Opened /\ call \notin {"renew", "open", "destroyed"}

\* A frame is only written to the context that was in use when the client
\* pushed it: a new session starts without frames of the old one.
WrittenWhereSent ==
  thread = "write" => sent_for[current_frame] = context

\* Frames are written in the order they were pushed and none twice.
WritesInOrder == [][WriteFrame => current_frame > written]_vars

\* A call that waits for the thread to end returns.
CallsReturn == call # "none" ~> call \in {"none", "destroyed"}
=============================================================================
