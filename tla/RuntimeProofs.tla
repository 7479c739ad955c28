---------------------------- MODULE RuntimeProofs ----------------------------
(***************************************************************************)
(* Proofs about StreamSession and about Runtime, the whole program, for    *)
(* all capacities of the two queues, all numbers of frames and openings,   *)
(* all sizes of the images, all hosts and all networks.                    *)
(*                                                                         *)
(* The session keeps its invariant Inv in the program, too.  The other     *)
(* parts of the inductive invariant of the program follow an image from    *)
(* the capture queue to the pipeline.                                      *)
(***************************************************************************)
EXTENDS Runtime, SequenceTheorems, TLAPS

-----------------------------------------------------------------------------
(* StreamSession with any sequential client.                               *)

\* While there is a thread, open() has at most asked it to stop, and context
\* and sender are those the thread was started with.  A context that is to be
\* opened is not nullptr, and there is one left.
ThreadInv ==
  /\ thread # "none" => /\ call \in {"none", "join", "destroy"}
                        /\ context = started_for /\ Opened
  /\ call \in {"join", "renew"} => context < MaxOpens
  /\ call = "open" => context # 0

\* The frames f that the thread has still to write, all of them pushed while
\* the present context was in use, and newer than those it has written.
Pending(f) == f \in 1 .. frame /\ sent_for[f] = context /\ f > written

QueueInv ==
  /\ written <= frame
  /\ \A k \in 1 .. Len(buffer) : Pending(buffer[k])
  /\ \A j, k \in 1 .. Len(buffer) : j < k => buffer[j] < buffer[k]
  /\ thread = "write" =>
       /\ Pending(current_frame)
       /\ \A k \in 1 .. Len(buffer) : current_frame < buffer[k]

\* The inductive invariant.
Inv == TypeOK /\ ThreadInv /\ QueueInv

-----------------------------------------------------------------------------
\* The invariant holds initially.
LEMMA InitInv == Init => Inv
<1> SUFFICES ASSUME Init PROVE Inv
  OBVIOUS
<1> USE SessionAssumption DEF Init, Frames, NoFrame
<1>1. buffer \in Seq(Frames) /\ Len(buffer) = 0
  BY EmptySeq
<1>2. sent_for \in [Frames -> 0 .. MaxOpens]
  OBVIOUS
<1>a. context \in 0 .. MaxOpens /\ frame \in 0 .. MaxFrames /\ started_for \in 0 .. MaxOpens
  OBVIOUS
<1>b. Len(buffer) <= BufferCapacity
  BY <1>1
<1>c. current_frame \in Frames \union {NoFrame} /\ written \in Frames \union {NoFrame}
  OBVIOUS
<1>d. sender \in BOOLEAN /\ stop_requested \in BOOLEAN
  OBVIOUS
<1>e. /\ call \in {"none", "join", "renew", "open", "destroy", "destroyed"}
      /\ thread \in {"none", "check", "pop", "write", "ended"}
  OBVIOUS
<1>3. TypeOK
  <2> USE DEF TypeOK
  <2> HIDE DEF Init, Frames, NoFrame
  <2> QED
    BY <1>1, <1>2, <1>a, <1>b, <1>c, <1>d, <1>e
<1>4. ThreadInv
  BY DEF ThreadInv
<1>5. QueueInv
  BY <1>1 DEF QueueInv
<1>6. QED
  BY <1>3, <1>4, <1>5 DEF Inv

\* A step that takes no frame and leaves the queue, the frames and the context
\* alone keeps what is said of the queue.
LEMMA QueueUnchanged ==
  ASSUME Inv, UNCHANGED << buffer, frame, sent_for, context, written, current_frame >>,
         thread' = "write" => thread = "write"
  PROVE  QueueInv'
  BY DEF Inv, QueueInv, Pending

\* Every step keeps the invariant.
LEMMA NextInv == Inv /\ [Next]_vars => Inv'
<1> SUFFICES ASSUME Inv, [Next]_vars PROVE Inv'
  OBVIOUS
<1> USE SessionAssumption DEF held, queue, writing, Opened, HasThread
<1>a. TypeOK /\ ThreadInv /\ QueueInv
  BY DEF Inv
<1>1. CASE OpenBegins
  <2> USE <1>a, <1>1 DEF OpenBegins
  <2>1. TypeOK'
    BY DEF TypeOK
  <2>2. ThreadInv'
    BY DEF ThreadInv, TypeOK
  <2>3. QueueInv'
    BY QueueUnchanged
  <2>4. QED
    BY <2>1, <2>2, <2>3 DEF Inv
<1>2. CASE OpenJoins
  <2> USE <1>a, <1>2 DEF OpenJoins
  <2>1. TypeOK'
    BY DEF TypeOK
  <2>2. ThreadInv'
    BY DEF ThreadInv, TypeOK
  <2>3. QueueInv'
    BY QueueUnchanged
  <2>4. QED
    BY <2>1, <2>2, <2>3 DEF Inv
<1>3. CASE OpenSucceeds
  <2> USE <1>a, <1>3 DEF OpenSucceeds
  <2>1. TypeOK'
    BY DEF TypeOK
  <2>2. ThreadInv'
    BY DEF ThreadInv, TypeOK
  <2>3. QueueInv'
    BY QueueUnchanged
  <2>4. QED
    BY <2>1, <2>2, <2>3 DEF Inv
<1>4. CASE OpenFails
  <2> USE <1>a, <1>4 DEF OpenFails
  <2>1. TypeOK'
    BY DEF TypeOK
  <2>2. ThreadInv'
    BY DEF ThreadInv, TypeOK
  <2>3. QueueInv'
    BY QueueUnchanged
  <2>4. QED
    BY <2>1, <2>2, <2>3 DEF Inv
<1>5. CASE DestroyBegins
  <2> USE <1>a, <1>5 DEF DestroyBegins
  <2>1. TypeOK'
    BY DEF TypeOK
  <2>2. ThreadInv'
    BY DEF ThreadInv, TypeOK
  <2>3. QueueInv'
    BY QueueUnchanged
  <2>4. QED
    BY <2>1, <2>2, <2>3 DEF Inv
<1>6. CASE CheckStop
  <2> USE <1>a, <1>6 DEF CheckStop, MustStop
  <2>1. TypeOK'
    BY DEF TypeOK
  <2>2. ThreadInv'
    BY DEF ThreadInv, TypeOK
  <2>3. QueueInv'
    BY QueueUnchanged
  <2>4. QED
    BY <2>1, <2>2, <2>3 DEF Inv
<1>7. CASE PopNothing
  <2> USE <1>a, <1>7 DEF PopNothing
  <2>1. TypeOK'
    BY DEF TypeOK
  <2>2. ThreadInv'
    BY DEF ThreadInv, TypeOK
  <2>3. QueueInv'
    BY QueueUnchanged
  <2>4. QED
    BY <2>1, <2>2, <2>3 DEF Inv
<1>8. CASE UNCHANGED vars
  <2> USE <1>a, <1>8 DEF vars
  <2>1. TypeOK'
    BY DEF TypeOK
  <2>2. ThreadInv'
    BY DEF ThreadInv, TypeOK
  <2>3. QueueInv'
    BY QueueUnchanged
  <2>4. QED
    BY <2>1, <2>2, <2>3 DEF Inv
<1>9. CASE OpenRenews
  <2> USE <1>a, <1>9 DEF OpenRenews, Consumed
  <2>1. buffer' \in Seq(Frames) /\ Len(buffer') = 0
    BY EmptySeq
  <2>2. context' \in 0 .. MaxOpens /\ thread = "none"
    BY DEF TypeOK, ThreadInv
  <2>3. Len(buffer') <= BufferCapacity
    BY <2>1
  <2>4. TypeOK'
    <3> HIDE SessionAssumption
    <3> QED
      BY <2>1, <2>2, <2>3 DEF TypeOK
  <2>5. ThreadInv'
    BY <2>2 DEF ThreadInv, TypeOK
  <2>6. QueueInv'
    BY <2>1, <2>2 DEF QueueInv
  <2>7. QED
    BY <2>4, <2>5, <2>6 DEF Inv
<1>10. CASE DestroyJoins
  <2> USE <1>a, <1>10 DEF DestroyJoins
  <2>1. buffer' \in Seq(Frames) /\ Len(buffer') = 0
    BY EmptySeq
  <2>2. context' \in 0 .. MaxOpens
    OBVIOUS
  <2>3. Len(buffer') <= BufferCapacity
    BY <2>1
  <2>4. TypeOK'
    <3> HIDE SessionAssumption
    <3> QED
      BY <2>1, <2>2, <2>3 DEF TypeOK
  <2>5. ThreadInv'
    BY DEF ThreadInv
  <2>6. QueueInv'
    BY <2>1 DEF QueueInv
  <2>7. QED
    BY <2>4, <2>5, <2>6 DEF Inv
<1>11. ASSUME NEW f \in Frames, PushFrame(f), HasRoom PROVE Inv'
  <2> USE <1>a, <1>11 DEF PushFrame, HasRoom
  <2>1. /\ frame \in Nat /\ f \in 1 .. MaxFrames /\ f > frame
        /\ buffer \in Seq(Frames) /\ Len(buffer) \in Nat
    BY LenProperties DEF TypeOK, Frames
  <2>2. buffer' = Append(buffer, f) /\ frame' = f
    OBVIOUS
  <2>3. /\ buffer' \in Seq(Frames)
        /\ Len(buffer') = Len(buffer) + 1
        /\ \A k \in 1 .. Len(buffer) : buffer'[k] = buffer[k]
        /\ buffer'[Len(buffer) + 1] = f
    BY <2>1, <2>2, AppendProperties
  <2>4. TypeOK'
    <3>1. sent_for' \in [Frames -> 0 .. MaxOpens]
      BY DEF TypeOK
    <3>2. Len(buffer') <= BufferCapacity /\ frame' \in 0 .. MaxFrames
      BY <2>1, <2>3 DEF TypeOK
    <3> HIDE SessionAssumption
    <3> QED
      BY <2>3, <3>1, <3>2 DEF TypeOK
  <2>5. ThreadInv'
    BY DEF ThreadInv
  <2>6. ASSUME NEW g, Pending(g) PROVE Pending(g)'
    BY <2>1, <2>6 DEF Pending, TypeOK, Frames
  <2>7. f \in 1 .. frame' /\ sent_for'[f] = context' /\ f > written'
    <3>1. f > written
      BY <2>1 DEF QueueInv, TypeOK, Frames, NoFrame
    <3>2. sent_for'[f] = context
      BY <2>1 DEF TypeOK
    <3>3. f \in 1 .. frame'
      BY <2>1, <2>2
    <3> QED
      BY <3>1, <3>2, <3>3
  <2>8. \A k \in 1 .. Len(buffer') : k \in 1 .. Len(buffer) \/ k = Len(buffer) + 1
    BY <2>1, <2>3
  <2>9. \A k \in 1 .. Len(buffer') : Pending(buffer[k])'
    <3> SUFFICES ASSUME NEW k \in 1 .. Len(buffer') PROVE Pending(buffer[k])'
      OBVIOUS
    <3>1. CASE k \in 1 .. Len(buffer)
      <4>1. Pending(buffer[k]) /\ buffer'[k] = buffer[k]
        BY <3>1, <2>3 DEF QueueInv
      <4> HIDE DEF PushFrame, HasRoom
      <4> QED
        BY <4>1, <2>6 DEF Pending
    <3>2. CASE k = Len(buffer) + 1
      BY <3>2, <2>3, <2>7 DEF Pending
    <3> QED
      BY <2>8, <3>1, <3>2
  <2>10. \A k \in 1 .. Len(buffer) : buffer[k] \in 1 .. frame
    BY DEF QueueInv, Pending
  <2>11. \A k \in 1 .. Len(buffer) : buffer[k] < f
    BY <2>1, <2>10
  <2>12. \A j, k \in 1 .. Len(buffer') : j < k => buffer'[j] < buffer'[k]
    <3> SUFFICES ASSUME NEW j \in 1 .. Len(buffer'), NEW k \in 1 .. Len(buffer'), j < k
                 PROVE  buffer'[j] < buffer'[k]
      OBVIOUS
    <3>1. j \in 1 .. Len(buffer)
      BY <2>1, <2>3
    <3>2. CASE k \in 1 .. Len(buffer)
      BY <3>1, <3>2, <2>3 DEF QueueInv
    <3>3. CASE k = Len(buffer) + 1
      BY <3>1, <3>3, <2>3, <2>11
    <3> QED
      BY <2>8, <3>2, <3>3
  <2>13. thread' = "write" =>
           /\ Pending(current_frame)'
           /\ \A k \in 1 .. Len(buffer') : current_frame' < buffer'[k]
    <3> SUFFICES ASSUME thread = "write"
                 PROVE  /\ Pending(current_frame)'
                        /\ \A k \in 1 .. Len(buffer') : current_frame < buffer'[k]
      OBVIOUS
    <3>1. Pending(current_frame) /\ current_frame \in 1 .. frame
      BY DEF QueueInv, Pending
    <3>2. current_frame < f
      BY <3>1, <2>1
    <3>3. Pending(current_frame)'
      BY <3>1, <2>1 DEF Pending, TypeOK, Frames
    <3>4. \A k \in 1 .. Len(buffer') : current_frame < buffer'[k]
      BY <3>2, <2>3, <2>8 DEF QueueInv
    <3> QED
      BY <3>3, <3>4
  <2>14. written' <= frame'
    BY <2>1 DEF QueueInv, TypeOK, Frames, NoFrame
  <2>15. QueueInv'
    BY <2>9, <2>12, <2>13, <2>14 DEF QueueInv
  <2>16. QED
    BY <2>4, <2>5, <2>15 DEF Inv
<1>12. ASSUME NEW f \in Frames, PushFrame(f), ~HasRoom PROVE Inv'
  <2> USE <1>a, <1>12 DEF PushFrame
  <2>1. frame \in Nat /\ f \in 1 .. MaxFrames /\ f > frame /\ frame' = f
    BY DEF TypeOK, Frames
  <2>2. TypeOK' /\ ThreadInv'
    BY <2>1 DEF TypeOK, ThreadInv
  <2>3. UNCHANGED << buffer, sent_for, context, written, current_frame, thread >>
    OBVIOUS
  <2> HIDE <1>12 DEF PushFrame
  <2>4. ASSUME NEW g, Pending(g) PROVE g \in 1 .. frame' /\ sent_for'[g] = context' /\ g > written'
    BY <2>1, <2>3, <2>4 DEF Pending
  <2>5. written' <= frame'
    BY <2>1, <2>3 DEF QueueInv, TypeOK, Frames, NoFrame
  <2>6. \A k \in 1 .. Len(buffer') : Pending(buffer[k])'
    BY <2>3, <2>4 DEF QueueInv, Pending
  <2>7. thread = "write" => Pending(current_frame)'
    BY <2>3, <2>4 DEF QueueInv, Pending
  <2>8. QueueInv'
    BY <2>3, <2>5, <2>6, <2>7 DEF QueueInv
  <2>9. QED
    BY <2>2, <2>8 DEF Inv
<1>13. CASE PopFrame
  <2> USE <1>a, <1>13 DEF PopFrame, Popped
  <2>1. buffer \in Seq(Frames) /\ Len(buffer) \in Nat /\ buffer # << >>
    BY LenProperties DEF TypeOK
  <2>2. /\ current_frame' = buffer[1]
        /\ current_frame' \in Frames
        /\ buffer' \in Seq(Frames)
        /\ Len(buffer') = Len(buffer) - 1
        /\ \A k \in 1 .. Len(buffer') : buffer'[k] = buffer[k + 1]
    <3>1. current_frame' = Head(buffer) /\ buffer' = Tail(buffer)
      OBVIOUS
    <3> HIDE <1>13 DEF PopFrame, Popped
    <3>2. Head(buffer) = buffer[1]
      BY <2>1
    <3>3. /\ Head(buffer) \in Frames /\ Tail(buffer) \in Seq(Frames)
          /\ Len(Tail(buffer)) = Len(buffer) - 1
          /\ \A k \in 1 .. Len(Tail(buffer)) : Tail(buffer)[k] = buffer[k + 1]
      BY <2>1, HeadTailProperties
    <3> QED
      BY <3>1, <3>2, <3>3
  <2>3. Len(buffer) > 0 /\ 1 \in 1 .. Len(buffer)
    BY <2>1, <2>2, LenProperties
  <2>4. \A k \in 1 .. Len(buffer') : k + 1 \in 1 .. Len(buffer) /\ 1 < k + 1
    BY <2>1, <2>2
  <2>5. TypeOK'
    <3>1. Len(buffer') <= BufferCapacity
      BY <2>1, <2>2 DEF TypeOK
    <3> HIDE SessionAssumption
    <3> QED
      BY <2>2, <3>1 DEF TypeOK
  <2>6. ThreadInv'
    BY DEF ThreadInv
  <2>7. \A k \in 1 .. Len(buffer') : Pending(buffer'[k]) /\ current_frame' < buffer'[k]
    BY <2>2, <2>3, <2>4 DEF QueueInv
  <2>8. Pending(current_frame')
    BY <2>2, <2>3 DEF QueueInv
  <2>9. \A j, k \in 1 .. Len(buffer') : j < k => buffer'[j] < buffer'[k]
    <3> SUFFICES ASSUME NEW j \in 1 .. Len(buffer'), NEW k \in 1 .. Len(buffer'), j < k
                 PROVE  buffer[j + 1] < buffer[k + 1]
      BY <2>2
    <3>1. j + 1 < k + 1 /\ j + 1 \in 1 .. Len(buffer) /\ k + 1 \in 1 .. Len(buffer)
      BY <2>1, <2>2, <2>4
    <3> QED
      BY <3>1 DEF QueueInv
  <2>10. QueueInv'
    <3>1. UNCHANGED << frame, sent_for, context, written >>
      OBVIOUS
    <3>2. written <= frame
      BY DEF QueueInv
    <3> HIDE <1>a, <1>13 DEF PopFrame, Popped
    <3> QED
      BY <2>7, <2>8, <2>9, <3>1, <3>2 DEF QueueInv, Pending
  <2>11. QED
    BY <2>5, <2>6, <2>10 DEF Inv
<1>14. CASE WriteFrame
  <2> USE <1>a, <1>14 DEF WriteFrame
  <2>1. written' = current_frame /\ Pending(current_frame)
    BY DEF ThreadInv, QueueInv
  <2>2. TypeOK'
    BY <2>1 DEF TypeOK
  <2>3. ThreadInv'
    BY DEF ThreadInv
  <2>4. \A k \in 1 .. Len(buffer) : Pending(buffer[k]) /\ current_frame < buffer[k]
    BY DEF QueueInv
  <2>5. \A k \in 1 .. Len(buffer) : buffer[k] > current_frame
    BY <2>1, <2>4 DEF Pending
  <2>6. UNCHANGED << frame, sent_for, context, buffer >> /\ thread' # "write"
    OBVIOUS
  <2>7. current_frame <= frame
    BY <2>1 DEF Pending, TypeOK
  <2>8. \A k \in 1 .. Len(buffer') : Pending(buffer[k])'
    BY <2>1, <2>4, <2>5, <2>6 DEF Pending
  <2>9. \A j, k \in 1 .. Len(buffer) : j < k => buffer[j] < buffer[k]
    BY DEF QueueInv
  <2>10. QueueInv'
    <3> HIDE <1>a, <1>14 DEF WriteFrame
    <3> QED
      BY <2>1, <2>6, <2>7, <2>8, <2>9 DEF QueueInv
  <2>11. QED
    BY <2>2, <2>3, <2>10 DEF Inv
<1>15. QED
  BY <1>1, <1>2, <1>3, <1>4, <1>5, <1>6, <1>7, <1>8, <1>9, <1>10, <1>11, <1>12, <1>13, <1>14
     DEF Next, OpenSteps, ThreadStep, Finished

-----------------------------------------------------------------------------
(* The theorems.                                                           *)

\* Inv is an invariant of the specification, and so are its parts.
THEOREM InvCorrect == Spec => []Inv
  BY InitInv, NextInv, PTL DEF Spec

\* Every variable keeps its type; the queue never holds more than its capacity.
THEOREM TypeCorrect == Spec => []TypeOK
<1>1. Inv => TypeOK
  BY DEF Inv
<1>2. QED
  BY <1>1, InvCorrect, PTL

\* Nobody touches the context or the queue under the thread.
THEOREM ContextCorrect == Spec => []ContextOutlivesThread
<1>1. Inv => ContextOutlivesThread
  BY DEF Inv, ThreadInv, ContextOutlivesThread
<1>2. QED
  BY <1>1, InvCorrect, PTL

\* A frame is only written to the context it was pushed for.
THEOREM SentCorrect == Spec => []WrittenWhereSent
<1>1. Inv => WrittenWhereSent
  BY DEF Inv, QueueInv, Pending, WrittenWhereSent
<1>2. QED
  BY <1>1, InvCorrect, PTL

\* Frames are written in the order they were pushed, and none twice.
THEOREM OrderCorrect == Spec => WritesInOrder
<1>1. Inv /\ [Next]_vars => [WriteFrame => current_frame > written]_vars
  BY DEF Inv, QueueInv, Pending, WriteFrame
<1>2. QED
  BY <1>1, InvCorrect, PTL DEF Spec, WritesInOrder

-----------------------------------------------------------------------------
(* The program.                                                            *)

\* The images are numbered as they are captured.  The main thread holds, or
\* has last held, an image that is older than all those which wait, and newer
\* than the last it pushed while it has not pushed it.
ImageInv ==
  /\ captured \in 0 .. MaxFrames
  /\ image \in 0 .. captured
  /\ frame <= image
  /\ step \in {"detect", "paint", "send", "sending"} => frame < image
  /\ capture_queue \in Seq(Frames)
  /\ \A i \in 1 .. Len(capture_queue) :
       image < capture_queue[i] /\ capture_queue[i] <= captured
  /\ \A i, j \in 1 .. Len(capture_queue) : i < j => capture_queue[i] < capture_queue[j]

\* The image the Capturer's thread hands over is the newest.
OfferInv ==
  /\ offered # 0 =>
       /\ offered = captured /\ image < offered
       /\ \A i \in 1 .. Len(capture_queue) : capture_queue[i] < offered
       /\ capture_thread = "running?" \/ step = "terminated"
  /\ overflowed => offered # 0

Holds == step \in {"detect", "paint", "send", "sending", "release"}

\* The Capturer has no thread before it is initialized, and when main() has
\* returned the thread has ended.
LifeInv ==
  /\ step \in {"configure", "capturer"} => capture_thread = "none"
  /\ step = "returned" => capture_thread = "ended"

\* The images alive are those in the queue, the one that is handed over and
\* the one in hand.
LiveInv ==
  /\ LifeInv
  /\ step # "terminated" =>
       live = {capture_queue[i] : i \in 1 .. Len(capture_queue)}
                \union {f \in {offered} : f # 0} \union {f \in {image} : Holds}

\* An address of the target's subnet and the format of the pipeline have been
\* announced.
Described ==
  /\ pipeline = Pipeline(session_config.type, session_config.size)
  /\ \E list \in Networks : \E i \in DOMAIN list :
       /\ sdp = Description(session_config.type, list[i].address)
       /\ SameSubnet(list[i], session_config.host)

\* Where the main thread is in send_image(), and what it has established.
SendInv ==
  /\ is_initialized \in BOOLEAN /\ size_determined \in BOOLEAN
  /\ sending \in {"no", "begin", "open", "sdp", "push"}
  /\ sending # "no" <=> step = "sending"
  /\ sending # "no" \/ size_determined => is_initialized
  /\ session_config = [type |-> session_config.type, host |-> session_config.host,
                       size |-> session_config.size]
  /\ sending \in {"open", "sdp"} => ~size_determined
  /\ sending \in {"open", "sdp", "push"} => session_config.size = SizeOf[image]
  /\ sending = "sdp" => pipeline = Pipeline(session_config.type, session_config.size)
  /\ sending = "push" => size_determined
  /\ size_determined => Described

\* No frame is pushed before the session is described, and then at once the
\* image it was opened with.  Unless it has been written, the first frame
\* pushed is the next the thread writes, and the pipeline has its size.
FirstInv ==
  /\ ~size_determined => frame = 0
  /\ size_determined /\ frame = 0 => sending = "push"
  /\ step = "terminated" => thread = "none"
  /\ written = NoFrame /\ step # "terminated" =>
       /\ frame # 0 /\ call # "destroyed" => thread = "write" \/ buffer # << >>
       /\ thread = "write" => SizeOf[current_frame] = session_config.size
       /\ thread # "write" /\ buffer # << >> => SizeOf[buffer[1]] = session_config.size

\* The inductive invariant.
RInv == Inv /\ ImageInv /\ OfferInv /\ LiveInv /\ SendInv /\ FirstInv

-----------------------------------------------------------------------------
\* The invariant holds initially.
LEMMA RInitInv == RInit => RInv
<1> SUFFICES ASSUME RInit PROVE RInv
  OBVIOUS
<1> USE SessionAssumption DEF RInit, VInit, NoFrame
<1>1. Inv
  BY InitInv
<1>2. /\ capture_queue = << >> /\ offered = 0 /\ captured = 0 /\ image = 0
      /\ overflowed = FALSE
  BY DEF Queue!Init, Queue!NoImage
<1>3. ImageInv /\ OfferInv
  BY <1>2, EmptySeq DEF ImageInv, OfferInv, Init
<1>4. LiveInv
  BY <1>2, EmptySeq DEF LiveInv, Holds, LifeInv, Thread!Init
<1>5. SendInv
  BY DEF SendInv, NoConfig
<1>6. FirstInv
  BY DEF FirstInv, Init
<1>7. QED
  BY <1>1, <1>3, <1>4, <1>5, <1>6 DEF RInv

-----------------------------------------------------------------------------
(* The images.                                                             *)

\* A step that moves no image keeps what is said of them, if the main thread
\* keeps or gives up what it holds as the program counter says.
LEMMA ImagesUnmoved ==
  ASSUME RInv, UNCHANGED << captured, offered, capture_queue, image, live, frame >>,
         step' \in {"detect", "paint", "send", "sending"} =>
           step \in {"detect", "paint", "send", "sending"},
         step' # "terminated" => step # "terminated" /\ (Holds' <=> Holds),
         capture_thread' = capture_thread \/ offered = 0 \/ step' = "terminated",
         LifeInv',
         overflowed' = overflowed \/ offered # 0
  PROVE  ImageInv' /\ OfferInv' /\ LiveInv'
<1>1. ImageInv'
  BY DEF RInv, ImageInv
<1>2. OfferInv'
  BY DEF RInv, OfferInv
<1>3. LiveInv'
  BY DEF RInv, LiveInv
<1>4. QED
  BY <1>1, <1>2, <1>3
\* A queue of frames without its oldest one.
LEMMA TailOfQueue ==
  ASSUME capture_queue \in Seq(Frames), capture_queue # << >>
  PROVE  /\ Tail(capture_queue) \in Seq(Frames)
         /\ Len(capture_queue) \in Nat \ {0}
         /\ Len(Tail(capture_queue)) = Len(capture_queue) - 1
         /\ Head(capture_queue) = capture_queue[1]
         /\ \A i \in 1 .. Len(capture_queue) - 1 :
              Tail(capture_queue)[i] = capture_queue[i + 1]
         /\ \A i \in 1 .. Len(capture_queue) : capture_queue[i] \in 1 .. MaxFrames
  BY HeadTailProperties, LenProperties, ElementOfSeq, SessionAssumption DEF Frames

\* A queue of images in the order of their numbers loses, with its oldest one,
\* just that element.
LEMMA ElementsOfTail ==
  ASSUME ImageInv, capture_queue # << >>
  PROVE  {Tail(capture_queue)[i] : i \in 1 .. Len(Tail(capture_queue))}
           = {capture_queue[i] : i \in 1 .. Len(capture_queue)} \ {Head(capture_queue)}
<1> DEFINE q == capture_queue
           n == Len(q)
<1>1. /\ n \in Nat \ {0} /\ Len(Tail(q)) = n - 1 /\ Head(q) = q[1]
      /\ \A i \in 1 .. n - 1 : Tail(q)[i] = q[i + 1]
      /\ \A i \in 1 .. n : q[i] \in 1 .. MaxFrames
      /\ \A i, j \in 1 .. n : i < j => q[i] < q[j]
  BY TailOfQueue DEF ImageInv
<1>2. MaxFrames \in Nat
  BY SessionAssumption
<1> HIDE DEF q, n
<1>3. ASSUME NEW i \in 1 .. n - 1
      PROVE  \E j \in 1 .. n : Tail(q)[i] = q[j] /\ q[j] # q[1]
  <2>1. i + 1 \in 1 .. n /\ 1 \in 1 .. n /\ 1 < i + 1
    BY <1>1
  <2>2. q[1] < q[i + 1] /\ q[1] \in Nat /\ q[i + 1] \in Nat
    BY <1>1, <1>2, <2>1
  <2>3. QED
    BY <1>1, <2>1, <2>2
<1>4. ASSUME NEW j \in 1 .. n, q[j] # q[1]
      PROVE  \E i \in 1 .. n - 1 : Tail(q)[i] = q[j]
  <2>1. j # 1
    BY <1>4
  <2>2. j - 1 \in 1 .. n - 1 /\ (j - 1) + 1 = j
    BY <1>1, <2>1
  <2>3. QED
    BY <1>1, <2>2
<1> DEFINE tail == {Tail(q)[i] : i \in 1 .. n - 1}
           rest == {q[i] : i \in 1 .. n} \ {q[1]}
<1>5. ASSUME NEW f \in tail PROVE f \in rest
  <2>1. PICK i \in 1 .. n - 1 : f = Tail(q)[i]
    OBVIOUS
  <2>2. PICK j \in 1 .. n : Tail(q)[i] = q[j] /\ q[j] # q[1]
    BY <1>3
  <2>3. QED
    BY <2>1, <2>2
<1>6. ASSUME NEW f \in rest PROVE f \in tail
  <2>1. PICK j \in 1 .. n : f = q[j] /\ q[j] # q[1]
    OBVIOUS
  <2>2. PICK i \in 1 .. n - 1 : Tail(q)[i] = q[j]
    BY <1>4, <2>1
  <2>3. QED
    BY <2>1, <2>2
<1>7. tail = rest
  BY <1>5, <1>6
<1>8. Len(Tail(q)) = n - 1 /\ Head(q) = q[1]
  BY <1>1
<1>9. QED
  BY <1>7, <1>8 DEF q, n

\* The main thread takes the oldest image of the queue.
LEMMA FetchMoves ==
  ASSUME RInv, FetchImage
  PROVE  ImageInv' /\ OfferInv' /\ LiveInv'
<1>a. ImageInv /\ OfferInv /\ LiveInv
  BY DEF RInv
<1>b. /\ UNCHANGED << captured, offered, overflowed, live, frame, capture_thread >>
      /\ image' = Head(capture_queue) /\ capture_queue' = Tail(capture_queue)
      /\ step = "fetch" /\ step' = "detect" /\ capture_queue # << >>
  BY DEF FetchImage, Queue!Take, vvars, vars, queue, capturer
<1> DEFINE n == Len(capture_queue)
<1>c. /\ Tail(capture_queue) \in Seq(Frames)
      /\ n \in Nat \ {0} /\ Len(Tail(capture_queue)) = n - 1
      /\ Head(capture_queue) = capture_queue[1]
      /\ \A i \in 1 .. n - 1 : Tail(capture_queue)[i] = capture_queue[i + 1]
      /\ \A i \in 1 .. n : capture_queue[i] \in 1 .. MaxFrames
  BY <1>a, <1>b, TailOfQueue DEF ImageInv
<1>1. /\ image' = capture_queue[1] /\ image' \in 1 .. captured
      /\ image < image' /\ image \in Nat
      /\ \A i \in 2 .. n : image' < capture_queue[i] /\ capture_queue[i] <= captured
  BY <1>a, <1>b, <1>c, SessionAssumption DEF ImageInv
<1>2. ImageInv'
  <2>1. frame' < image' /\ frame' <= image'
    BY <1>a, <1>b, <1>1 DEF RInv, Inv, TypeOK, ImageInv
  <2>2. \A i \in 1 .. n - 1 : image' < capture_queue'[i] /\ capture_queue'[i] <= captured
    BY <1>b, <1>c, <1>1
  <2>3. \A i, j \in 1 .. n - 1 : i < j => capture_queue'[i] < capture_queue'[j]
    BY <1>a, <1>b, <1>c DEF ImageInv
  <2>4. QED
    BY <1>a, <1>b, <1>c, <1>1, <2>1, <2>2, <2>3 DEF ImageInv
<1>3. OfferInv'
  BY <1>a, <1>b, <1>c, <1>1 DEF OfferInv
<1>4. LiveInv'
  <2>1. {capture_queue'[i] : i \in 1 .. Len(capture_queue')}
          = {capture_queue[i] : i \in 1 .. n} \ {image'}
    BY <1>a, <1>b, ElementsOfTail
  <2>2. image' \in {capture_queue[i] : i \in 1 .. n}
    BY <1>c, <1>1
  <2>3. live = {capture_queue[i] : i \in 1 .. n} \union {f \in {offered} : f # 0}
    BY <1>a, <1>b DEF LiveInv, Holds, LifeInv
  <2>4. QED
    BY <1>b, <2>1, <2>2, <2>3 DEF LiveInv, Holds, LifeInv
<1>5. QED
  BY <1>2, <1>3, <1>4

\* The image in hand is deleted; it neither waits nor is handed over.
LEMMA ReleaseMoves ==
  ASSUME RInv, ReleaseImage
  PROVE  ImageInv' /\ OfferInv' /\ LiveInv'
<1>a. ImageInv /\ OfferInv /\ LiveInv
  BY DEF RInv
<1>b. /\ UNCHANGED << captured, offered, overflowed, capture_queue, image, frame, capture_thread >>
      /\ step = "release" /\ step' = "running?" /\ live' = live \ {image}
  BY DEF ReleaseImage, vvars, vars, queue, capturer
<1>1. ImageInv' /\ OfferInv'
  BY <1>a, <1>b DEF ImageInv, OfferInv
<1>2. LiveInv'
  <2>1. /\ image \notin {capture_queue[i] : i \in 1 .. Len(capture_queue)}
        /\ image \notin {f \in {offered} : f # 0}
    BY <1>a DEF ImageInv, OfferInv
  <2>2. QED
    BY <1>a, <1>b, <2>1 DEF LiveInv, Holds, LifeInv
<1>3. QED
  BY <1>1, <1>2

\* An image arrives and the Capturer's thread begins to hand it over.
LEMMA OfferMoves ==
  ASSUME RInv, Thread!Arrive, Queue!Offer, live' = live \union {captured'},
         UNCHANGED << step, frame, capture_queue, overflowed, image >>
  PROVE  ImageInv' /\ OfferInv' /\ LiveInv'
<1>a. ImageInv /\ OfferInv /\ LiveInv
  BY DEF RInv
<1>b. /\ offered = 0 /\ captured < MaxFrames
      /\ captured' = captured + 1 /\ offered' = captured + 1
      /\ capture_thread = "wait_image" /\ capture_thread' = "running?"
  BY DEF Thread!Arrive, Thread!ImageArrives, Queue!Offer, Queue!NoImage
<1>c. captured \in Nat /\ captured + 1 \in 0 .. MaxFrames /\ image \in 0 .. captured
  BY <1>a, <1>b, SessionAssumption DEF ImageInv
<1>d. \A i \in 1 .. Len(capture_queue) : capture_queue[i] \in Nat /\ capture_queue[i] <= captured
  BY <1>a, LenProperties, ElementOfSeq, SessionAssumption DEF ImageInv, Frames
<1>1. ImageInv'
  BY <1>a, <1>b, <1>c, <1>d DEF ImageInv
<1>2. OfferInv'
  BY <1>a, <1>b, <1>c, <1>d DEF OfferInv
<1>3. LiveInv'
  BY <1>a, <1>b, <1>c DEF LiveInv, Holds, LifeInv
<1>4. QED
  BY <1>1, <1>2, <1>3

\* The queue accepts the image that is handed over.
LEMMA AcceptMoves ==
  ASSUME RInv, Queue!Accept, step # "terminated",
         UNCHANGED << step, frame, image, capture_thread, live >>
  PROVE  ImageInv' /\ OfferInv' /\ LiveInv'
<1>a. ImageInv /\ OfferInv /\ LiveInv
  BY DEF RInv
<1>b. /\ offered # 0 /\ ~overflowed /\ offered' = 0
      /\ capture_queue' = Append(capture_queue, offered)
      /\ UNCHANGED << captured, overflowed >>
  BY DEF Queue!Accept, Queue!NoImage
<1> DEFINE n == Len(capture_queue)
<1>c. /\ captured \in Nat /\ offered = captured /\ image < offered /\ offered \in 1 .. MaxFrames
      /\ \A i \in 1 .. n : capture_queue[i] < offered
  BY <1>a, <1>b, SessionAssumption DEF ImageInv, OfferInv
<1>d. /\ n \in Nat /\ capture_queue' \in Seq(Frames) /\ Len(capture_queue') = n + 1
      /\ \A i \in 1 .. n : capture_queue'[i] = capture_queue[i]
      /\ capture_queue'[n + 1] = offered
  BY <1>a, <1>b, <1>c, AppendProperties, LenProperties DEF ImageInv, Frames
<1>1. ImageInv'
  <2>1. \A i \in 1 .. n + 1 : image < capture_queue'[i] /\ capture_queue'[i] <= captured
    BY <1>a, <1>c, <1>d DEF ImageInv
  <2>2. \A i, j \in 1 .. n + 1 : i < j => capture_queue'[i] < capture_queue'[j]
    BY <1>a, <1>c, <1>d DEF ImageInv
  <2>3. QED
    BY <1>a, <1>b, <1>d, <2>1, <2>2 DEF ImageInv
<1>2. OfferInv'
  BY <1>b DEF OfferInv
<1>3. LiveInv'
  <2>1. {capture_queue'[i] : i \in 1 .. n + 1} = {capture_queue[i] : i \in 1 .. n} \union {offered}
    BY <1>d
  <2>2. QED
    BY <1>a, <1>b, <1>d, <2>1 DEF LiveInv, Holds, LifeInv
<1>4. QED
  BY <1>1, <1>2, <1>3

\* The oldest image of a full queue is deleted.
LEMMA DropOldestMoves ==
  ASSUME RInv, Queue!DropOldest, live' = live \ {Head(capture_queue)}, step # "terminated",
         UNCHANGED << step, frame, image, capture_thread >>
  PROVE  ImageInv' /\ OfferInv' /\ LiveInv'
<1>a. ImageInv /\ OfferInv /\ LiveInv
  BY DEF RInv
<1>b. /\ overflowed /\ ~overflowed' /\ capture_queue # << >>
      /\ capture_queue' = Tail(capture_queue)
      /\ UNCHANGED << captured, offered >>
  BY DEF Queue!DropOldest
<1> DEFINE n == Len(capture_queue)
<1>c. /\ Tail(capture_queue) \in Seq(Frames)
      /\ n \in Nat \ {0} /\ Len(Tail(capture_queue)) = n - 1
      /\ Head(capture_queue) = capture_queue[1]
      /\ \A i \in 1 .. n - 1 : Tail(capture_queue)[i] = capture_queue[i + 1]
      /\ \A i \in 1 .. n : capture_queue[i] \in 1 .. MaxFrames
  BY <1>a, <1>b, TailOfQueue DEF ImageInv
<1>1. ImageInv'
  <2>1. \A i \in 1 .. n - 1 : image < capture_queue'[i] /\ capture_queue'[i] <= captured
    BY <1>a, <1>b, <1>c DEF ImageInv
  <2>2. \A i, j \in 1 .. n - 1 : i < j => capture_queue'[i] < capture_queue'[j]
    BY <1>a, <1>b, <1>c DEF ImageInv
  <2>3. QED
    BY <1>a, <1>b, <1>c, <2>1, <2>2 DEF ImageInv
<1>2. OfferInv'
  BY <1>a, <1>b, <1>c DEF OfferInv
<1>3. LiveInv'
  <2>1. {capture_queue'[i] : i \in 1 .. Len(capture_queue')}
          = {capture_queue[i] : i \in 1 .. n} \ {Head(capture_queue)}
    BY <1>a, <1>b, ElementsOfTail
  <2>2. Head(capture_queue) # offered /\ Head(capture_queue) # image
    BY <1>a, <1>b, <1>c DEF OfferInv, ImageInv
  <2>3. QED
    BY <1>a, <1>b, <2>1, <2>2 DEF LiveInv, Holds, LifeInv
<1>4. QED
  BY <1>1, <1>2, <1>3

\* The image that is handed over is deleted, as the queue has become empty.
LEMMA DropNewestMoves ==
  ASSUME RInv, Queue!DropNewest, live' = live \ {offered}, step # "terminated",
         UNCHANGED << step, frame, image, capture_thread >>
  PROVE  ImageInv' /\ OfferInv' /\ LiveInv'
<1>a. ImageInv /\ OfferInv /\ LiveInv
  BY DEF RInv
<1>b. /\ overflowed /\ ~overflowed' /\ offered' = 0
      /\ UNCHANGED << captured, capture_queue >>
  BY DEF Queue!DropNewest, Queue!NoImage
<1>1. ImageInv' /\ OfferInv'
  BY <1>a, <1>b DEF ImageInv, OfferInv
<1>2. LiveInv'
  <2>1. /\ offered \notin {capture_queue[i] : i \in 1 .. Len(capture_queue)}
        /\ offered # image /\ offered # 0
    BY <1>a, <1>b DEF ImageInv, OfferInv
  <2>2. QED
    BY <1>a, <1>b, <2>1 DEF LiveInv, Holds, LifeInv
<1>3. QED
  BY <1>1, <1>2
\* The steps of send_image() change no image; the last one pushes it.
LEMMA SendMoves ==
  ASSUME RInv, SendImage
  PROVE  ImageInv' /\ OfferInv' /\ LiveInv'
<1>a. /\ UNCHANGED << captured, offered, overflowed, capture_queue, image, live, capture_thread >>
      /\ step = "sending" /\ step' \in {"sending", "release"}
      /\ sending' # "no" => step' = "sending"
      /\ sending' = "no" => step' = "release"
  BY DEF SendImage, images, capturer, After
<1>1. CASE SendPushes(image)
  <2>1. frame' = image /\ step' = "release"
    BY <1>a, <1>1 DEF SendPushes, PushFrame
  <2>2. image \in Nat
    BY SessionAssumption DEF RInv, ImageInv
  <2>3. ImageInv'
    BY <1>a, <2>1, <2>2 DEF RInv, ImageInv
  <2>4. OfferInv' /\ LiveInv'
    BY <1>a, <2>1 DEF RInv, OfferInv, LiveInv, Holds, LifeInv
  <2>5. QED
    BY <2>3, <2>4
<1>2. CASE UNCHANGED frame
  BY <1>a, <1>2, ImagesUnmoved DEF Holds, LifeInv
<1>3. SendPushes(image) \/ UNCHANGED frame
  BY DEF SendImage, SendStep, SendOpens, SendRefuses, SendWaits, SendDescribes, OpenBegins,
         OpenSteps, OpenJoins, OpenRenews, OpenSucceeds, OpenFails, vars, queue
<1>4. QED
  BY <1>1, <1>2, <1>3

\* The steps of the Capturer's thread.
LEMMA CaptureMoves ==
  ASSUME RInv, CaptureStep
  PROVE  ImageInv' /\ OfferInv' /\ LiveInv'
<1>a. UNCHANGED << step, frame >> /\ step # "terminated"
  BY DEF CaptureStep, vvars, vars, queue
<1>1. CASE /\ offered = 0 /\ Thread!QuietStep
           /\ UNCHANGED << captured, offered, live, capture_queue, overflowed, image >>
  <2>1. capture_thread \notin {"none", "ended"}
    BY <1>1 DEF Thread!QuietStep, Thread!CheckRunning, Thread!CheckStop, Thread!ReconnectWaited,
                Thread!FailedWaited, Thread!CheckConnected, Thread!Connect,
                Thread!ConnectSucceeds, Thread!ConnectFails, Thread!WaitImage, Thread!ImageFails,
                Thread!Disconnect, Thread!DisconnectReturns
  <2>2. LifeInv'
    BY <1>a, <2>1 DEF RInv, LiveInv, LifeInv
  <2>3. QED
    BY <1>a, <1>1, <2>2, ImagesUnmoved DEF Holds
<1>2. CASE /\ Thread!Arrive /\ Queue!Offer /\ live' = live \union {captured'}
           /\ UNCHANGED << capture_queue, overflowed, image >>
  BY <1>a, <1>2, OfferMoves
<1>3. CASE UNCHANGED << live, capture_thread >> /\ Queue!Accept /\ UNCHANGED image
  BY <1>a, <1>3, AcceptMoves
<1>4. CASE UNCHANGED << live, capture_thread >> /\ Queue!Overflow /\ UNCHANGED image
  <2>1. UNCHANGED << captured, offered, capture_queue >> /\ offered # 0
    BY <1>4 DEF Queue!Overflow, Queue!NoImage
  <2>2. LifeInv'
    BY <1>a, <1>4 DEF RInv, LiveInv, LifeInv
  <2>3. QED
    BY <1>a, <1>4, <2>1, <2>2, ImagesUnmoved DEF Holds
<1>5. CASE /\ Queue!DropOldest /\ live' = live \ {Head(capture_queue)}
           /\ UNCHANGED << capture_thread, image >>
  BY <1>a, <1>5, DropOldestMoves
<1>6. CASE Queue!DropNewest /\ live' = live \ {offered} /\ UNCHANGED << capture_thread, image >>
  BY <1>a, <1>6, DropNewestMoves
<1>7. QED
  BY <1>1, <1>2, <1>3, <1>4, <1>5, <1>6
     DEF CaptureStep, Queue!NoImage, Queue!Accept, Queue!Overflow, Queue!DropOldest,
         Queue!DropNewest, capturer

\* Every step keeps what is said of the images.
LEMMA ImagesKept ==
  ASSUME RInv, [RNext]_rvars
  PROVE  ImageInv' /\ OfferInv' /\ LiveInv'
<1> USE DEF vvars, vars, queue, capturer, images
<1>a. LifeInv
  BY DEF RInv, LiveInv
<1>1. CASE FetchImage
  BY <1>1, FetchMoves
<1>2. CASE ReleaseImage
  BY <1>2, ReleaseMoves
<1>3. CASE SendImage
  BY <1>3, SendMoves
<1>4. CASE CaptureStep
  BY <1>4, CaptureMoves
<1>5. CASE Configure \/ InitializeIdentifier \/ CheckRunning \/ FetchNothing
  BY <1>5, <1>a, ImagesUnmoved
     DEF Configure, InitializeIdentifier, CheckRunning, FetchNothing, Retry, Holds, LifeInv
<1>6. CASE InitializeVisualization
  BY <1>6, <1>a, ImagesUnmoved DEF InitializeVisualization, VInitialize, Holds, LifeInv
<1>7. CASE InitializeCapturer
  <2>1. offered = 0 /\ step = "capturer" /\ step' = "identifier"
    BY <1>7 DEF InitializeCapturer, RInv, OfferInv, LiveInv, LifeInv
  <2>2. QED
    BY <1>7, <2>1, ImagesUnmoved DEF InitializeCapturer, Holds, LifeInv
<1>8. CASE Terminate
  BY <1>8, <1>a, ImagesUnmoved DEF Terminate, LifeInv
<1>9. CASE DetectBalls \/ PaintImage \/ PaintNothing \/ BeginSend
  BY <1>9, <1>a, ImagesUnmoved DEF DetectBalls, PaintImage, PaintNothing, BeginSend, After, Holds, LifeInv
<1>10. CASE DestroyVisualization
  BY <1>10, <1>a, ImagesUnmoved DEF DestroyVisualization, DestroyBegins, DestroyJoins, Holds, LifeInv
<1>11. CASE DestroyCapturer
  BY <1>11, <1>a, ImagesUnmoved
     DEF DestroyCapturer, Thread!RequestStop, Thread!Join, Thread!Joined, Holds, LifeInv
<1>12. CASE StreamStep
  BY <1>12, <1>a, ImagesUnmoved
     DEF StreamStep, ThreadStep, CheckStop, PopNothing, PopFrame, WriteFrame, Holds, LifeInv
<1>13. CASE Outside
  BY <1>13, <1>a, ImagesUnmoved
     DEF Outside, Thread!SetRunning, Thread!LoseConnection, Holds, LifeInv
<1>14. CASE UNCHANGED rvars
  BY <1>14, <1>a, ImagesUnmoved DEF rvars, Holds, LifeInv
<1>15. QED
  BY <1>1, <1>2, <1>3, <1>4, <1>5, <1>6, <1>7, <1>8, <1>9, <1>10, <1>11, <1>12, <1>13, <1>14
     DEF RNext, MainStep, Finish
-----------------------------------------------------------------------------
(* The session.                                                            *)

\* A step of the program is one of the session with a client that only pushes
\* the newest frame it has, or the process is terminated.
LEMMA SessionSteps ==
  ASSUME RInv, [RNext]_rvars
  PROVE  [Next]_vars \/ Terminate
<1> USE DEF Next
<1>1. CASE SendImage
  <2>1. image > frame => image \in Frames
    BY <1>1, SessionAssumption DEF SendImage, RInv, Inv, TypeOK, ImageInv, Frames
  <2>2. SendPushes(image) => \E f \in Frames : PushFrame(f)
    BY <2>1 DEF SendPushes, PushFrame
  <2>3. QED
    BY <1>1, <2>2 DEF SendImage, SendStep, SendOpens, SendRefuses, SendWaits, SendDescribes
<1>2. CASE DestroyVisualization
  BY <1>2 DEF DestroyVisualization
<1>3. CASE StreamStep
  BY <1>3 DEF StreamStep
<1>4. CASE InitializeVisualization
  BY <1>4 DEF InitializeVisualization, VInitialize
<1>5. CASE Configure \/ InitializeCapturer \/ InitializeIdentifier
  BY <1>5 DEF Configure, InitializeCapturer, InitializeIdentifier, vvars
<1>6. CASE \/ CheckRunning \/ FetchImage \/ FetchNothing \/ DetectBalls
           \/ PaintImage \/ PaintNothing \/ ReleaseImage
  BY <1>6 DEF CheckRunning, FetchImage, FetchNothing, DetectBalls, PaintImage, PaintNothing,
              ReleaseImage, vvars
<1>7. CASE BeginSend
  BY <1>7 DEF BeginSend
<1>8. CASE DestroyCapturer \/ CaptureStep \/ Outside \/ UNCHANGED rvars
  BY <1>8 DEF DestroyCapturer, CaptureStep, Outside, rvars, vvars
<1>9. QED
  BY <1>1, <1>2, <1>3, <1>4, <1>5, <1>6, <1>7, <1>8 DEF RNext, MainStep, Finish

\* The session keeps its invariant in the program.
LEMMA SessionKept ==
  ASSUME RInv, [RNext]_rvars
  PROVE  Inv'
<1>1. CASE [Next]_vars
  BY <1>1, NextInv DEF RInv
<1>2. CASE Terminate
  <2>1. /\ UNCHANGED << call, held, queue, stop_requested, writing >> /\ thread' = "none"
        /\ TypeOK /\ ThreadInv /\ QueueInv
    BY <1>2 DEF Terminate, RInv, Inv
  <2> USE DEF held, queue, writing
  <2>2. TypeOK'
    BY <2>1 DEF TypeOK
  <2>3. ThreadInv' /\ QueueInv'
    BY <2>1 DEF ThreadInv, QueueInv, Pending
  <2>4. QED
    BY <2>2, <2>3 DEF Inv
<1>3. QED
  BY <1>1, <1>2, SessionSteps
-----------------------------------------------------------------------------
(* send_image().                                                           *)

\* What has been announced stays announced.
LEMMA DescribedKept ==
  ASSUME UNCHANGED << pipeline, sdp, session_config >>
  PROVE  Described' <=> Described
  BY DEF Described, Pipeline, Description, SameSubnet

\* A step outside send_image() keeps what is said of it.
LEMMA SendUntouched ==
  ASSUME RInv, UNCHANGED here, step' = "sending" <=> step = "sending",
         step # "sending" \/ UNCHANGED image
  PROVE  SendInv'
<1>1. SendInv /\ UNCHANGED << is_initialized, size_determined, session_config, sending, pipeline, sdp >>
  BY DEF RInv, here
<1>2. Described' <=> Described
  BY <1>1, DescribedKept
<1>3. QED
  BY <1>1, <1>2 DEF SendInv, Pipeline

\* The session is initialized before anything is sent.
LEMMA InitializeSends ==
  ASSUME RInv, InitializeVisualization
  PROVE  SendInv'
<1>1. PICK type \in {"RTP_JPEG", "RTP_H264"}, host \in Hosts : VInitialize(type, host)
  BY DEF InitializeVisualization
<1>2. SendInv /\ step = "visualization" /\ step' = "running?"
  BY DEF RInv, InitializeVisualization
<1>3. /\ ~is_initialized /\ is_initialized'
      /\ UNCHANGED << size_determined, sending >>
      /\ session_config' = [type |-> type, host |-> host, size |-> EmptyImage]
  BY <1>1 DEF VInitialize, NoConfig
<1>4. sending' = "no" /\ ~size_determined' /\ size_determined' \in BOOLEAN
  BY <1>2, <1>3 DEF SendInv
<1>5. session_config' = [type |-> session_config'.type, host |-> session_config'.host,
                         size |-> session_config'.size]
  BY <1>3
<1>6. QED
  BY <1>2, <1>3, <1>4, <1>5 DEF SendInv

\* Each step of send_image() establishes what the next one relies on.
LEMMA SendSends ==
  ASSUME RInv, SendImage
  PROVE  SendInv'
<1>a. /\ SendInv /\ UNCHANGED image /\ step = "sending"
      /\ sending' = "no" => step' = "release"
      /\ sending' # "no" => step' = "sending"
  BY DEF SendImage, images, RInv, After
<1>1. CASE SendOpens(image)
  <2>1. /\ UNCHANGED << is_initialized, size_determined, pipeline, sdp >>
        /\ ~size_determined /\ is_initialized /\ sending' = "open"
        /\ session_config' = [session_config EXCEPT !.size = SizeOf[image]]
    BY <1>1 DEF SendOpens, FormatSize
  <2>2. session_config' = [type |-> session_config.type, host |-> session_config.host,
                           size |-> SizeOf[image]]
    BY <1>a, <2>1 DEF SendInv
  <2>3. session_config' = [type |-> session_config'.type, host |-> session_config'.host,
                           size |-> session_config'.size]
        /\ session_config'.size = SizeOf[image]
    BY <2>2
  <2>4. QED
    BY <1>a, <2>1, <2>3 DEF SendInv
<1>2. CASE SendRefuses(image)
  <2>1. /\ UNCHANGED << is_initialized, size_determined, session_config, pipeline, sdp >>
        /\ sending' = "no"
    BY <1>2 DEF SendRefuses
  <2>2. Described' <=> Described
    BY <2>1, DescribedKept
  <2>3. QED
    BY <1>a, <2>1, <2>2 DEF SendInv
<1>3. CASE SendWaits
  <2>1. /\ UNCHANGED << is_initialized, size_determined, session_config, sdp >>
        /\ sending = "open" /\ OpenSteps
        /\ pipeline' = CASE call = "renew" -> Nothing
                         [] call = "open"  -> Pipeline(session_config.type, session_config.size)
                         [] OTHER          -> pipeline
        /\ sending' = IF call' # "none" THEN "open" ELSE IF Opened' THEN "sdp" ELSE "no"
    BY <1>3 DEF SendWaits
  <2>2. call' = "none" => call = "open"
    BY <2>1 DEF OpenSteps, OpenJoins, OpenRenews, OpenSucceeds, OpenFails
  <2>3. sending' = "sdp" => pipeline' = Pipeline(session_config.type, session_config.size)
    BY <2>1, <2>2
  <2>4. sending' \in {"open", "sdp", "no"} /\ ~size_determined
    BY <1>a, <2>1 DEF SendInv
  <2>5. QED
    BY <1>a, <2>1, <2>3, <2>4 DEF SendInv, Pipeline
<1>4. ASSUME NEW list \in Networks, NEW writable \in BOOLEAN, SendDescribes(list, writable)
      PROVE  SendInv'
  <2> DEFINE local == LocalAddresses(list, session_config.host)
  <2>1. /\ UNCHANGED << is_initialized, session_config, pipeline >> /\ sending = "sdp"
        /\ \/ /\ \E i \in local : sdp' = Description(session_config.type, list[i].address)
              /\ size_determined' = TRUE /\ sending' = "push"
           \/ sending' = "no" /\ UNCHANGED << sdp, size_determined >>
    BY <1>4 DEF SendDescribes
  <2>2. CASE /\ \E i \in local : sdp' = Description(session_config.type, list[i].address)
             /\ size_determined' = TRUE /\ sending' = "push"
    <3>1. PICK i \in local : sdp' = Description(session_config.type, list[i].address)
      BY <2>2
    <3>2. i \in DOMAIN list /\ SameSubnet(list[i], session_config.host)
      BY <3>1 DEF LocalAddresses
    <3>3. pipeline = Pipeline(session_config.type, session_config.size)
      BY <1>a, <2>1 DEF SendInv
    <3>4. Described'
      BY <2>1, <3>1, <3>2, <3>3 DEF Described, Pipeline, Description, SameSubnet
    <3>5. QED
      BY <1>a, <2>1, <2>2, <3>4 DEF SendInv
  <2>3. CASE sending' = "no" /\ UNCHANGED << sdp, size_determined >>
    <3>1. ~size_determined
      BY <1>a, <2>1 DEF SendInv
    <3>2. QED
      BY <1>a, <2>1, <2>3, <3>1 DEF SendInv
  <2>4. QED
    BY <2>1, <2>2, <2>3
<1>5. CASE SendPushes(image)
  <2>1. /\ UNCHANGED << is_initialized, size_determined, session_config, pipeline, sdp >>
        /\ sending' = "no"
    BY <1>5 DEF SendPushes
  <2>2. Described' <=> Described
    BY <2>1, DescribedKept
  <2>3. QED
    BY <1>a, <2>1, <2>2 DEF SendInv
<1>6. QED
  BY <1>1, <1>2, <1>3, <1>4, <1>5 DEF SendImage, SendStep

\* Every step keeps what is said of send_image().
LEMMA SendKept ==
  ASSUME RInv, [RNext]_rvars
  PROVE  SendInv'
<1>1. CASE InitializeVisualization
  BY <1>1, InitializeSends
<1>2. CASE SendImage
  BY <1>2, SendSends
<1>3. CASE BeginSend
  <2>1. /\ UNCHANGED << image, is_initialized, size_determined, session_config, pipeline, sdp >>
        /\ step = "send"
        /\ is_initialized => step' = "sending" /\ sending' = "begin"
        /\ ~is_initialized => step' = "release" /\ sending' = "no"
    BY <1>3 DEF BeginSend, images, After
  <2>2. Described' <=> Described
    BY <2>1, DescribedKept
  <2>3. QED
    BY <2>1, <2>2 DEF RInv, SendInv
<1>4. CASE FetchImage
  BY <1>4, SendUntouched DEF FetchImage, vvars
<1>5. CASE \/ Configure \/ InitializeCapturer \/ InitializeIdentifier \/ Terminate
           \/ DestroyVisualization
  BY <1>5, SendUntouched
     DEF Configure, InitializeCapturer, InitializeIdentifier, Terminate, DestroyVisualization,
         vvars
<1>6. CASE CheckRunning \/ FetchNothing \/ ReleaseImage
  BY <1>6, SendUntouched DEF CheckRunning, FetchNothing, Retry, ReleaseImage, vvars
<1>7. CASE DetectBalls \/ PaintImage \/ PaintNothing
  <2>1. UNCHANGED here /\ step # "sending" /\ step' = After[step] /\ step \in {"detect", "paint"}
    BY <1>7 DEF DetectBalls, PaintImage, PaintNothing, vvars
  <2>2. step' # "sending"
    BY <2>1 DEF After
  <2>3. QED
    BY <2>1, <2>2, SendUntouched
<1>8. CASE StreamStep \/ Outside \/ DestroyCapturer \/ UNCHANGED rvars
  BY <1>8, SendUntouched DEF StreamStep, Outside, DestroyCapturer, rvars, images, vvars
<1>9. CASE CaptureStep
  BY <1>9, SendUntouched
     DEF CaptureStep, vvars, Queue!Accept, Queue!Overflow, Queue!DropOldest, Queue!DropNewest
<1>10. QED
  BY <1>1, <1>2, <1>3, <1>4, <1>5, <1>6, <1>7, <1>8, <1>9 DEF RNext, MainStep, Finish
-----------------------------------------------------------------------------
(* The first frame.                                                        *)

\* A step that leaves the queue, the thread and the format alone.
LEMMA FirstUntouched ==
  ASSUME RInv, UNCHANGED << buffer, frame, current_frame, written, here >>,
         step' = "terminated" => thread' = "none",
         step' # "terminated" =>
           /\ step # "terminated"
           /\ thread' = thread \/ (thread' # "write" /\ thread # "write")
           /\ call = "destroyed" => call' = "destroyed"
  PROVE  FirstInv'
  BY DEF RInv, FirstInv, here

\* Without a description nothing has been pushed, and nothing waits.
LEMMA NothingPushed ==
  ASSUME RInv, frame = 0
  PROVE  buffer = << >> /\ thread # "write" /\ written = NoFrame
<1>1. \A f : ~ Pending(f)
  BY DEF Pending
<1>2. buffer \in Seq(Frames) /\ Len(buffer) \in Nat
  BY LenProperties DEF RInv, Inv, TypeOK
<1>3. Len(buffer) = 0
  BY <1>1, <1>2 DEF RInv, Inv, QueueInv
<1>4. written = 0
  BY SessionAssumption DEF RInv, Inv, TypeOK, QueueInv, Frames, NoFrame
<1>5. QED
  BY <1>1, <1>2, <1>3, <1>4, EmptySeq DEF RInv, Inv, QueueInv, NoFrame
\* A step before the first frame is pushed.
LEMMA FirstBefore ==
  ASSUME RInv, frame = 0, UNCHANGED frame, buffer' \in {buffer, << >>},
         thread' # "write" \/ UNCHANGED thread,
         size_determined' => sending' = "push", step' # "terminated"
  PROVE  FirstInv'
<1>1. buffer' = << >> /\ thread' # "write"
  BY NothingPushed
<1>2. QED
  BY <1>1 DEF FirstInv

\* The session opens again only before the first frame is pushed, and the
\* first frame that is pushed is the image it was opened with.
LEMMA SendFirst ==
  ASSUME RInv, SendImage
  PROVE  FirstInv'
<1>a. /\ SendInv /\ FirstInv /\ step = "sending" /\ step' # "terminated"
      /\ image > frame => image # 0
  BY SessionAssumption DEF SendImage, RInv, After, Inv, TypeOK, ImageInv
<1>1. CASE SendOpens(image)
  <2>1. /\ ~size_determined /\ UNCHANGED << size_determined, frame, buffer, thread >>
    BY <1>1 DEF SendOpens, OpenBegins, queue
  <2>2. QED
    BY <1>a, <2>1, FirstBefore DEF FirstInv
<1>2. CASE SendRefuses(image)
  <2>1. /\ UNCHANGED << buffer, frame, current_frame, written, thread, call >>
        /\ UNCHANGED << size_determined, session_config >>
        /\ sending = "begin"
    BY <1>2 DEF SendRefuses, vars, queue, writing
  <2>2. QED
    BY <1>a, <2>1 DEF FirstInv
<1>3. CASE SendWaits
  <2>1. /\ ~size_determined /\ UNCHANGED << size_determined, frame >>
        /\ buffer' \in {buffer, << >>} /\ (thread' # "write" \/ UNCHANGED thread)
    BY <1>3, <1>a DEF SendWaits, SendInv, OpenSteps, OpenJoins, OpenRenews, OpenSucceeds,
                      OpenFails, queue, Consumed
  <2>2. QED
    BY <1>a, <2>1, FirstBefore DEF FirstInv
<1>4. ASSUME NEW list \in Networks, NEW writable \in BOOLEAN, SendDescribes(list, writable)
      PROVE  FirstInv'
  <2>1. /\ ~size_determined /\ UNCHANGED << frame, buffer, thread >>
        /\ size_determined' => sending' = "push"
    BY <1>4, <1>a DEF SendDescribes, SendInv, vars, queue
  <2>2. QED
    BY <1>a, <2>1, FirstBefore DEF FirstInv
<1>5. CASE SendPushes(image)
  <2>1. /\ sending \in {"push", "begin"} /\ size_determined /\ size_determined'
        /\ call = "none" /\ image > frame /\ frame' = image
        /\ UNCHANGED << call, thread, current_frame, written, session_config >>
        /\ IF Len(buffer) < BufferCapacity THEN buffer' = Append(buffer, image)
                                           ELSE UNCHANGED buffer
    BY <1>5, <1>a DEF SendPushes, SendInv, PushFrame, HasRoom, writing
  <2>2. /\ frame' # 0 /\ buffer \in Seq(Frames) /\ Len(buffer) \in Nat
        /\ image \in Frames /\ BufferCapacity \in Nat \ {0}
    BY <1>a, <2>1, LenProperties, SessionAssumption
       DEF RInv, Inv, TypeOK, ImageInv, Frames
  <2>3. Append(buffer, image) # << >>
    BY <2>2, AppendProperties
  <2>4. CASE frame = 0
    <3>1. buffer = << >> /\ thread # "write" /\ Len(buffer) = 0
      BY <2>4, NothingPushed, EmptySeq
    <3>2. buffer' = Append(buffer, image) /\ buffer'[1] = image
      BY <2>1, <2>2, <3>1, AppendProperties
    <3>3. SizeOf[image] = session_config'.size
      BY <1>a, <2>1, <2>4 DEF FirstInv, SendInv
    <3>4. QED
      BY <1>a, <2>1, <2>2, <2>3, <3>1, <3>2, <3>3 DEF FirstInv
  <2>5. CASE frame # 0
    <3>1. buffer # << >> => Len(buffer) # 0
      BY <2>2, EmptySeq
    <3>2. buffer # << >> => buffer'[1] = buffer[1] /\ buffer' # << >>
      BY <2>1, <2>2, <2>3, <3>1, AppendProperties
    <3>3. QED
      BY <1>a, <2>1, <2>2, <2>5, <3>2 DEF FirstInv
  <2>6. QED
    BY <2>4, <2>5
<1>6. QED
  BY <1>1, <1>2, <1>3, <1>4, <1>5 DEF SendImage, SendStep

\* The streaming thread takes the first frame and writes it.
LEMMA StreamFirst ==
  ASSUME RInv, StreamStep
  PROVE  FirstInv'
<1>a. FirstInv /\ UNCHANGED << step, here >> /\ step # "terminated"
  BY DEF StreamStep, ThreadStep, CheckStop, PopNothing, PopFrame, WriteFrame, RInv, FirstInv
<1>b. UNCHANGED << is_initialized, size_determined, session_config, sending >>
  BY <1>a DEF here
<1>1. CASE CheckStop \/ PopNothing
  BY <1>1, <1>a, FirstUntouched DEF CheckStop, PopNothing, queue, writing
<1>2. CASE PopFrame
  <2>1. Head(buffer) = buffer[1]
    OBVIOUS
  <2>2. QED
    BY <1>2, <1>a, <1>b, <2>1 DEF PopFrame, FirstInv
<1>3. CASE WriteFrame
  <2>1. written' = current_frame /\ current_frame # 0
    BY <1>3, SessionAssumption DEF WriteFrame, RInv, Inv, ThreadInv, QueueInv, Pending, TypeOK, Frames, NoFrame
  <2>2. QED
    BY <1>3, <1>a, <1>b, <2>1 DEF WriteFrame, FirstInv, NoFrame, queue
<1>4. QED
  BY <1>1, <1>2, <1>3 DEF StreamStep, ThreadStep
\* Every step keeps what is said of the first frame.
LEMMA FirstKept ==
  ASSUME RInv, [RNext]_rvars
  PROVE  FirstInv'
<1> USE DEF vvars, vars, queue, writing
<1>1. CASE InitializeVisualization
  <2>1. ~is_initialized /\ UNCHANGED << size_determined, sending, vars >> /\ step' = "running?"
    BY <1>1 DEF InitializeVisualization, VInitialize
  <2>2. frame = 0 /\ ~size_determined
    BY <2>1 DEF RInv, SendInv, FirstInv
  <2>3. QED
    BY <2>1, <2>2, FirstBefore
<1>2. CASE SendImage
  BY <1>2, SendFirst
<1>3. CASE StreamStep
  BY <1>3, StreamFirst
<1>4. CASE BeginSend
  <2>1. /\ UNCHANGED << vars, size_determined, session_config >> /\ step = "send"
        /\ step' # "terminated" /\ sending # "push"
    BY <1>4 DEF BeginSend, After, RInv, SendInv
  <2>2. QED
    BY <2>1 DEF RInv, FirstInv
<1>5. CASE Terminate
  BY <1>5, FirstUntouched DEF Terminate
<1>6. CASE DestroyVisualization
  <2>1. UNCHANGED << here, frame, current_frame, written >> /\ step = "destroy visualization"
        /\ step' # "terminated"
    BY <1>6 DEF DestroyVisualization, DestroyBegins, DestroyJoins
  <2>2. CASE DestroyBegins
    BY <2>1, <2>2, FirstUntouched DEF DestroyBegins
  <2>3. CASE DestroyJoins
    <3>1. call' = "destroyed" /\ thread' = "none" /\ buffer' = << >>
      BY <2>3 DEF DestroyJoins
    <3>2. QED
      BY <2>1, <3>1 DEF RInv, FirstInv, here
  <2>4. QED
    BY <1>6, <2>2, <2>3 DEF DestroyVisualization
<1>7. CASE Configure \/ InitializeCapturer \/ InitializeIdentifier \/ DestroyCapturer
  BY <1>7, FirstUntouched DEF Configure, InitializeCapturer, InitializeIdentifier, DestroyCapturer
<1>8. CASE CheckRunning \/ FetchImage \/ FetchNothing \/ ReleaseImage
  BY <1>8, FirstUntouched DEF CheckRunning, FetchImage, FetchNothing, Retry, ReleaseImage
<1>9. CASE DetectBalls \/ PaintImage \/ PaintNothing
  <2>1. UNCHANGED vvars /\ step' = After[step] /\ step \in {"detect", "paint"}
    BY <1>9 DEF DetectBalls, PaintImage, PaintNothing
  <2>2. step' # "terminated"
    BY <2>1 DEF After
  <2>3. UNCHANGED << buffer, frame, current_frame, written, here, thread, call >>
    BY <2>1
  <2>4. step # "terminated"
    BY <2>1
  <2>5. QED
    BY <2>2, <2>3, <2>4, FirstUntouched
<1>10. CASE CaptureStep \/ Outside
  BY <1>10, FirstUntouched DEF CaptureStep, Outside, RInv, FirstInv
<1>11. CASE UNCHANGED rvars
  BY <1>11, FirstUntouched DEF rvars, RInv, FirstInv
<1>12. QED
  BY <1>1, <1>2, <1>3, <1>4, <1>5, <1>6, <1>7, <1>8, <1>9, <1>10, <1>11
     DEF RNext, MainStep, Finish

-----------------------------------------------------------------------------
(* The theorems.                                                           *)

\* RInv is an invariant of the program.
THEOREM RInvCorrect == RSpec => []RInv
<1>1. RInv /\ [RNext]_rvars => RInv'
  BY SessionKept, ImagesKept, SendKept, FirstKept DEF RInv
<1>2. QED
  BY <1>1, RInitInv, PTL DEF RSpec

\* The images alive when main() has returned are those left in the queue.
THEOREM LeaksCorrect == RSpec => []OnlyQueueLeaks
<1>1. RInv => OnlyQueueLeaks
  <2> SUFFICES ASSUME RInv, step = "returned" PROVE live = ToSet(capture_queue)
    BY DEF OnlyQueueLeaks
  <2>1. offered = 0 /\ ~Holds
    BY DEF RInv, OfferInv, LiveInv, LifeInv, Holds
  <2>2. live = {capture_queue[i] : i \in 1 .. Len(capture_queue)}
    BY <2>1 DEF RInv, LiveInv
  <2>3. DOMAIN capture_queue = 1 .. Len(capture_queue)
    BY LenProperties DEF RInv, ImageInv
  <2>4. QED
    BY <2>2, <2>3 DEF ToSet
<1>2. QED
  BY <1>1, RInvCorrect, PTL

\* The main thread never paints an image the stream shares.
THEOREM PaintedCorrect == RSpec => PaintedAlone
<1>1. RInv /\ [RNext]_rvars =>
        [PaintImage =>
           /\ \A i \in DOMAIN buffer : buffer[i] # image
           /\ thread = "write" => current_frame # image]_rvars
  <2> SUFFICES ASSUME RInv, PaintImage
               PROVE  /\ \A i \in DOMAIN buffer : buffer[i] # image
                      /\ thread = "write" => current_frame # image
    OBVIOUS
  <2>1. frame < image /\ frame \in Nat /\ image \in Nat
    BY SessionAssumption DEF PaintImage, RInv, Inv, TypeOK, ImageInv
  <2>2. DOMAIN buffer = 1 .. Len(buffer)
    BY LenProperties DEF RInv, Inv, TypeOK
  <2>3. QED
    BY <2>1, <2>2 DEF RInv, Inv, QueueInv, Pending
<1>2. QED
  BY <1>1, RInvCorrect, PTL DEF RSpec, PaintedAlone

\* Whatever is queued or written has been announced, as what it is, with a
\* local address in the subnet of the target.
THEOREM AnnouncedCorrect == RSpec => []AnnouncedIsSent
<1>1. RInv => AnnouncedIsSent
  <2> SUFFICES ASSUME RInv, buffer # << >> \/ thread = "write"
               PROVE  AnnouncedIsSent
    BY DEF AnnouncedIsSent
  <2>1. Described
    BY NothingPushed DEF RInv, FirstInv, SendInv
  <2>2. PICK list \in Networks : \E i \in DOMAIN list :
          /\ sdp = Description(session_config.type, list[i].address)
          /\ SameSubnet(list[i], session_config.host)
    BY <2>1 DEF Described
  <2>3. PICK i \in DOMAIN list :
          /\ sdp = Description(session_config.type, list[i].address)
          /\ SameSubnet(list[i], session_config.host)
    BY <2>2
  <2>4. sdp.ip = list[i].address
    BY <2>3 DEF Description
  <2>5. /\ << pipeline.codec, sdp.codec >> \in
             {<< "jpegenc", "JPEG/90000" >>, << "x264enc", "H264/90000" >>}
        /\ pipeline.payload = sdp.payload
    BY <2>1, <2>3 DEF Described, Pipeline, Description
  <2>6. QED
    BY <2>3, <2>4, <2>5 DEF SameSubnet, AnnouncedIsSent
<1>2. QED
  BY <1>1, RInvCorrect, PTL

\* The first frame written has the size of the pipeline it is written to.
THEOREM FirstCorrect == RSpec => FirstFrameFits
<1>1. RInv /\ [RNext]_rvars =>
        [WriteFrame /\ written = NoFrame => SizeOf[current_frame] = pipeline.size]_vvars
  <2> SUFFICES ASSUME RInv, WriteFrame, written = NoFrame
               PROVE  SizeOf[current_frame] = pipeline.size
    OBVIOUS
  <2>1. thread = "write"
    BY DEF WriteFrame
  <2>2. Described /\ SizeOf[current_frame] = session_config.size
    BY <2>1, NothingPushed DEF RInv, FirstInv, SendInv
  <2>3. QED
    BY <2>2 DEF Described, Pipeline
<1>2. QED
  BY <1>1, RInvCorrect, PTL DEF RSpec, FirstFrameFits

\* In the program the thread of the session never outlives its context, and
\* writes frames only to the context they were pushed for.
THEOREM SessionCorrect == RSpec => [](ContextOutlivesThread /\ WrittenWhereSent)
<1>1. RInv => ContextOutlivesThread /\ WrittenWhereSent
  BY DEF RInv, Inv, TypeOK, ThreadInv, QueueInv, Pending, ContextOutlivesThread, WrittenWhereSent
<1>2. QED
  BY <1>1, RInvCorrect, PTL

\* Until the process is terminated, the program is a client of StreamSession:
\* main(), send_image() and the destructor only call it as Next allows.
THEOREM SessionInProgram == RSpec => Init /\ [][Next \/ Terminate]_vars
<1>1. RInit => Init
  BY DEF RInit, VInit
<1>2. RInv /\ [RNext]_rvars => [Next \/ Terminate]_vars
  BY SessionSteps
<1>3. QED
  BY <1>1, <1>2, RInvCorrect, PTL DEF RSpec
-----------------------------------------------------------------------------
(* The capture queue in the program.                                       *)

\* Every step of the program is one of the queue, or leaves the queue alone.
LEMMA QueueSteps == [RNext]_rvars => [Queue!Next]_(Queue!avars)
<1> SUFFICES ASSUME [RNext]_rvars
             PROVE  Queue!Next \/ UNCHANGED Queue!avars
  OBVIOUS
<1> USE DEF Queue!avars, images
<1>1. CASE FetchImage
  BY <1>1 DEF FetchImage, Queue!Next
<1>2. CASE CaptureStep
  BY <1>2 DEF CaptureStep, Queue!Next
<1>3. CASE Configure \/ InitializeCapturer \/ InitializeIdentifier \/ InitializeVisualization
  BY <1>3 DEF Configure, InitializeCapturer, InitializeIdentifier, InitializeVisualization
<1>4. CASE Terminate \/ CheckRunning \/ FetchNothing \/ DetectBalls \/ ReleaseImage
  BY <1>4 DEF Terminate, CheckRunning, FetchNothing, DetectBalls, ReleaseImage
<1>5. CASE PaintImage \/ PaintNothing \/ BeginSend \/ SendImage
  BY <1>5 DEF PaintImage, PaintNothing, BeginSend, SendImage
<1>6. CASE DestroyVisualization \/ DestroyCapturer \/ StreamStep \/ Outside
  BY <1>6 DEF DestroyVisualization, DestroyCapturer, StreamStep, Outside
<1>7. CASE UNCHANGED rvars
  BY <1>7 DEF rvars
<1>8. QED
  BY <1>1, <1>2, <1>3, <1>4, <1>5, <1>6, <1>7 DEF RNext, MainStep, Finish

\* The program uses the capture queue as DropOldestQueue says: what main()
\* fetches and what success_callback pushes are steps of that queue, and no
\* other step touches it.
THEOREM QueueInProgram == RSpec => Queue!Spec
<1>1. RInit => Queue!Init
  BY DEF RInit
<1>2. QED
  BY <1>1, QueueSteps, PTL DEF RSpec, Queue!Spec
-----------------------------------------------------------------------------
(* The Capturer in the program.                                            *)

Proofs == INSTANCE CapturerProofs WITH
  main <- Life, thread <- capture_thread, stop_requested <- capture_stop

\* A step of the program is one of the Capturer's, leaves it alone, or ends
\* the process.
LEMMA CapturerSteps == [RNext]_rvars => [Thread!Next \/ Terminate]_(Thread!vars)
<1> SUFFICES ASSUME [RNext]_rvars, ~Terminate
             PROVE  Thread!Next \/ UNCHANGED Thread!vars
  OBVIOUS
<1> USE DEF Thread!vars, Thread!limits, Thread!history, capturer
<1>1. CASE InitializeCapturer
  BY <1>1 DEF InitializeCapturer, Thread!Next, Thread!MainStep
<1>2. CASE DestroyCapturer
  BY <1>2 DEF DestroyCapturer, Thread!Next, Thread!MainStep
<1>3. CASE CaptureStep
  BY <1>3 DEF CaptureStep, Thread!Next, Thread!ThreadStep, Life
<1>4. CASE Outside
  BY <1>4 DEF Outside, Thread!Next
<1>5. CASE Configure \/ InitializeIdentifier \/ InitializeVisualization
  BY <1>5 DEF Configure, InitializeIdentifier, InitializeVisualization, Life
<1>6. CASE CheckRunning \/ FetchImage \/ FetchNothing \/ ReleaseImage
  BY <1>6 DEF CheckRunning, FetchImage, FetchNothing, Retry, ReleaseImage, Life
<1>7. CASE DetectBalls \/ PaintImage \/ PaintNothing \/ BeginSend \/ SendImage
  BY <1>7 DEF DetectBalls, PaintImage, PaintNothing, BeginSend, SendImage, After, Life
<1>8. CASE DestroyVisualization
  BY <1>8 DEF DestroyVisualization, Life
<1>9. CASE StreamStep
  BY <1>9 DEF StreamStep, Life
<1>10. CASE UNCHANGED rvars
  BY <1>10 DEF rvars, Life
<1>11. QED
  BY <1>1, <1>2, <1>3, <1>4, <1>5, <1>6, <1>7, <1>8, <1>9, <1>10
     DEF RNext, MainStep, Finish

\* Capturer is instantiated twice, by Runtime and here with its proofs: the two
\* instances are the same specification.
LEMMA SameSpec ==
  /\ Thread!Init => Proofs!Init
  /\ [Thread!Next]_(Thread!vars) => [Proofs!Next]_(Proofs!vars)
<1>1. Thread!Init => Proofs!Init
  BY DEF Thread!Init, Proofs!Init, Thread!TimesLimit, Proofs!TimesLimit
<1>2. [Thread!Next]_(Thread!vars) => [Proofs!Next]_(Proofs!vars)
  BY DEF
         Thread!Next, Thread!vars, Thread!limits, Thread!history, Thread!MainStep,
         Thread!Initialize, Thread!InitializeThread, Thread!InitializeFails,
         Thread!RequestStop, Thread!Join, Thread!Joined, Thread!SetRunning,
         Thread!LoseConnection, Thread!Finished, Thread!ThreadStep,
         Thread!QuietStep, Thread!Arrive, Thread!Connect, Thread!WaitImage,
         Thread!Disconnect, Thread!CheckRunning, Thread!GetRunning,
         Thread!CheckStop, Thread!CheckConnected, Thread!Usable,
         Thread!ReconnectWaited, Thread!FailedWaited, Thread!ConnectSucceeds,
         Thread!ConnectFails, Thread!ImageArrives, Thread!ImageFails,
         Thread!DisconnectReturns, Thread!CountCall, Thread!MustStop,
         Thread!CountUpTo, Thread!MostFailures, Thread!MostPrinted,
         Thread!MostLateCalls, Thread!Allows, Thread!Ticked, Thread!Enabled,
         Thread!Enable, Thread!Disable, Thread!Reset, Proofs!Next, Proofs!vars,
         Proofs!limits, Proofs!history, Proofs!MainStep, Proofs!Initialize,
         Proofs!InitializeThread, Proofs!InitializeFails, Proofs!RequestStop,
         Proofs!Join, Proofs!Joined, Proofs!SetRunning, Proofs!LoseConnection,
         Proofs!Finished, Proofs!ThreadStep, Proofs!QuietStep, Proofs!Arrive,
         Proofs!Connect, Proofs!WaitImage, Proofs!Disconnect, Proofs!CheckRunning,
         Proofs!GetRunning, Proofs!CheckStop, Proofs!CheckConnected,
         Proofs!Usable, Proofs!ReconnectWaited, Proofs!FailedWaited,
         Proofs!ConnectSucceeds, Proofs!ConnectFails, Proofs!ImageArrives,
         Proofs!ImageFails, Proofs!DisconnectReturns, Proofs!CountCall,
         Proofs!MustStop, Proofs!CountUpTo, Proofs!MostFailures,
         Proofs!MostPrinted, Proofs!MostLateCalls, Proofs!Allows, Proofs!Ticked,
         Proofs!Enabled, Proofs!Enable, Proofs!Disable, Proofs!Reset
<1>3. QED
  BY <1>1, <1>2


\* The invariant of CapturerProofs, as long as the process lives.
Lives == step # "terminated" => Proofs!Inv

LEMMA LivesInitially == RInit => Lives
<1>1. Proofs!LimitsAssumption
  BY TimesAssumption DEF Proofs!LimitsAssumption
<1>2. RInit => Proofs!Init
  BY SameSpec DEF RInit
<1>3. QED
  BY <1>1, <1>2, Proofs!InitInv DEF Lives

LEMMA LivesOn == Lives /\ [RNext]_rvars => Lives'
<1> SUFFICES ASSUME Lives, [RNext]_rvars, step' # "terminated" PROVE Proofs!Inv'
  BY DEF Lives
<1>1. Proofs!LimitsAssumption
  BY TimesAssumption DEF Proofs!LimitsAssumption
<1>2. step # "terminated"
  BY DEF RNext, MainStep, Configure, InitializeCapturer, InitializeIdentifier,
         InitializeVisualization, CheckRunning, FetchImage, FetchNothing, DetectBalls,
         PaintImage, PaintNothing, BeginSend, SendImage, ReleaseImage, DestroyVisualization,
         DestroyCapturer, Terminate, CaptureStep, StreamStep, Outside, Finish, rvars
<1>3. [Proofs!Next]_(Proofs!vars)
  BY CapturerSteps, SameSpec DEF Terminate
<1>4. QED
  BY <1>1, <1>2, <1>3, Proofs!NextInv DEF Lives

\* As long as the process lives, its Capturer keeps what Capturer promises,
\* whatever the other components do.
THEOREM CapturerInProgram ==
  RSpec => [](step # "terminated" =>
                /\ Thread!InterfaceOutlivesThread /\ Thread!DisconnectsAtLimit
                /\ Thread!OutagesReported /\ Thread!StopsPromptly)
<1>a. Proofs!LimitsAssumption
  BY TimesAssumption DEF Proofs!LimitsAssumption
<1>1. Lives => (step # "terminated" =>
                  /\ Thread!InterfaceOutlivesThread /\ Thread!DisconnectsAtLimit
                  /\ Thread!OutagesReported /\ Thread!StopsPromptly)
  <2> SUFFICES ASSUME Proofs!Inv
               PROVE  /\ Thread!InterfaceOutlivesThread /\ Thread!DisconnectsAtLimit
                      /\ Thread!OutagesReported /\ Thread!StopsPromptly
    BY DEF Lives
  <2>1. Thread!InterfaceOutlivesThread
    BY DEF Proofs!Inv, Proofs!TypeOK, Proofs!LifeInv, Thread!InterfaceOutlivesThread
  <2>2. Thread!DisconnectsAtLimit
    BY DEF Proofs!Inv, Proofs!FailedInv, Proofs!DisconnectsAtLimit, Thread!DisconnectsAtLimit
  <2>3. Thread!OutagesReported
    BY <1>a, TimesAssumption, Proofs!LimitFields
       DEF Proofs!Inv, Proofs!TypeOK, Proofs!ErrorInv, Thread!OutagesReported
  <2>4. Thread!StopsPromptly
    BY DEF Proofs!Inv, Proofs!LateInv, Thread!StopsPromptly
  <2>5. QED
    BY <2>1, <2>2, <2>3, <2>4
<1>2. QED
  BY <1>1, LivesInitially, LivesOn, PTL DEF RSpec

\* Until the process is terminated, the program implements Capturer with the
\* part of the main thread that Life computes: starting, destroying and
\* leaving alone the thread are steps of Capturer, and so is what the thread
\* does while main() identifies, paints and sends.
THEOREM ThreadInProgram ==
  RSpec => Thread!Init /\ [][Thread!Next \/ Terminate]_(Thread!vars)
<1>1. RInit => Thread!Init
  BY DEF RInit
<1>2. QED
  BY <1>1, CapturerSteps, PTL DEF RSpec
=============================================================================
