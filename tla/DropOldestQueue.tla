--------------------------- MODULE DropOldestQueue ---------------------------
(***************************************************************************)
(* What the capture queue promises: a bounded first-in first-out queue     *)
(* with one producer and one consumer, in which a new image that finds the *)
(* queue full displaces the oldest one ("drop the oldest one or else       *)
(* delete the newest one", src/kernel/capturer.cpp).  It promises nothing  *)
(* from the moment a second consumer interferes.                           *)
(***************************************************************************)
EXTENDS Integers, Sequences

CONSTANTS
  Capacity,   \* images the queue can hold
  MaxFrames   \* bound: images offered in a behavior

VARIABLES
  captured,    \* number of images offered so far; images are numbered
  offered,     \* the image the producer wants to enqueue, or NoImage
  queue,       \* oldest image first
  overflowed,  \* the offered image has found the queue full
  taken,       \* the last image the consumer took
  misused      \* two consumers have used the queue at once

avars == << captured, offered, queue, overflowed, taken, misused >>

NoImage == 0

Init ==
  /\ captured = 0
  /\ offered = NoImage
  /\ queue = << >>
  /\ overflowed = FALSE
  /\ taken = NoImage
  /\ misused = FALSE

Offer ==
  /\ offered = NoImage
  /\ captured < MaxFrames
  /\ captured' = captured + 1
  /\ offered' = captured + 1
  /\ UNCHANGED << queue, overflowed, taken >>

Accept ==
  /\ offered # NoImage
  /\ ~overflowed
  /\ Len(queue) < Capacity
  /\ queue' = Append(queue, offered)
  /\ offered' = NoImage
  /\ UNCHANGED << captured, overflowed, taken >>

Overflow ==
  /\ offered # NoImage
  /\ ~overflowed
  /\ Len(queue) = Capacity
  /\ overflowed' = TRUE
  /\ UNCHANGED << captured, offered, queue, taken >>

DropOldest ==
  /\ overflowed
  /\ queue # << >>
  /\ queue' = Tail(queue)
  /\ overflowed' = FALSE
  /\ UNCHANGED << captured, offered, taken >>

\* The consumer emptied the queue after the overflow was seen.
DropNewest ==
  /\ overflowed
  /\ queue = << >>
  /\ offered' = NoImage
  /\ overflowed' = FALSE
  /\ UNCHANGED << captured, queue, taken >>

Take ==
  /\ queue # << >>
  /\ taken' = Head(queue)
  /\ queue' = Tail(queue)
  /\ UNCHANGED << captured, offered, overflowed >>

\* Whatever else the step that brings in the second consumer does, and
\* whatever comes after it.
Misuse == misused'

Next ==
  \/ /\ Offer \/ Accept \/ Overflow \/ DropOldest \/ DropNewest \/ Take
     /\ UNCHANGED misused
  \/ Misuse

Spec == Init /\ [][Next]_avars
=============================================================================
