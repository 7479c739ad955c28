---------------------------- MODULE CaptureQueue ----------------------------
(***************************************************************************)
(* The hand-over of images between the capturer thread and the main        *)
(* thread (src/kernel/capturer.cpp).  The capturer thread pushes raw       *)
(* Image pointers into a util::spsc_queue; when the queue is full its      *)
(* success_callback itself pops the oldest image to make room.  The main   *)
(* thread pops in fetch_image.  The queue therefore has one producer and   *)
(* two consumers, while boost::lockfree::spsc_queue allows one of each.    *)
(*                                                                         *)
(* push() and pop() are split at every access to memory that the other     *)
(* thread also accesses, so that an interleaving of two pop() calls is an  *)
(* interleaving of steps here.  Accesses are sequentially consistent; the  *)
(* reorderings that acquire and release leave to a second consumer are not *)
(* explored.                                                               *)
(***************************************************************************)
EXTENDS Integers

CONSTANTS
  Capacity,   \* images the queue can hold (10 in the code)
  MaxFrames,  \* bound: images captured in a behavior
  NDEBUG      \* TRUE iff assert() is compiled out (CMake's Release build)

ASSUME ConstantsAssumption ==
  /\ Capacity \in Nat \ {0}
  /\ MaxFrames \in Nat
  /\ NDEBUG \in BOOLEAN

VARIABLES
  write_index, read_index, slots,  \* boost's ring buffer
  captured,     \* number of images allocated so far; images are numbered
  live,         \* images allocated and not yet deleted
  pc,           \* program counter of each thread
  seen_write, seen_read,  \* pop()'s local copies of the two indices
  popped,       \* the pointer pop() hands out: raw (main), oldest (capturer)
  newest,       \* success_callback's pointer to the image just captured
  repush,       \* the push in progress is the one inside the assert
  crashed,      \* "no", "assert" (abort) or "memory" (a dead image is used)
  fetched,      \* history: last image fetch_image returned
  overlap       \* history: two calls of pop() have been in progress at once

ring    == << write_index, read_index, slots >>
images  == << captured, live >>
popping == << seen_write, seen_read, popped >>
pushing == << newest, repush >>
vars    == << ring, images, pc, popping, pushing, crashed, fetched, overlap >>

Frames  == 1 .. MaxFrames
NoFrame == 0                       \* nullptr
Index   == 0 .. Capacity           \* the ring has one slot more than it holds
Threads == {"main", "capturer"}
Other(t) == IF t = "main" THEN "capturer" ELSE "main"

\* Defect: an index is advanced without wrapping around.
NextIndexUnwrapped(i) == i + 1

\* Index of the slot that follows slot i.
NextIndex(i) == IF i = Capacity THEN 0 ELSE i + 1

QueueFull == NextIndex(write_index) = read_index

\* Thread t is inside a call of pop().
InPop(t) == pc[t] \in {"pop_read", "pop_copy", "pop_store"}

Goto(t, label) == pc' = [pc EXCEPT ![t] = label]

\* What is alive once image f is deleted.  Defect: the guard is missing.
Forgotten(f) == live

Freed(f) == live \ {f}

\* The end of the life of image f.  Deleting an image a second time, or
\* reading one that is deleted, has no defined outcome: the behavior stops.
Delete(f) ==
  IF f \in live
  THEN live' = Freed(f) /\ UNCHANGED crashed
  ELSE crashed' = "memory" /\ UNCHANGED live

Init ==
  /\ write_index = 0
  /\ read_index = 0
  /\ slots = [i \in Index |-> NoFrame]
  /\ captured = 0
  /\ live = {}
  /\ pc = [t \in Threads |-> IF t = "main" THEN "pop" ELSE "capture"]
  /\ seen_write = [t \in Threads |-> 0]
  /\ seen_read = [t \in Threads |-> 0]
  /\ popped = [t \in Threads |-> NoFrame]
  /\ newest = NoFrame
  /\ repush = FALSE
  /\ crashed = "no"
  /\ fetched = NoFrame
  /\ overlap = FALSE

-----------------------------------------------------------------------------
(* pop(), called by fetch_image in "main" and by the overflow path of      *)
(* success_callback in "capturer".                                         *)

\* The read index after the image at index i is popped.  Defect: front() is
\* used, which leaves the image in the queue.
Peeked(i) == i

Consumed(i) == NextIndex(i)

PopLoadWrite(t) ==
  /\ pc[t] = "pop"
  /\ seen_write' = [seen_write EXCEPT ![t] = write_index]
  /\ popped' = [popped EXCEPT ![t] = NoFrame]
  /\ overlap' = (overlap \/ InPop(Other(t)))
  /\ Goto(t, "pop_read")
  /\ UNCHANGED << ring, images, seen_read, pushing, crashed, fetched >>

PopLoadRead(t) ==
  /\ pc[t] = "pop_read"
  /\ seen_write[t] # read_index
  /\ seen_read' = [seen_read EXCEPT ![t] = read_index]
  /\ Goto(t, "pop_copy")
  /\ UNCHANGED << ring, images, seen_write, popped, pushing, crashed, fetched, overlap >>

\* pop() finds the queue empty.  fetch_image returns nullptr and the main
\* loop polls again; the capturer goes on to delete the newest image.
PopEmpty(t) ==
  /\ pc[t] = "pop_read"
  /\ seen_write[t] = read_index
  /\ Goto(t, IF t = "main" THEN "pop" ELSE "delete_newest")
  /\ UNCHANGED << ring, images, popping, pushing, crashed, fetched, overlap >>

PopCopy(t) ==
  /\ pc[t] = "pop_copy"
  /\ popped' = [popped EXCEPT ![t] = slots[seen_read[t]]]
  /\ Goto(t, "pop_store")
  /\ UNCHANGED << ring, images, seen_write, seen_read, pushing, crashed, fetched, overlap >>

\* fetch_image returns its image.
PopStoreMain ==
  /\ pc["main"] = "pop_store"
  /\ read_index' = Consumed(seen_read["main"])
  /\ fetched' = popped["main"]
  /\ Goto("main", "use")
  /\ UNCHANGED << write_index, slots, images, popping, pushing, crashed, overlap >>

\* The overflow path has its oldest image.  The push that follows is the
\* argument of an assert: a build with NDEBUG has no second push.
PopStoreCapturer ==
  /\ pc["capturer"] = "pop_store"
  /\ read_index' = Consumed(seen_read["capturer"])
  /\ repush' = ~NDEBUG
  /\ Goto("capturer", IF NDEBUG THEN "delete_oldest" ELSE "push")
  /\ UNCHANGED << write_index, slots, images, popping, newest, crashed, fetched, overlap >>

-----------------------------------------------------------------------------
(* The main loop of src/runtime.cpp around fetch_image: the image is       *)
(* identified, painted and sent, then its unique_ptr goes out of scope.    *)

ReleaseImage ==
  /\ pc["main"] = "use"
  /\ Delete(popped["main"])
  /\ Goto("main", "pop")
  /\ UNCHANGED << ring, captured, popping, pushing, fetched, overlap >>

-----------------------------------------------------------------------------
(* runtime_task and success_callback in the capturer thread.               *)

\* wait_image returned an image and success_callback releases it into newest.
Capture ==
  /\ pc["capturer"] = "capture"
  /\ captured < MaxFrames
  /\ captured' = captured + 1
  /\ live' = live \union {captured + 1}
  /\ newest' = captured + 1
  /\ Goto("capturer", "push")
  /\ UNCHANGED << ring, popping, repush, crashed, fetched, overlap >>

\* Where the overflow path starts.  Defect: it drops the newest image.
DropsNewest == "delete_newest"

DropsOldest == "pop"

\* push() returns false: the first push leads to the overflow path, the
\* second fails its assert.
PushFull ==
  /\ pc["capturer"] = "push"
  /\ QueueFull
  /\ IF repush
     THEN crashed' = "assert" /\ UNCHANGED pc
     ELSE Goto("capturer", DropsOldest) /\ UNCHANGED crashed
  /\ UNCHANGED << ring, images, popping, pushing, fetched, overlap >>

PushRoom ==
  /\ pc["capturer"] = "push"
  /\ ~QueueFull
  /\ Goto("capturer", "push_copy")
  /\ UNCHANGED << ring, images, popping, pushing, crashed, fetched, overlap >>

PushCopy ==
  /\ pc["capturer"] = "push_copy"
  /\ slots' = [slots EXCEPT ![write_index] = newest]
  /\ Goto("capturer", "push_store")
  /\ UNCHANGED << write_index, read_index, images, popping, pushing, crashed, fetched, overlap >>

\* push() publishes the slot; from here on the queue owns the image.
PushStore ==
  /\ pc["capturer"] = "push_store"
  /\ write_index' = NextIndex(write_index)
  /\ newest' = NoFrame
  /\ Goto("capturer", IF repush THEN "delete_oldest" ELSE "capture")
  /\ UNCHANGED << read_index, slots, images, popping, repush, crashed, fetched, overlap >>

\* The guard of the overflow path deletes the popped image and the callback
\* returns: its pointer newest is gone, wherever the image is.
DeleteOldest ==
  /\ pc["capturer"] = "delete_oldest"
  /\ Delete(popped["capturer"])
  /\ newest' = NoFrame
  /\ repush' = FALSE
  /\ Goto("capturer", "capture")
  /\ UNCHANGED << ring, captured, popping, fetched, overlap >>

\* "Pop failed when images queue is full": the guard deletes the new image.
DeleteNewest ==
  /\ pc["capturer"] = "delete_newest"
  /\ Delete(newest)
  /\ newest' = NoFrame
  /\ Goto("capturer", "capture")
  /\ UNCHANGED << ring, captured, popping, repush, fetched, overlap >>

-----------------------------------------------------------------------------
Pop(t) == PopLoadWrite(t) \/ PopLoadRead(t) \/ PopEmpty(t) \/ PopCopy(t)

MainStep == Pop("main") \/ PopStoreMain \/ ReleaseImage

CapturerStep ==
  \/ Capture \/ PushFull \/ PushRoom \/ PushCopy \/ PushStore
  \/ Pop("capturer") \/ PopStoreCapturer \/ DeleteOldest \/ DeleteNewest

\* The process is gone.
Halted == crashed # "no" /\ UNCHANGED vars

Next ==
  \/ crashed = "no" /\ (MainStep \/ CapturerStep)
  \/ Halted

Spec == Init /\ [][Next]_vars

-----------------------------------------------------------------------------
(* Properties.                                                             *)

\* Every variable has its type; both indices stay inside the ring.
TypeOK ==
  /\ write_index \in Index
  /\ read_index \in Index
  /\ slots \in [Index -> Frames \union {NoFrame}]
  /\ captured \in 0 .. MaxFrames
  /\ live \subseteq Frames
  /\ pc \in [Threads -> {"pop", "pop_read", "pop_copy", "pop_store", "use",
                         "capture", "push", "push_copy", "push_store",
                         "delete_oldest", "delete_newest"}]
  /\ seen_write \in [Threads -> Index]
  /\ seen_read \in [Threads -> Index]
  /\ popped \in [Threads -> Frames \union {NoFrame}]
  /\ newest \in Frames \union {NoFrame}
  /\ repush \in BOOLEAN
  /\ crashed \in {"no", "assert", "memory"}
  /\ fetched \in Frames \union {NoFrame}
  /\ overlap \in BOOLEAN

\* Slot i lies between the read and the write index.
Occupied(i) ==
  IF read_index <= write_index
  THEN read_index <= i /\ i < write_index
  ELSE read_index <= i \/ i < write_index

\* Thread t owns the image pop() gave it: the main loop until its unique_ptr
\* dies, the capturer until the guard of the overflow path does.
OwnsPopped(t) ==
  IF t = "main"
  THEN pc["main"] = "use"
  ELSE pc["capturer"] = "delete_oldest" \/ repush

\* The places that own an image: a slot of the queue, a pointer popped by a
\* thread, the pointer to the newest image.
Owners(f) ==
  {<<"slot", i>> : i \in {j \in Index : Occupied(j) /\ slots[j] = f}}
  \union {<<"popped", t>> : t \in {u \in Threads : OwnsPopped(u) /\ popped[u] = f}}
  \union (IF newest = f THEN {<<"newest", 0>>} ELSE {})

\* As long as no two calls of pop() were in progress at once, no image has
\* two owners, whatever is owned is alive, no thread used or deleted a dead
\* image, and assert(capture_queue.push(newest) && "Failed to push after pop")
\* is never false: fetch_image shares no image with the overflow path of
\* success_callback, in either build, and takes no room from it.
ExclusiveOwnership ==
  ~overlap =>
    /\ crashed = "no"
    /\ \A f \in Frames :
         /\ Owners(f) # {} => f \in live
         /\ \A a, b \in Owners(f) : a = b

\* As long as no two calls of pop() were in progress at once, every image
\* that is not deleted is owned by somebody: none leaks when the queue
\* overflows ("drop the oldest one or else delete the newest one").
NothingLost ==
  ~overlap => \A f \in live : Owners(f) # {}

\* fetch_image returns "either a valid image or nullptr": the image the main
\* loop holds is alive.
FetchedIsValid == pc["main"] = "use" => popped["main"] \in live

\* fetch_image returns images in the order they were captured and never the
\* same image twice, unless two calls of pop() have been in progress at once.
FetchesInOrder ==
  [][PopStoreMain => (overlap \/ popped["main"] > fetched)]_vars

-----------------------------------------------------------------------------
(* What the queue promises.                                                *)

Size == IF read_index <= write_index
        THEN write_index - read_index
        ELSE write_index - read_index + Capacity + 1

\* The slot k places after the read index.
Wrap(k) == IF k <= Capacity THEN k ELSE k - Capacity - 1

Abstract == INSTANCE DropOldestQueue WITH
  offered    <- newest,
  queue      <- [k \in 1 .. Size |-> slots[Wrap(read_index + k - 1)]],
  overflowed <- pc["capturer"] \in {"pop", "pop_read", "pop_copy",
                                    "pop_store", "delete_newest"},
  taken      <- fetched,
  misused    <- overlap

\* As long as no two calls of pop() were in progress at once, the ring buffer
\* with its overflow path is a bounded first-in first-out queue that drops its
\* oldest image, and only when it is full.
ImplementsDropOldest == Abstract!Spec
=============================================================================
