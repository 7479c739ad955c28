------------------------- MODULE CaptureQueueProofs -------------------------
(***************************************************************************)
(* Proofs about CaptureQueue, for every capacity, number of images and     *)
(* build.  Inv is the inductive invariant: each of its parts says what     *)
(* the local variables of the two threads mean at each point of their      *)
(* code while no two calls of pop() overlap.                               *)
(***************************************************************************)
EXTENDS CaptureQueue, SequenceTheorems, TLAPS

USE DEF ring, images, popping, pushing, Consumed, Freed, DropsOldest

\* The code that uses newest: everything from the release of the image in
\* success_callback to the return of the callback.
Offering == {"push", "push_copy", "push_store", "pop", "pop_read", "pop_copy",
             "pop_store", "delete_newest"}

\* Which thread runs which code, and the control flow of success_callback.
ControlInv ==
  /\ pc["main"] \in {"pop", "pop_read", "pop_copy", "pop_store", "use"}
  /\ pc["capturer"] \in Offering \union {"capture", "delete_oldest"}
  /\ repush => /\ ~NDEBUG
               /\ pc["capturer"] \in {"push", "push_copy", "push_store",
                                      "delete_oldest"}
  /\ pc["capturer"] = "delete_oldest" => repush = ~NDEBUG

\* newest is the image captured last until the queue owns it or it is deleted.
NewestInv ==
  /\ live \subseteq 1 .. captured
  /\ fetched <= captured
  /\ pc["capturer"] \in Offering => newest = captured /\ newest \in live
  /\ pc["capturer"] = "capture" => newest = NoFrame
  /\ pc["capturer"] = "delete_oldest" =>
       IF NDEBUG THEN newest = captured /\ newest \in live ELSE newest = NoFrame

\* What pop() knows: its copy of read_index is current, what it read of
\* write_index is enough to know whether there is an image, and the image it
\* copied is still the oldest one.
PopInv ==
  /\ ~(InPop("main") /\ InPop("capturer"))
  /\ \A t \in Threads :
       /\ pc[t] = "pop_read" /\ seen_write[t] # read_index
            => write_index # read_index
       /\ pc[t] \in {"pop_copy", "pop_store"}
            => seen_read[t] = read_index /\ write_index # read_index
       /\ pc[t] = "pop_store" => popped[t] = slots[read_index]

\* What push() knows: the room it saw is still there, and so is the room
\* that the overflow path made for its second push.
PushInv ==
  /\ pc["capturer"] \in {"push_copy", "push_store"} => ~QueueFull
  /\ pc["capturer"] = "push" /\ repush => ~QueueFull
  /\ pc["capturer"] = "push_store" => slots[write_index] = newest

\* How many slots slot i is behind the read index.
Distance(i) == IF read_index <= i THEN i - read_index
                                  ELSE i - read_index + Capacity + 1

\* The queue holds live images, oldest first, captured after everything that
\* was fetched and before the newest one.
QueueInv ==
  \A i \in Index : Occupied(i) =>
    /\ slots[i] \in live
    /\ slots[i] > fetched
    /\ newest # NoFrame => slots[i] < newest
    /\ \A j \in Index : Occupied(j) /\ Distance(i) < Distance(j)
                          => slots[i] < slots[j]

\* The image a thread popped is alive and in no other place.
PoppedInv ==
  /\ pc["main"] = "use" => popped["main"] = fetched /\ fetched \in live
  /\ newest # NoFrame => fetched < newest
  /\ OwnsPopped("capturer") =>
       /\ popped["capturer"] \in live
       /\ popped["capturer"] # fetched
       /\ newest # NoFrame => popped["capturer"] < newest
       /\ \A i \in Index : Occupied(i) => popped["capturer"] < slots[i]

\* A debug build leaks nothing.
LeakInv ==
  ~NDEBUG => \A f \in live :
    \/ f = newest
    \/ \E i \in Index : Occupied(i) /\ slots[i] = f
    \/ \E t \in Threads : OwnsPopped(t) /\ popped[t] = f

\* What holds as long as no two calls of pop() have overlapped.
SoloInv ==
  /\ crashed = "no"
  /\ NewestInv
  /\ PopInv
  /\ PushInv
  /\ QueueInv
  /\ PoppedInv
  /\ LeakInv

\* The inductive invariant.  Once two calls of pop() have overlapped only the
\* types and the control flow are known.
Inv == TypeOK /\ ControlInv /\ (~overlap => SoloInv)

-----------------------------------------------------------------------------
(* Types.                                                                  *)

\* The index that follows an index is an index.
LEMMA NextIndexType == \A i \in Index : NextIndex(i) \in Index
  BY ConstantsAssumption DEF Index, NextIndex

\* The initial state has the types.
LEMMA InitType == Init => TypeOK
<1> SUFFICES ASSUME Init PROVE TypeOK
  OBVIOUS
<1> USE ConstantsAssumption DEF Init, Index, Frames, NoFrame, Threads
<1>1. pc \in [Threads -> {"pop", "pop_read", "pop_copy", "pop_store", "use",
                         "capture", "push", "push_copy", "push_store",
                         "delete_oldest", "delete_newest"}]
  OBVIOUS
<1>2. slots \in [Index -> Frames \union {NoFrame}]
  OBVIOUS
<1>3. /\ seen_write \in [Threads -> Index]
      /\ seen_read \in [Threads -> Index]
      /\ popped \in [Threads -> Frames \union {NoFrame}]
  OBVIOUS
<1>4. repush \in BOOLEAN /\ overlap \in BOOLEAN
  OBVIOUS
<1>5. write_index \in Index /\ read_index \in Index
  OBVIOUS
<1>6. captured \in 0 .. MaxFrames /\ live \subseteq Frames
  OBVIOUS
<1>7. newest \in Frames \union {NoFrame} /\ fetched \in Frames \union {NoFrame}
  OBVIOUS
<1>8. QED
  BY <1>1, <1>2, <1>3, <1>4, <1>5, <1>6, <1>7 DEF TypeOK

\* Every step, in either build and whatever the overlaps, keeps the types:
\* neither index ever leaves the ring.
LEMMA NextType == TypeOK /\ [Next]_vars => TypeOK'
<1> SUFFICES ASSUME TypeOK, [Next]_vars PROVE TypeOK'
  OBVIOUS
<1> USE ConstantsAssumption, NextIndexType DEF TypeOK, Frames, NoFrame, Threads, Goto
<1>1. ASSUME NEW t \in Threads, PopLoadWrite(t) PROVE TypeOK'
  BY <1>1 DEF PopLoadWrite
<1>2. ASSUME NEW t \in Threads, PopLoadRead(t) PROVE TypeOK'
  BY <1>2 DEF PopLoadRead
<1>3. ASSUME NEW t \in Threads, PopEmpty(t) PROVE TypeOK'
  BY <1>3 DEF PopEmpty
<1>4. ASSUME NEW t \in Threads, PopCopy(t) PROVE TypeOK'
  BY <1>4 DEF PopCopy
<1>5. CASE PopStoreMain
  BY <1>5 DEF PopStoreMain
<1>6. CASE PopStoreCapturer
  BY <1>6 DEF PopStoreCapturer
<1>7. CASE ReleaseImage
  BY <1>7 DEF ReleaseImage, Delete
<1>8. CASE Capture
  BY <1>8 DEF Capture
<1>9. CASE PushFull
  BY <1>9 DEF PushFull
<1>10. CASE PushRoom
  BY <1>10 DEF PushRoom
<1>11. CASE PushCopy
  BY <1>11 DEF PushCopy
<1>12. CASE PushStore
  BY <1>12 DEF PushStore
<1>13. CASE DeleteOldest
  BY <1>13 DEF DeleteOldest, Delete
<1>14. CASE DeleteNewest
  BY <1>14 DEF DeleteNewest, Delete
<1>15. CASE UNCHANGED vars
  BY <1>15 DEF vars
<1>16. QED
  BY <1>1, <1>2, <1>3, <1>4, <1>5, <1>6, <1>7, <1>8, <1>9, <1>10, <1>11,
     <1>12, <1>13, <1>14, <1>15
     DEF Next, MainStep, CapturerStep, Pop, Halted

\* The types hold for ever.
THEOREM TypeCorrect == Spec => []TypeOK
  BY InitType, NextType, PTL DEF Spec

-----------------------------------------------------------------------------
(* The ring: which slots are occupied, and in which order.                 *)

\* A queue that is not empty has its oldest image at the read index.
LEMMA OldestSlot ==
  ASSUME TypeOK, write_index # read_index
  PROVE  /\ Occupied(read_index)
         /\ Distance(read_index) = 0
         /\ \A i \in Index : i # read_index => Distance(i) > 0
  BY ConstantsAssumption DEF TypeOK, Index, Occupied, Distance

\* A full queue is not empty.
LEMMA FullNotEmpty ==
  ASSUME TypeOK, QueueFull
  PROVE  write_index # read_index
  BY ConstantsAssumption DEF TypeOK, Index, QueueFull, NextIndex

\* Distances are integers.
LEMMA DistanceInt == ASSUME TypeOK PROVE \A i \in Index : Distance(i) \in Int
<1>1. /\ read_index \in Int /\ Capacity \in Int
      /\ \A i \in Index : i \in Int
  BY ConstantsAssumption DEF TypeOK, Index
<1>2. QED
  BY <1>1 DEF Distance

\* Advancing the read index frees the slot it was at, and no other.
LEMMA AdvanceRead ==
  ASSUME TypeOK, write_index # read_index,
         read_index' = NextIndex(read_index), write_index' = write_index
  PROVE  \A i \in Index :
           /\ Occupied(i)' <=> Occupied(i) /\ i # read_index
           /\ i # read_index => Distance(i)' = Distance(i) - 1
  BY ConstantsAssumption DEF TypeOK, Index, Occupied, Distance, NextIndex

\* Advancing the write index of a queue that is not full fills the slot it
\* was at, behind all the others.
LEMMA AdvanceWrite ==
  ASSUME TypeOK, ~QueueFull,
         write_index' = NextIndex(write_index), read_index' = read_index
  PROVE  \A i \in Index :
           /\ Occupied(i)' <=> Occupied(i) \/ i = write_index
           /\ Distance(i)' = Distance(i)
           /\ Occupied(i) => i # write_index /\ Distance(i) < Distance(write_index)
  BY ConstantsAssumption DEF TypeOK, Index, Occupied, Distance, NextIndex, QueueFull

\* Different indices have different successors.
LEMMA NextIndexInjective ==
  \A i, j \in Index : NextIndex(i) = NextIndex(j) => i = j
  BY ConstantsAssumption DEF Index, NextIndex

\* The slot at the write index is not occupied.
LEMMA WriteSlotFree == ASSUME TypeOK PROVE ~Occupied(write_index)
  BY ConstantsAssumption DEF TypeOK, Index, Occupied

\* Two slots at the same distance are the same slot.
LEMMA DistanceInjective ==
  ASSUME TypeOK
  PROVE  \A i, j \in Index : Distance(i) = Distance(j) => i = j
  BY ConstantsAssumption DEF TypeOK, Index, Distance

-----------------------------------------------------------------------------
(* The invariant is inductive.                                             *)

LEMMA InitInv == Init => Inv
<1> SUFFICES ASSUME Init PROVE Inv
  OBVIOUS
<1>1. TypeOK
  BY InitType
<1>2. pc["main"] = "pop" /\ pc["capturer"] = "capture" /\ ~repush
  BY DEF Init, Threads
<1>3. ControlInv
  BY <1>2 DEF ControlInv
<1>4. NewestInv
  BY <1>2 DEF Init, NewestInv, Offering, NoFrame
<1>5. PopInv /\ PushInv
  BY <1>2 DEF PopInv, PushInv, InPop, Threads
<1>6. \A i \in Index : ~Occupied(i)
  BY DEF Init, Occupied, Index
<1>7. QueueInv
  BY <1>6 DEF QueueInv
<1>8. PoppedInv /\ LeakInv
  BY <1>2 DEF Init, PoppedInv, LeakInv, OwnsPopped
<1>9. QED
  BY <1>1, <1>3, <1>4, <1>5, <1>7, <1>8 DEF Inv, SoloInv, Init

\* Each thread stays in its own code, whatever the other one does.
LEMMA NextControl == TypeOK /\ ControlInv /\ [Next]_vars => ControlInv'
<1> SUFFICES ASSUME TypeOK, ControlInv, [Next]_vars PROVE ControlInv'
  OBVIOUS
<1> USE ConstantsAssumption DEF TypeOK, ControlInv, Offering, Threads, Goto
<1>1. ASSUME NEW t \in Threads, PopLoadWrite(t) PROVE ControlInv'
  BY <1>1 DEF PopLoadWrite
<1>2. ASSUME NEW t \in Threads, PopLoadRead(t) PROVE ControlInv'
  BY <1>2 DEF PopLoadRead
<1>3. ASSUME NEW t \in Threads, PopEmpty(t) PROVE ControlInv'
  BY <1>3 DEF PopEmpty
<1>4. ASSUME NEW t \in Threads, PopCopy(t) PROVE ControlInv'
  BY <1>4 DEF PopCopy
<1>5. CASE PopStoreMain
  BY <1>5 DEF PopStoreMain
<1>6. CASE PopStoreCapturer
  BY <1>6 DEF PopStoreCapturer
<1>7. CASE ReleaseImage
  BY <1>7 DEF ReleaseImage
<1>8. CASE Capture
  BY <1>8 DEF Capture
<1>9. CASE PushFull
  BY <1>9 DEF PushFull
<1>10. CASE PushRoom
  BY <1>10 DEF PushRoom
<1>11. CASE PushCopy
  BY <1>11 DEF PushCopy
<1>12. CASE PushStore
  BY <1>12 DEF PushStore
<1>13. CASE DeleteOldest
  BY <1>13 DEF DeleteOldest
<1>14. CASE DeleteNewest
  BY <1>14 DEF DeleteNewest
<1>15. CASE UNCHANGED vars
  BY <1>15 DEF vars
<1>16. QED
  BY <1>1, <1>2, <1>3, <1>4, <1>5, <1>6, <1>7, <1>8, <1>9, <1>10, <1>11,
     <1>12, <1>13, <1>14, <1>15
     DEF Next, MainStep, CapturerStep, Pop, Halted

\* A step after which no two calls of pop() have overlapped keeps the parts
\* of the invariant that depend on it.
LEMMA NextSolo == Inv /\ [Next]_vars => (~overlap' => SoloInv')
<1> SUFFICES ASSUME Inv, [Next]_vars, ~overlap' PROVE SoloInv'
  OBVIOUS
<1>a. TypeOK /\ TypeOK' /\ ControlInv /\ ControlInv'
  BY NextType, NextControl DEF Inv
<1>b. ASSUME NEW t \in Threads, PopLoadWrite(t) PROVE ~overlap /\ ~InPop(Other(t))
  BY <1>a, <1>b DEF PopLoadWrite, TypeOK
<1>c. (\E t \in Threads : PopLoadWrite(t)) \/ UNCHANGED overlap
  BY DEF Next, MainStep, CapturerStep, Pop, Halted, vars, PopLoadRead,
     PopEmpty, PopCopy, PopStoreMain, PopStoreCapturer, ReleaseImage, Capture,
     PushFull, PushRoom, PushCopy, PushStore, DeleteOldest, DeleteNewest, Threads
<1>d. SoloInv
  BY <1>b, <1>c DEF Inv
<1> USE ConstantsAssumption
<1>1. ASSUME NEW t \in Threads, PopLoadWrite(t) PROVE SoloInv'
  <2> USE <1>a, <1>1 DEF PopLoadWrite, TypeOK, Threads, Goto
  <2>1. crashed' = "no" /\ NewestInv'
    BY <1>d DEF SoloInv, NewestInv, Offering, ControlInv
  <2>2. PopInv'
    BY <1>b, <1>d DEF SoloInv, PopInv, InPop, Other
  <2>3. PushInv'
    BY <1>d DEF SoloInv, PushInv, QueueFull, NextIndex
  <2>4. QueueInv'
    BY <1>d DEF SoloInv, QueueInv, Occupied, Distance
  <2>5. PoppedInv'
    BY <1>d DEF SoloInv, PoppedInv, OwnsPopped, Occupied, ControlInv
  <2>6. LeakInv'
    BY <1>d DEF SoloInv, LeakInv, OwnsPopped, Occupied, ControlInv
  <2>7. QED
    BY <2>1, <2>2, <2>3, <2>4, <2>5, <2>6 DEF SoloInv
<1>2. ASSUME NEW t \in Threads, PopLoadRead(t) PROVE SoloInv'
  <2> USE <1>a, <1>2 DEF PopLoadRead, TypeOK, Threads, Goto
  <2>1. crashed' = "no" /\ NewestInv'
    BY <1>d DEF SoloInv, NewestInv, Offering, ControlInv
  <2>2. PopInv'
    BY <1>d DEF SoloInv, PopInv, InPop
  <2>3. PushInv'
    BY <1>d DEF SoloInv, PushInv, QueueFull, NextIndex
  <2>4. QueueInv'
    BY <1>d DEF SoloInv, QueueInv, Occupied, Distance
  <2>5. PoppedInv'
    BY <1>d DEF SoloInv, PoppedInv, OwnsPopped, Occupied, ControlInv
  <2>6. LeakInv'
    BY <1>d DEF SoloInv, LeakInv, OwnsPopped, Occupied, ControlInv
  <2>7. QED
    BY <2>1, <2>2, <2>3, <2>4, <2>5, <2>6 DEF SoloInv
<1>3. ASSUME NEW t \in Threads, PopEmpty(t) PROVE SoloInv'
  <2> USE <1>a, <1>3 DEF PopEmpty, TypeOK, Threads, Goto
  <2>1. crashed' = "no" /\ NewestInv'
    BY <1>d DEF SoloInv, NewestInv, Offering, ControlInv
  <2>2. PopInv'
    BY <1>d DEF SoloInv, PopInv, InPop
  <2>3. PushInv'
    BY <1>d DEF SoloInv, PushInv, QueueFull, NextIndex
  <2>4. QueueInv'
    BY <1>d DEF SoloInv, QueueInv, Occupied, Distance
  <2>5. PoppedInv'
    BY <1>d DEF SoloInv, PoppedInv, OwnsPopped, Occupied, ControlInv
  <2>6. LeakInv'
    BY <1>d DEF SoloInv, LeakInv, OwnsPopped, Occupied, ControlInv
  <2>7. QED
    BY <2>1, <2>2, <2>3, <2>4, <2>5, <2>6 DEF SoloInv
<1>4. ASSUME NEW t \in Threads, PopCopy(t) PROVE SoloInv'
  <2> USE <1>a, <1>4 DEF PopCopy, TypeOK, Threads, Goto
  <2>1. crashed' = "no" /\ NewestInv'
    BY <1>d DEF SoloInv, NewestInv, Offering, ControlInv
  <2>2. PopInv'
    BY <1>d DEF SoloInv, PopInv, InPop
  <2>3. PushInv'
    BY <1>d DEF SoloInv, PushInv, QueueFull, NextIndex
  <2>4. QueueInv'
    BY <1>d DEF SoloInv, QueueInv, Occupied, Distance
  <2>5. PoppedInv'
    BY <1>d DEF SoloInv, PoppedInv, OwnsPopped, Occupied, ControlInv
  <2>6. LeakInv'
    BY <1>d DEF SoloInv, LeakInv, OwnsPopped, Occupied, ControlInv
  <2>7. QED
    BY <2>1, <2>2, <2>3, <2>4, <2>5, <2>6 DEF SoloInv
<1>5. CASE PopStoreMain
  <2> USE <1>5 DEF PopStoreMain, Goto
  <2>a. /\ write_index # read_index
        /\ popped["main"] = slots[read_index]
        /\ read_index' = NextIndex(read_index)
    BY <1>d DEF SoloInv, PopInv, Threads
  <2>b. Occupied(read_index) /\ read_index \in Index
    BY <1>a, <2>a, OldestSlot DEF TypeOK
  <2>c. /\ fetched' = slots[read_index]
        /\ slots[read_index] \in live
        /\ slots[read_index] > fetched
        /\ newest # NoFrame => slots[read_index] < newest
    BY <1>d, <2>a, <2>b DEF SoloInv, QueueInv
  <2>d. \A i \in Index :
          /\ Occupied(i)' <=> Occupied(i) /\ i # read_index
          /\ i # read_index => Distance(i)' = Distance(i) - 1
    BY <1>a, <2>a, AdvanceRead
  <2>e. \A i \in Index : Occupied(i) /\ i # read_index
                            => slots[read_index] < slots[i]
    BY <1>a, <1>d, <2>a, <2>b, OldestSlot DEF SoloInv, QueueInv
  <2>1. crashed' = "no" /\ NewestInv'
    BY <1>a, <1>d, <2>c
       DEF SoloInv, NewestInv, Offering, ControlInv, TypeOK, Threads
  <2>2. PopInv'
    BY <1>a, <1>d DEF SoloInv, PopInv, InPop, ControlInv, Offering, TypeOK, Threads
  <2>3. PushInv'
    <3>1. ~QueueFull'
      BY <1>a, <2>a, NextIndexInjective DEF QueueFull, TypeOK
    <3>2. QED
      BY <1>a, <1>d, <3>1 DEF SoloInv, PushInv, TypeOK, Threads
  <2>4. QueueInv'
    <3> SUFFICES ASSUME NEW i \in Index, Occupied(i)'
                 PROVE  /\ slots[i] \in live
                        /\ slots[i] > slots[read_index]
                        /\ newest # NoFrame => slots[i] < newest
                        /\ \A j \in Index : Occupied(j)' /\ Distance(i)' < Distance(j)'
                                              => slots[i] < slots[j]
      BY <2>c DEF QueueInv
    <3>1. Occupied(i) /\ i # read_index
      BY <2>d
    <3>2. slots[i] \in live /\ (newest # NoFrame => slots[i] < newest)
      BY <1>d, <3>1 DEF SoloInv, QueueInv
    <3>3. slots[i] > slots[read_index]
      BY <1>a, <2>b, <2>e, <3>1 DEF TypeOK, Frames, NoFrame
    <3>4. ASSUME NEW j \in Index, Occupied(j)', Distance(i)' < Distance(j)'
          PROVE  slots[i] < slots[j]
      <4>1. Occupied(j) /\ j # read_index
        BY <2>d, <3>4
      <4>2. Distance(i)' = Distance(i) - 1 /\ Distance(j)' = Distance(j) - 1
        BY <2>d, <3>1, <4>1
      <4>3. Distance(i) \in Int /\ Distance(j) \in Int
        BY <1>a, DistanceInt
      <4>4. Distance(i) < Distance(j)
        BY <3>4, <4>2, <4>3
      <4>5. QED
        BY <1>d, <3>1, <4>1, <4>4 DEF SoloInv, QueueInv
    <3>5. QED
      BY <3>2, <3>3, <3>4
  <2>5. PoppedInv'
    <3>1. OwnsPopped("capturer")' = OwnsPopped("capturer")
      BY <1>a DEF OwnsPopped, TypeOK, Threads
    <3>2. OwnsPopped("capturer") => popped["capturer"] < slots[read_index]
      BY <1>d, <2>b DEF SoloInv, PoppedInv
    <3>3. OwnsPopped("capturer") => popped["capturer"] # slots[read_index]
      BY <1>a, <2>b, <3>2 DEF TypeOK, Frames, NoFrame, Threads
    <3>4. QED
      BY <1>a, <1>d, <2>a, <2>c, <2>d, <3>1, <3>3
         DEF SoloInv, PoppedInv, TypeOK, Threads
  <2>6. LeakInv'
    BY <1>a, <1>d, <2>a, <2>d
       DEF SoloInv, LeakInv, OwnsPopped, ControlInv, TypeOK, Threads
  <2>7. QED
    BY <2>1, <2>2, <2>3, <2>4, <2>5, <2>6 DEF SoloInv
<1>6. CASE PopStoreCapturer
  <2> USE <1>6 DEF PopStoreCapturer, Goto
  <2>a. /\ write_index # read_index
        /\ popped["capturer"] = slots[read_index]
        /\ read_index' = NextIndex(read_index)
    BY <1>d DEF SoloInv, PopInv, Threads
  <2>b. Occupied(read_index) /\ read_index \in Index
    BY <1>a, <2>a, OldestSlot DEF TypeOK
  <2>c. /\ slots[read_index] \in live
        /\ slots[read_index] > fetched
        /\ newest # NoFrame => slots[read_index] < newest
    BY <1>d, <2>a, <2>b DEF SoloInv, QueueInv
  <2>d. \A i \in Index :
          /\ Occupied(i)' <=> Occupied(i) /\ i # read_index
          /\ i # read_index => Distance(i)' = Distance(i) - 1
    BY <1>a, <2>a, AdvanceRead
  <2>e. \A i \in Index : Occupied(i) /\ i # read_index
                            => slots[read_index] < slots[i]
    BY <1>a, <1>d, <2>a, <2>b, OldestSlot DEF SoloInv, QueueInv
  <2>f. ~repush /\ pc'["main"] = pc["main"]
    BY <1>a DEF ControlInv, TypeOK, Threads
  <2>1. crashed' = "no" /\ NewestInv'
    BY <1>a, <1>d
       DEF SoloInv, NewestInv, Offering, ControlInv, TypeOK, Threads
  <2>2. PopInv'
    BY <1>a, <1>d DEF SoloInv, PopInv, InPop, ControlInv, Offering, TypeOK, Threads
  <2>3. PushInv'
    <3>1. ~QueueFull'
      BY <1>a, <2>a, NextIndexInjective DEF QueueFull, TypeOK
    <3>2. QED
      BY <1>a, <1>d, <3>1 DEF SoloInv, PushInv, TypeOK, Threads
  <2>4. QueueInv'
    <3> SUFFICES ASSUME NEW i \in Index, Occupied(i)'
                 PROVE  /\ slots[i] \in live
                        /\ slots[i] > fetched
                        /\ newest # NoFrame => slots[i] < newest
                        /\ \A j \in Index : Occupied(j)' /\ Distance(i)' < Distance(j)'
                                              => slots[i] < slots[j]
      BY DEF QueueInv
    <3>1. Occupied(i) /\ i # read_index
      BY <2>d
    <3>2. /\ slots[i] \in live
          /\ slots[i] > fetched
          /\ newest # NoFrame => slots[i] < newest
      BY <1>d, <3>1 DEF SoloInv, QueueInv
    <3>3. ASSUME NEW j \in Index, Occupied(j)', Distance(i)' < Distance(j)'
          PROVE  slots[i] < slots[j]
      <4>1. Occupied(j) /\ j # read_index
        BY <2>d, <3>3
      <4>2. Distance(i)' = Distance(i) - 1 /\ Distance(j)' = Distance(j) - 1
        BY <2>d, <3>1, <4>1
      <4>3. Distance(i) \in Int /\ Distance(j) \in Int
        BY <1>a, DistanceInt
      <4>4. Distance(i) < Distance(j)
        BY <3>3, <4>2, <4>3
      <4>5. QED
        BY <1>d, <3>1, <4>1, <4>4 DEF SoloInv, QueueInv
    <3>4. QED
      BY <3>2, <3>3
  <2>5. PoppedInv'
    <3>1. /\ UNCHANGED << popped, fetched, newest, live, slots >>
          /\ pc["main"] = "use" => popped["main"] = fetched /\ fetched \in live
          /\ newest # NoFrame => fetched < newest
      BY <1>d, <2>f DEF SoloInv, PoppedInv, images
    <3>2. popped["capturer"] = slots[read_index]
      BY <2>a
    <3>3. popped["capturer"] \in live /\ (newest # NoFrame => popped["capturer"] < newest)
      BY <2>c, <3>2
    <3>4. popped["capturer"] # fetched
      BY <1>a, <2>b, <2>c, <3>2 DEF TypeOK, Frames, NoFrame
    <3>5. \A i \in Index : Occupied(i)' => popped["capturer"] < slots[i]
      BY <2>d, <2>e, <3>2
    <3>6. QED
      BY <2>f, <3>1, <3>3, <3>4, <3>5 DEF PoppedInv
  <2>6. LeakInv'
    <3>1. UNCHANGED << popped, newest, live, slots >> /\ popped["capturer"] = slots[read_index]
      BY <2>a DEF images
    <3>2. OwnsPopped("main")' <=> OwnsPopped("main")
      BY <2>f DEF OwnsPopped
    <3>3. ~OwnsPopped("capturer") /\ (~NDEBUG => OwnsPopped("capturer")')
      BY <1>a, <2>f DEF OwnsPopped, TypeOK, Threads
    <3>4. SUFFICES ASSUME ~NDEBUG, NEW f \in live
                   PROVE  \/ f = newest
                          \/ \E i \in Index : Occupied(i)' /\ slots[i] = f
                          \/ \E t \in Threads : OwnsPopped(t)' /\ popped[t] = f
      BY <3>1 DEF LeakInv
    <3>5. \/ f = newest
          \/ \E i \in Index : Occupied(i) /\ slots[i] = f
          \/ \E t \in Threads : OwnsPopped(t) /\ popped[t] = f
      BY <1>d, <3>4 DEF SoloInv, LeakInv
    <3>6. ASSUME NEW i \in Index, Occupied(i), slots[i] = f
          PROVE  Occupied(i)' \/ popped["capturer"] = f
      BY <2>d, <3>1, <3>6
    <3>7. ASSUME NEW t \in Threads, OwnsPopped(t), popped[t] = f
          PROVE  OwnsPopped(t)'
      BY <3>2, <3>3, <3>7 DEF Threads
    <3>8. "capturer" \in Threads
      BY DEF Threads
    <3>9. QED
      BY <3>3, <3>4, <3>5, <3>6, <3>7, <3>8
  <2>7. QED
    BY <2>1, <2>2, <2>3, <2>4, <2>5, <2>6 DEF SoloInv
<1>7. CASE ReleaseImage
  <2> USE <1>7 DEF ReleaseImage, Goto
  <2>a. /\ popped["main"] = fetched
        /\ live' = live \ {fetched}
        /\ crashed' = crashed
        /\ ~OwnsPopped("main")'
    BY <1>a, <1>d DEF SoloInv, PoppedInv, Delete, OwnsPopped, TypeOK, Threads
  <2>b. pc'["capturer"] = pc["capturer"] /\ pc'["main"] = "pop"
    BY <1>a DEF TypeOK, Threads
  <2>1. crashed' = "no" /\ NewestInv'
    BY <1>a, <1>d, <2>a, <2>b
       DEF SoloInv, NewestInv, PoppedInv, Offering, ControlInv, TypeOK, NoFrame, Frames
  <2>2. PopInv'
    BY <1>a, <1>d, <2>b DEF SoloInv, PopInv, InPop, TypeOK, Threads
  <2>3. PushInv'
    BY <1>d, <2>b DEF SoloInv, PushInv, QueueFull, NextIndex
  <2>4. QueueInv'
    BY <1>a, <1>d, <2>a DEF SoloInv, QueueInv, Occupied, Distance, TypeOK, Frames, NoFrame
  <2>5. PoppedInv'
    BY <1>a, <1>d, <2>a, <2>b DEF SoloInv, PoppedInv, OwnsPopped, Occupied
  <2>6. LeakInv'
    BY <1>d, <2>a, <2>b DEF SoloInv, LeakInv, OwnsPopped, Occupied, Threads
  <2>7. QED
    BY <2>1, <2>2, <2>3, <2>4, <2>5, <2>6 DEF SoloInv
<1>8. CASE Capture
  <2> USE <1>8 DEF Capture, Goto
  <2>a. /\ newest = NoFrame
        /\ newest' = captured + 1
        /\ live \subseteq 1 .. captured
        /\ fetched <= captured
    BY <1>a, <1>d DEF SoloInv, NewestInv
  <2>b. /\ pc["capturer"] = "capture" /\ pc'["capturer"] = "push"
        /\ pc'["main"] = pc["main"] /\ ~repush
    BY <1>a DEF ControlInv, TypeOK, Threads
  <2>1. crashed' = "no" /\ NewestInv'
    BY <1>a, <1>d, <2>a, <2>b DEF SoloInv, NewestInv, Offering, TypeOK
  <2>2. PopInv'
    BY <1>a, <1>d, <2>b DEF SoloInv, PopInv, InPop, TypeOK, Threads
  <2>3. PushInv'
    BY <1>d, <2>b DEF SoloInv, PushInv, QueueFull, NextIndex
  <2>4. QueueInv'
    <3>1. \A f \in live : f < captured + 1
      BY <1>a, <2>a DEF TypeOK
    <3>2. \A i \in Index : Occupied(i) => slots[i] \in live /\ slots[i] < captured + 1
      BY <1>d, <3>1 DEF SoloInv, QueueInv
    <3>3. QED
      BY <1>d, <2>a, <3>2 DEF SoloInv, QueueInv, Occupied, Distance
  <2>5. PoppedInv'
    BY <1>a, <1>d, <2>a, <2>b DEF SoloInv, PoppedInv, OwnsPopped, Occupied, TypeOK
  <2>6. LeakInv'
    BY <1>d, <2>a, <2>b DEF SoloInv, LeakInv, NoFrame, OwnsPopped, Occupied, Threads
  <2>7. QED
    BY <2>1, <2>2, <2>3, <2>4, <2>5, <2>6 DEF SoloInv
<1>9. CASE PushFull
  <2> USE <1>9 DEF PushFull, Goto
  <2>a. ~repush
    BY <1>d DEF SoloInv, PushInv
  <2>b. /\ pc["capturer"] = "push" /\ pc'["capturer"] = "pop"
        /\ pc'["main"] = pc["main"] /\ crashed' = crashed
    BY <1>a, <2>a DEF TypeOK, Threads
  <2>1. crashed' = "no" /\ NewestInv'
    BY <1>d, <2>b DEF SoloInv, NewestInv, Offering
  <2>2. PopInv'
    BY <1>d, <2>b DEF SoloInv, PopInv, InPop, Threads
  <2>3. PushInv'
    BY <2>b DEF PushInv
  <2>4. QueueInv'
    BY <1>d DEF SoloInv, QueueInv, Occupied, Distance
  <2>5. PoppedInv'
    BY <1>d, <2>b DEF SoloInv, PoppedInv, OwnsPopped, Occupied
  <2>6. LeakInv'
    BY <1>d, <2>b DEF SoloInv, LeakInv, OwnsPopped, Occupied, Threads
  <2>7. QED
    BY <2>1, <2>2, <2>3, <2>4, <2>5, <2>6 DEF SoloInv
<1>10. CASE PushRoom
  <2> USE <1>10 DEF PushRoom, Goto
  <2>b. /\ pc["capturer"] = "push" /\ pc'["capturer"] = "push_copy"
        /\ pc'["main"] = pc["main"]
    BY <1>a DEF TypeOK, Threads
  <2>1. crashed' = "no" /\ NewestInv'
    BY <1>d, <2>b DEF SoloInv, NewestInv, Offering
  <2>2. PopInv'
    BY <1>d, <2>b DEF SoloInv, PopInv, InPop, Threads
  <2>3. PushInv'
    BY <2>b DEF PushInv, QueueFull, NextIndex
  <2>4. QueueInv'
    BY <1>d DEF SoloInv, QueueInv, Occupied, Distance
  <2>5. PoppedInv'
    BY <1>d, <2>b DEF SoloInv, PoppedInv, OwnsPopped, Occupied
  <2>6. LeakInv'
    BY <1>d, <2>b DEF SoloInv, LeakInv, OwnsPopped, Occupied, Threads
  <2>7. QED
    BY <2>1, <2>2, <2>3, <2>4, <2>5, <2>6 DEF SoloInv
<1>11. CASE PushCopy
  <2> USE <1>11 DEF PushCopy, Goto
  <2>a. /\ write_index \in Index /\ ~Occupied(write_index)
        /\ \A i \in Index : i # write_index => slots'[i] = slots[i]
        /\ slots'[write_index] = newest
    BY <1>a, WriteSlotFree DEF TypeOK
  <2>b. /\ pc["capturer"] = "push_copy" /\ pc'["capturer"] = "push_store"
        /\ pc'["main"] = pc["main"]
    BY <1>a DEF TypeOK, Threads
  <2>c. \A i \in Index : /\ Occupied(i)' <=> Occupied(i)
                         /\ Distance(i)' = Distance(i)
                         /\ Occupied(i) => slots'[i] = slots[i]
    BY <2>a DEF Occupied, Distance
  <2>1. crashed' = "no" /\ NewestInv'
    BY <1>d, <2>b DEF SoloInv, NewestInv, Offering
  <2>2. PopInv'
    <3>1. write_index # read_index => slots'[read_index] = slots[read_index]
      BY <1>a, <2>a DEF TypeOK
    <3>2. QED
      BY <1>d, <2>b, <3>1 DEF SoloInv, PopInv, InPop, Threads
  <2>3. PushInv'
    BY <1>d, <2>a, <2>b DEF SoloInv, PushInv, QueueFull, NextIndex
  <2>4. QueueInv'
    BY <1>d, <2>c DEF SoloInv, QueueInv
  <2>5. PoppedInv'
    BY <1>d, <2>b, <2>c DEF SoloInv, PoppedInv, OwnsPopped
  <2>6. LeakInv'
    BY <1>d, <2>b, <2>c DEF SoloInv, LeakInv, OwnsPopped, Threads
  <2>7. QED
    BY <2>1, <2>2, <2>3, <2>4, <2>5, <2>6 DEF SoloInv
<1>12. CASE PushStore
  <2> USE <1>12 DEF PushStore, Goto
  <2>a. /\ ~QueueFull
        /\ slots[write_index] = newest
        /\ write_index \in Index
        /\ newest \in live
        /\ newest = captured
        /\ newest # NoFrame
        /\ fetched < newest
    BY <1>a, <1>d
       DEF SoloInv, PushInv, NewestInv, PoppedInv, Offering, TypeOK, Frames, NoFrame
  <2>b. /\ pc["capturer"] = "push_store"
        /\ pc'["capturer"] = IF repush THEN "delete_oldest" ELSE "capture"
        /\ pc'["main"] = pc["main"] /\ newest' = NoFrame
        /\ repush => ~NDEBUG
    BY <1>a DEF ControlInv, TypeOK, Threads
  <2>c. \A i \in Index :
          /\ Occupied(i)' <=> Occupied(i) \/ i = write_index
          /\ Distance(i)' = Distance(i)
          /\ Occupied(i) => i # write_index /\ Distance(i) < Distance(write_index)
    BY <1>a, <2>a, AdvanceWrite
  <2>d. \A i \in Index : Occupied(i) => slots[i] \in live /\ slots[i] < newest
    BY <1>d, <2>a DEF SoloInv, QueueInv
  <2>1. crashed' = "no" /\ NewestInv'
    BY <1>d, <2>a, <2>b DEF SoloInv, NewestInv, Offering
  <2>2. PopInv'
    <3>1. write_index # read_index => write_index' # read_index
      BY <2>a DEF QueueFull
    <3>2. QED
      BY <1>d, <2>b, <3>1 DEF SoloInv, PopInv, InPop, Threads
  <2>3. PushInv'
    BY <2>b DEF PushInv
  <2>4. QueueInv'
    <3> SUFFICES ASSUME NEW i \in Index, Occupied(i)'
                 PROVE  /\ slots[i] \in live
                        /\ slots[i] > fetched
                        /\ \A j \in Index : Occupied(j)' /\ Distance(i)' < Distance(j)'
                                              => slots[i] < slots[j]
      BY <2>b DEF QueueInv
    <3>1. slots[i] \in live /\ slots[i] > fetched
      BY <1>d, <2>a, <2>c DEF SoloInv, QueueInv
    <3>2. ASSUME NEW j \in Index, Occupied(j)', Distance(i)' < Distance(j)'
          PROVE  slots[i] < slots[j]
      <4>1. Distance(i) < Distance(j)
        BY <2>c, <3>2
      <4>2. CASE Occupied(j) /\ Occupied(i)
        BY <1>d, <4>1, <4>2 DEF SoloInv, QueueInv
      <4>3. CASE Occupied(j) /\ i = write_index
        BY <1>a, <2>c, <4>1, <4>3, ConstantsAssumption DEF Distance, TypeOK, Index
      <4>4. CASE j = write_index /\ Occupied(i)
        BY <2>a, <2>d, <4>4
      <4>5. CASE j = write_index /\ i = write_index
        BY <1>a, <4>1, <4>5, ConstantsAssumption DEF Distance, TypeOK, Index
      <4>6. QED
        BY <2>c, <3>2, <4>2, <4>3, <4>4, <4>5
    <3>3. QED
      BY <3>1, <3>2
  <2>5. PoppedInv'
    BY <1>a, <1>d, <2>a, <2>b, <2>c DEF SoloInv, PoppedInv, OwnsPopped
  <2>6. LeakInv'
    BY <1>d, <2>a, <2>b, <2>c DEF SoloInv, LeakInv, OwnsPopped, Threads
  <2>7. QED
    BY <2>1, <2>2, <2>3, <2>4, <2>5, <2>6 DEF SoloInv
<1>13. CASE DeleteOldest
  <2> USE <1>13 DEF DeleteOldest, Goto
  <2>a. /\ popped["capturer"] \in live
        /\ popped["capturer"] # fetched
        /\ \A i \in Index : Occupied(i) => popped["capturer"] # slots[i]
        /\ newest # NoFrame => popped["capturer"] # newest
        /\ live' = live \ {popped["capturer"]}
        /\ crashed' = crashed
    BY <1>a, <1>d
       DEF SoloInv, PoppedInv, OwnsPopped, Delete, TypeOK, Frames, NoFrame, Threads
  <2>b. /\ pc["capturer"] = "delete_oldest" /\ pc'["capturer"] = "capture"
        /\ pc'["main"] = pc["main"] /\ newest' = NoFrame
        /\ ~NDEBUG => newest = NoFrame
    BY <1>a, <1>d DEF SoloInv, NewestInv, TypeOK, Threads
  <2>1. crashed' = "no" /\ NewestInv'
    BY <1>a, <1>d, <2>a, <2>b DEF SoloInv, NewestInv, Offering, TypeOK
  <2>2. PopInv'
    BY <1>d, <2>b DEF SoloInv, PopInv, InPop, Threads
  <2>3. PushInv'
    BY <2>b DEF PushInv
  <2>4. QueueInv'
    BY <1>d, <2>a, <2>b DEF SoloInv, QueueInv, Occupied, Distance
  <2>5. PoppedInv'
    BY <1>d, <2>a, <2>b DEF SoloInv, PoppedInv, OwnsPopped
  <2>6. LeakInv'
    BY <1>a, <1>d, <2>a, <2>b
       DEF SoloInv, LeakInv, OwnsPopped, Occupied, Threads, TypeOK, Frames, NoFrame
  <2>7. QED
    BY <2>1, <2>2, <2>3, <2>4, <2>5, <2>6 DEF SoloInv
<1>14. CASE DeleteNewest
  <2> USE <1>14 DEF DeleteNewest, Goto
  <2>a. /\ newest \in live
        /\ newest # NoFrame
        /\ newest # fetched
        /\ \A i \in Index : Occupied(i) => newest # slots[i]
        /\ live' = live \ {newest}
        /\ crashed' = crashed
    BY <1>a, <1>d DEF SoloInv, NewestInv, PoppedInv, QueueInv, Offering, Delete,
                      TypeOK, Frames, NoFrame
  <2>b. /\ pc["capturer"] = "delete_newest" /\ pc'["capturer"] = "capture"
        /\ pc'["main"] = pc["main"] /\ newest' = NoFrame /\ ~repush
    BY <1>a DEF ControlInv, TypeOK, Threads
  <2>1. crashed' = "no" /\ NewestInv'
    BY <1>a, <1>d, <2>a, <2>b DEF SoloInv, NewestInv, Offering, TypeOK
  <2>2. PopInv'
    BY <1>d, <2>b DEF SoloInv, PopInv, InPop, Threads
  <2>3. PushInv'
    BY <2>b DEF PushInv
  <2>4. QueueInv'
    BY <1>d, <2>a, <2>b DEF SoloInv, QueueInv, Occupied, Distance
  <2>5. PoppedInv'
    BY <1>d, <2>a, <2>b DEF SoloInv, PoppedInv, OwnsPopped
  <2>6. LeakInv'
    BY <1>d, <2>a, <2>b DEF SoloInv, LeakInv, OwnsPopped, Occupied, Threads
  <2>7. QED
    BY <2>1, <2>2, <2>3, <2>4, <2>5, <2>6 DEF SoloInv
<1>15. CASE UNCHANGED vars
  <2> USE <1>15, <1>d DEF vars, SoloInv
  <2>1. crashed' = "no" /\ NewestInv'
    BY DEF NewestInv, Offering
  <2>2. PopInv' /\ PushInv'
    BY DEF PopInv, InPop, PushInv, QueueFull, NextIndex
  <2>3. QueueInv'
    BY DEF QueueInv, Occupied, Distance
  <2>4. PoppedInv' /\ LeakInv'
    BY DEF PoppedInv, LeakInv, OwnsPopped, Occupied
  <2>5. QED
    BY <2>1, <2>2, <2>3, <2>4
<1>16. QED
  <2>1. \/ \E t \in Threads : PopLoadWrite(t) \/ PopLoadRead(t) \/ PopEmpty(t) \/ PopCopy(t)
        \/ PopStoreMain \/ PopStoreCapturer \/ ReleaseImage \/ Capture
        \/ PushFull \/ PushRoom \/ PushCopy \/ PushStore
        \/ DeleteOldest \/ DeleteNewest \/ UNCHANGED vars
    BY DEF Next, MainStep, CapturerStep, Pop, Halted, Threads
  <2>2. QED
    BY <2>1, <1>1, <1>2, <1>3, <1>4, <1>5, <1>6, <1>7, <1>8, <1>9, <1>10,
       <1>11, <1>12, <1>13, <1>14, <1>15

-----------------------------------------------------------------------------
(* The theorems.                                                           *)

\* Inv is an invariant of the specification.
THEOREM InvCorrect == Spec => []Inv
<1>1. Inv /\ [Next]_vars => Inv'
  BY NextType, NextControl, NextSolo DEF Inv
<1>2. QED
  BY <1>1, InitInv, PTL DEF Spec

\* Exclusive ownership: unless two calls of pop() have overlapped, no image
\* has two owners, all that is owned is alive, no thread uses or deletes a dead
\* image and no assertion fails, for every capacity and in either build.
THEOREM OwnershipCorrect == Spec => []ExclusiveOwnership
<1>1. Inv => ExclusiveOwnership
  <2> SUFFICES ASSUME Inv, ~overlap
               PROVE  /\ crashed = "no"
                      /\ \A f \in Frames :
                           /\ Owners(f) # {} => f \in live
                           /\ \A a, b \in Owners(f) : a = b
    BY DEF ExclusiveOwnership
  <2>1. TypeOK /\ ControlInv /\ SoloInv
    BY DEF Inv
  <2>2. \A i \in Index : Occupied(i) => slots[i] \in live
    BY <2>1 DEF SoloInv, QueueInv
  <2>3. \A t \in Threads : OwnsPopped(t) => popped[t] \in live
    BY <2>1 DEF SoloInv, PoppedInv, OwnsPopped, Threads
  <2>4. newest # NoFrame => newest \in live
    BY <2>1 DEF SoloInv, NewestInv, ControlInv, Offering
  <2>5. \A i, j \in Index :
          Occupied(i) /\ Occupied(j) /\ slots[i] = slots[j] => i = j
    <3> SUFFICES ASSUME NEW i \in Index, NEW j \in Index, Occupied(i),
                        Occupied(j), slots[i] = slots[j]
                 PROVE  i = j
      OBVIOUS
    <3>1. ~(slots[i] < slots[j]) /\ ~(slots[j] < slots[i])
      BY <2>1 DEF TypeOK, Frames, NoFrame
    <3>2. ~(Distance(i) < Distance(j)) /\ ~(Distance(j) < Distance(i))
      BY <2>1, <3>1 DEF SoloInv, QueueInv
    <3>3. Distance(i) = Distance(j)
      BY <2>1, <3>2, ConstantsAssumption DEF Distance, TypeOK, Index
    <3>4. QED
      BY <2>1, <3>3, DistanceInjective
  <2>6. \A i \in Index : Occupied(i) =>
          /\ newest # NoFrame => slots[i] # newest
          /\ \A t \in Threads : OwnsPopped(t) => slots[i] # popped[t]
    BY <2>1 DEF SoloInv, QueueInv, PoppedInv, OwnsPopped, TypeOK, Frames,
                NoFrame, Threads
  <2>7. \A t \in Threads : OwnsPopped(t) /\ newest # NoFrame => popped[t] # newest
    BY <2>1 DEF SoloInv, PoppedInv, OwnsPopped, TypeOK, Frames, NoFrame, Threads
  <2>8. OwnsPopped("main") /\ OwnsPopped("capturer")
          => popped["main"] # popped["capturer"]
    BY <2>1 DEF SoloInv, PoppedInv, OwnsPopped
  <2>9. ASSUME NEW f \in Frames PROVE f # NoFrame
    BY DEF Frames, NoFrame
  <2>10. ASSUME NEW f \in Frames, Owners(f) # {} PROVE f \in live
    BY <2>2, <2>3, <2>4, <2>9, <2>10 DEF Owners
  <2>11. ASSUME NEW f \in Frames, NEW a \in Owners(f), NEW b \in Owners(f)
         PROVE  a = b
    <3>1. ASSUME NEW i \in Index, Occupied(i), slots[i] = f, a = <<"slot", i>>
          PROVE  a = b
      BY <2>5, <2>6, <2>9, <3>1 DEF Owners
    <3>2. ASSUME NEW t \in Threads, OwnsPopped(t), popped[t] = f, a = <<"popped", t>>
          PROVE  a = b
      BY <2>6, <2>7, <2>8, <2>9, <3>2 DEF Owners, Threads
    <3>3. ASSUME newest = f, a = <<"newest", 0>> PROVE a = b
      BY <2>6, <2>7, <2>9, <3>3 DEF Owners
    <3>4. QED
      BY <3>1, <3>2, <3>3 DEF Owners
  <2>12. QED
    BY <2>1, <2>10, <2>11 DEF SoloInv
<1>2. QED
  BY <1>1, InvCorrect, PTL

\* A debug build loses no image unless two calls of pop() have overlapped.
THEOREM DebugLosesNothing == ASSUME ~NDEBUG PROVE Spec => []NothingLost
<1>1. Inv => NothingLost
  <2> SUFFICES ASSUME Inv, ~overlap, NEW f \in live PROVE Owners(f) # {}
    BY DEF NothingLost
  <2>1. \/ f = newest
        \/ \E i \in Index : Occupied(i) /\ slots[i] = f
        \/ \E t \in Threads : OwnsPopped(t) /\ popped[t] = f
    BY DEF Inv, SoloInv, LeakInv
  <2>2. QED
    BY <2>1 DEF Owners
<1>2. QED
  BY <1>1, InvCorrect, PTL

\* fetch_image returns every image at most once and in the order of capture,
\* unless two calls of pop() have overlapped.
THEOREM OrderCorrect == Spec => FetchesInOrder
<1>1. Inv => (PopStoreMain => (overlap \/ popped["main"] > fetched))
  <2> SUFFICES ASSUME Inv, ~overlap, PopStoreMain PROVE popped["main"] > fetched
    OBVIOUS
  <2>1. TypeOK /\ SoloInv
    BY DEF Inv
  <2>2. write_index # read_index /\ popped["main"] = slots[read_index]
    BY <2>1 DEF SoloInv, PopInv, PopStoreMain, Threads
  <2>3. Occupied(read_index) /\ read_index \in Index
    BY <2>1, <2>2, OldestSlot DEF TypeOK
  <2>4. QED
    BY <2>1, <2>2, <2>3 DEF SoloInv, QueueInv
<1>2. QED
  BY <1>1, InvCorrect, PTL DEF FetchesInOrder

-----------------------------------------------------------------------------
(* The refinement: the ring is a sequence, and each step is one of         *)
(* DropOldestQueue or none.                                                *)

\* The images in the queue, oldest first.
Queue == [k \in 1 .. Size |-> slots[Wrap(read_index + k - 1)]]

\* The ring is a sequence of the occupied slots, empty and full when its
\* indices say so.
LEMMA QueueIsSequence ==
  ASSUME TypeOK
  PROVE  /\ Size \in 0 .. Capacity
         /\ Queue \in Seq(Frames \union {NoFrame})
         /\ Len(Queue) = Size
         /\ Size = 0 <=> read_index = write_index
         /\ Size = Capacity <=> QueueFull
         /\ \A k \in 1 .. Size : /\ Wrap(read_index + k - 1) \in Index
                                 /\ Wrap(read_index + k - 1) # write_index
         /\ \A k \in 1 .. Size : Queue[k] = slots[Wrap(read_index + k - 1)]
<1> USE ConstantsAssumption DEF TypeOK, Index, Size, Wrap
<1>1. Size \in 0 .. Capacity
  OBVIOUS
<1>2. \A k \in 1 .. Size : /\ Wrap(read_index + k - 1) \in Index
                           /\ Wrap(read_index + k - 1) # write_index
  OBVIOUS
<1>3. \A k \in 1 .. Size : slots[Wrap(read_index + k - 1)] \in Frames \union {NoFrame}
  BY <1>2
<1>4. Queue \in [1 .. Size -> Frames \union {NoFrame}]
  BY <1>3 DEF Queue
<1>5. Queue \in Seq(Frames \union {NoFrame}) /\ Len(Queue) = Size
  <2> HIDE DEF Size, Wrap, TypeOK, Index
  <2>1. Size \in Nat
    BY <1>1
  <2>2. QED
    BY <1>4, <2>1
<1>6. Size = 0 <=> read_index = write_index
  OBVIOUS
<1>7. Size = Capacity <=> QueueFull
  BY DEF QueueFull, NextIndex
<1>8. \A k \in 1 .. Size : Queue[k] = slots[Wrap(read_index + k - 1)]
  BY DEF Queue
<1>9. QED
  BY <1>1, <1>2, <1>5, <1>6, <1>7, <1>8

\* Advancing the read index takes the image at it off the head of the queue.
LEMMA ReadTakesHead ==
  ASSUME TypeOK, TypeOK', write_index # read_index,
         read_index' = NextIndex(read_index), UNCHANGED << write_index, slots >>
  PROVE  Queue # << >> /\ Head(Queue) = slots[read_index] /\ Queue' = Tail(Queue)
<1>1. Size' = Size - 1 /\ Size \in 1 .. Capacity
  BY ConstantsAssumption DEF TypeOK, Index, Size, NextIndex
<1>2. \A k \in 1 .. Size - 1 : Wrap(read_index + k)  = Wrap(read_index' + k - 1)
  BY ConstantsAssumption DEF TypeOK, Index, Size, NextIndex, Wrap
<1>3. Wrap(read_index) = read_index
  BY ConstantsAssumption DEF TypeOK, Index, Wrap
<1>4. Queue \in Seq(Frames \union {NoFrame}) /\ Len(Queue) = Size
  BY QueueIsSequence
<1>5. Queue # << >>
  BY <1>1, <1>4
<1>6. Head(Queue) = slots[read_index]
  <2>1. Queue[1] = slots[read_index]
    BY <1>1, <1>3, ConstantsAssumption DEF Queue, TypeOK, Index
  <2>2. QED
    BY <1>4, <1>5, <2>1
<1>7. Queue' = [k \in 1 .. Size - 1 |-> slots[Wrap(read_index + k)]]
  BY <1>1, <1>2 DEF Queue
<1>8. Tail(Queue) = [k \in 1 .. Size - 1 |-> Queue[k + 1]]
  <2>1. /\ Tail(Queue) \in Seq(Frames \union {NoFrame})
        /\ Len(Tail(Queue)) = Size - 1
        /\ \A k \in 1 .. Len(Tail(Queue)) : Tail(Queue)[k] = Queue[k + 1]
    BY <1>4, <1>5, HeadTailProperties
  <2>2. Tail(Queue) \in [1 .. Size - 1 -> Frames \union {NoFrame}]
    BY <2>1, LenProperties
  <2>3. QED
    BY <2>1, <2>2
<1>9. \A k \in 1 .. Size - 1 : Queue[k + 1] = slots[Wrap(read_index + k)]
  <2> TAKE k \in 1 .. Size - 1
  <2>1. k + 1 \in 1 .. Size
    BY <1>1
  <2>2. read_index + (k + 1) - 1 = read_index + k
    BY DEF TypeOK, Index
  <2>3. QED
    BY <2>1, <2>2 DEF Queue
<1>10. QED
  BY <1>5, <1>6, <1>7, <1>8, <1>9

\* Advancing the write index appends the image at it to the queue.
LEMMA WriteAppends ==
  ASSUME TypeOK, TypeOK', ~QueueFull,
         write_index' = NextIndex(write_index), UNCHANGED << read_index, slots >>
  PROVE  Len(Queue) < Capacity /\ Queue' = Append(Queue, slots[write_index])
<1>1. Size' = Size + 1 /\ Size \in 0 .. Capacity - 1
  BY ConstantsAssumption DEF TypeOK, Index, Size, NextIndex, QueueFull
<1>2. Wrap(read_index + (Size + 1) - 1) = write_index
  BY ConstantsAssumption DEF TypeOK, Index, Size, Wrap
<1>3. Queue \in Seq(Frames \union {NoFrame}) /\ Len(Queue) = Size
  BY QueueIsSequence
<1>4. Queue' = [k \in 1 .. Size + 1 |-> slots[Wrap(read_index + k - 1)]]
  BY <1>1 DEF Queue, Wrap
<1>5. \A k \in 1 .. Size + 1 :
        slots[Wrap(read_index + k - 1)]
          = IF k = Size + 1 THEN slots[write_index] ELSE Queue[k]
  BY <1>1, <1>2 DEF Queue
<1>6. Append(Queue, slots[write_index])
        = [k \in 1 .. Size + 1 |-> IF k = Size + 1 THEN slots[write_index] ELSE Queue[k]]
  <2>1. slots[write_index] \in Frames \union {NoFrame}
    BY DEF TypeOK
  <2>2. QED
    BY <1>3, <2>1
<1>7. Queue' = Append(Queue, slots[write_index])
  BY <1>4, <1>5, <1>6, Zenon
<1>8. QED
  BY <1>1, <1>3, <1>7, ConstantsAssumption

\* Writing the slot at the write index does not change the queue.
LEMMA CopyInvisible ==
  ASSUME TypeOK, UNCHANGED << write_index, read_index >>, NEW f,
         slots' = [slots EXCEPT ![write_index] = f]
  PROVE  Queue' = Queue
<1>1. Size' = Size /\ \A k \in 1 .. Size : Wrap(read_index + k - 1)' = Wrap(read_index + k - 1)
  BY DEF Size, Wrap
<1>2. \A k \in 1 .. Size : slots'[Wrap(read_index + k - 1)] = slots[Wrap(read_index + k - 1)]
  BY QueueIsSequence DEF TypeOK
<1>3. QED
  BY <1>1, <1>2 DEF Queue

\* What the overflow path knows of the queue: nobody else writes write_index,
\* and the queue it found empty stays so until the newest image is deleted.
EmptyInv ==
  /\ pc["capturer"] = "pop_read" => seen_write["capturer"] = write_index
  /\ pc["capturer"] = "delete_newest" /\ ~overlap => write_index = read_index

\* Every step keeps it.
LEMMA NextEmpty == Inv /\ EmptyInv /\ [Next]_vars => EmptyInv'
<1> SUFFICES ASSUME Inv, EmptyInv, [Next]_vars PROVE EmptyInv'
  OBVIOUS
<1>a. TypeOK /\ ControlInv /\ (~overlap => PopInv)
  BY DEF Inv, SoloInv
<1> USE <1>a DEF EmptyInv, Threads, Goto, TypeOK, ControlInv, Offering
<1>1. ASSUME NEW t \in Threads, PopLoadWrite(t) PROVE EmptyInv'
  BY <1>1 DEF PopLoadWrite
<1>2. ASSUME NEW t \in Threads, PopLoadRead(t) PROVE EmptyInv'
  BY <1>2 DEF PopLoadRead
<1>3. ASSUME NEW t \in Threads, PopEmpty(t) PROVE EmptyInv'
  BY <1>3 DEF PopEmpty
<1>4. ASSUME NEW t \in Threads, PopCopy(t) PROVE EmptyInv'
  BY <1>4 DEF PopCopy
<1>5. CASE PopStoreMain
  BY <1>5 DEF PopStoreMain, PopInv
<1>6. CASE PopStoreCapturer
  BY <1>6 DEF PopStoreCapturer
<1>7. CASE ReleaseImage
  BY <1>7 DEF ReleaseImage
<1>8. CASE Capture \/ PushRoom \/ PushCopy \/ PushFull
  BY <1>8 DEF Capture, PushRoom, PushCopy, PushFull
<1>9. CASE PushStore
  BY <1>9 DEF PushStore
<1>10. CASE DeleteOldest \/ DeleteNewest
  BY <1>10 DEF DeleteOldest, DeleteNewest
<1>11. CASE UNCHANGED vars
  BY <1>11 DEF vars
<1>12. QED
  BY <1>1, <1>2, <1>3, <1>4, <1>5, <1>6, <1>7, <1>8, <1>9, <1>10, <1>11
     DEF Next, MainStep, CapturerStep, Pop, Halted

\* The offered image has found the queue full, and room has not been made yet.
Overflowed ==
  pc["capturer"] \in {"pop", "pop_read", "pop_copy", "pop_store", "delete_newest"}


\* In a debug build, as long as no two calls of pop() overlap, every step is a
\* step of the queue that drops its oldest image, or does not show.
LEMMA StepMaps ==
  ASSUME ~NDEBUG, Inv, EmptyInv, Inv', [Next]_vars
  PROVE  [Abstract!Next]_(Abstract!avars)
<1>a. TypeOK /\ TypeOK' /\ ControlInv
  BY DEF Inv
<1>b. CASE overlap'
  BY <1>b DEF Abstract!Next, Abstract!Misuse
<1>c. SUFFICES ASSUME ~overlap' PROVE [Abstract!Next]_(Abstract!avars)
  BY <1>b
<1>d. ~overlap /\ UNCHANGED overlap
  BY <1>a, <1>c
     DEF Next, MainStep, CapturerStep, Pop, Halted, vars, PopLoadWrite, PopLoadRead,
         PopEmpty, PopCopy, PopStoreMain, PopStoreCapturer, ReleaseImage, Capture,
         PushFull, PushRoom, PushCopy, PushStore, DeleteOldest, DeleteNewest, TypeOK
<1>e. PopInv /\ PushInv /\ NewestInv
  BY <1>d DEF Inv, SoloInv
<1>f. ASSUME UNCHANGED << captured, newest, Queue, Overflowed, fetched >>
      PROVE  [Abstract!Next]_(Abstract!avars)
  BY <1>d, <1>f DEF Abstract!avars, Queue, Overflowed
<1>g. ASSUME UNCHANGED << write_index, read_index, slots >> PROVE UNCHANGED Queue
  BY <1>g DEF Queue, Size, Wrap
<1> USE DEF Threads, Goto
<1>1. ASSUME NEW t \in Threads, PopLoadWrite(t) \/ PopLoadRead(t) \/ PopEmpty(t) \/ PopCopy(t)
      PROVE  [Abstract!Next]_(Abstract!avars)
  <2>1. UNCHANGED Overflowed
    BY <1>1, <1>a DEF PopLoadWrite, PopLoadRead, PopEmpty, PopCopy, Overflowed, TypeOK,
                      ControlInv
  <2>2. QED
    BY <1>1, <1>f, <1>g, <2>1 DEF PopLoadWrite, PopLoadRead, PopEmpty, PopCopy
<1>2. CASE ReleaseImage
  <2>1. UNCHANGED Overflowed
    BY <1>2, <1>a DEF ReleaseImage, Overflowed, TypeOK
  <2>2. QED
    BY <1>2, <1>f, <1>g, <2>1 DEF ReleaseImage
<1>3. CASE PushRoom
  <2>1. UNCHANGED Overflowed
    BY <1>3, <1>a DEF PushRoom, Overflowed, TypeOK
  <2>2. QED
    BY <1>3, <1>f, <1>g, <2>1 DEF PushRoom
<1>4. CASE PushCopy
  <2>1. UNCHANGED Overflowed
    BY <1>4, <1>a DEF PushCopy, Overflowed, TypeOK
  <2>2. UNCHANGED Queue
    BY <1>4, <1>a, CopyInvisible DEF PushCopy
  <2>3. QED
    BY <1>4, <1>f, <2>1, <2>2 DEF PushCopy
<1>5. CASE DeleteOldest
  <2>1. UNCHANGED Overflowed
    BY <1>5, <1>a DEF DeleteOldest, Overflowed, TypeOK
  <2>2. UNCHANGED newest
    BY <1>5, <1>e DEF DeleteOldest, NewestInv
  <2>3. QED
    BY <1>5, <1>f, <1>g, <2>1, <2>2 DEF DeleteOldest
<1>6. CASE Capture
  <2>1. newest = NoFrame /\ UNCHANGED << Queue, Overflowed >>
    BY <1>6, <1>a, <1>e, <1>g DEF Capture, NewestInv, Overflowed, TypeOK
  <2>2. Abstract!Offer
    BY <1>6, <2>1 DEF Capture, Abstract!Offer, Queue, Overflowed, NoFrame, Abstract!NoImage
  <2>3. QED
    BY <1>d, <2>2 DEF Abstract!Next
<1>7. CASE PushStore
  <2>1. ~QueueFull /\ newest # NoFrame /\ slots[write_index] = newest
    BY <1>7, <1>a, <1>e, <1>d DEF Inv, SoloInv, PushStore, PushInv, NewestInv, Offering,
                      TypeOK, Frames, NoFrame
  <2>2. Len(Queue) < Capacity /\ Queue' = Append(Queue, newest)
    BY <1>7, <1>a, <2>1, WriteAppends DEF PushStore
  <2>3. ~Overflowed /\ UNCHANGED Overflowed
    BY <1>7, <1>a DEF PushStore, Overflowed, TypeOK
  <2>4. Abstract!Accept
    BY <1>7, <2>1, <2>2, <2>3
       DEF PushStore, Abstract!Accept, Queue, Overflowed, NoFrame, Abstract!NoImage
  <2>5. QED
    BY <1>d, <2>4 DEF Abstract!Next
<1>8. CASE PushFull
  <2>1. newest # NoFrame /\ ~repush
    BY <1>8, <1>a, <1>d, <1>e DEF Inv, SoloInv, PushFull, PushInv, NewestInv, Offering,
                      TypeOK, Frames, NoFrame
  <2>2. Len(Queue) = Capacity /\ UNCHANGED Queue
    BY <1>8, <1>a, <1>g, QueueIsSequence DEF PushFull
  <2>3. ~Overflowed /\ Overflowed'
    BY <1>8, <1>a, <2>1 DEF PushFull, Overflowed, TypeOK
  <2>4. Abstract!Overflow
    BY <1>8, <2>1, <2>2, <2>3
       DEF PushFull, Abstract!Overflow, Queue, Overflowed, NoFrame, Abstract!NoImage
  <2>5. QED
    BY <1>d, <2>4 DEF Abstract!Next
<1>9. CASE PopStoreCapturer
  <2>1. write_index # read_index /\ seen_read["capturer"] = read_index
    BY <1>9, <1>e DEF PopStoreCapturer, PopInv
  <2>2. Queue # << >> /\ Queue' = Tail(Queue)
    BY <1>9, <1>a, <2>1, ReadTakesHead DEF PopStoreCapturer
  <2>3. Overflowed /\ Overflowed' = FALSE
    BY <1>9, <1>a DEF PopStoreCapturer, Overflowed, TypeOK
  <2>4. Abstract!DropOldest
    BY <1>9, <2>2, <2>3 DEF PopStoreCapturer, Abstract!DropOldest, Queue, Overflowed
  <2>5. QED
    BY <1>d, <2>4 DEF Abstract!Next
<1>10. CASE PopStoreMain
  <2>1. /\ write_index # read_index /\ seen_read["main"] = read_index
        /\ popped["main"] = slots[read_index]
    BY <1>10, <1>e DEF PopStoreMain, PopInv
  <2>2. Queue # << >> /\ Head(Queue) = popped["main"] /\ Queue' = Tail(Queue)
    BY <1>10, <1>a, <2>1, ReadTakesHead DEF PopStoreMain
  <2>3. UNCHANGED Overflowed
    BY <1>10, <1>a DEF PopStoreMain, Overflowed, TypeOK
  <2>4. Abstract!Take
    BY <1>10, <2>2, <2>3 DEF PopStoreMain, Abstract!Take, Queue, Overflowed
  <2>5. QED
    BY <1>d, <2>4 DEF Abstract!Next
<1>11. CASE DeleteNewest
  <2>1. Size = 0 /\ UNCHANGED Queue
    BY <1>11, <1>a, <1>d, <1>g, QueueIsSequence DEF DeleteNewest, EmptyInv
  <2>2. Queue = << >>
    BY <1>a, <2>1, QueueIsSequence, EmptySeq
  <2>3. Overflowed /\ Overflowed' = FALSE
    BY <1>11, <1>a DEF DeleteNewest, Overflowed, TypeOK
  <2>4. Abstract!DropNewest
    BY <1>11, <2>1, <2>2, <2>3
       DEF DeleteNewest, Abstract!DropNewest, Queue, Overflowed, NoFrame, Abstract!NoImage
  <2>5. QED
    BY <1>d, <2>4 DEF Abstract!Next
<1>12. CASE UNCHANGED vars
  <2>1. UNCHANGED Overflowed
    BY <1>12 DEF vars, Overflowed
  <2>2. QED
    BY <1>12, <1>f, <1>g, <2>1 DEF vars
<1>13. QED
  BY <1>1, <1>2, <1>3, <1>4, <1>5, <1>6, <1>7, <1>8, <1>9, <1>10, <1>11, <1>12
     DEF Next, MainStep, CapturerStep, Pop, Halted

\* An empty ring is an empty queue.
LEMMA InitMaps == Init => Abstract!Init
<1> SUFFICES ASSUME Init PROVE Abstract!Init
  OBVIOUS
<1>1. TypeOK /\ read_index = write_index
  BY InitType DEF Init
<1>2. Queue = << >>
  BY <1>1, QueueIsSequence, EmptySeq
<1>3. Overflowed = FALSE
  BY DEF Init, Overflowed, Threads
<1>4. QED
  BY <1>2, <1>3 DEF Init, Abstract!Init, Queue, Overflowed, NoFrame, Abstract!NoImage

\* A debug build implements the queue that drops its oldest image, for every
\* capacity: the ring buffer and its overflow path lose, duplicate and reorder
\* nothing else, until two calls of pop() overlap.
THEOREM DropOldestCorrect == ASSUME ~NDEBUG PROVE Spec => ImplementsDropOldest
<1>1. Init => Inv /\ EmptyInv
  BY InitInv DEF Init, EmptyInv, Threads
<1>2. Inv /\ EmptyInv /\ [Next]_vars => EmptyInv'
  BY NextEmpty
<1>3. Inv /\ EmptyInv /\ Inv' /\ [Next]_vars => [Abstract!Next]_(Abstract!avars)
  BY StepMaps
<1>4. QED
  BY <1>1, <1>2, <1>3, InitMaps, InvCorrect, PTL DEF Spec, ImplementsDropOldest, Abstract!Spec

-----------------------------------------------------------------------------
(* The Release build.  It has no second push, so that the image a full     *)
(* queue was offered is gone with the oldest one.                          *)

\* The offered image is given up when the overflow path has its oldest image,
\* although the pointer to it lives a little longer.
Offered == IF pc["capturer"] = "delete_oldest" THEN NoFrame ELSE newest

Released == INSTANCE DropOldestQueue WITH
  offered    <- Offered,
  queue      <- Queue,
  overflowed <- Overflowed,
  taken      <- fetched,
  misused    <- overlap

\* An overflow takes the oldest image and the newest.
DropBoth ==
  /\ Overflowed
  /\ Queue # << >>
  /\ Queue' = Tail(Queue)
  /\ Offered' = NoFrame
  /\ Overflowed' = FALSE
  /\ UNCHANGED << captured, fetched >>

\* DropOldestQueue with DropBoth in the place of DropOldest.
ReleasedNext ==
  \/ /\ \/ Released!Offer \/ Released!Accept \/ Released!Overflow
        \/ DropBoth \/ Released!DropNewest \/ Released!Take
     /\ UNCHANGED overlap
  \/ Released!Misuse

\* In the Release build, as long as no two calls of pop() overlap, every step
\* is a step of that queue, or does not show.
LEMMA ReleaseStepMaps ==
  ASSUME NDEBUG, Inv, EmptyInv, Inv', [Next]_vars
  PROVE  [ReleasedNext]_(Released!avars)
<1>a. TypeOK /\ TypeOK' /\ ControlInv /\ ~repush
  BY DEF Inv, ControlInv, TypeOK
<1>b. CASE overlap'
  BY <1>b DEF ReleasedNext, Released!Misuse
<1>c. SUFFICES ASSUME ~overlap' PROVE [ReleasedNext]_(Released!avars)
  BY <1>b
<1>d. ~overlap /\ UNCHANGED overlap
  BY <1>a, <1>c
     DEF Next, MainStep, CapturerStep, Pop, Halted, vars, PopLoadWrite, PopLoadRead,
         PopEmpty, PopCopy, PopStoreMain, PopStoreCapturer, ReleaseImage, Capture,
         PushFull, PushRoom, PushCopy, PushStore, DeleteOldest, DeleteNewest, TypeOK
<1>e. PopInv /\ PushInv /\ NewestInv
  BY <1>d DEF Inv, SoloInv
<1>f. ASSUME UNCHANGED << captured, Offered, Queue, Overflowed, fetched >>
      PROVE  [ReleasedNext]_(Released!avars)
  BY <1>d, <1>f DEF Released!avars
<1>g. ASSUME UNCHANGED << write_index, read_index, slots >> PROVE UNCHANGED Queue
  BY <1>g DEF Queue, Size, Wrap
<1> USE DEF Threads, Goto
<1>1. ASSUME NEW t \in Threads, PopLoadWrite(t) \/ PopLoadRead(t) \/ PopEmpty(t) \/ PopCopy(t)
      PROVE  [ReleasedNext]_(Released!avars)
  <2>1. UNCHANGED Overflowed /\ UNCHANGED Offered
    BY <1>1, <1>a DEF PopLoadWrite, PopLoadRead, PopEmpty, PopCopy, Overflowed, Offered,
                      TypeOK, ControlInv
  <2>2. QED
    BY <1>1, <1>f, <1>g, <2>1 DEF PopLoadWrite, PopLoadRead, PopEmpty, PopCopy
<1>2. CASE ReleaseImage \/ PushRoom
  <2>1. UNCHANGED Overflowed /\ UNCHANGED Offered
    BY <1>2, <1>a DEF ReleaseImage, PushRoom, Overflowed, Offered, TypeOK
  <2>2. QED
    BY <1>2, <1>f, <1>g, <2>1 DEF ReleaseImage, PushRoom
<1>3. CASE PushCopy
  <2>1. UNCHANGED Overflowed /\ UNCHANGED Offered
    BY <1>3, <1>a DEF PushCopy, Overflowed, Offered, TypeOK
  <2>2. UNCHANGED Queue
    BY <1>3, <1>a, CopyInvisible DEF PushCopy
  <2>3. QED
    BY <1>3, <1>f, <2>1, <2>2 DEF PushCopy
<1>4. CASE DeleteOldest
  <2>1. UNCHANGED Overflowed /\ Offered = NoFrame /\ Offered' = NoFrame
    BY <1>4, <1>a DEF DeleteOldest, Overflowed, Offered, TypeOK
  <2>2. QED
    BY <1>4, <1>f, <1>g, <2>1 DEF DeleteOldest
<1>5. CASE Capture
  <2>1. /\ Offered = NoFrame /\ Offered' = captured + 1
        /\ UNCHANGED << Queue, Overflowed >>
    BY <1>5, <1>a, <1>e, <1>g DEF Capture, NewestInv, Overflowed, Offered, TypeOK
  <2>2. Released!Offer
    BY <1>5, <2>1 DEF Capture, Released!Offer, NoFrame, Released!NoImage
  <2>3. QED
    BY <1>d, <2>2 DEF ReleasedNext
<1>6. CASE PushStore
  <2>1. /\ ~QueueFull /\ newest # NoFrame /\ slots[write_index] = newest
        /\ Offered = newest /\ Offered' = NoFrame
    BY <1>6, <1>a, <1>e, <1>d DEF Inv, SoloInv, PushStore, PushInv, NewestInv, Offering,
                      Offered, TypeOK, Frames, NoFrame
  <2>2. Len(Queue) < Capacity /\ Queue' = Append(Queue, Offered)
    BY <1>6, <1>a, <2>1, WriteAppends DEF PushStore
  <2>3. ~Overflowed /\ UNCHANGED Overflowed
    BY <1>6, <1>a DEF PushStore, Overflowed, TypeOK
  <2>4. Released!Accept
    BY <1>6, <2>1, <2>2, <2>3 DEF PushStore, Released!Accept, NoFrame, Released!NoImage
  <2>5. QED
    BY <1>d, <2>4 DEF ReleasedNext
<1>7. CASE PushFull
  <2>1. newest # NoFrame /\ Offered = newest /\ UNCHANGED Offered
    BY <1>7, <1>a, <1>d, <1>e DEF Inv, SoloInv, PushFull, PushInv, NewestInv, Offering,
                      Offered, TypeOK, Frames, NoFrame
  <2>2. Len(Queue) = Capacity /\ UNCHANGED Queue
    BY <1>7, <1>a, <1>g, QueueIsSequence DEF PushFull
  <2>3. ~Overflowed /\ Overflowed'
    BY <1>7, <1>a DEF PushFull, Overflowed, TypeOK
  <2>4. Released!Overflow
    BY <1>7, <2>1, <2>2, <2>3 DEF PushFull, Released!Overflow, NoFrame, Released!NoImage
  <2>5. QED
    BY <1>d, <2>4 DEF ReleasedNext
<1>8. CASE PopStoreCapturer
  <2>1. write_index # read_index /\ seen_read["capturer"] = read_index
    BY <1>8, <1>e DEF PopStoreCapturer, PopInv
  <2>2. Queue # << >> /\ Queue' = Tail(Queue)
    BY <1>8, <1>a, <2>1, ReadTakesHead DEF PopStoreCapturer
  <2>3. Overflowed /\ Overflowed' = FALSE /\ Offered' = NoFrame
    BY <1>8, <1>a DEF PopStoreCapturer, Overflowed, Offered, TypeOK
  <2>4. DropBoth
    BY <1>8, <2>2, <2>3 DEF PopStoreCapturer, DropBoth
  <2>5. QED
    BY <1>d, <2>4 DEF ReleasedNext
<1>9. CASE PopStoreMain
  <2>1. /\ write_index # read_index /\ seen_read["main"] = read_index
        /\ popped["main"] = slots[read_index]
    BY <1>9, <1>e DEF PopStoreMain, PopInv
  <2>2. Queue # << >> /\ Head(Queue) = popped["main"] /\ Queue' = Tail(Queue)
    BY <1>9, <1>a, <2>1, ReadTakesHead DEF PopStoreMain
  <2>3. UNCHANGED Overflowed /\ UNCHANGED Offered
    BY <1>9, <1>a DEF PopStoreMain, Overflowed, Offered, TypeOK
  <2>4. Released!Take
    BY <1>9, <2>2, <2>3 DEF PopStoreMain, Released!Take
  <2>5. QED
    BY <1>d, <2>4 DEF ReleasedNext
<1>10. CASE DeleteNewest
  <2>1. Size = 0 /\ UNCHANGED Queue
    BY <1>10, <1>a, <1>d, <1>g, QueueIsSequence DEF DeleteNewest, EmptyInv
  <2>2. Queue = << >>
    BY <1>a, <2>1, QueueIsSequence, EmptySeq
  <2>3. Overflowed /\ Overflowed' = FALSE /\ Offered' = NoFrame
    BY <1>10, <1>a DEF DeleteNewest, Overflowed, Offered, TypeOK
  <2>4. Released!DropNewest
    BY <1>10, <2>1, <2>2, <2>3
       DEF DeleteNewest, Released!DropNewest, NoFrame, Released!NoImage
  <2>5. QED
    BY <1>d, <2>4 DEF ReleasedNext
<1>11. CASE UNCHANGED vars
  <2>1. UNCHANGED Overflowed /\ UNCHANGED Offered
    BY <1>11 DEF vars, Overflowed, Offered
  <2>2. QED
    BY <1>11, <1>f, <1>g, <2>1 DEF vars
<1>12. QED
  BY <1>1, <1>2, <1>3, <1>4, <1>5, <1>6, <1>7, <1>8, <1>9, <1>10, <1>11
     DEF Next, MainStep, CapturerStep, Pop, Halted

\* What the Release build is, for every capacity, until two calls of pop()
\* overlap: a queue that loses its oldest image and the newest at an overflow,
\* and otherwise loses, duplicates and reorders nothing.
THEOREM ReleaseCorrect ==
  ASSUME NDEBUG PROVE Spec => Released!Init /\ [][ReleasedNext]_(Released!avars)
<1>1. Init => Inv /\ EmptyInv /\ Released!Init
  <2>1. Init => Abstract!Init /\ pc["capturer"] = "capture"
    BY InitMaps DEF Init, Threads
  <2>2. Abstract!Init /\ pc["capturer"] = "capture" => Released!Init
    BY DEF Abstract!Init, Released!Init, Queue, Overflowed, Offered, Abstract!NoImage,
           Released!NoImage
  <2>3. QED
    BY <2>1, <2>2, InitInv DEF Init, EmptyInv, Threads
<1>2. Inv /\ EmptyInv /\ [Next]_vars => EmptyInv'
  BY NextEmpty
<1>3. Inv /\ EmptyInv /\ Inv' /\ [Next]_vars => [ReleasedNext]_(Released!avars)
  BY ReleaseStepMaps
<1>4. QED
  BY <1>1, <1>2, <1>3, InvCorrect, PTL DEF Spec
=============================================================================
