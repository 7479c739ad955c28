# A verification project for pingpong_tracker_v2

pingpong_tracker_v2 reads images from a camera or a video file, finds the table
tennis balls in them with a neural network, paints them and streams the result.
This directory holds TLA+ modules that model the program, configurations that
model-check them with TLC, and proofs that TLAPS checks. Paths below are relative
to the repository; its C++ sources are in `src/`.

## 1. The system

### Components

| component | state | operations | hard part |
|---|---|---|---|
| capture queue (`kernel/capturer.cpp`) | a `boost::lockfree::spsc_queue` of 10 raw `Image*` | `fetch_image` in the main thread; `success_callback` in the capturer thread: push, and on overflow pop, push again, delete | two threads pop from a queue that allows one consumer; the second push is inside an `assert` |
| capturer thread (`kernel/capturer.cpp`) | the interface, `capture_failed_limit`, `error_limit`, a stop token, `running` | `initialize`, `runtime_task` (`failed_callback`, `reconnect`), `~Impl` | a stop at any point; counters that span outages |
| times limit (`utility/times_limit.hpp`) | `count`, `limit`, `stop` | `tick`, `enable`, `disable`, `reset` | used with subtly different protocols by its two users |
| local video (`module/capturer/local_video.cpp`) | `config`, the `cv::VideoCapture`, `interval_duration`, `last_read_time` | `configure`, `connect`, `connected`, `disconnect`, `wait_image` | pacing across lateness, rewinds and reopenings; a configuration that is stored only on success |
| hikcamera | a driver outside the repository | the same interface | external |
| OpenVinoNet (`module/identifier/model.cpp`, `model.hpp`) | `config`, the compiled model, requests in flight, the result of each `AsyncResult` | `configure`, `sync_infer`, `async_infer` and its callback, `co_await await_infer` | callbacks on other threads against destruction; cycles of ownership; rounding; exceptions in `noexcept` functions |
| stream session (`module/debug/visualization`) | the context with its video writer, a queue of 100 frames, a `jthread` | `open`, `push_frame`, the streaming thread, the destructor | reopening and destroying while the thread streams |
| visualization (`kernel/visualization.cpp`) | `is_initialized`, `size_determined`, the format, the session | `initialize`, `send_image` | several steps that may fail, and are repeated at the next image; the choice of the address to announce |
| action throttler, framerate counter (`module/debug`) | one metronome, a limit for each tag | `register_action`, `dispatch`, `reset`; `tick`, `fps` | one metronome for all tags |
| configuration of structures (`utility/serializable.hpp`) | the structure that is filled | `serialize` | fields stored before a later one fails |
| Kalman filter (`utility/math/kalmanfilter/ekf.hpp`) | `x`, `P_` | `predict`, `update` | expressions that are evaluated late; a covariance that must stay one. Nothing in the program uses it yet |
| main loop (`runtime.cpp`) | the objects above | initialization in order, the loop, `panic`, destruction in reverse order | the client of everything |
| others: wrappers of the identifier, network information, loading of the configuration file, panic, drawing, workers context, points | see `PROJECT.json` | | part of the main loop's model, or not modelled (section 7) |

### Interactions

The process has a main thread, a capturer thread and, when images are sent, a streaming
thread; `async_infer` adds threads of OpenVINO. The capturer thread calls the interface
(connect, wait, disconnect) and pushes images into the capture queue; the main thread pops
them, has them identified, dispatches a report to the throttler, and hands them to the
visualization, which opens a session and pushes frames into its queue; the streaming
thread pops them and writes them. A frame in that queue shares its pixels with the image
of the main thread, which draws into them. Shared between threads are the two queues,
these pixels, `util::get_running()`, the stop tokens, and the objects whose lifetime a
join or a weak pointer protects.

### What makes each component correct

- *Capture queue*: an image has one owner at any time and is deleted once; none is
  lost; a full queue drops its oldest image; `fetch_image` returns images in order.
- *Capturer thread*: it never outlives its interface; it stops promptly; it
  disconnects after a defined number of failures and then connects again for ever; it
  reports every outage but not every attempt.
- *Local video*: timestamps are spaced, do not drift, do not lie in the future; it is
  one of the devices the thread was written for; a file that comes back is opened.
- *OpenVinoNet*: an answer for each request, exactly one, unless the network is gone;
  the Impl lives as long as its callbacks; a configuration that succeeded is usable;
  balls come back where they were; reads stay in the tensor; a coroutine is resumed with
  the outcome of its own request.
- *Stream session, visualization*: the thread's context and queue live as long as the
  thread; a frame goes to the session it was sent for, in order; what is sent has been
  announced, with its codec and an address the receiver can reach, and has the size the
  pipeline was opened with.
- *Main loop*: nobody paints an image that is being sent; the images that are not deleted
  at the end are those that were still queued; the program ends once it is told to.
- *Kalman filter*: it is the least-squares estimate as long as there is no process noise,
  and no update makes it less certain.
- *Throttler*: one action per interval, at most a quota of each tag between resets,
  and everything that lasts is reported.

`PROJECT.json` lists under "hazards" what is hard to test in this code, each at its
line, with the properties that watch it.

## 2. The modules

| module | models | kind |
|---|---|---|
| `CaptureQueue` | the queue between the two threads, at the granularity of the shared accesses of the ring buffer | component |
| `DropOldestQueue` | what that queue promises | abstract specification |
| `CaptureQueueProofs` | theorems about `CaptureQueue` | proofs |
| `TimesLimit` | `util::TimesLimit` as operators on a record | data type |
| `Capturer` | the capturer thread and its life, with an arbitrary device | component |
| `CapturerProofs` | theorems about `Capturer` | proofs |
| `LocalVideo` | the state and the operations of the video source | component, without a `Next` |
| `VideoCapturer` | `Capturer` joined to `LocalVideo` | composition |
| `VideoCapturerProofs` | theorems about `VideoCapturer` | proofs |
| `StreamSession` | the session and its thread, with an arbitrary client | component |
| `Visualization` | the client that the program has for the session, and its choice of an address | composition, without a `Next` |
| `Runtime` | `main()`: `Capturer`, `DropOldestQueue`, `Visualization` and the main thread | composition |
| `RuntimeProofs` | theorems about `StreamSession` and `Runtime` | proofs |
| `OpenVinoNet` | configuration, requests and callbacks of the network | component |
| `NetworkOwner` | the owner of the network: `OpenVinoNet` joined to `Serializable`, with coroutines as callers | composition |
| `NetworkOwnerProofs` | theorems about `OpenVinoNet` and `NetworkOwner` | proofs |
| `Inference` | the way of a ball through the network: coordinates and the addressing of the output | algorithm |
| `InferenceProofs` | theorems about `Inference` | proofs |
| `Serializable` | reading a structure from a YAML node | component |
| `FramerateCounter` | `FramerateCounter` as operators on a record | data type |
| `ActionThrottler` | the state and the operations of the throttler | component, without a `Next` |
| `DetectBalls` | the throttler and its client, the reports of the main loop | composition |
| `DetectBallsProofs` | theorems about the throttler and its client | proofs |
| `Kalman` | `EKF` in exact arithmetic, next to an information filter | algorithm |
| `KalmanProofs` | theorems about `Kalman` | proofs |

An `MC...` module extends each module that a run checks; the `.cfg` files give the
constants. `OpenVinoNet` and `Serializable` are checked as parts of `NetworkOwner`,
`Visualization` as a part of `Runtime`.

A variable has the name of the member or local variable it stands for. A variable
whose comment says *history* is not in the code: it records what a property needs.
An operator under a comment that begins with *Defect* is not in the specification
either. It is the form that a definition would have if the code had the defect that
the comment names; putting it in the place of the definition that follows it makes
TLC find one of the properties violated. `PROJECT.json` lists these pairs under
"mutants", so that every property is known to be able to fail.

### Capture queue

`push()` and `pop()` of boost's `spsc_queue` are split where they access memory the
other thread also accesses: `pop()` loads the write index (`PopLoadWrite`), loads the
read index (`PopLoadRead`, or `PopEmpty`), copies the slot (`PopCopy`) and stores the
read index (`PopStoreMain`, `PopStoreCapturer`); `push()` compares (`PushRoom`,
`PushFull`), copies (`PushCopy`) and stores the write index (`PushStore`). `pc` says
where each thread is. The constant `NDEBUG` chooses the build: with it the overflow
path has no second push. A raw pointer is the number of its image, `live` the images
that exist, and `crashed` says that an assertion failed or a deleted image was used.

The queue allows one consumer and has two. What the design can promise it promises
as long as no two calls of `pop()` have overlapped; the history variable `overlap`
says whether they have, and most properties are conditional on it. The unconditional
claims that the code's comments make are checked too, in runs that are expected to
find a violation (section 5).

`DropOldestQueue` is the promise: a bounded queue of which a new image displaces the
oldest. `CaptureQueue` implements it; the refinement mapping takes the slots from the
read index up to the write index for the queue, "the capturer is in its overflow path,
before the pop took effect" for `overflowed`, and `overlap` for `misused`: once two
consumers have used the queue at the same time it promises nothing (`Misuse`).

### Capturer thread and local video

`Capturer` has one action for each step of `runtime_task` between two points where
the other thread or the device may interfere; the operators `ConnectSucceeds`,
`ImageFails` and so on are the thread's side of a call of the interface, and
`Connect`, `WaitImage`, `Disconnect` add what an arbitrary device may do. `VideoCapturer`
joins the same thread steps to the operations of `LocalVideo` instead, and is shown
to implement `Capturer` with `connected <- Connected`, so that what was proved of the
thread with any device holds with this one.

Time in `LocalVideo` is an integer clock. A sleep ends at any moment not before its
deadline, so that every lateness occurs. The file may appear, break and disappear.
`loop_play` and `allow_skipping` are chosen by `Init`, so that one run covers them all.

### Stream session and visualization

`initialize()` is split into the stop request, the join, the replacement of queue
and context, and the opening of the pipeline, because the thread runs meanwhile. The
queue itself is a sequence: it has one producer and, as `ContextOutlivesThread` shows
(the caller only empties the queue when there is no thread), one consumer at a time,
which is what boost asks for. Contexts and frames are numbered,
so that a property can say which frame belongs to which context.

`Visualization` is that client: `SendOpens`, `SendWaits` and `SendDescribes` are the three
steps of the first images, `SendPushes` what remains of `send_image` once they have
succeeded. Images have a size and may be empty. An IPv4 address is a short tuple of bits
and a netmask the set of positions it compares; the list of interfaces that `getifaddrs`
finds is another one at each attempt, so that an interface may appear or vanish between
two images. A pipeline and a description are records of what their texts say: codec,
payload type, size, address.

### The program

`Runtime` follows `main()` with a program counter, `step`. It composes `Capturer`, whose
part of the main thread it computes from `step` (`Life`), with `DropOldestQueue`, which
`CaptureQueue` implements as long as two pops do not overlap, and with `Visualization`.
`live` is the set of images that exist. `Configure` reads the two switches; every
component may fail to initialize, and `Terminate` is what `panic` does to the process,
with the capturer thread already running in most cases. The model has the build with
assertions: the Release build also loses an image at each overflow, which `CaptureQueue`
shows. `running` is cleared by `Outside`, for which the repository has a function and no
caller: what is checked is what the code would do then.

### OpenVinoNet

`stage` follows each request from `async_infer` to the end of its callback. `self` holds
the requests whose callback has locked the weak pointer, `cyclic` those whose own
callback holds them. `ended` records an exception that leaves a `noexcept` function.
A configuration is abstracted to the input shape, the part of it that must agree with
the compiled model.

In `OpenVinoNet`, `configure` is one step and an answer another. `NetworkOwner` refines
both: the shape is a sequence of fields that `Serializable` reads one at a time, with the
callbacks of requests between them, and the caller is a coroutine, which `await_suspend`
suspends before it calls `async_infer` and which the callback resumes after it has stored
the result. The refinement (`ImplementsNet`) needs no mapping: the variables of
`OpenVinoNet` are variables of `NetworkOwner`, and a field that is read is a `configure`
that was rejected so far.

`Inference` takes the arithmetic out of the same file. Its `Init` enumerates images with
a ball in them; its actions are the functions the image passes through, with the
network in between. The network is external: it reports the ball exactly where it is
in its input, at one anchor, in a tensor of either order of dimensions;
`parse_inference_output` guesses the order. Floats are the rationals they stand for;
where the exact value is an integer, the conversion to `int` may give one less. So a size
of exactly one pixel may become zero, and `cv::resize` throws out of a `noexcept` function:
for images as elongated as `FitsInside` says, and for any image if the input is a single
pixel wide or high, as the proof has shown.

### Throttler

`ActionThrottler` has the operations, `DetectBalls` the program's client with the tags and
quotas of `main()`. A point in time is its age, and ages above every constant are the
same, so that time can pass for ever in a finite model. `Recent` drops the front of the
times while it is too old, as the loop of `tick()` does; `within`, a history, counts the
dispatches within each age, so that `fps()` has something to be compared with.

### Kalman filter

`Kalman` is `EKF` of two states and one observation with linear functions, in exact
arithmetic: a vector or a matrix is an integer one over a denominator, and what is stored in
`x` and `P_` is divided by a common divisor, so that nothing is rounded. `lambda` and `eta` are
history: the information matrix and vector, which an update increases by the measurement and
a prediction transforms. `steady` chooses the operator that subtracts: the default one returns
an expression of Eigen that refers to `h(x)`, a temporary that is gone when the expression is
evaluated, so that the residual is any value.

The inputs are integers, which the choice of the units of states and measurements allows
for rational ones. The variance `R` is `Unit / p`: `Unit` is the numerator that all `R` and the
first information have in common. The assumptions are those a Kalman filter is built on: `Q`
and the first `P_` are symmetric and positive semidefinite and `R` is positive. The first `P_` of
the constructor with arguments and every `F` moreover have an inverse, because otherwise there
is no information filter to be compared with; that of `F` is an integer matrix, too, as for a
position and a velocity. The constructor without arguments, whose `P_` is zero, and
predictions with noise need no inverse, and what is said of the covariance holds for them too.

## 3. The runs

| run | instance | what it shows |
|---|---|---|
| `CaptureQueue` | a queue of 3 images, 8 images in all, with assertions | ownership, no loss, order, the assertions; implements `DropOldestQueue` |
| `Capturer` | both limits 3, as in the code | when the thread disconnects, what it reports, how it stops; that it keeps trying |
| `VideoCapturer` | 2 frames, interval 2, clock up to 6, both limits 1, every `loop_play` and `allow_skipping` | timestamps; implements `Capturer`; a configured file is reopened |
| `StreamSession` | 2 frames fit, 4 frames, 3 openings, any client | lifetime of context and queue, order and destination of frames, return of calls |
| `Runtime` | queues of 1, 3 images of which two differ in size and one is empty, 2 interfaces that come and go, 2 hosts, limits 0 | which images leak, what is announced and sent, that painting does not race, that the program ends |
| `NetworkOwner` | 2 fields of 2 values, 2 calls of `configure`, 3 requests | lifetime, answers, usable configurations, what a failed read leaves, what a coroutine receives; implements `OpenVinoNet` |
| `Inference` | an input of 10 by 8, images up to 13 by 13, 5 or 6 channels, up to 9 anchors | a ball comes back where it was; only strips end the process |
| `DetectBalls` | the tags and quotas of the code, a second of 2 ticks | quotas, spacing, rate, and that lasting outcomes are reported |
| `Kalman` | position and velocity, 4 steps, 2 sensors, 2 precisions, 2 readings, with and without process noise | equality with the information filter, a covariance that shrinks |

The three runs that are expected to find a violation are described in section 5.

*Bounds.* `MaxFrames` lets the ring of `CaptureQueue` wrap around twice and overflow
repeatedly; the theorems hold for all values. The limits of `Capturer` are those of the
code; its history counters stop one past what the properties allow. Three openings of a
session give every pair of an old and a new one, with an old one before them; four frames
overfill a queue of two. In `Runtime` both queues hold one element, so that each
overflows, and every limit is 0, so that a failure at once disconnects: the protocols
behind these bounds have runs of their own, with larger instances. Three images are one
for each attempt to open the session and to describe it, and one that is sent afterwards;
`MaxOpens` is at least the number of images, so that `send_image` never waits for the
bound. Two interfaces, of which only the second is in the target's subnet, make the wrong
choice possible. Three requests of `NetworkOwner` can be in different stages when a
configuration changes or the network goes. Four steps of `Kalman` are every order of two
predictions and two updates, and the numbers grow with each step; `Unit` is 2, so that the
first `P_` is no matrix whose inverse has integers only. `MaxTime` of the video
covers two rewinds or one reopening with frames before and after. The clock stops there,
also for the liveness property `ReopensConfigured`; a thread that then waits for a frame
waits for ever, but it does so with the file open, which is what the property asks for.
The images of `Inference` include those that are scaled up, scaled down, of the input's
aspect ratio and of more extreme ones, up to strips that cannot be resized; the sizes of
its output those with fewer anchors than channels, which the code guesses wrongly.
`MaxRate` bounds the dispatches in a second, which stands for the time that the
identification of an image takes.

*Fairness.* Weak fairness of each thread: the scheduler of the operating system runs a
thread that can run. `FairSpec` of `Capturer` moreover assumes that every call of the
interface returns, `StreamSession` that a write returns, `NetworkOwner` that OpenVINO
finishes what it has started, `Runtime` each of the first two: the code relies on each of
these without a timeout. Time passes in `VideoCapturer` and `DetectBalls`. No strong
fairness is used. Nothing obliges a client to call, and nothing obliges anyone to clear
`running`: `ProgramEnds` says what follows if somebody does.

Deadlock is checked in every run. States in which a process or a bound has ended have an
explicit stuttering action.

## 4. The proofs

`CaptureQueueProofs` holds for all capacities, numbers of images and both builds.
`TypeCorrect` is inductive as it stands. The other theorems rest on the invariant `Inv`,
which says, as long as no two pops have overlapped: at which distance from the read
index each thread's copies of the indices lie; that the occupied slots hold images
in increasing order, all of them newer than the last fetched and older than the
newest; what a thread that is past its copy holds; and who owns each live image.
`ExclusiveOwnership` alone is not inductive, because the step that makes a
pop effective must know that the slot it copied is still the oldest one, and the step
that publishes a slot that nobody reads it any more. From `Inv` follow
`OwnershipCorrect` (which includes that the push after the pop finds room, so that its
assertion holds), `DebugLosesNothing` (for the build with assertions; without them the
property is false) and `OrderCorrect`.

`CapturerProofs` holds for all limits and every device. `Inv` ties the two counters to the
history of failures and reports and the late calls to the program counter:
`DisconnectsAtLimit` needs that the counter is never past its limit outside of
`failed_callback`, `OutagesReported` that the switch is off exactly when the counter is past
its limit, `StopsPromptly` at which points of the loop a call may already have been late.

`NetworkOwnerProofs` holds for all shapes, fields and numbers of requests. Its first part is
about `OpenVinoNet`: the invariant says that the requests whose callback is between its
lock and its return are those that hold the Impl, how often each request was answered at
each stage, and which requests hold themselves. Its second part proves the refinement,
`NetCorrect`: every step of the network with its owner and its coroutines is a step of
`OpenVinoNet` or none. The invariant `NInv` says what makes that true: `configure()` runs on
one thread at a time, the network exists and is not ready while it runs, and a coroutine
is resumed before its callback returns. The theorems about `OpenVinoNet` carry over
(`OwnedCorrect`, `AwaitedCorrect`, `ConfiguredCorrect`); what a failed read leaves
(`PrefixCorrect`) and what a coroutine receives (`ResumedCorrect`) are new.

The second half of `CaptureQueueProofs` is the refinement of `DropOldestQueue`. The slots
from the read index up to the write index are a sequence (`QueueIsSequence`); advancing
the read index takes its head (`ReadTakesHead`), advancing the write index appends to it
(`WriteAppends`), and writing the free slot does not show (`CopyInvisible`). Besides `Inv`
the proof needs what the overflow path knows when it finds nothing to drop (`EmptyInv`).
`DropOldestCorrect` is stated for the build with assertions. Without them the refinement
does not hold, and TLC shows it: the newest image vanishes at an overflow, which is what
the run `CaptureQueue_leak` is about. `ReleaseCorrect` says what the Release build is instead:
the same queue with `DropBoth` in the place of `DropOldest`, so that an overflow costs the
oldest image and the newest, and nothing else is ever lost, duplicated or reordered.

`VideoCapturerProofs` holds for videos of every length, every interval and every behavior of
the file. The invariant `StampsInv` says where the thread can be while the video is open or
closed (`PlaceInv`), that an open video has the interval of its rate (`ClockInv`), and that a
sleeping `wait_image()` will stamp its frame at least an interval after the last one
(`StampInv`). `StampsCorrect` and the refinement `CapturerCorrect` follow from it,
`DriftCorrect` with a second invariant, `DriftInv`. `ThreadCorrect` instantiates
`CapturerProofs` with `connected <- Connected` and so carries the four invariants of `Capturer` over to the thread with a video.

The first part of `RuntimeProofs` is about `StreamSession` with any client and holds for all
capacities and numbers of frames and openings. The invariant `Inv` says what a running thread
implies of the call in progress: `open` may only have asked it to stop, so that context and
sender are those it was started with; and that every frame in the queue, or in the thread's
hands while it writes, was sent for the present context, in increasing order, and newer than
what was written.

The second part is about the program and holds for all capacities, images, hosts and networks.
The session inside it keeps the invariant of the first part, because `Visualization` is one
of the arbitrary clients of `StreamSession` (`SessionCorrect`). The rest of `RInv` follows an image:
the main thread's image is older than all that wait and newer than the last one pushed
(`ImageInv`), the one handed over is the newest (`OfferInv`), the images alive are the waiting
ones, that one and the one in hand (`LiveInv`), what `send_image()` has established before
each of its steps (`SendInv`), and which frame will be written first (`FirstInv`). The
five properties of the run follow; `PaintedCorrect` needs that frames are numbered in the
order in which they are pushed, so that a queued frame cannot be the one in hand.
`CapturerInProgram` carries the invariants of `Capturer` over once more, up to the moment at
which `panic` ends the process. Three refinements say the same of whole behaviors: every step
of the program is a step of `StreamSession` (`SessionInProgram`), of `DropOldestQueue`
(`QueueInProgram`) and of `Capturer` (`ThreadInProgram`) or leaves their variables alone, but for
`Terminate`, with which the threads of the first and the last vanish.

`InferenceProofs` holds for all sizes of image, ball, input and output. The lemmas are about
arithmetic: what a conversion to `int` loses (`TruncatedBounds`, `FloatBounds`), that two
values of the output never share a cell (`RowsApart`, `CellsApart`), and how the errors of
four conversions add up (`CenterNear`, `SideBounds`). The invariant `SInv` says of each stage
what it was computed from. The proof of `FitsCorrect` failed at first, for an input of one
row: TLC confirmed the counterexample, an image of 1 by 2, and the property now names the
case.

`DetectBallsProofs` holds for every interval, rate and unit of time, and its lemmas for all
tags and quotas. `QuotaInv` ties the counter of a limit to the executions since its reset
(once the limit is off its own count is one too high), `BeatInv` the metronome to the
last action, `FpsInv` the position of each time the counter keeps to the number of
dispatches that are not older.

`KalmanProofs` holds for all motions, noises, sensors, precisions, readings and first estimates
that the assumptions of section 2 admit, and for any number of steps. The inductive invariant
`Inv` says that the denominators are positive, that `P_` is a covariance, and, while there was
information and no process noise, that `P_` is the inverse of the information on both sides
and that `x` solves the normal equations. That `P_` is a covariance is needed first: it makes
the innovation covariance positive (`GainForm`, by `QuadraticForm`, which completes a square), so
that `update()` neither refuses nor divides by zero (`NeverRefuses`). With that gain the Joseph
form is `P_ - K H P_` (`JosephForm`); it is a covariance again (`PosteriorCovariance`), it is the
inverse of the information with the measurement added (`PosteriorInverse`), and the new
estimate solves the new equations (`PosteriorEstimate`). What an update takes from `P_` is a
multiple of the square of one vector, so no direction becomes more uncertain
(`UpdatedShrinks`). A prediction is a congruence (`CovarianceAround`, `MovedInverse`). A fraction
is reduced by a positive divisor of all its parts, if at all (`LowestMatrixEqual`), so that
equations survive it; the proof does not need that the divisor is the greatest one. `Kalman` had rational numbers in lowest
terms by a recursive operator at first, about which nothing can be proved here, and was
rewritten over a common denominator for these proofs.

`Capturer.TypeOK` and `OpenVinoNet.TypeOK` are proved and belong to no run any more.

The assumptions are the named `ASSUME`s of the modules: sizes, limits and times are natural
numbers, the build flag is Boolean, the tags are those of `main()`, and for `Kalman` what
section 2 says. TLC evaluates them in every run. Every inductive invariant was model-checked
before it was proved.

What stays with TLC, and why:

- the liveness properties `KeepsTrying`, `ReopensConfigured`, `CallsReturn`, `ProgramEnds`,
  `RequestsAnswered` and `LastingOutcomeReported`: TLAPS does not reason about `ENABLED`, and
  so not about fairness, here;
- `NothingLost` and `ImplementsDropOldest` of the Release build, and the three properties of
  section 5, which are false.

## 5. What the code does not do

Three runs state what a comment says, and TLC shows a behavior of the code that does
otherwise.

- `CaptureQueue_leak`: "drop the oldest one or else delete the newest one". In the Release
  build, the default, the second push is compiled out with the `assert` around it: every
  overflow deletes the oldest image and loses the newest.
- `CaptureQueue_race`: "returns immediately with either a valid image or nullptr". When the two
  pops overlap, `fetch_image` can return an image that the overflow path deletes.
- `VideoCapturer_retry`: "retry soon". A file that is missing when the program starts is never
  opened: the retries use a configuration that was never stored.

One more comment promises what the code cannot keep, without a run of its own:
`ekf.hpp:126` says that the residual is `z - h(x)`. With the default `z_sub_op` the type
of `y` (line 127) is an expression that refers to the temporary `h(x)`, and it is read in
line 144, after the temporary is gone; an operator that returns a `ZVec` is what the
filter needs. `MatchesInformationFilter` claims the state for such an operator only, and
the covariance for both. Nothing in the program calls `update` yet.

What `Runtime` shows of the visualization is not a contradiction of any text, but worth
knowing: with the default `monitor_host`, "localhost", which `inet_pton` does not accept,
the session is opened and torn down again for every image and nothing is ever sent.

## 6. Plan

The threads and queues, their clients, the network, the algorithms and the composition of the
whole program are modelled, and every invariant and every action property that a run checks
and finds true is a theorem. The program is shown to refine the modules that describe its
parts. What is left, in order of importance:

1. `Runtime` with the ring of `CaptureQueue` in the place of `DropOldestQueue`, so that the
   consequences of two overlapping pops for the rest of the program can be seen;
2. fractions as information in `Kalman`, for motions whose inverse is no integer matrix, and
   more states and observations than two and one.

## 7. What is not modelled

The driver of the camera, OpenCV, OpenVINO, GStreamer, boost, Eigen and YAML are external:
the modules assume of them only what the code relies on; `hikcamera` wraps a driver whose
submodule is not in the repository, and is one of the devices that `Capturer` allows.
Memory is sequentially consistent; reorderings that the acquire and release operations of
the queues would permit beyond that are not explored. The workers context has no worker
and no user; points, the sigmoid and the records of balls and results are floating-point
arithmetic without state. The rounding of doubles, non-linear functions and dimensions other
than two and one are left out of `Kalman`. The notifier of the session, which the program never sets, the loss counter of
the capturer, the text that `panic` prints, formatting and logging are left out, except
where a property counts reports.
