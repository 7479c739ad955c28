---------------------------- MODULE OpenVinoNet ----------------------------
(***************************************************************************)
(* identifier::OpenVinoNet (src/module/identifier/model.cpp): a network    *)
(* that is configured, then infers the balls in an image, synchronously or *)
(* asynchronously.  An asynchronous request holds a callback that holds    *)
(* the request and a weak pointer to the network's Impl; OpenVINO runs it  *)
(* on a thread of its own when the inference is over.  The network may be  *)
(* configured again or destroyed while requests are running.               *)
(*                                                                         *)
(* OpenVINO is external: it compiles a model or not, and finishes every    *)
(* inference it has started, with an output or with an exception.  Every   *)
(* operation is noexcept: an exception that leaves it ends the process.    *)
(***************************************************************************)
EXTENDS Integers

CONSTANTS
  Shapes,      \* pairs of input_rows and input_cols
  NoModel,     \* openvino_model before it has been compiled
  MaxRequests  \* bound: calls of async_infer

ASSUME NetAssumption ==
  Shapes # {} /\ NoModel \notin Shapes /\ MaxRequests \in Nat

VARIABLES
  handle,   \* the owner of the OpenVinoNet holds its pimpl_
  config,   \* the input shape in config
  model,    \* the input shape openvino_model was compiled for, or NoModel
  ready,    \* history: the last configure() succeeded
  stage,    \* how far each request is
  self,     \* the requests whose running callback has locked weak_self
  cyclic,   \* the requests that are kept alive by their own callback
  answers,  \* history: how often the caller's callback was called
  ended     \* "no", or why std::terminate was called

vars == << handle, config, model, ready, stage, self, cyclic, answers, ended >>

Requests == 1 .. MaxRequests

\* The Impl exists: a shared pointer to it does.
Alive == handle \/ self # {}

Init ==
  /\ handle = TRUE
  /\ config \in Shapes
  /\ model = NoModel
  /\ ready = FALSE
  /\ stage = [r \in Requests |-> "unused"]
  /\ self = {}
  /\ cyclic = {}
  /\ answers = [r \in Requests |-> 0]
  /\ ended = "no"

-----------------------------------------------------------------------------
(* configure().                                                            *)

\* A field is missing or of another type: those before it are stored.
ConfigureRejected ==
  /\ handle
  /\ config' \in Shapes
  /\ ready' = FALSE
  /\ UNCHANGED << handle, model, stage, self, cyclic, answers, ended >>

\* The model cannot be read or compiled: the old one stays, the new
\* configuration too.
ConfigureCannotCompile ==
  /\ handle
  /\ config' \in Shapes
  /\ ready' = FALSE
  /\ UNCHANGED << handle, model, stage, self, cyclic, answers, ended >>

\* The model for a configuration.  Defect: one that is in use is not replaced.
CompiledOnce(shape) == IF model = NoModel THEN shape ELSE model

Compiled(shape) == shape

ConfigureCompiles ==
  /\ handle
  /\ config' \in Shapes
  /\ model' = Compiled(config')
  /\ ready' = TRUE
  /\ UNCHANGED << handle, stage, self, cyclic, answers, ended >>

-----------------------------------------------------------------------------
(* sync_infer() and async_infer().                                         *)

\* generate_openvino_request gets its tensor into a request of the model.
Accepts == model # NoModel /\ model = config

\* There is no model, or the tensor has another shape than its input.
RequestThrows ==
  /\ handle
  /\ ~Accepts
  /\ ended' = "request"
  /\ UNCHANGED << handle, config, model, ready, stage, self, cyclic, answers >>

\* request.infer() throws.
InferThrows ==
  /\ handle
  /\ Accepts
  /\ ended' = "infer"
  /\ UNCHANGED << handle, config, model, ready, stage, self, cyclic, answers >>

\* The image is empty: the callback is called at once, with an error.
AsyncInferRefused(r) ==
  /\ handle
  /\ stage[r] = "unused"
  /\ stage' = [stage EXCEPT ![r] = "over"]
  /\ answers' = [answers EXCEPT ![r] = @ + 1]
  /\ UNCHANGED << handle, config, model, ready, self, cyclic, ended >>

AsyncInfer(r) ==
  /\ handle
  /\ stage[r] = "unused"
  /\ Accepts
  /\ stage' = [stage EXCEPT ![r] = "running"]
  /\ cyclic' = cyclic \union {r}
  /\ UNCHANGED << handle, config, model, ready, self, answers, ended >>

-----------------------------------------------------------------------------
(* The callback of a request, on a thread of OpenVINO.                     *)

\* Defect: the callback uses the Impl without owning it.
Borrowed(r) == self

Owned(r) == self \union {r}

Lock(r) ==
  /\ stage[r] = "running"
  /\ Alive
  /\ stage' = [stage EXCEPT ![r] = "locked"]
  /\ self' = Owned(r)
  /\ UNCHANGED << handle, config, model, ready, cyclic, answers, ended >>

\* "Lifecycle expired, do not execute callback logic".
LockFails(r) ==
  /\ stage[r] = "running"
  /\ ~Alive
  /\ stage' = [stage EXCEPT ![r] = "over"]
  /\ UNCHANGED << handle, config, model, ready, self, cyclic, answers, ended >>

\* The output is parsed, filtered and restored with the Impl's config.
Explain(r) ==
  /\ stage[r] = "locked"
  /\ stage' = [stage EXCEPT ![r] = "explained"]
  /\ UNCHANGED << handle, config, model, ready, self, cyclic, answers, ended >>

\* How often a request is answered.  Defect: one that has failed is not.
Succeeded(r) == IF stage[r] = "explained" THEN 1 ELSE 0

Once(r) == 1

\* The caller's callback gets the output, or the exception at once.
Answer(r) ==
  /\ stage[r] \in {"locked", "explained"}
  /\ stage' = [stage EXCEPT ![r] = "answered"]
  /\ answers' = [answers EXCEPT ![r] = @ + Once(r)]
  /\ UNCHANGED << handle, config, model, ready, self, cyclic, ended >>

\* Defect: the request keeps its callback.
Kept(r) == cyclic

Freed(r) == cyclic \ {r}

\* An empty callback replaces this one, which then goes, with its pointers.
Return(r) ==
  /\ stage[r] = "answered"
  /\ stage' = [stage EXCEPT ![r] = "over"]
  /\ cyclic' = Freed(r)
  /\ self' = self \ {r}
  /\ UNCHANGED << handle, config, model, ready, answers, ended >>

-----------------------------------------------------------------------------
\* The owner destroys the OpenVinoNet, or moves it away.
Destroy ==
  /\ handle
  /\ handle' = FALSE
  /\ UNCHANGED << config, model, ready, stage, self, cyclic, answers, ended >>

Configure == ConfigureRejected \/ ConfigureCannotCompile \/ ConfigureCompiles

CallbackStep(r) == Lock(r) \/ LockFails(r) \/ Explain(r) \/ Answer(r) \/ Return(r)

\* The process has ended, or there is nothing left to do.
Finished ==
  /\ ended # "no" \/ (~handle /\ \A r \in Requests : stage[r] \in {"unused", "over"})
  /\ UNCHANGED vars

Next ==
  \/ /\ ended = "no"
     /\ \/ Configure \/ RequestThrows \/ InferThrows \/ Destroy
        \/ \E r \in Requests :
             AsyncInferRefused(r) \/ AsyncInfer(r) \/ CallbackStep(r)
  \/ Finished

Spec == Init /\ [][Next]_vars

\* OpenVINO finishes what it has started.
FairSpec ==
  Spec /\ \A r \in Requests : WF_vars(ended = "no" /\ CallbackStep(r))

-----------------------------------------------------------------------------
(* Properties.                                                             *)

\* Every variable has its type.
TypeOK ==
  /\ handle \in BOOLEAN
  /\ config \in Shapes
  /\ model \in Shapes \union {NoModel}
  /\ ready \in BOOLEAN
  /\ stage \in [Requests -> {"unused", "running", "locked", "explained",
                             "answered", "over"}]
  /\ self \subseteq Requests
  /\ cyclic \subseteq Requests
  /\ answers \in [Requests -> 0 .. 1]
  /\ ended \in {"no", "request", "infer"}

\* The Impl that explains an output exists until the callback returns, even
\* if the owner destroys the network and other callbacks return meanwhile.
ImplOutlivesCallback ==
  (\E r \in Requests : stage[r] \in {"locked", "explained", "answered"}) => Alive

\* A request that is over was answered, exactly once, and released; or its
\* callback began when the network had been destroyed, it was never answered
\* ("Lifecycle expired, do not execute callback logic") and it is kept alive
\* by its own callback.
AnsweredUnlessGone ==
  \A r \in Requests :
    stage[r] = "over" =>
      \/ answers[r] = 1 /\ r \notin cyclic
      \/ answers[r] = 0 /\ ~handle /\ r \in cyclic

\* After a configure() that succeeded no request is refused by its model,
\* whatever failed before and whatever was compiled before.
ReadyIsUsable == ended = "request" => ~ready

\* Every request is answered, unless the network is destroyed or an exception
\* ends the process.
RequestsAnswered ==
  \A r \in Requests :
    stage[r] = "running" ~> answers[r] = 1 \/ ~handle \/ ended # "no"
=============================================================================
