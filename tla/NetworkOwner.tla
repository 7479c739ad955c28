---------------------------- MODULE NetworkOwner ----------------------------
(***************************************************************************)
(* The owner of an OpenVinoNet, at the grain of its fields: configure()    *)
(* reads the input shape field by field (Serializable) and compiles the    *)
(* model, while the callbacks of the requests that are running go on; and  *)
(* every request is made by a coroutine that awaits its AsyncResult        *)
(* (src/module/identifier/model.hpp), which the callback resumes.          *)
(***************************************************************************)
EXTENDS OpenVinoNet, Sequences

CONSTANTS
  Fields, Values,  \* the fields that make the input shape, and their values
  MaxReads         \* bound: calls of configure

ASSUME OwnerAssumption ==
  /\ Fields \in Nat \ {0} /\ MaxReads \in Nat
  /\ Values \cap {"missing", "null", "mismatch"} = {}
  /\ Shapes = [1 .. Fields -> Values]

VARIABLES
  configuring,                            \* the owner is inside configure()
  source, field, result, calls, before,   \* those of Serializable
  coroutine,   \* of each request: "none", "suspended" or "resumed"
  await_result,  \* AsyncResult::result
  received     \* history: what await_resume() returned

S == INSTANCE Serializable WITH target <- config

reading  == << source, field, result, calls, before >>
awaiting == << coroutine, await_result, received >>
nvars    == << vars, configuring, reading, awaiting >>

NothingHere == "Nothing here"

NInit ==
  /\ Init
  /\ S!Init
  /\ configuring = FALSE
  /\ coroutine = [r \in Requests |-> "none"]
  /\ await_result = [r \in Requests |-> NothingHere]
  /\ received = [r \in Requests |-> NothingHere]

-----------------------------------------------------------------------------
(* configure().                                                            *)

ConfigureBegins ==
  /\ handle
  /\ S!Serialize
  /\ configuring' = TRUE
  /\ ready' = FALSE
  /\ UNCHANGED << handle, model, stage, self, cyclic, answers, ended, awaiting >>

ReadField ==
  /\ configuring
  /\ S!GetParam
  /\ UNCHANGED << configuring, handle, model, ready, stage, self, cyclic, answers,
                  ended, awaiting >>

ReadFails ==
  /\ configuring
  /\ S!GetParamFails
  /\ configuring' = FALSE
  /\ UNCHANGED << handle, model, ready, stage, self, cyclic, answers, ended, awaiting >>

Compile ==
  /\ configuring
  /\ S!Returned
  /\ configuring' = FALSE
  /\ UNCHANGED << config, reading, awaiting >>
  /\ ConfigureCompiles \/ ConfigureCannotCompile

-----------------------------------------------------------------------------
(* co_await await_infer(image).                                            *)

\* The coroutine is suspended, then await_suspend() calls async_infer().
Await(r) ==
  /\ AsyncInfer(r)
  /\ coroutine' = [coroutine EXCEPT ![r] = "suspended"]
  /\ UNCHANGED << await_result, received >>

\* The image is empty: the coroutine is resumed inside await_suspend().
AwaitRefused(r) ==
  /\ AsyncInferRefused(r)
  /\ coroutine' = [coroutine EXCEPT ![r] = "resumed"]
  /\ await_result' = [await_result EXCEPT ![r] = "error"]
  /\ received' = [received EXCEPT ![r] = "error"]

Outcome(r) == IF stage[r] = "explained" THEN "output" ELSE "error"

\* this->result = std::move(result).
StoreResult(r) ==
  /\ stage[r] \in {"locked", "explained"}
  /\ await_result[r] = NothingHere
  /\ await_result' = [await_result EXCEPT ![r] = Outcome(r)]
  /\ UNCHANGED << vars, coroutine, received >>

\* Defect: the coroutine may be resumed before the result is stored.
AnyTime(r) == TRUE

Stored(r) == await_result[r] # NothingHere

\* coroutine.resume(): await_resume() returns the result, on this thread.
Resume(r) ==
  /\ Stored(r)
  /\ Answer(r)
  /\ coroutine' = [coroutine EXCEPT ![r] = "resumed"]
  /\ received' = [received EXCEPT ![r] = await_result[r]]
  /\ UNCHANGED await_result

AwaitStep(r) ==
  \/ (Lock(r) \/ LockFails(r) \/ Return(r)) /\ UNCHANGED awaiting
  \/ await_result[r] = NothingHere /\ Explain(r) /\ UNCHANGED awaiting
  \/ StoreResult(r) \/ Resume(r)

-----------------------------------------------------------------------------
OwnerStep ==
  \/ (RequestThrows \/ InferThrows \/ Destroy) /\ UNCHANGED awaiting
  \/ \E r \in Requests : Await(r) \/ AwaitRefused(r)

CallbackSteps(r) ==
  ended = "no" /\ AwaitStep(r) /\ UNCHANGED << configuring, reading >>

NNext ==
  \/ /\ ended = "no"
     /\ \/ ConfigureBegins \/ ReadField \/ ReadFails \/ Compile
        \/ ~configuring /\ OwnerStep /\ UNCHANGED << configuring, reading >>
  \/ \E r \in Requests : CallbackSteps(r)
  \/ Finished /\ UNCHANGED nvars

NSpec == NInit /\ [][NNext]_nvars

\* OpenVINO finishes what it has started, and a callback goes on.
NFairSpec == NSpec /\ \A r \in Requests : WF_nvars(CallbackSteps(r))

-----------------------------------------------------------------------------
(* Properties.                                                             *)

\* The network whose configuration is read field by field, and whose callers
\* are coroutines, does what OpenVinoNet does in steps of its own.
ImplementsNet == Spec

\* A coroutine that is resumed gets the outcome of its request, never the
\* "Nothing here" its AsyncResult is made with; and when its request is over it
\* has been resumed, or the network is gone and it never will be.
ResumedWithAnswer ==
  \A r \in Requests :
    /\ coroutine[r] = "resumed" => received[r] \in {"output", "error"}
    /\ stage[r] = "over" => coroutine[r] = "resumed" \/ ~handle

\* After a call of configure() the config is a mixture: see Serializable.
PrefixStored == S!PrefixStored
=============================================================================
