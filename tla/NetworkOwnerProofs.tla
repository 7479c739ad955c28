------------------------- MODULE NetworkOwnerProofs -------------------------
(***************************************************************************)
(* Proofs about OpenVinoNet, for all sets of shapes and every number of    *)
(* requests; and about NetworkOwner, for every number of fields and all    *)
(* their values: it implements OpenVinoNet, so that what is proved of      *)
(* OpenVinoNet holds of it; a structure is read up to its first bad field; *)
(* and a coroutine is resumed with its answer.                             *)
(***************************************************************************)
EXTENDS NetworkOwner, TLAPS

-----------------------------------------------------------------------------
(* OpenVinoNet.                                                            *)

InCallback(r) == stage[r] \in {"locked", "explained", "answered"}

\* The callbacks between their lock and their return are the ones that own the
\* Impl.
LockInv == \A r \in Requests : InCallback(r) <=> r \in self

\* How often a request has been answered at each of its stages.
AnswerInv ==
  \A r \in Requests :
    /\ stage[r] \in {"unused", "running", "locked", "explained"} => answers[r] = 0
    /\ stage[r] = "answered" => answers[r] = 1

\* A request holds itself from its start until its callback returns, and for
\* ever if the callback finds the network gone.
CycleInv ==
  \A r \in Requests :
    /\ r \in cyclic <=> \/ stage[r] = "running" \/ InCallback(r)
                        \/ stage[r] = "over" /\ answers[r] = 0

\* After a configuration that succeeded the model is that of the configuration.
ModelInv == ready => model = config

\* The inductive invariant.
Inv ==
  /\ TypeOK /\ LockInv /\ AnswerInv /\ CycleInv /\ ModelInv
  /\ AnsweredUnlessGone /\ ReadyIsUsable

-----------------------------------------------------------------------------
\* The invariant holds initially.
LEMMA InitInv == Init => Inv
<1> SUFFICES ASSUME Init PROVE Inv
  OBVIOUS
<1> USE NetAssumption DEF Init
<1>1. TypeOK
  <2>1. answers \in [Requests -> 0 .. 1] /\ self \subseteq Requests /\ cyclic \subseteq Requests
    OBVIOUS
  <2>2. stage \in [Requests -> {"unused", "running", "locked", "explained",
                                "answered", "over"}]
    OBVIOUS
  <2>3. ready \in BOOLEAN /\ handle \in BOOLEAN
    OBVIOUS
  <2>4. QED
    BY <2>1, <2>2, <2>3 DEF TypeOK
<1>2. LockInv /\ AnswerInv /\ CycleInv
  BY DEF LockInv, AnswerInv, CycleInv, InCallback
<1>3. ModelInv /\ AnsweredUnlessGone /\ ReadyIsUsable
  BY DEF ModelInv, AnsweredUnlessGone, ReadyIsUsable
<1>4. QED
  BY <1>1, <1>2, <1>3 DEF Inv

\* Every step keeps the invariant.
LEMMA NextInv == Inv /\ [Next]_vars => Inv'
<1> SUFFICES ASSUME Inv, [Next]_vars PROVE Inv'
  OBVIOUS
<1> USE NetAssumption
<1>a. /\ TypeOK /\ LockInv /\ AnswerInv /\ CycleInv /\ ModelInv
      /\ AnsweredUnlessGone /\ ReadyIsUsable
  BY DEF Inv
<1>1. CASE ended = "no" /\ Configure
  <2> USE <1>a, <1>1 DEF Configure, ConfigureRejected, ConfigureCannotCompile, ConfigureCompiles, Compiled
  <2>1. TypeOK'
    BY DEF TypeOK
  <2>2. LockInv' /\ AnswerInv'
    BY DEF TypeOK, LockInv, AnswerInv, InCallback
  <2>3. CycleInv'
    BY DEF TypeOK, CycleInv, AnswerInv, InCallback
  <2>4. ModelInv' /\ ReadyIsUsable'
    BY DEF ModelInv, ReadyIsUsable, TypeOK
  <2>5. AnsweredUnlessGone'
    BY DEF TypeOK, AnsweredUnlessGone, AnswerInv, CycleInv, InCallback, Alive
  <2>6. QED
    BY <2>1, <2>2, <2>3, <2>4, <2>5 DEF Inv
<1>2. CASE RequestThrows
  <2> USE <1>a, <1>2 DEF RequestThrows, Accepts
  <2>1. TypeOK'
    BY DEF TypeOK
  <2>2. LockInv' /\ AnswerInv'
    BY DEF TypeOK, LockInv, AnswerInv, InCallback
  <2>3. CycleInv'
    BY DEF TypeOK, CycleInv, AnswerInv, InCallback
  <2>4. ModelInv' /\ ReadyIsUsable'
    BY DEF ModelInv, ReadyIsUsable, TypeOK
  <2>5. AnsweredUnlessGone'
    BY DEF TypeOK, AnsweredUnlessGone, AnswerInv, CycleInv, InCallback, Alive
  <2>6. QED
    BY <2>1, <2>2, <2>3, <2>4, <2>5 DEF Inv
<1>3. CASE InferThrows
  <2> USE <1>a, <1>3 DEF InferThrows, Accepts
  <2>1. TypeOK'
    BY DEF TypeOK
  <2>2. LockInv' /\ AnswerInv'
    BY DEF TypeOK, LockInv, AnswerInv, InCallback
  <2>3. CycleInv'
    BY DEF TypeOK, CycleInv, AnswerInv, InCallback
  <2>4. ModelInv' /\ ReadyIsUsable'
    BY DEF ModelInv, ReadyIsUsable, TypeOK
  <2>5. AnsweredUnlessGone'
    BY DEF TypeOK, AnsweredUnlessGone, AnswerInv, CycleInv, InCallback, Alive
  <2>6. QED
    BY <2>1, <2>2, <2>3, <2>4, <2>5 DEF Inv
<1>4. CASE Destroy
  <2> USE <1>a, <1>4 DEF Destroy
  <2>1. TypeOK'
    BY DEF TypeOK
  <2>2. LockInv' /\ AnswerInv'
    BY DEF TypeOK, LockInv, AnswerInv, InCallback
  <2>3. CycleInv'
    BY DEF TypeOK, CycleInv, AnswerInv, InCallback
  <2>4. ModelInv' /\ ReadyIsUsable'
    BY DEF ModelInv, ReadyIsUsable, TypeOK
  <2>5. AnsweredUnlessGone'
    BY DEF TypeOK, AnsweredUnlessGone, AnswerInv, CycleInv, InCallback, Alive
  <2>6. QED
    BY <2>1, <2>2, <2>3, <2>4, <2>5 DEF Inv
<1>5. CASE UNCHANGED vars
  <2> USE <1>a, <1>5 DEF vars
  <2>1. TypeOK'
    BY DEF TypeOK
  <2>2. LockInv' /\ AnswerInv'
    BY DEF TypeOK, LockInv, AnswerInv, InCallback
  <2>3. CycleInv'
    BY DEF TypeOK, CycleInv, AnswerInv, InCallback
  <2>4. ModelInv' /\ ReadyIsUsable'
    BY DEF ModelInv, ReadyIsUsable, TypeOK
  <2>5. AnsweredUnlessGone'
    BY DEF TypeOK, AnsweredUnlessGone, AnswerInv, CycleInv, InCallback, Alive
  <2>6. QED
    BY <2>1, <2>2, <2>3, <2>4, <2>5 DEF Inv
<1>6. ASSUME NEW r \in Requests, AsyncInferRefused(r) PROVE Inv'
  <2> USE <1>a, <1>6 DEF AsyncInferRefused
  <2>a. answers[r] = 0
    BY DEF AnswerInv
  <2>1. TypeOK'
    BY <2>a DEF TypeOK
  <2>2. LockInv' /\ AnswerInv'
    BY DEF TypeOK, LockInv, AnswerInv, InCallback
  <2>3. CycleInv'
    BY DEF TypeOK, CycleInv, AnswerInv, InCallback
  <2>4. ModelInv' /\ ReadyIsUsable'
    BY DEF ModelInv, ReadyIsUsable, TypeOK
  <2>5. AnsweredUnlessGone'
    BY DEF TypeOK, AnsweredUnlessGone, AnswerInv, CycleInv, InCallback, Alive
  <2>6. QED
    BY <2>1, <2>2, <2>3, <2>4, <2>5 DEF Inv
<1>7. ASSUME NEW r \in Requests, AsyncInfer(r) PROVE Inv'
  <2> USE <1>a, <1>7 DEF AsyncInfer, Accepts
  <2>1. TypeOK'
    BY DEF TypeOK
  <2>2. LockInv' /\ AnswerInv'
    BY DEF TypeOK, LockInv, AnswerInv, InCallback
  <2>3. CycleInv'
    BY DEF TypeOK, CycleInv, AnswerInv, InCallback
  <2>4. ModelInv' /\ ReadyIsUsable'
    BY DEF ModelInv, ReadyIsUsable, TypeOK
  <2>5. AnsweredUnlessGone'
    BY DEF TypeOK, AnsweredUnlessGone, AnswerInv, CycleInv, InCallback, Alive
  <2>6. QED
    BY <2>1, <2>2, <2>3, <2>4, <2>5 DEF Inv
<1>8. ASSUME NEW r \in Requests, Lock(r) PROVE Inv'
  <2> USE <1>a, <1>8 DEF Lock, Owned
  <2>1. TypeOK'
    BY DEF TypeOK
  <2>2. LockInv' /\ AnswerInv'
    BY DEF TypeOK, LockInv, AnswerInv, InCallback
  <2>3. CycleInv'
    BY DEF TypeOK, CycleInv, AnswerInv, InCallback
  <2>4. ModelInv' /\ ReadyIsUsable'
    BY DEF ModelInv, ReadyIsUsable, TypeOK
  <2>5. AnsweredUnlessGone'
    BY DEF TypeOK, AnsweredUnlessGone, AnswerInv, CycleInv, InCallback, Alive
  <2>6. QED
    BY <2>1, <2>2, <2>3, <2>4, <2>5 DEF Inv
<1>9. ASSUME NEW r \in Requests, LockFails(r) PROVE Inv'
  <2> USE <1>a, <1>9 DEF LockFails
  <2>1. TypeOK'
    BY DEF TypeOK
  <2>2. LockInv' /\ AnswerInv'
    BY DEF TypeOK, LockInv, AnswerInv, InCallback
  <2>3. CycleInv'
    BY DEF TypeOK, CycleInv, AnswerInv, InCallback
  <2>4. ModelInv' /\ ReadyIsUsable'
    BY DEF ModelInv, ReadyIsUsable, TypeOK
  <2>5. AnsweredUnlessGone'
    BY DEF TypeOK, AnsweredUnlessGone, AnswerInv, CycleInv, InCallback, Alive
  <2>6. QED
    BY <2>1, <2>2, <2>3, <2>4, <2>5 DEF Inv
<1>10. ASSUME NEW r \in Requests, Explain(r) PROVE Inv'
  <2> USE <1>a, <1>10 DEF Explain
  <2>1. TypeOK'
    BY DEF TypeOK
  <2>2. LockInv' /\ AnswerInv'
    BY DEF TypeOK, LockInv, AnswerInv, InCallback
  <2>3. CycleInv'
    BY DEF TypeOK, CycleInv, AnswerInv, InCallback
  <2>4. ModelInv' /\ ReadyIsUsable'
    BY DEF ModelInv, ReadyIsUsable, TypeOK
  <2>5. AnsweredUnlessGone'
    BY DEF TypeOK, AnsweredUnlessGone, AnswerInv, CycleInv, InCallback, Alive
  <2>6. QED
    BY <2>1, <2>2, <2>3, <2>4, <2>5 DEF Inv
<1>11. ASSUME NEW r \in Requests, Answer(r) PROVE Inv'
  <2> USE <1>a, <1>11 DEF Answer, Once
  <2>a. answers[r] = 0
    BY DEF AnswerInv
  <2>1. TypeOK'
    BY <2>a DEF TypeOK
  <2>2. LockInv' /\ AnswerInv'
    BY DEF TypeOK, LockInv, AnswerInv, InCallback
  <2>3. CycleInv'
    BY DEF TypeOK, CycleInv, AnswerInv, InCallback
  <2>4. ModelInv' /\ ReadyIsUsable'
    BY DEF ModelInv, ReadyIsUsable, TypeOK
  <2>5. AnsweredUnlessGone'
    BY DEF TypeOK, AnsweredUnlessGone, AnswerInv, CycleInv, InCallback, Alive
  <2>6. QED
    BY <2>1, <2>2, <2>3, <2>4, <2>5 DEF Inv
<1>12. ASSUME NEW r \in Requests, Return(r) PROVE Inv'
  <2> USE <1>a, <1>12 DEF Return, Freed
  <2>1. TypeOK'
    BY DEF TypeOK
  <2>2. LockInv' /\ AnswerInv'
    BY DEF TypeOK, LockInv, AnswerInv, InCallback
  <2>3. CycleInv'
    BY DEF TypeOK, CycleInv, AnswerInv, InCallback
  <2>4. ModelInv' /\ ReadyIsUsable'
    BY DEF ModelInv, ReadyIsUsable, TypeOK
  <2>5. AnsweredUnlessGone'
    BY DEF TypeOK, AnsweredUnlessGone, AnswerInv, CycleInv, InCallback, Alive
  <2>6. QED
    BY <2>1, <2>2, <2>3, <2>4, <2>5 DEF Inv
<1>13. QED
  BY <1>1, <1>2, <1>3, <1>4, <1>5, <1>6, <1>7, <1>8, <1>9, <1>10, <1>11, <1>12
     DEF Next, CallbackStep, Finished

-----------------------------------------------------------------------------
(* The theorems.                                                           *)

\* Inv is an invariant of the specification, and so are its parts.
THEOREM InvCorrect == Spec => []Inv
  BY InitInv, NextInv, PTL DEF Spec

\* Every variable keeps its type; in particular no request is ever answered
\* twice.
THEOREM TypeCorrect == Spec => []TypeOK
<1>1. Inv => TypeOK
  BY DEF Inv
<1>2. QED
  BY <1>1, InvCorrect, PTL

\* The Impl that explains an output exists until the callback returns.
THEOREM ImplCorrect == Spec => []ImplOutlivesCallback
<1>1. Inv => ImplOutlivesCallback
  BY DEF Inv, LockInv, InCallback, ImplOutlivesCallback, Alive
<1>2. QED
  BY <1>1, InvCorrect, PTL

\* A request that is over was answered exactly once and released, unless the
\* network was gone before its callback began.
THEOREM AnswersCorrect == Spec => []AnsweredUnlessGone
<1>1. Inv => AnsweredUnlessGone
  BY DEF Inv
<1>2. QED
  BY <1>1, InvCorrect, PTL

\* After a configure() that succeeded no request is refused by its model.
THEOREM ReadyCorrect == Spec => []ReadyIsUsable
<1>1. Inv => ReadyIsUsable
  BY DEF Inv
<1>2. QED
  BY <1>1, InvCorrect, PTL

-----------------------------------------------------------------------------
(* Its owner.                                                              *)

Problems == {"missing", "null", "mismatch"}

\* The types of what configure() reads, and of what its callers await.
ReadType ==
  /\ source \in S!Nodes
  /\ before \in Shapes
  /\ config \in Shapes
  /\ field \in 1 .. Fields + 1
  /\ calls \in Nat
  /\ result \in {"ok"} \union Problems
  /\ configuring \in BOOLEAN

AwaitType ==
  /\ stage \in [Requests -> {"unused", "running", "locked", "explained",
                             "answered", "over"}]
  /\ coroutine \in [Requests -> {"none", "suspended", "resumed"}]
  /\ await_result \in [Requests -> {NothingHere, "output", "error"}]
  /\ received \in [Requests -> {NothingHere, "output", "error"}]

\* configure() runs on one thread at a time: a new reading begins only when the
\* last one has returned.
ConfiguringInv == ~configuring => S!Returned

\* Nobody destroys the network inside its configure(), and until that succeeds
\* the network is not said to be ready.
HandleInv == configuring => handle /\ ready = FALSE

\* Within a reading, the fields before the one that is read next are those of
\* the node and the others are what they were; the reading has stopped at that
\* field if it has failed.
FieldsInv ==
  /\ calls > 0 =>
       \A f \in 1 .. Fields : config[f] = IF f < field THEN source[f] ELSE before[f]
  /\ result # "ok" => field \in 1 .. Fields /\ result = source[field]

\* A coroutine has been resumed, with an outcome, before its callback goes; only
\* a callback that finds the network gone leaves it suspended.
ResumeInv ==
  \A r \in Requests :
    /\ stage[r] = "answered" => coroutine[r] = "resumed"
    /\ stage[r] = "over" => coroutine[r] = "resumed" \/ ~handle
    /\ coroutine[r] = "resumed" => received[r] \in {"output", "error"}

\* The inductive invariant.
NInv ==
  ReadType /\ AwaitType /\ ConfiguringInv /\ HandleInv /\ FieldsInv /\ ResumeInv

-----------------------------------------------------------------------------
\* The invariant holds initially.
LEMMA NInitInv == NInit => NInv
<1> SUFFICES ASSUME NInit PROVE NInv
  OBVIOUS
<1> USE OwnerAssumption DEF NInit, S!Init, Init
<1>1. ReadType
  <2>1. source \in S!Nodes
    BY DEF S!Nodes
  <2>2. field \in 1 .. Fields + 1 /\ calls \in Nat
    OBVIOUS
  <2>3. before \in Shapes /\ config \in Shapes /\ result = "ok" /\ configuring \in BOOLEAN
    OBVIOUS
  <2>4. QED
    BY <2>1, <2>2, <2>3 DEF ReadType
<1>2. AwaitType
  BY DEF AwaitType, NothingHere
<1>3. ConfiguringInv /\ FieldsInv
  BY DEF ConfiguringInv, FieldsInv, S!Returned
<1>4. HandleInv /\ ResumeInv
  BY DEF HandleInv, ResumeInv
<1>5. QED
  BY <1>1, <1>2, <1>3, <1>4 DEF NInv

\* The part about the reading: only configure() has a hand in it.
LEMMA NextReads ==
  ReadType /\ ConfiguringInv /\ FieldsInv /\ [NNext]_nvars
    => (ReadType /\ ConfiguringInv /\ FieldsInv)'
<1> SUFFICES ASSUME ReadType, ConfiguringInv, FieldsInv, [NNext]_nvars
             PROVE  (ReadType /\ ConfiguringInv /\ FieldsInv)'
  OBVIOUS
<1> USE OwnerAssumption
<1>1. CASE ConfigureBegins
  <2> USE <1>1 DEF ConfigureBegins, S!Serialize
  <2>1. ReadType'
    BY DEF ReadType
  <2>2. ConfiguringInv'
    BY DEF ConfiguringInv
  <2>3. FieldsInv'
    BY DEF FieldsInv, ReadType
  <2>4. QED
    BY <2>1, <2>2, <2>3
<1>2. CASE ReadField
  <2> USE <1>2 DEF ReadField, S!GetParam, S!Member
  <2>a. field \in 1 .. Fields /\ result = "ok"
    BY DEF S!Returned, ReadType
  <2>1. ReadType'
    BY <2>a DEF ReadType
  <2>2. ConfiguringInv'
    BY DEF ConfiguringInv
  <2>3. FieldsInv'
    BY <2>a DEF FieldsInv, ReadType
  <2>4. QED
    BY <2>1, <2>2, <2>3
<1>3. CASE ReadFails
  <2> USE <1>3 DEF ReadFails, S!GetParamFails, S!Untouched
  <2>a. field \in 1 .. Fields /\ result = "ok"
    BY DEF S!Returned, ReadType
  <2>b. result' \in Problems
    BY <2>a DEF ReadType, S!Nodes, Problems
  <2>1. ReadType'
    BY <2>b DEF ReadType
  <2>2. ConfiguringInv'
    BY <2>b DEF ConfiguringInv, S!Returned, Problems
  <2>3. FieldsInv'
    BY <2>a DEF FieldsInv, ReadType
  <2>4. QED
    BY <2>1, <2>2, <2>3
<1>4. CASE Compile
  BY <1>4 DEF Compile, reading, ReadType, ConfiguringInv, FieldsInv, S!Returned
<1>5. ASSUME UNCHANGED << configuring, reading >>, UNCHANGED config
      PROVE  (ReadType /\ ConfiguringInv /\ FieldsInv)'
  BY <1>5 DEF reading, ReadType, ConfiguringInv, FieldsInv, S!Returned
<1>6. ASSUME NEW r \in Requests, CallbackSteps(r) PROVE UNCHANGED config
  BY <1>6 DEF CallbackSteps, AwaitStep, Lock, LockFails, Return, Explain, StoreResult,
              Resume, Answer, vars
<1>7. ASSUME OwnerStep PROVE UNCHANGED config
  BY <1>7 DEF OwnerStep, RequestThrows, InferThrows, Destroy, Await, AwaitRefused,
              AsyncInfer, AsyncInferRefused, vars
<1>8. QED
  BY <1>1, <1>2, <1>3, <1>4, <1>5, <1>6, <1>7 DEF NNext, CallbackSteps, Finished, nvars, vars

\* The part about the coroutines: only their own requests and callbacks, and the
\* destruction of the network, have a hand in it.
LEMMA NextResumes ==
  AwaitType /\ ResumeInv /\ [NNext]_nvars => (AwaitType /\ ResumeInv)'
<1> SUFFICES ASSUME AwaitType, ResumeInv, [NNext]_nvars
             PROVE  (AwaitType /\ ResumeInv)'
  OBVIOUS
<1> USE DEF AwaitType, ResumeInv
<1>1. CASE UNCHANGED << handle, stage, awaiting >>
  BY <1>1 DEF awaiting
<1>2. CASE Destroy /\ UNCHANGED awaiting
  BY <1>2 DEF Destroy, awaiting
<1>3. ASSUME NEW r \in Requests, Await(r) PROVE (AwaitType /\ ResumeInv)'
  BY <1>3 DEF Await, AsyncInfer
<1>4. ASSUME NEW r \in Requests, AwaitRefused(r) PROVE (AwaitType /\ ResumeInv)'
  BY <1>4 DEF AwaitRefused, AsyncInferRefused
<1>5. ASSUME NEW r \in Requests, StoreResult(r) PROVE (AwaitType /\ ResumeInv)'
  BY <1>5 DEF StoreResult, Outcome, vars
<1>6. ASSUME NEW r \in Requests, Resume(r) PROVE (AwaitType /\ ResumeInv)'
  <2>1. await_result[r] \in {"output", "error"}
    BY <1>6 DEF Resume, Stored
  <2>2. QED
    BY <1>6, <2>1 DEF Resume, Answer
<1>7. ASSUME NEW r \in Requests, Lock(r), UNCHANGED awaiting
      PROVE  (AwaitType /\ ResumeInv)'
  BY <1>7 DEF Lock, awaiting
<1>8. ASSUME NEW r \in Requests, LockFails(r), UNCHANGED awaiting
      PROVE  (AwaitType /\ ResumeInv)'
  BY <1>8 DEF LockFails, Alive, awaiting
<1>9. ASSUME NEW r \in Requests, Explain(r), UNCHANGED awaiting
      PROVE  (AwaitType /\ ResumeInv)'
  BY <1>9 DEF Explain, awaiting
<1>10. ASSUME NEW r \in Requests, Return(r), UNCHANGED awaiting
       PROVE  (AwaitType /\ ResumeInv)'
  BY <1>10 DEF Return, awaiting
<1>11. CASE ConfigureBegins \/ ReadField \/ ReadFails \/ Compile
  <2>1. UNCHANGED << handle, stage, awaiting >>
    BY <1>11 DEF ConfigureBegins, ReadField, ReadFails, Compile, ConfigureCompiles,
                 ConfigureCannotCompile
  <2>2. QED
    BY <1>1, <2>1
<1>12. CASE (RequestThrows \/ InferThrows) /\ UNCHANGED awaiting
  BY <1>1, <1>12 DEF RequestThrows, InferThrows
<1>13. CASE UNCHANGED nvars
  BY <1>1, <1>13 DEF nvars, vars
<1>14. CASE OwnerStep
  BY <1>2, <1>3, <1>4, <1>12, <1>14 DEF OwnerStep
<1>15. ASSUME NEW r \in Requests, CallbackSteps(r) PROVE (AwaitType /\ ResumeInv)'
  BY <1>5, <1>6, <1>7, <1>8, <1>9, <1>10, <1>15 DEF CallbackSteps, AwaitStep
<1>16. QED
  BY <1>11, <1>13, <1>14, <1>15 DEF NNext, Finished

\* Nothing but configure() touches what it is doing, and the network outlives it.
LEMMA NextHandles == HandleInv /\ [NNext]_nvars => HandleInv'
<1> SUFFICES ASSUME HandleInv, [NNext]_nvars PROVE HandleInv'
  OBVIOUS
<1> USE DEF HandleInv
<1>1. CASE ConfigureBegins \/ ReadField \/ ReadFails \/ Compile
  BY <1>1 DEF ConfigureBegins, ReadField, ReadFails, Compile
<1>2. CASE ~configuring /\ UNCHANGED configuring
  BY <1>2
<1>3. ASSUME NEW r \in Requests, CallbackSteps(r)
      PROVE  UNCHANGED << configuring, handle, ready >>
  BY <1>3 DEF CallbackSteps, AwaitStep, Lock, LockFails, Return, Explain, StoreResult,
              Resume, Answer, vars
<1>4. CASE UNCHANGED nvars
  BY <1>4 DEF nvars, vars
<1>5. QED
  BY <1>1, <1>2, <1>3, <1>4 DEF NNext, Finished

\* Every step keeps the invariant.
LEMMA NNextInv == NInv /\ [NNext]_nvars => NInv'
  BY NextReads, NextResumes, NextHandles DEF NInv

-----------------------------------------------------------------------------
(* The refinement: each step is one of OpenVinoNet, or none.               *)

\* The steps of configure() reject a configuration, each with one more field of
\* the input shape assigned, until the model is compiled.
LEMMA ConfigureMaps ==
  ASSUME ReadType, HandleInv, ReadType', ended = "no",
         ConfigureBegins \/ ReadField \/ ReadFails \/ Compile
  PROVE  [Next]_vars
<1> USE DEF ReadType, HandleInv, Next, Configure
<1>1. CASE ConfigureBegins
  BY <1>1 DEF ConfigureBegins, S!Serialize, ConfigureRejected
<1>2. CASE ReadField
  BY <1>2 DEF ReadField, ConfigureRejected
<1>3. CASE ReadFails
  BY <1>3 DEF ReadFails, S!GetParamFails, S!Untouched, vars
<1>4. CASE Compile
  BY <1>4 DEF Compile
<1>5. QED
  BY <1>1, <1>2, <1>3, <1>4

\* An awaited request is an asynchronous one, whose callback also stores the
\* result and resumes the coroutine.
LEMMA AwaitMaps ==
  ASSUME ended = "no", NEW r \in Requests, Await(r) \/ AwaitRefused(r) \/ AwaitStep(r)
  PROVE  [Next]_vars
  BY DEF Await, AwaitRefused, AwaitStep, StoreResult, Resume, Next, CallbackStep

\* Every step of NetworkOwner is a step of OpenVinoNet or leaves it alone.
LEMMA StepMaps == NInv /\ NInv' /\ [NNext]_nvars => [Next]_vars
<1> SUFFICES ASSUME NInv, NInv', [NNext]_nvars PROVE [Next]_vars
  OBVIOUS
<1>1. CASE ended = "no" /\ (ConfigureBegins \/ ReadField \/ ReadFails \/ Compile)
  BY <1>1, ConfigureMaps DEF NInv
<1>2. CASE ended = "no" /\ OwnerStep
  BY <1>2, AwaitMaps DEF OwnerStep, Next
<1>3. ASSUME NEW r \in Requests, CallbackSteps(r) PROVE [Next]_vars
  BY <1>3, AwaitMaps DEF CallbackSteps
<1>4. CASE Finished \/ UNCHANGED nvars
  BY <1>4 DEF Finished, nvars
<1>5. QED
  BY <1>1, <1>2, <1>3, <1>4 DEF NNext

-----------------------------------------------------------------------------
(* The theorems.                                                           *)

\* NInv is an invariant of the specification.
THEOREM NInvCorrect == NSpec => []NInv
  BY NInitInv, NNextInv, PTL DEF NSpec

\* The network that is configured field by field while its callbacks run, and
\* whose callers are coroutines, does nothing OpenVinoNet does not do.
THEOREM NetCorrect == NSpec => ImplementsNet
<1>1. NInit => Init
  BY DEF NInit
<1>2. NInv /\ NInv' /\ [NNext]_nvars => [Next]_vars
  BY StepMaps
<1>3. QED
  BY <1>1, <1>2, NInvCorrect, PTL DEF NSpec, ImplementsNet, Spec

\* A coroutine is resumed with the outcome of its request, once it is over,
\* unless the network is gone.
THEOREM ResumedCorrect == NSpec => []ResumedWithAnswer
<1>1. NInv => ResumedWithAnswer
  BY DEF NInv, ResumeInv, ResumedWithAnswer
<1>2. QED
  BY <1>1, NInvCorrect, PTL

\* After every call of configure() the input shape is that of the node up to
\* the first field that cannot be read, and what it was from there on.
THEOREM PrefixCorrect == NSpec => []PrefixStored
<1>1. ASSUME NInv, S!Returned, calls > 0
      PROVE  \E read \in 0 .. Fields :
               /\ \A f \in 1 .. Fields :
                    config[f] = IF f <= read THEN source[f] ELSE before[f]
               /\ result = IF read = Fields THEN "ok" ELSE source[read + 1]
  <2> USE OwnerAssumption, <1>1 DEF NInv, ReadType, FieldsInv, S!Returned
  <2>1. field - 1 \in 0 .. Fields
    OBVIOUS
  <2>2. \A f \in 1 .. Fields : f < field <=> f <= field - 1
    OBVIOUS
  <2>3. result = IF field - 1 = Fields THEN "ok" ELSE source[field - 1 + 1]
    OBVIOUS
  <2>4. QED
    BY <2>1, <2>2, <2>3
<1>2. NInv => PrefixStored
  BY <1>1 DEF PrefixStored, S!PrefixStored
<1>3. QED
  BY <1>2, NInvCorrect, PTL

\* The Impl that explains an output exists until the callback returns, also
\* while the network is being configured.
THEOREM OwnedCorrect == NSpec => []ImplOutlivesCallback
  BY NetCorrect, ImplCorrect, PTL DEF ImplementsNet

\* Every awaited request that is over was answered exactly once and released,
\* unless the network was gone before its callback began.
THEOREM AwaitedCorrect == NSpec => []AnsweredUnlessGone
  BY NetCorrect, AnswersCorrect, PTL DEF ImplementsNet

\* After a configure() that read every field and compiled the model, no request
\* is refused by that model.
THEOREM ConfiguredCorrect == NSpec => []ReadyIsUsable
  BY NetCorrect, ReadyCorrect, PTL DEF ImplementsNet
=============================================================================
