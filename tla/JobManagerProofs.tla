--------------------------- MODULE JobManagerProofs ---------------------------
(***************************************************************************)
(* Theorems about the Jobs object, for every set of jobs, every cap,       *)
(* retention and mode, whatever fails, is cancelled or restarts.           *)
(*                                                                         *)
(* The argument goes job by job.  A job's record, its store call and its   *)
(* coroutine are only ever touched by that job's own request, writer and   *)
(* work, so an invariant that relates them (Calling, Storing) is kept by   *)
(* every step of another job (Frame), and each action has to be looked at  *)
(* for its own job alone.  What a poll says is then what the record says,  *)
(* and a record with a handle only goes from working to what the work came *)
(* to, and from there to its expiry (RecordLasts, RecordKeeps).            *)
(***************************************************************************)
EXTENDS JobManager, JobStoreProofs

USE DEF InPhase, MoveTo, collections, InCall

------------------------------------------------------------------------------
(* Types. *)

(* A request that is under way knows its verb. *)
LEMMA CallVerb ==
    ASSUME JobsTypeOK, NEW j \in Jobs, call[j] # NoCall
    PROVE  call[j].verb \in {"run", "start", "defer"}
  BY DEF JobsTypeOK, CallStates, NoCall

(* A request moves on, or returns, as a well-formed request. *)
LEMMA GoOnType ==
    ASSUME JobsTypeOK, NEW j \in Jobs, InCall(j, Phases), NEW phase \in Phases, GoOn(j, phase)
    PROVE  call' \in [Jobs -> CallStates]
<1>1. call[j] \in [phase : Phases, verb : {"run", "start", "defer"}]
  BY DEF JobsTypeOK, CallStates, NoCall, Phases
<1>. QED
  BY <1>1 DEF GoOn, JobsTypeOK, CallStates

(* A call that returns leaves a state of the same type.                    *)
LEMMA ReturnType ==
    ASSUME JobsTypeOK, NEW j \in Jobs, InCall(j, Phases), NEW answer \in Answers, Return(j, answer)
    PROVE  call' \in [Jobs -> CallStates]
<1>1. call[j].verb \in {"run", "start", "defer"}
  BY CallVerb DEF NoCall, Phases
<1>. QED
  BY <1>1 DEF Return, Reject, JobsTypeOK, CallStates

(* So does one that enters a verb.                                         *)
LEMMA EnterType ==
    ASSUME JobsTypeOK, NEW j \in Jobs, NEW verb \in {"run", "start", "defer"},
           \/ \E phase \in Phases : Enter(j, verb, phase)
           \/ \E answer \in Answers : Reject(j, verb, answer)
    PROVE  call' \in [Jobs -> CallStates]
  BY DEF Enter, Reject, JobsTypeOK, CallStates

(* So does a piece of work that changes its state.                         *)
LEMMA BecomesType ==
    ASSUME JobsTypeOK, NEW j \in Jobs, NEW state \in WorkStates, Becomes(j, state)
    PROVE  work' \in [Jobs -> WorkStates]
  BY DEF Becomes, JobsTypeOK

(* Starting a store call or taking its outcome keeps the store's types. *)
LEMMA StoreCallType ==
    ASSUME StoreTypeOK, NEW j \in Jobs,
           StartCreate(j) \/ Collect(j) \/ \E status \in Outcomes : StartSettle(j, status),
           UNCHANGED <<now, collections, lock, restarts>>
    PROVE  StoreTypeOK'
<1>1. op' \in [Jobs -> Calls]
  BY DEF StartCreate, Collect, StartSettle, StoreTypeOK, Calls
<1>. QED
  BY <1>1 DEF StoreTypeOK

(* The store's type does not depend on the manager's variables.            *)
LEMMA StoreUnchangedType == ASSUME StoreTypeOK, UNCHANGED storeVars PROVE StoreTypeOK'
  BY DEF StoreTypeOK, storeVars

(* Whatever way work ends, its record's outcome is a status.               *)
LEMMA StatusType == ASSUME NEW end \in Ended PROVE StatusOf(end) \in Outcomes
  BY DEF Ended, StatusOf, Outcomes

(* Types are kept by every action. *)
LEMMA JobsTypeStep == JobsTypeOK /\ [JobsNext]_jobVars => JobsTypeOK'
<1>. SUFFICES ASSUME JobsTypeOK, [JobsNext]_jobVars PROVE JobsTypeOK'
  OBVIOUS
<1>0. StoreTypeOK
  BY DEF JobsTypeOK
<1>1. ASSUME NEW j \in Jobs, NEW mode \in Modes, RunWithDeadline(j, mode) PROVE JobsTypeOK'
  <2>1. call' \in [Jobs -> CallStates]
    BY <1>1, EnterType DEF RunWithDeadline, Phases, Answers
  <2>2. work' \in [Jobs -> WorkStates]
    BY <1>1, BecomesType DEF RunWithDeadline, WorkStates
  <2>. QED
    BY <1>0, <1>1, <2>1, <2>2, StoreUnchangedType DEF RunWithDeadline, JobsTypeOK
<1>2. ASSUME NEW j \in Jobs, NEW verb \in Verbs \ {"run"}, NEW mode \in Modes, Start(j, verb, mode)
      PROVE  JobsTypeOK'
  <2>. verb \in {"run", "start", "defer"}
    BY VerbsAssumption
  <2>1. call' \in [Jobs -> CallStates]
    BY <1>2, EnterType DEF Start, Phases, Answers
  <2>2. work' \in [Jobs -> WorkStates]
    BY <1>2, BecomesType DEF Start, ClosingOnFailure, WorkStates
  <2>3. StoreTypeOK'
    <3>1. CASE StartCreate(j)
      BY <1>0, <1>2, <3>1, StoreCallType DEF Start
    <3>2. CASE UNCHANGED op
      BY <1>0, <1>2, <3>2, StoreUnchangedType DEF Start, storeVars
    <3>. QED
      BY <1>2, <3>1, <3>2 DEF Start
  <2>. QED
    BY <1>2, <2>1, <2>2, <2>3 DEF Start, JobsTypeOK
<1>3. ASSUME NEW j \in Jobs, RejectDefer(j) PROVE JobsTypeOK'
  <2>1. call' \in [Jobs -> CallStates]
    BY <1>3, EnterType DEF RejectDefer, Answers
  <2>2. work' \in [Jobs -> WorkStates]
    BY <1>3, BecomesType DEF RejectDefer, WorkStates
  <2>. QED
    BY <1>0, <1>3, <2>1, <2>2, StoreUnchangedType DEF RejectDefer, JobsTypeOK
<1>4. ASSUME NEW j \in Jobs, Announced(j) PROVE JobsTypeOK'
  <2>1. call' \in [Jobs -> CallStates]
    BY <1>4, GoOnType DEF Announced, Phases
  <2>2. work' \in [Jobs -> WorkStates]
    BY <1>4, BecomesType DEF Announced, WorkStates
  <2>. QED
    BY <1>0, <1>4, <2>1, <2>2, StoreUnchangedType DEF Announced, JobsTypeOK
<1>5. ASSUME NEW j \in Jobs, NEW end \in Ended, WorkEnds(j, end) PROVE JobsTypeOK'
  <2>1. work' \in [Jobs -> WorkStates]
    BY <1>5, BecomesType DEF WorkEnds, WorkStates
  <2>. QED
    BY <1>0, <1>5, <2>1, StoreUnchangedType DEF WorkEnds, JobsTypeOK
<1>6. ASSUME NEW j \in Jobs, Inline(j) PROVE JobsTypeOK'
  <2>1. call' \in [Jobs -> CallStates]
    BY <1>6, ReturnType DEF Inline, ResultOf, Ended, Answers, FaultNames, Phases
  <2>. QED
    BY <1>0, <1>6, <2>1, StoreUnchangedType DEF Inline, JobsTypeOK
<1>7. ASSUME NEW j \in Jobs, Promote(j) PROVE JobsTypeOK'
  <2>1. call' \in [Jobs -> CallStates]
    BY <1>7, GoOnType DEF Promote, Phases
  <2>. QED
    BY <1>0, <1>7, <2>1, StoreCallType DEF Promote, JobsTypeOK
<1>8. ASSUME NEW j \in Jobs, Created(j) \/ CapRejects(j) \/ CreateFails(j) PROVE JobsTypeOK'
  <2>1. StoreTypeOK'
    BY <1>0, <1>8, StoreCallType DEF Created, CapRejects, CreateFails, TakeCreated
  <2>2. call' \in [Jobs -> CallStates]
    <3>1. InCall(j, Phases)
      BY <1>8 DEF Created, CapRejects, CreateFails, TakeCreated, Phases
    <3>2. \/ \E answer \in Answers : Return(j, answer)
          \/ GoOn(j, "stopping")
      BY <1>8 DEF Created, CapRejects, CreateFails, StopWork, FinishedMeanwhile, ResultOf, Answers
    <3>. QED
      BY <3>1, <3>2, ReturnType, GoOnType DEF Phases
  <2>3. work' \in [Jobs -> WorkStates]
    <3>1. \/ UNCHANGED work
          \/ Becomes(j, "running") \/ Becomes(j, "closed")
      BY <1>8 DEF Created, CapRejects, CreateFails, ClosingOnFailure
    <3>. QED
      BY <3>1, BecomesType DEF WorkStates, JobsTypeOK
  <2>. QED
    BY <1>8, <2>1, <2>2, <2>3 DEF Created, CapRejects, CreateFails, Watch, StopWork, JobsTypeOK
<1>9. ASSUME NEW j \in Jobs, Stopped(j) PROVE JobsTypeOK'
  <2>1. call' \in [Jobs -> CallStates]
    BY <1>9, ReturnType DEF Stopped, Answers, Phases
  <2>. QED
    BY <1>0, <1>9, <2>1, StoreUnchangedType DEF Stopped, JobsTypeOK
<1>10. ASSUME NEW j \in Jobs, CancelCall(j) PROVE JobsTypeOK'
  <2>1. call' \in [Jobs -> CallStates]
    BY <1>10, ReturnType DEF CancelCall, Answers, FaultNames, Phases, JobsTypeOK
  <2>2. work' \in [Jobs -> WorkStates]
    BY <1>10, BecomesType DEF CancelCall, ClosingOnFailure, WorkStates, JobsTypeOK
  <2>. QED
    BY <1>0, <1>10, <2>1, <2>2, StoreUnchangedType DEF CancelCall, JobsTypeOK
<1>11. ASSUME NEW j \in Jobs, ScheduleOutcome(j) PROVE JobsTypeOK'
  BY <1>0, <1>11, StatusType, StoreCallType DEF ScheduleOutcome, JobsTypeOK
<1>12. ASSUME NEW j \in Jobs, WriterEnds(j) PROVE JobsTypeOK'
  BY <1>0, <1>12, StoreCallType DEF WriterEnds, manager, JobsTypeOK
<1>13. ASSUME NEW j \in Jobs, Poll(j) PROVE JobsTypeOK'
  <2>1. Heard(j) \in {"unknown"} \cup Statuses
    BY <1>0 DEF Heard, Present, Value, StoreTypeOK
  <2>. QED
    BY <1>0, <1>13, <2>1, StoreUnchangedType DEF Poll, JobsTypeOK
<1>14. ASSUME NEW j \in Jobs, UNCHANGED manager,
              StoreStep(j) \/ \E why \in FaultsOf(j) : StoreFault(j, why)
       PROVE  JobsTypeOK'
  <2>1. [StoreNext]_storeVars
    BY <1>14 DEF StoreNext, FaultsOf
  <2>. QED
    BY <1>0, <1>14, <2>1, StoreTypeStep DEF manager, JobsTypeOK
<1>15. CASE Tick /\ UNCHANGED manager
  BY <1>0, <1>15, StoreTypeStep DEF StoreNext, manager, JobsTypeOK
<1>16. CASE Die
  <2>1. StoreTypeOK'
    BY <1>0, <1>16, StoreTypeStep DEF Die, StoreNext
  <2>2. ASSUME NEW j \in Jobs, InCall(j, Phases)
        PROVE  [phase |-> "done", verb |-> call[j].verb, answer |-> "cancelled"] \in CallStates
    <3>1. call[j].verb \in {"run", "start", "defer"}
      BY <2>2, CallVerb DEF NoCall, Phases
    <3>. QED
      BY <3>1 DEF CallStates, Answers, FaultNames
  <2>3. call' \in [Jobs -> CallStates]
    BY <1>16, <2>2 DEF Die, JobsTypeOK
  <2>4. work' \in [Jobs -> WorkStates]
    BY <1>16 DEF Die, JobsTypeOK, WorkStates
  <2>. QED
    BY <1>16, <2>1, <2>3, <2>4 DEF Die, JobsTypeOK
<1>17. CASE UNCHANGED jobVars
  BY <1>0, <1>17, StoreUnchangedType DEF jobVars, storeVars, JobsTypeOK
<1>. QED
  BY <1>1, <1>2, <1>3, <1>4, <1>5, <1>6, <1>7, <1>8, <1>9, <1>10, <1>11, <1>12, <1>13, <1>14,
     <1>15, <1>16, <1>17
  DEF JobsNext, Verb, Loop, JobsRest

(* The state of the manager and its store is well formed. *)
THEOREM JobsTypeCorrect == JobsSpec => []JobsTypeOK
<1>1. JobsInit => JobsTypeOK
  BY DEF JobsInit, JobsTypeOK, StoreInit, StoreTypeOK, EmptyStore, Calls, CallStates, WorkStates
<1>. QED
  BY <1>1, JobsTypeStep, PTL DEF JobsSpec

------------------------------------------------------------------------------
(* What holds of one job. *)

Started == {"running"} \cup Ended
Unrecorded(j) == j \notin DOMAIN records

(* How far a request has come tells what it holds of the coroutine. *)
Calling(j) ==
    /\ call[j] = NoCall => work[j] = "none"
    /\ InCall(j, {"announcing"}) => work[j] = "constructed"
    /\ InCall(j, {"awaiting", "waiting", "stopping"}) => work[j] \in Started
    /\ InCall(j, {"waiting", "stopping"}) => call[j].verb = "run"
    /\ InCall(j, {"creating"}) =>
           IF call[j].verb = "run" THEN work[j] \in Started ELSE work[j] = "constructed"
    /\ InCall(j, {"stopping"}) => j \in stop \/ work[j] = "cancelled"
    /\ InCall(j, {"done"}) /\ work[j] = "constructed" => call[j].verb = "run"
    /\ Answered(j, {"ok", "raised"}) => work[j] = call[j].answer
    /\ Answered(j, {"limit"}) => \/ work[j] \in {"closed", "cancelled"}
                                 \/ j \in stop /\ work[j] \in Ended

(* Creating, before the record is written, or turned away.                 *)
NotYetWritten(j) == \/ InPhase(j, {"wait", "read"}) /\ op[j].name = "create"
                    \/ InPhase(j, {"prune", "record"})
                    \/ InPhase(j, {"done"}) /\ op[j].outcome = "limit"

IsCreate(j) == \/ InPhase(j, {"wait", "read"}) /\ op[j].name = "create"
               \/ InPhase(j, {"prune", "record", "index", "done"})

(* A writer settles what the work came to.                                 *)
IsSettle(j) == \/ InPhase(j, {"wait", "read"}) /\ op[j].name = "settle" /\ op[j].status = StatusOf(work[j])
               \/ InPhase(j, {"settle"}) /\ op[j].status = StatusOf(work[j])
               \/ InPhase(j, {"done"})

(* And what is stored for it. *)
Storing(j) ==
    /\ call[j] = NoCall \/ InCall(j, {"announcing", "awaiting", "waiting", "stopping"}) =>
           op[j] = Idle /\ Unrecorded(j)
    /\ InCall(j, {"creating"}) => IsCreate(j) /\ (NotYetWritten(j) => Unrecorded(j))
    /\ InCall(j, {"done"}) /\ op[j] # Idle =>
           IsSettle(j) /\ work[j] \in Ended /\ Answered(j, {"handle"})
    /\ Answered(j, {"ok", "raised"}) => Unrecorded(j)
    /\ j \in tracked => Answered(j, {"handle"})
    /\ ~Unrecorded(j) /\ records[j].value # "working" =>
           work[j] \in Ended /\ records[j].value = StatusOf(work[j])

JobsInv == JobsTypeOK /\ \A j \in Jobs : Calling(j) /\ Storing(j)

(* What a step of another job leaves alone. *)
Same(i) == /\ call'[i] = call[i] /\ work'[i] = work[i] /\ op'[i] = op[i]
           /\ i \in stop => i \in stop'
           /\ i \in tracked' => i \in tracked
           /\ i \in DOMAIN records' <=> i \in DOMAIN records
           /\ i \in DOMAIN records => records'[i] = records[i]

(* The invariant of a job depends on that job alone.                       *)
LEMMA Frame ==
    ASSUME NEW i \in Jobs, Calling(i), Storing(i), Same(i)
    PROVE  Calling(i)' /\ Storing(i)'
<1>1. Calling(i)'
  BY DEF Calling, Same, Answered
<1>2. Storing(i)'
  BY DEF Storing, Same, Answered, Unrecorded, IsCreate, IsSettle, NotYetWritten
<1>. QED
  BY <1>1, <1>2

(* So a step of one job has to be looked at for that job only.             *)
LEMMA OneJob ==
    ASSUME JobsInv, JobsTypeOK', NEW j \in Jobs, Calling(j)', Storing(j)',
           \A i \in Jobs \ {j} : Same(i)
    PROVE  JobsInv'
<1>1. ASSUME NEW i \in Jobs \ {j} PROVE Calling(i)' /\ Storing(i)'
  BY <1>1, Frame DEF JobsInv
<1>. QED
  BY <1>1 DEF JobsInv

(* Requests of other jobs stay where they are. *)
LEMMA CallOnly ==
    ASSUME JobsTypeOK, NEW j \in Jobs, NEW i \in Jobs \ {j},
           \/ \E verb \in {"run", "start", "defer"} :
                 \/ \E phase \in Phases : Enter(j, verb, phase)
                 \/ \E answer \in Answers : Reject(j, verb, answer)
           \/ \E answer \in Answers : Return(j, answer)
           \/ \E phase \in Phases : GoOn(j, phase)
           \/ UNCHANGED call
    PROVE  call'[i] = call[i]
  BY DEF JobsTypeOK, Enter, Reject, Return, GoOn

(* A step for one job leaves the work of the others alone.                 *)
LEMMA WorkOnly ==
    ASSUME JobsTypeOK, NEW j \in Jobs, NEW i \in Jobs \ {j},
           UNCHANGED work \/ \E state \in WorkStates : Becomes(j, state)
    PROVE  work'[i] = work[i]
  BY DEF JobsTypeOK, Becomes

(* And their calls of the store.                                           *)
LEMMA OpOnly ==
    ASSUME JobsTypeOK, NEW j \in Jobs, NEW i \in Jobs \ {j},
           UNCHANGED op \/ StartCreate(j) \/ Collect(j) \/ \E status \in Outcomes : StartSettle(j, status)
    PROVE  op'[i] = op[i]
  BY DEF JobsTypeOK, StoreTypeOK, StartCreate, Collect, StartSettle

------------------------------------------------------------------------------
(* The actions, each for its own job. *)

(* A verb is entered. *)
LEMMA RunStep ==
    ASSUME JobsInv, NEW j \in Jobs, NEW mode \in Modes, RunWithDeadline(j, mode), JobsTypeOK'
    PROVE  JobsInv'
<1>1. ASSUME NEW i \in Jobs \ {j} PROVE Same(i)
  BY <1>1, CallOnly, WorkOnly DEF RunWithDeadline, JobsInv, Same, storeVars, Phases, Answers, WorkStates
<1>2. \/ call'[j] = [phase |-> "awaiting", verb |-> "run"] /\ work'[j] = "running"
      \/ call'[j] = [phase |-> "waiting", verb |-> "run"] /\ work'[j] = "running"
      \/ call'[j] = [phase |-> "done", verb |-> "run", answer |-> "skew"] /\ work'[j] = "constructed"
  BY DEF RunWithDeadline, Enter, Reject, Becomes, JobsInv, JobsTypeOK
<1>3. op'[j] = Idle /\ Unrecorded(j)'
  BY DEF RunWithDeadline, storeVars, JobsInv, Storing, Unrecorded
<1>4. Calling(j)'
  BY <1>2 DEF Calling, Answered, Started, NoCall
<1>5. Storing(j)'
  BY <1>2, <1>3 DEF RunWithDeadline, JobsInv, Storing, Answered, Unrecorded, NoCall
<1>. QED
  BY <1>1, <1>4, <1>5, OneJob

(* start and the native answer: work is handed on or closed.               *)
LEMMA StartStep ==
    ASSUME JobsInv, NEW j \in Jobs, NEW verb \in Verbs \ {"run"}, NEW mode \in Modes,
           Start(j, verb, mode), JobsTypeOK'
    PROVE  JobsInv'
<1>0. verb \in {"start", "defer"}
  BY VerbsAssumption
<1>1. ASSUME NEW i \in Jobs \ {j} PROVE Same(i)
  BY <1>0, <1>1, CallOnly, WorkOnly, OpOnly
  DEF Start, ClosingOnFailure, JobsInv, Same, Phases, Answers, WorkStates
<1>2. op[j] = Idle /\ Unrecorded(j) /\ Unrecorded(j)' /\ j \notin tracked
  BY DEF Start, JobsInv, Storing, Unrecorded, Answered, NoCall
<1>3. \/ /\ call'[j] = [phase |-> "awaiting", verb |-> verb] /\ work'[j] = "running" /\ op'[j] = Idle
      \/ /\ call'[j] = [phase |-> "announcing", verb |-> verb] /\ work'[j] = "constructed" /\ op'[j] = Idle
      \/ /\ call'[j] = [phase |-> "creating", verb |-> verb] /\ work'[j] = "constructed"
         /\ op'[j] = [phase |-> "wait", name |-> "create"]
      \/ /\ call'[j] = [phase |-> "done", verb |-> verb, answer |-> "skew"] /\ work'[j] = "closed"
         /\ op'[j] = Idle
  BY <1>2 DEF Start, Enter, Reject, Becomes, ClosingOnFailure, StartCreate, JobsInv, JobsTypeOK, StoreTypeOK
<1>4. Calling(j)'
  BY <1>0, <1>3 DEF Calling, Answered, Started, NoCall
<1>5. Storing(j)'
  BY <1>0, <1>2, <1>3 DEF Start, Storing, Answered, Unrecorded, NoCall, IsCreate, NotYetWritten
<1>. QED
  BY <1>1, <1>4, <1>5, OneJob

(* A defer that is refused before its create.                              *)
LEMMA RejectDeferStep ==
    ASSUME JobsInv, NEW j \in Jobs, RejectDefer(j), JobsTypeOK'
    PROVE  JobsInv'
<1>1. ASSUME NEW i \in Jobs \ {j} PROVE Same(i)
  BY <1>1, CallOnly, WorkOnly DEF RejectDefer, JobsInv, Same, storeVars, Answers, WorkStates
<1>2. call'[j] = [phase |-> "done", verb |-> "defer", answer |-> "invalid"] /\ work'[j] = "closed"
  BY DEF RejectDefer, Reject, Becomes, JobsInv, JobsTypeOK
<1>3. op'[j] = Idle /\ Unrecorded(j)'
  BY DEF RejectDefer, storeVars, JobsInv, Storing, Unrecorded
<1>4. Calling(j)'
  BY <1>2 DEF Calling, Answered, NoCall
<1>5. Storing(j)'
  BY <1>2, <1>3 DEF RejectDefer, JobsInv, Storing, Answered, Unrecorded, NoCall
<1>. QED
  BY <1>1, <1>4, <1>5, OneJob

(* The work begins once it was announced, or ends.                         *)
LEMMA AnnouncedStep ==
    ASSUME JobsInv, NEW j \in Jobs, Announced(j), JobsTypeOK'
    PROVE  JobsInv'
<1>1. ASSUME NEW i \in Jobs \ {j} PROVE Same(i)
  BY <1>1, CallOnly, WorkOnly DEF Announced, JobsInv, Same, storeVars, Phases, WorkStates
<1>2. call'[j] = [call[j] EXCEPT !.phase = "awaiting"] /\ work'[j] = "running"
  BY DEF Announced, GoOn, Becomes, JobsInv, JobsTypeOK
<1>3. call'[j].phase = "awaiting"
  <2>1. call[j] \in [phase : Phases, verb : {"run", "start", "defer"}]
    BY DEF Announced, JobsInv, JobsTypeOK, CallStates, NoCall, Phases
  <2>. QED
    BY <1>2, <2>1
<1>4. op'[j] = Idle /\ Unrecorded(j)'
  BY DEF Announced, storeVars, JobsInv, Storing, Unrecorded
<1>5. Calling(j)'
  BY <1>2, <1>3 DEF Calling, Answered, Started, NoCall
<1>6. Storing(j)'
  BY <1>3, <1>4 DEF Announced, JobsInv, Storing, Answered, Unrecorded, NoCall
<1>. QED
  BY <1>1, <1>5, <1>6, OneJob

(* Work ends as it likes.                                                  *)
LEMMA WorkEndsStep ==
    ASSUME JobsInv, NEW j \in Jobs, NEW end \in Ended, WorkEnds(j, end), JobsTypeOK'
    PROVE  JobsInv'
<1>1. ASSUME NEW i \in Jobs \ {j} PROVE Same(i)
  BY <1>1, WorkOnly DEF WorkEnds, JobsInv, Same, storeVars, WorkStates
<1>2. work[j] = "running" /\ work'[j] = end
  BY DEF WorkEnds, Becomes, JobsInv, JobsTypeOK
<1>3. Calling(j)'
  BY <1>2 DEF WorkEnds, JobsInv, Calling, Answered, Started, Ended
<1>4. Storing(j)'
  BY <1>2 DEF WorkEnds, storeVars, JobsInv, Storing, Answered, Unrecorded, Ended, IsCreate, IsSettle, NotYetWritten
<1>. QED
  BY <1>1, <1>3, <1>4, OneJob

(* A request that returns. *)
LEMMA Returned ==
    ASSUME JobsTypeOK, NEW j \in Jobs, NEW answer, Return(j, answer)
    PROVE  call'[j] = [phase |-> "done", verb |-> call[j].verb, answer |-> answer]
  BY DEF Return, Reject, JobsTypeOK

(* A request that goes on. *)
LEMMA GoneOn ==
    ASSUME JobsTypeOK, NEW j \in Jobs, InCall(j, Phases), NEW phase \in Phases, GoOn(j, phase)
    PROVE  call'[j] = [phase |-> phase, verb |-> call[j].verb]
<1>1. call[j] \in [phase : Phases, verb : {"run", "start", "defer"}]
  BY DEF JobsTypeOK, CallStates, NoCall, Phases
<1>2. call'[j] = [call[j] EXCEPT !.phase = phase]
  BY DEF GoOn, JobsTypeOK
<1>. QED
  BY <1>1, <1>2

(* Work that ends in time is answered inline.                              *)
LEMMA InlineStep ==
    ASSUME JobsInv, NEW j \in Jobs, Inline(j), JobsTypeOK'
    PROVE  JobsInv'
<1>1. ASSUME NEW i \in Jobs \ {j} PROVE Same(i)
  BY <1>1, CallOnly DEF Inline, ResultOf, Ended, JobsInv, Same, storeVars, Answers, FaultNames
<1>2. call'[j] = [phase |-> "done", verb |-> call[j].verb, answer |-> work[j]] /\ work[j] \in Ended
  BY Returned DEF Inline, ResultOf, JobsInv
<1>3. op'[j] = Idle /\ Unrecorded(j)' /\ work'[j] = work[j] /\ j \notin tracked'
  BY DEF Inline, storeVars, JobsInv, Storing, Unrecorded, Answered
<1>4. Calling(j)'
  BY <1>2, <1>3 DEF Calling, Answered, Ended, NoCall
<1>5. Storing(j)'
  BY <1>2, <1>3 DEF Storing, Answered, Unrecorded, NoCall
<1>. QED
  BY <1>1, <1>4, <1>5, OneJob

(* The deadline passes and a create begins.                                *)
LEMMA PromoteStep ==
    ASSUME JobsInv, NEW j \in Jobs, Promote(j), JobsTypeOK'
    PROVE  JobsInv'
<1>1. ASSUME NEW i \in Jobs \ {j} PROVE Same(i)
  BY <1>1, CallOnly, OpOnly DEF Promote, JobsInv, Same, Phases
<1>2. call'[j] = [phase |-> "creating", verb |-> call[j].verb] /\ call[j].verb = "run"
  BY GoneOn DEF Promote, JobsInv, Calling, Phases
<1>3. /\ op'[j] = [phase |-> "wait", name |-> "create"] /\ Unrecorded(j)'
      /\ work'[j] = "running" /\ j \notin tracked'
  BY DEF Promote, StartCreate, JobsInv, JobsTypeOK, StoreTypeOK, Storing, Unrecorded, Answered
<1>4. Calling(j)'
  BY <1>2, <1>3 DEF Calling, Answered, Started, NoCall
<1>5. Storing(j)'
  BY <1>2, <1>3 DEF Storing, Answered, Unrecorded, NoCall, IsCreate, NotYetWritten
<1>. QED
  BY <1>1, <1>4, <1>5, OneJob

(* store.create has returned, one way or another. *)
LEMMA CreateEnds ==
    ASSUME JobsInv, NEW j \in Jobs, TakeCreated(j), UNCHANGED collections
    PROVE  /\ op'[j] = Idle /\ InCall(j, Phases) /\ call[j] # NoCall
           /\ IF call[j].verb = "run" THEN work[j] \in Started ELSE work[j] = "constructed"
           /\ op[j].outcome = "limit" => Unrecorded(j)
           /\ j \notin tracked
           /\ ~Unrecorded(j)' /\ records'[j].value # "working" =>
                  work[j] \in Ended /\ records'[j].value = StatusOf(work[j])
  BY DEF TakeCreated, Collect, JobsInv, JobsTypeOK, StoreTypeOK, Calling, Storing, NotYetWritten, Unrecorded,
         Answered, Phases, NoCall

(* A create has succeeded: the work is watched or settled.                 *)
LEMMA CreatedStep ==
    ASSUME JobsInv, NEW j \in Jobs, Created(j), JobsTypeOK'
    PROVE  JobsInv'
<1>1. ASSUME NEW i \in Jobs \ {j} PROVE Same(i)
  <2>1. call'[i] = call[i]
    BY <1>1, CallOnly DEF Created, JobsInv, Answers
  <2>2. work'[i] = work[i]
    BY <1>1, WorkOnly DEF Created, JobsInv, WorkStates
  <2>3. op'[i] = op[i]
    BY <1>1, OpOnly DEF Created, TakeCreated, JobsInv
  <2>. QED
    BY <1>1, <2>1, <2>2, <2>3 DEF Created, Watch, Same
<1>2. call'[j] = [phase |-> "done", verb |-> call[j].verb, answer |-> "handle"]
  BY Returned DEF Created, JobsInv
<1>3. work'[j] \in Started /\ (work[j] \in Ended => work'[j] = work[j])
  <2>1. CASE call[j].verb = "run"
    BY <2>1, CreateEnds DEF Created
  <2>2. CASE call[j].verb # "run"
    BY <2>2, CreateEnds DEF Created, Becomes, JobsInv, JobsTypeOK, Started, Ended
  <2>. QED
    BY <2>1, <2>2
<1>4. Calling(j)'
  BY <1>2, <1>3 DEF Calling, Answered, Started, Ended, NoCall
<1>5. Storing(j)'
  BY <1>2, <1>3, CreateEnds DEF Created, Storing, Answered, Unrecorded, NoCall
<1>. QED
  BY <1>1, <1>4, <1>5, OneJob

(* A create is refused by the cap.                                         *)
LEMMA CapRejectsStep ==
    ASSUME JobsInv, NEW j \in Jobs, CapRejects(j), JobsTypeOK'
    PROVE  JobsInv'
<1>1. ASSUME NEW i \in Jobs \ {j} PROVE Same(i)
  <2>1. call'[i] = call[i]
    BY <1>1, CallOnly DEF CapRejects, StopWork, FinishedMeanwhile, ResultOf, JobsInv, Answers, Phases
  <2>2. work'[i] = work[i]
    BY <1>1, WorkOnly DEF CapRejects, ClosingOnFailure, JobsInv, WorkStates
  <2>3. op'[i] = op[i]
    BY <1>1, OpOnly DEF CapRejects, TakeCreated, JobsInv
  <2>. QED
    BY <1>1, <2>1, <2>2, <2>3 DEF CapRejects, StopWork, Same
<1>2. op'[j] = Idle /\ Unrecorded(j)' /\ j \notin tracked'
  BY CreateEnds DEF CapRejects, TakeCreated, Unrecorded
<1>3. CASE call[j].verb = "run" /\ FinishedMeanwhile(j) /\ Return(j, ResultOf(j)) /\ UNCHANGED work
  <2>1. call'[j] = [phase |-> "done", verb |-> "run", answer |-> work[j]] /\ work'[j] \in {"ok", "raised"}
    BY <1>3, Returned DEF FinishedMeanwhile, ResultOf, JobsInv
  <2>2. Calling(j)'
    BY <1>3, <2>1 DEF Calling, Answered, NoCall
  <2>3. Storing(j)'
    BY <1>2, <2>1 DEF Storing, Answered, Unrecorded, NoCall
  <2>. QED
    BY <1>1, <2>2, <2>3, OneJob
<1>4. CASE call[j].verb = "run" /\ ~FinishedMeanwhile(j) /\ StopWork(j) /\ UNCHANGED work
  <2>1. call'[j] = [phase |-> "stopping", verb |-> "run"]
    BY <1>4, CreateEnds, GoneOn DEF CapRejects, StopWork, JobsInv, Phases
  <2>2. work'[j] \in Started /\ (j \in stop' \/ work'[j] = "cancelled")
    BY <1>4, CreateEnds DEF CapRejects, StopWork, FinishedMeanwhile, Started, Ended
  <2>3. Calling(j)'
    BY <2>1, <2>2 DEF Calling, Answered, NoCall, Started, Ended
  <2>4. Storing(j)'
    BY <1>2, <2>1 DEF Storing, Answered, Unrecorded, NoCall
  <2>. QED
    BY <1>1, <2>3, <2>4, OneJob
<1>5. CASE call[j].verb # "run" /\ Return(j, "limit") /\ ClosingOnFailure(j)
  <2>1. /\ call'[j] = [phase |-> "done", verb |-> call[j].verb, answer |-> "limit"]
        /\ work'[j] = "closed"
    BY <1>5, Returned DEF ClosingOnFailure, Becomes, JobsInv, JobsTypeOK
  <2>2. Calling(j)'
    BY <2>1 DEF Calling, Answered, NoCall
  <2>3. Storing(j)'
    BY <1>2, <2>1 DEF Storing, Answered, Unrecorded, NoCall
  <2>. QED
    BY <1>1, <2>2, <2>3, OneJob
<1>. QED
  BY <1>3, <1>4, <1>5 DEF CapRejects

(* A create fails or is cancelled.                                         *)
LEMMA CreateFailsStep ==
    ASSUME JobsInv, NEW j \in Jobs, CreateFails(j), JobsTypeOK'
    PROVE  JobsInv'
<1>1. ASSUME NEW i \in Jobs \ {j} PROVE Same(i)
  <2>1. call'[i] = call[i]
    BY <1>1, CallOnly DEF CreateFails, JobsInv, Answers
  <2>2. work'[i] = work[i]
    BY <1>1, WorkOnly DEF CreateFails, ClosingOnFailure, JobsInv, WorkStates
  <2>3. op'[i] = op[i]
    BY <1>1, OpOnly DEF CreateFails, TakeCreated, JobsInv
  <2>. QED
    BY <1>1, <2>1, <2>2, <2>3 DEF CreateFails, Same
<1>2. /\ call'[j] = [phase |-> "done", verb |-> call[j].verb, answer |-> op[j].outcome]
      /\ op[j].outcome \in {"kv_error", "cancelled"}
  BY Returned DEF CreateFails, JobsInv, FaultNames
<1>3. IF call[j].verb = "run" THEN work'[j] = work[j] /\ work[j] \in Started ELSE work'[j] = "closed"
  BY CreateEnds DEF CreateFails, ClosingOnFailure, Becomes, JobsInv, JobsTypeOK
<1>4. Calling(j)'
  BY <1>2, <1>3 DEF Calling, Answered, Started, Ended, NoCall
<1>5. work[j] \in Ended => work'[j] = work[j]
  BY <1>3, CreateEnds DEF CreateFails, Ended
<1>6. Storing(j)'
  BY <1>2, <1>5, CreateEnds DEF CreateFails, Storing, Answered, Unrecorded, NoCall
<1>. QED
  BY <1>1, <1>4, <1>6, OneJob

(* The stopped task has ended and the rejection is answered.               *)
LEMMA StoppedStep ==
    ASSUME JobsInv, NEW j \in Jobs, Stopped(j), JobsTypeOK'
    PROVE  JobsInv'
<1>1. ASSUME NEW i \in Jobs \ {j} PROVE Same(i)
  BY <1>1, CallOnly DEF Stopped, JobsInv, Same, storeVars, Answers
<1>2. /\ call'[j] = [phase |-> "done", verb |-> call[j].verb,
                     answer |-> IF work[j] = "raised" THEN "raised" ELSE "limit"]
      /\ work[j] \in Ended /\ work'[j] = work[j] /\ (j \in stop' \/ work[j] = "cancelled")
  BY Returned DEF Stopped, JobsInv, Calling
<1>3. op'[j] = Idle /\ Unrecorded(j)' /\ j \notin tracked'
  BY DEF Stopped, storeVars, JobsInv, Storing, Unrecorded, Answered
<1>4. Calling(j)'
  BY <1>2 DEF Calling, Answered, Ended, NoCall
<1>5. Storing(j)'
  BY <1>2, <1>3 DEF Storing, Answered, Unrecorded, NoCall
<1>. QED
  BY <1>1, <1>4, <1>5, OneJob

(* The request is cancelled in an await of the manager.                    *)
LEMMA CancelCallStep ==
    ASSUME JobsInv, NEW j \in Jobs, CancelCall(j), JobsTypeOK'
    PROVE  JobsInv'
<1>1. ASSUME NEW i \in Jobs \ {j} PROVE Same(i)
  <2>1. call'[i] = call[i]
    BY <1>1, CallOnly DEF CancelCall, JobsInv, Answers, FaultNames
  <2>2. work'[i] = work[i]
    BY <1>1, WorkOnly DEF CancelCall, ClosingOnFailure, JobsInv, WorkStates
  <2>. QED
    BY <1>1, <2>1, <2>2 DEF CancelCall, storeVars, Same
<1>2. op'[j] = Idle /\ Unrecorded(j)' /\ j \notin tracked'
  BY DEF CancelCall, storeVars, JobsInv, Storing, Unrecorded, Answered
<1>3. CASE InCall(j, {"waiting"}) /\ Return(j, "cancelled") /\ UNCHANGED <<work, stop>>
  <2>1. call'[j] = [phase |-> "done", verb |-> "run", answer |-> "cancelled"] /\ work'[j] = work[j]
    BY <1>3, Returned DEF JobsInv, Calling
  <2>2. Calling(j)'
    BY <2>1 DEF Calling, Answered, NoCall
  <2>3. Storing(j)'
    BY <1>2, <2>1 DEF Storing, Answered, Unrecorded, NoCall
  <2>. QED
    BY <1>1, <2>2, <2>3, OneJob
<1>4. CASE InCall(j, {"awaiting"}) /\ stop' = stop \cup {j} /\ UNCHANGED <<call, work>>
  <2>1. Calling(j)'
    BY <1>4 DEF JobsInv, Calling, Answered
  <2>2. Storing(j)'
    BY <1>2, <1>4 DEF JobsInv, Storing, Answered, Unrecorded, NoCall
  <2>. QED
    BY <1>1, <2>1, <2>2, OneJob
<1>5. CASE InCall(j, {"announcing"}) /\ Return(j, "cancelled") /\ ClosingOnFailure(j)
  <2>1. /\ call'[j] = [phase |-> "done", verb |-> call[j].verb, answer |-> "cancelled"]
        /\ work'[j] = "closed"
    BY <1>5, Returned DEF ClosingOnFailure, Becomes, JobsInv, JobsTypeOK
  <2>2. Calling(j)'
    BY <2>1 DEF Calling, Answered, NoCall
  <2>3. Storing(j)'
    BY <1>2, <2>1 DEF Storing, Answered, Unrecorded, NoCall
  <2>. QED
    BY <1>1, <2>2, <2>3, OneJob
<1>. QED
  BY <1>3, <1>4, <1>5 DEF CancelCall

(* The writer settles what the work came to. *)
LEMMA ScheduleStep ==
    ASSUME JobsInv, NEW j \in Jobs, ScheduleOutcome(j), JobsTypeOK'
    PROVE  JobsInv'
<1>1. ASSUME NEW i \in Jobs \ {j} PROVE Same(i)
  BY <1>1, StatusType, OpOnly DEF ScheduleOutcome, JobsInv, Same
<1>2. op'[j] = [phase |-> "wait", name |-> "settle", status |-> StatusOf(work[j])]
  BY DEF ScheduleOutcome, StartSettle, JobsInv, JobsTypeOK, StoreTypeOK
<1>3. Answered(j, {"handle"}) /\ work[j] \in Ended
  BY DEF ScheduleOutcome, JobsInv, Storing
<1>4. Calling(j)'
  BY DEF ScheduleOutcome, JobsInv, Calling, Answered
<1>5. Storing(j)'
  BY <1>2, <1>3 DEF ScheduleOutcome, JobsInv, Storing, Answered, Unrecorded, NoCall, IsSettle
<1>. QED
  BY <1>1, <1>4, <1>5, OneJob

(* The outcome writer has settled the record, or failed to.                *)
LEMMA WriterEndsStep ==
    ASSUME JobsInv, NEW j \in Jobs, WriterEnds(j), JobsTypeOK'
    PROVE  JobsInv'
<1>1. ASSUME NEW i \in Jobs \ {j} PROVE Same(i)
  BY <1>1, OpOnly DEF WriterEnds, manager, JobsInv, Same
<1>2. op'[j] = Idle
  BY DEF WriterEnds, Collect, JobsInv, JobsTypeOK, StoreTypeOK
<1>3. Calling(j)'
  BY DEF WriterEnds, manager, JobsInv, Calling, Answered
<1>4. Storing(j)'
  BY <1>2 DEF WriterEnds, manager, JobsInv, Storing, Answered, Unrecorded, NoCall
<1>. QED
  BY <1>1, <1>3, <1>4, OneJob

------------------------------------------------------------------------------
(* The store's own steps. *)

(* A step of one call leaves the calls and records of other jobs alone.    *)
LEMMA StoreFrame ==
    ASSUME StoreTypeOK, NEW j \in Jobs, NEW i \in Jobs \ {j},
           StoreStep(j) \/ \E why \in FaultNames : StoreFault(j, why)
    PROVE  /\ op'[i] = op[i]
           /\ i \in DOMAIN records' <=> i \in DOMAIN records
           /\ i \in DOMAIN records => records'[i] = records[i]
<1>1. op'[i] = op[i]
  BY DEF StoreTypeOK, StoreStep, StoreFault, Acquire, ReadIndex, Prune, ReadRecord, Write, Raise,
         WriteUnanswered, End
<1>2. UNCHANGED records \/ PutRecord(j) \/ PutSettled(j)
  BY DEF StoreStep, StoreFault, Acquire, ReadIndex, Prune, ReadRecord, Write, Raise, WriteUnanswered,
         Put1, PutIndex
<1>3. /\ i \in DOMAIN records' <=> i \in DOMAIN records
      /\ i \in DOMAIN records => records'[i] = records[i]
  BY <1>2 DEF PutRecord, PutSettled, Put
<1>. QED
  BY <1>1, <1>3

(* A create goes on as one, and its record, once it is there, is working.  *)
LEMMA CreateGoesOn ==
    ASSUME StoreTypeOK, NEW j \in Jobs, IsCreate(j), NotYetWritten(j) => Unrecorded(j),
           StoreStep(j) \/ \E why \in FaultNames : StoreFault(j, why)
    PROVE  /\ IsCreate(j)' /\ (NotYetWritten(j)' => Unrecorded(j)')
           /\ UNCHANGED records \/ (j \in DOMAIN records' /\ records'[j].value = "working")
<1>. USE DEF IsCreate, NotYetWritten, Unrecorded
<1>1. CASE Acquire(j)
  <2>1. op[j] \in [phase : {"wait", "read"}, name : {"create"}]
    BY <1>1 DEF Acquire, StoreTypeOK, Calls, Idle
  <2>. QED
    BY <1>1, <2>1 DEF Acquire, StoreTypeOK
<1>2. CASE ReadIndex(j)
  BY <1>2 DEF ReadIndex, StoreTypeOK
<1>3. CASE Prune(j)
  BY <1>3 DEF Prune, End, StoreTypeOK
<1>4. CASE ReadRecord(j)
  BY <1>4 DEF ReadRecord
<1>5. CASE Write(j)
  BY <1>5 DEF Write, Put1, PutRecord, PutIndex, Put, End, StoreTypeOK
<1>6. ASSUME NEW why \in FaultNames, StoreFault(j, why)
      PROVE  /\ IsCreate(j)' /\ (NotYetWritten(j)' => Unrecorded(j)')
             /\ UNCHANGED records \/ (j \in DOMAIN records' /\ records'[j].value = "working")
  <2>1. op'[j] = [phase |-> "done", outcome |-> why] /\ why # "limit"
    BY <1>6 DEF StoreFault, Raise, WriteUnanswered, End, StoreTypeOK, FaultNames
  <2>. QED
    BY <1>6, <2>1 DEF StoreFault, Raise, WriteUnanswered, Put1, PutRecord, PutIndex, Put
<1>. QED
  BY <1>1, <1>2, <1>3, <1>4, <1>5, <1>6 DEF StoreStep

(* A settle goes on as one, and writes the status it was started with.     *)
LEMMA SettleGoesOn ==
    ASSUME StoreTypeOK, NEW j \in Jobs, IsSettle(j), UNCHANGED work,
           StoreStep(j) \/ \E why \in FaultNames : StoreFault(j, why)
    PROVE  /\ IsSettle(j)'
           /\ UNCHANGED records \/ (j \in DOMAIN records' /\ records'[j].value = StatusOf(work[j]))
<1>. USE DEF IsSettle
<1>1. CASE Acquire(j)
  <2>1. op[j] \in [phase : {"wait", "read"}, name : {"settle"}, status : Outcomes]
    BY <1>1 DEF Acquire, StoreTypeOK, Calls, Idle
  <2>. QED
    BY <1>1, <2>1 DEF Acquire, StoreTypeOK
<1>2. CASE ReadIndex(j) \/ Prune(j)
  BY <1>2 DEF ReadIndex, Prune
<1>3. CASE ReadRecord(j)
  BY <1>3 DEF ReadRecord, End, StoreTypeOK
<1>4. CASE Write(j)
  BY <1>4 DEF Write, Put1, PutSettled, Put, End, StoreTypeOK
<1>5. ASSUME NEW why \in FaultNames, StoreFault(j, why)
      PROVE  /\ IsSettle(j)'
             /\ UNCHANGED records \/ (j \in DOMAIN records' /\ records'[j].value = StatusOf(work[j]))
  <2>1. op'[j] = [phase |-> "done", outcome |-> why]
    BY <1>5 DEF StoreFault, Raise, WriteUnanswered, End, StoreTypeOK
  <2>. QED
    BY <1>5, <2>1 DEF StoreFault, Raise, WriteUnanswered, Put1, PutSettled, Put
<1>. QED
  BY <1>1, <1>2, <1>3, <1>4, <1>5 DEF StoreStep

(* A step of the record store for a call of the manager.                   *)
LEMMA StoreCallStep ==
    ASSUME JobsInv, NEW j \in Jobs, UNCHANGED manager, JobsTypeOK',
           StoreStep(j) \/ \E why \in FaultNames : StoreFault(j, why)
    PROVE  JobsInv'
<1>0. StoreTypeOK /\ op[j] # Idle
  BY DEF JobsInv, JobsTypeOK, StoreStep, StoreFault, Acquire, ReadIndex, Prune, ReadRecord, Write, Raise,
         WriteUnanswered, Put1, Idle
<1>1. ASSUME NEW i \in Jobs \ {j} PROVE Same(i)
  BY <1>0, <1>1, StoreFrame DEF manager, Same
<1>2. Calling(j)'
  BY DEF manager, JobsInv, Calling, Answered
<1>3. CASE InCall(j, {"creating"})
  <2>1. /\ IsCreate(j)' /\ (NotYetWritten(j)' => Unrecorded(j)')
        /\ UNCHANGED records \/ (j \in DOMAIN records' /\ records'[j].value = "working")
    BY <1>0, <1>3, CreateGoesOn DEF JobsInv, Storing
  <2>2. Storing(j)'
    BY <1>3, <2>1 DEF manager, JobsInv, Storing, Answered, Unrecorded, NoCall
  <2>. QED
    BY <1>1, <1>2, <2>2, OneJob
<1>4. CASE InCall(j, {"done"})
  <2>1. IsSettle(j) /\ work[j] \in Ended /\ Answered(j, {"handle"})
    BY <1>0, <1>4 DEF JobsInv, Storing
  <2>2. /\ IsSettle(j)'
        /\ UNCHANGED records \/ (j \in DOMAIN records' /\ records'[j].value = StatusOf(work[j]))
    BY <1>0, <2>1, SettleGoesOn DEF manager
  <2>3. Storing(j)'
    BY <1>4, <2>1, <2>2 DEF manager, JobsInv, Storing, Answered, Unrecorded, NoCall
  <2>. QED
    BY <1>1, <1>2, <2>3, OneJob
<1>5. InCall(j, {"creating", "done"})
  <2>1. call[j] # NoCall /\ ~InCall(j, {"announcing", "awaiting", "waiting", "stopping"})
    BY <1>0 DEF JobsInv, Storing
  <2>. QED
    BY <2>1 DEF JobsInv, JobsTypeOK, CallStates, Phases, NoCall
<1>. QED
  BY <1>3, <1>4, <1>5

------------------------------------------------------------------------------
(* Steps of nobody in particular, and the invariant. *)

(* The process dies: nothing is under way any more; what is stored stays,  *)
(* or is gone altogether.                                                  *)
LEMMA DieStep ==
    ASSUME JobsInv, Die, JobsTypeOK'
    PROVE  JobsInv'
<1>. SUFFICES ASSUME NEW j \in Jobs PROVE Calling(j)' /\ Storing(j)'
  BY DEF JobsInv
<1>1. /\ op'[j] = Idle /\ tracked' = {} /\ stop' = stop
      /\ ~Unrecorded(j)' => ~Unrecorded(j) /\ records'[j] = records[j]
  BY DEF Die, StoreRestart, EmptyStore, Unrecorded
<1>2. /\ work'[j] = IF work[j] \in {"constructed", "running"} THEN "lost" ELSE work[j]
      /\ call'[j] = IF InCall(j, Phases)
                    THEN [phase |-> "done", verb |-> call[j].verb, answer |-> "cancelled"]
                    ELSE call[j]
  BY DEF Die, JobsInv, JobsTypeOK
<1>3. CASE InCall(j, Phases)
  <2>1. Calling(j)'
    BY <1>2, <1>3 DEF Calling, Answered, NoCall
  <2>2. Storing(j)'
    BY <1>1, <1>2, <1>3 DEF JobsInv, Storing, Answered, Unrecorded, NoCall, Ended
  <2>. QED
    BY <2>1, <2>2
<1>4. CASE ~InCall(j, Phases)
  <2>1. Calling(j)'
    BY <1>1, <1>2, <1>4 DEF JobsInv, Calling, Answered, NoCall, Phases, Ended
  <2>2. Storing(j)'
    BY <1>1, <1>2, <1>4 DEF JobsInv, Storing, Answered, Unrecorded, NoCall, Ended, Phases
  <2>. QED
    BY <2>1, <2>2
<1>. QED
  BY <1>3, <1>4

(* Time passes, a poll asks, or nothing happens. *)
LEMMA QuietStep ==
    ASSUME JobsInv, JobsTypeOK', UNCHANGED <<records, op, call, work, stop, tracked>>
    PROVE  JobsInv'
<1>1. ASSUME NEW j \in Jobs PROVE Calling(j)' /\ Storing(j)'
  <2>1. Same(j)
    BY DEF Same
  <2>. QED
    BY <2>1, Frame DEF JobsInv
<1>. QED
  BY <1>1 DEF JobsInv

(* Every step of manager and store keeps the invariant.                    *)
LEMMA JobsInductive == JobsInv /\ [JobsNext]_jobVars => JobsInv'
<1>. SUFFICES ASSUME JobsInv, [JobsNext]_jobVars PROVE JobsInv'
  OBVIOUS
<1>0. JobsTypeOK'
  BY JobsTypeStep DEF JobsInv
<1>1. ASSUME NEW j \in Jobs, Verb(j) PROVE JobsInv'
  BY <1>0, <1>1, RunStep, StartStep DEF Verb
<1>2. ASSUME NEW j \in Jobs, Loop(j) PROVE JobsInv'
  BY <1>0, <1>2, AnnouncedStep, InlineStep, StoppedStep, CreatedStep, CapRejectsStep, CreateFailsStep,
     ScheduleStep, WriterEndsStep DEF Loop
<1>3. ASSUME NEW j \in Jobs, Promote(j) \/ RejectDefer(j) \/ CancelCall(j)
                              \/ \E end \in Ended : WorkEnds(j, end)
      PROVE  JobsInv'
  BY <1>0, <1>3, PromoteStep, RejectDeferStep, CancelCallStep, WorkEndsStep
<1>4. ASSUME NEW j \in Jobs, UNCHANGED manager,
             StoreStep(j) \/ \E why \in FaultsOf(j) : StoreFault(j, why)
      PROVE  JobsInv'
  <2>1. FaultsOf(j) \subseteq FaultNames
    BY FaultsAssumption DEF FaultsOf
  <2>. QED
    BY <1>0, <1>4, <2>1, StoreCallStep
<1>5. ASSUME NEW j \in Jobs, Poll(j) PROVE JobsInv'
  BY <1>0, <1>5, QuietStep DEF Poll, storeVars
<1>6. CASE Tick /\ UNCHANGED manager
  BY <1>0, <1>6, QuietStep DEF Tick, manager
<1>7. CASE Die
  BY <1>0, <1>7, DieStep
<1>8. CASE UNCHANGED jobVars
  BY <1>0, <1>8, QuietStep DEF jobVars
<1>. QED
  BY <1>1, <1>2, <1>3, <1>4, <1>5, <1>6, <1>7, <1>8 DEF JobsNext, JobsRest

(* It holds when the process starts.                                       *)
LEMMA JobsInitInv == JobsInit => JobsInv
<1>. SUFFICES ASSUME JobsInit PROVE JobsInv
  OBVIOUS
<1>1. JobsTypeOK
  BY DEF JobsInit, JobsTypeOK, StoreInit, StoreTypeOK, EmptyStore, Calls, CallStates, WorkStates
<1>2. ASSUME NEW j \in Jobs PROVE Calling(j) /\ Storing(j)
  <2>1. call[j] = NoCall /\ work[j] = "none" /\ op[j] = Idle /\ Unrecorded(j) /\ j \notin tracked
    BY <1>2 DEF JobsInit, StoreInit, EmptyStore, Unrecorded
  <2>2. ~InCall(j, Phases \cup {"done"})
    BY <2>1 DEF NoCall, Phases
  <2>. QED
    BY <2>1, <2>2 DEF Calling, Storing, Answered, Phases
<1>. QED
  BY <1>1, <1>2 DEF JobsInv

------------------------------------------------------------------------------
(* Theorems. *)

(* What is known of a job's request, coroutine, store call and record fits *)
(* together, whatever fails, is cancelled or restarts.                     *)
THEOREM JobsSafe == JobsSpec => []JobsInv
  BY JobsInitInv, JobsInductive, PTL DEF JobsSpec

(* On every path on which start or defer declines to run it, the coroutine *)
(* is closed (_closing_on_failure).                                        *)
THEOREM NothingDropped == JobsSpec => []NoCoroutineDropped
<1>1. JobsInv => NoCoroutineDropped
  <2>. SUFFICES ASSUME JobsInv, NEW j \in Jobs, work[j] = "constructed", call[j].verb # "run"
                PROVE  InCall(j, Phases)
    BY DEF NoCoroutineDropped
  <2>1. call[j] # NoCall /\ ~InCall(j, {"done"})
    BY DEF JobsInv, Calling
  <2>. QED
    BY <2>1 DEF JobsInv, JobsTypeOK, CallStates, NoCall
<1>. QED
  BY <1>1, JobsSafe, PTL

(* Whoever hears of a rejection at the cap knows the work to be over       *)
(* (run_with_deadline, _closing_on_failure).                               *)
THEOREM RejectionsStop == JobsSpec => []RejectionStopsTheWork
<1>1. JobsInv => RejectionStopsTheWork
  BY DEF JobsInv, Calling, RejectionStopsTheWork
<1>. QED
  BY <1>1, JobsSafe, PTL

(* The outcome a client gets is the work's own, inline or from its record  *)
(* (_record_outcome, run_with_deadline).                                   *)
THEOREM OutcomesTrue == JobsSpec => []OutcomesAreTheWorks
<1>1. JobsInv => OutcomesAreTheWorks
  <2>. SUFFICES ASSUME JobsInv, NEW j \in Jobs
                PROVE  /\ Answered(j, {"ok", "raised"}) => work[j] = call[j].answer /\ j \notin DOMAIN records
                       /\ j \in DOMAIN records =>
                             /\ Value(records, j) = "completed" => work[j] = "ok"
                             /\ Value(records, j) = "failed" => work[j] = "raised"
                             /\ Value(records, j) = "cancelled" => work[j] = "cancelled"
    BY DEF OutcomesAreTheWorks
  <2>1. Calling(j) /\ Storing(j)
    BY DEF JobsInv
  <2>2. Answered(j, {"ok", "raised"}) => work[j] = call[j].answer /\ j \notin DOMAIN records
    BY <2>1 DEF Calling, Storing, Unrecorded
  <2>3. j \in DOMAIN records /\ Value(records, j) # "working" =>
           work[j] \in Ended /\ Value(records, j) = StatusOf(work[j])
    BY <2>1 DEF Storing, Unrecorded, Value
  <2>. QED
    BY <2>2, <2>3 DEF Ended, StatusOf
<1>. QED
  BY <1>1, JobsSafe, PTL

------------------------------------------------------------------------------
(* Untracked work. *)

(* While no await fails and no request is cancelled, a store call ends     *)
(* only as it should, and work that outlives its request is watched.       *)
Watched(j) == /\ InPhase(j, {"done"}) => op[j].outcome \in {"ok", "limit"}
              /\ InCall(j, {"done"}) /\ work[j] = "running" => j \in tracked

(* Without faults a store step leaves watched work watched.                *)
LEMMA WatchedStore ==
    ASSUME JobsInv, NEW i \in Jobs, Watched(i), NEW j \in Jobs, StoreStep(j), UNCHANGED manager
    PROVE  Watched(i)'
<1>1. StoreTypeOK
  BY DEF JobsInv, JobsTypeOK
<1>2. CASE i # j
  BY <1>1, <1>2, StoreFrame DEF Watched, manager
<1>3. CASE i = j
  <2>1. InPhase(j, {"done"})' => op'[j].outcome \in {"ok", "limit"}
    <3>1. CASE Acquire(j)
      <4>1. op[j] \in [phase : {"wait", "read"}, name : {"create"}]
            \/ op[j] \in [phase : {"wait", "read"}, name : {"settle"}, status : Outcomes]
        BY <1>1, <3>1 DEF Acquire, StoreTypeOK, Calls, Idle
      <4>. QED
        BY <1>1, <3>1, <4>1 DEF Acquire, StoreTypeOK
    <3>2. CASE ReadIndex(j)
      BY <1>1, <3>2 DEF ReadIndex, StoreTypeOK
    <3>3. CASE Prune(j)
      BY <1>1, <3>3 DEF Prune, End, StoreTypeOK
    <3>4. CASE ReadRecord(j)
      BY <1>1, <3>4 DEF ReadRecord, End, StoreTypeOK
    <3>5. CASE Write(j)
      BY <1>1, <3>5 DEF Write, End, StoreTypeOK
    <3>. QED
      BY <3>1, <3>2, <3>3, <3>4, <3>5 DEF StoreStep
  <2>. QED
    BY <1>3, <2>1 DEF Watched, manager
<1>. QED
  BY <1>2, <1>3

(* So does every other step.                                               *)
LEMMA WatchedStep ==
    ASSUME Faults = {}, JobsInv, \A j \in Jobs : Watched(j), [JobsNext]_jobVars
    PROVE  (\A j \in Jobs : Watched(j))'
<1>. SUFFICES ASSUME NEW i \in Jobs PROVE Watched(i)'
  OBVIOUS
<1>0. Watched(i) /\ JobsTypeOK /\ StoreTypeOK
  BY DEF JobsInv, JobsTypeOK
<1>1. ASSUME NEW j \in Jobs,
             Announced(j) \/ (\E end \in Ended : WorkEnds(j, end)) \/ Promote(j) \/ RejectDefer(j)
             \/ (\E mode \in Modes : RunWithDeadline(j, mode))
      PROVE  Watched(i)'
  <2>1. InPhase(i, {"done"})' => op'[i].outcome \in {"ok", "limit"}
    BY <1>0, <1>1 DEF Announced, WorkEnds, Promote, RejectDefer, RunWithDeadline, StartCreate, storeVars,
           Watched, StoreTypeOK
  <2>2. CASE i # j
    <3>1. call'[i] = call[i] /\ work'[i] = work[i] /\ tracked' = tracked
      BY <1>0, <1>1, <2>2 DEF Announced, WorkEnds, Promote, RejectDefer, RunWithDeadline, Enter, Reject,
             GoOn, Becomes, JobsTypeOK
    <3>. QED
      BY <1>0, <2>1, <3>1 DEF Watched
  <2>3. CASE i = j
    <3>1. ~(InCall(j, {"done"})' /\ work'[j] = "running")
      <4>1. CASE Announced(j) \/ Promote(j)
        <5>1. InCall(j, Phases) /\ \E phase \in {"awaiting", "creating"} : GoOn(j, phase)
          BY <4>1 DEF Announced, Promote, Phases
        <5>2. \E phase \in Phases \ {"done"} : call'[j] = [phase |-> phase, verb |-> call[j].verb]
          BY <1>0, <5>1, GoneOn DEF Phases
        <5>. QED
          BY <5>2 DEF Phases
      <4>2. CASE \E end \in Ended : WorkEnds(j, end)
        BY <1>0, <4>2 DEF WorkEnds, Becomes, Ended, JobsTypeOK
      <4>3. CASE RejectDefer(j) \/ \E mode \in Modes : RunWithDeadline(j, mode)
        BY <1>0, <4>3 DEF RejectDefer, RunWithDeadline, Enter, Reject, Becomes, JobsTypeOK
      <4>. QED
        BY <1>1, <4>1, <4>2, <4>3
    <3>. QED
      BY <2>1, <2>3, <3>1 DEF Watched
  <2>. QED
    BY <2>2, <2>3
<1>2. ASSUME NEW j \in Jobs, NEW verb \in Verbs \ {"run"}, NEW mode \in Modes, Start(j, verb, mode)
      PROVE  Watched(i)'
  <2>1. InPhase(i, {"done"})' => op'[i].outcome \in {"ok", "limit"}
    BY <1>0, <1>2 DEF Start, StartCreate, Watched, StoreTypeOK
  <2>2. IF i = j THEN ~(InCall(j, {"done"})' /\ work'[j] = "running")
        ELSE call'[i] = call[i] /\ work'[i] = work[i]
    BY <1>0, <1>2 DEF Start, Enter, Reject, Becomes, ClosingOnFailure, JobsTypeOK
  <2>. QED
    BY <1>0, <1>2, <2>1, <2>2 DEF Start, Watched
<1>3. ASSUME NEW j \in Jobs, Inline(j) \/ Stopped(j)
      PROVE  Watched(i)'
  BY <1>0, <1>3 DEF Inline, Stopped, Return, Reject, storeVars, Watched, JobsTypeOK, Ended
<1>4. ASSUME NEW j \in Jobs, Created(j) \/ CapRejects(j) \/ CreateFails(j)
      PROVE  Watched(i)'
  <2>1. InPhase(i, {"done"})' => op'[i].outcome \in {"ok", "limit"}
    BY <1>0, <1>4 DEF Created, CapRejects, CreateFails, TakeCreated, Collect, Watched, StoreTypeOK, Idle
  <2>2. tracked \subseteq tracked'
    BY <1>4 DEF Created, CapRejects, CreateFails, Watch
  <2>3. CASE i # j
    <3>1. call'[i] = call[i] /\ work'[i] = work[i]
      BY <1>0, <1>4, <2>3 DEF Created, CapRejects, CreateFails, Return, Reject, StopWork, GoOn, Becomes,
             ClosingOnFailure, JobsTypeOK
    <3>. QED
      BY <1>0, <2>1, <2>2, <3>1 DEF Watched
  <2>4. CASE i = j
    <3>1. CASE Created(j)
      BY <2>1, <2>4, <3>1 DEF Created, Watch, Watched
    <3>2. CASE CapRejects(j)
      <4>1. CASE StopWork(j)
        <5>1. InCall(j, Phases) /\ GoOn(j, "stopping")
          BY <3>2, <4>1 DEF CapRejects, TakeCreated, StopWork, Phases
        <5>2. call'[j] = [phase |-> "stopping", verb |-> call[j].verb]
          BY <1>0, <5>1, GoneOn DEF Phases
        <5>. QED
          BY <2>1, <2>4, <5>2 DEF Watched
      <4>2. CASE (FinishedMeanwhile(j) /\ UNCHANGED work) \/ ClosingOnFailure(j)
        <5>1. work'[j] # "running"
          BY <1>0, <4>2 DEF FinishedMeanwhile, ClosingOnFailure, Becomes, JobsTypeOK
        <5>. QED
          BY <2>1, <2>4, <5>1 DEF Watched
      <4>. QED
        BY <3>2, <4>1, <4>2 DEF CapRejects
    <3>3. ~CreateFails(j)
      BY <1>0, <2>4 DEF CreateFails, TakeCreated, Collect, Watched, FaultNames
    <3>. QED
      BY <1>4, <3>1, <3>2, <3>3
  <2>. QED
    BY <2>3, <2>4
<1>5. ASSUME NEW j \in Jobs, ScheduleOutcome(j) \/ WriterEnds(j)
      PROVE  Watched(i)'
  <2>1. InPhase(i, {"done"})' => op'[i].outcome \in {"ok", "limit"}
    BY <1>0, <1>5 DEF ScheduleOutcome, StartSettle, WriterEnds, Collect, Watched, StoreTypeOK, Idle
  <2>. QED
    BY <1>0, <1>5, <2>1 DEF ScheduleOutcome, WriterEnds, manager, Watched, Ended
<1>6. ASSUME NEW j \in Jobs, StoreStep(j) /\ UNCHANGED manager
      PROVE  Watched(i)'
  BY <1>0, <1>6, WatchedStore
<1>7. ASSUME NEW j \in Jobs, Poll(j) PROVE Watched(i)'
  BY <1>0, <1>7 DEF Poll, storeVars, Watched
<1>8. CASE Tick /\ UNCHANGED manager
  BY <1>0, <1>8 DEF Tick, manager, Watched
<1>9. CASE Die
  BY <1>0, <1>9 DEF Die, StoreRestart, Watched, JobsTypeOK, Idle
<1>10. CASE UNCHANGED jobVars
  BY <1>0, <1>10 DEF jobVars, Watched
<1>11. \A j \in Jobs : FaultsOf(j) = {}
  BY DEF FaultsOf
<1>12. ASSUME NEW j \in Jobs, Verb(j) \/ Loop(j) PROVE Watched(i)'
  BY <1>1, <1>2, <1>3, <1>4, <1>5, <1>12 DEF Verb, Loop
<1>13. ASSUME NEW j \in Jobs,
              \/ Verb(j) \/ Promote(j) \/ Poll(j) \/ Loop(j)
              \/ "defer" \in Verbs /\ RejectDefer(j)
              \/ \E end \in Ended : WorkEnds(j, end)
              \/ "cancelled" \in Faults /\ CancelCall(j)
              \/ StoreStep(j) /\ UNCHANGED manager
              \/ \E why \in FaultsOf(j) : StoreFault(j, why) /\ UNCHANGED manager
       PROVE  Watched(i)'
  BY <1>1, <1>6, <1>7, <1>11, <1>12, <1>13
<1>. QED
  BY <1>8, <1>9, <1>10, <1>13 DEF JobsNext, JobsRest

(* With a backend that answers every call and no cancellation, no work     *)
(* runs that nobody watches, whatever the race between its end, create and *)
(* the cap (run_with_deadline, _track).                                    *)
THEOREM AllWorkIsWatched == ASSUME Faults = {} PROVE JobsSpec => []NoUntrackedWork
<1>1. JobsInit => \A j \in Jobs : Watched(j)
  BY DEF JobsInit, StoreInit, Watched, Idle, NoCall
<1>2. JobsInv /\ (\A j \in Jobs : Watched(j)) /\ [JobsNext]_jobVars => (\A j \in Jobs : Watched(j))'
  BY WatchedStep
<1>3. JobsInv /\ (\A j \in Jobs : Watched(j)) => NoUntrackedWork
  <2>. SUFFICES ASSUME JobsInv, NEW j \in Jobs, Watched(j), work[j] = "running"
                PROVE  j \in tracked \/ InCall(j, Phases)
    BY DEF NoUntrackedWork
  <2>1. call[j] # NoCall
    BY DEF JobsInv, Calling
  <2>. QED
    BY <2>1 DEF JobsInv, JobsTypeOK, CallStates, NoCall, Watched
<1>. QED
  BY <1>1, <1>2, <1>3, JobsSafe, PTL DEF JobsSpec

------------------------------------------------------------------------------
(* What polls say. *)

(* A writer that is about to settle a record has found it, and no time has *)
(* passed since.                                                           *)
Settleable(j) == InPhase(j, {"settle"}) => Present(records, j, now)

(* Only a caller with a handle has polled; an outcome it has heard is what *)
(* the work came to, and is what the record says while it lasts; a record  *)
(* that was found expired is gone.                                         *)
Hearing(j) ==
    /\ told[j] # "nothing" => Answered(j, {"handle"})
    /\ told[j] \in Outcomes => /\ work[j] \in Ended /\ told[j] = StatusOf(work[j])
                               /\ Present(records, j, now) => records[j].value = told[j]
    /\ told[j] = "unknown" => ~Present(records, j, now)

PollInv == \A j \in Jobs : Settleable(j) /\ Hearing(j)

(* A record is there that was, with its value or what the work came to.    *)
Lasts(j) == /\ Present(records, j, now)
            /\ \/ records'[j].value = records[j].value
               \/ records'[j].value = StatusOf(work[j]) /\ work[j] \in Ended

(* Once its caller has the handle, the record of a job only lasts or goes  *)
(* (_settle).                                                              *)
LEMMA RecordLasts ==
    ASSUME JobsInv, NEW j \in Jobs, Settleable(j), UNCHANGED <<now, manager>>,
           StoreStep(j) \/ \E why \in FaultNames : StoreFault(j, why)
    PROVE  /\ Settleable(j)'
           /\ Answered(j, {"handle"}) /\ Present(records, j, now)' => Lasts(j)
<1>0. StoreTypeOK /\ op[j] # Idle /\ UNCHANGED work
  BY DEF JobsInv, JobsTypeOK, manager, StoreStep, StoreFault, Acquire, ReadIndex, Prune, ReadRecord, Write,
         Raise, WriteUnanswered, Put1, Idle
<1>1. Settleable(j)'
  <2>1. CASE ReadRecord(j)
    BY <1>0, <2>1 DEF ReadRecord, SettleTTL, End, MoveTo, Settleable, StoreTypeOK, Present
  <2>2. CASE Acquire(j)
    <3>1. \/ op[j] \in [phase : {"wait", "read"}, name : {"create"}]
          \/ op[j] \in [phase : {"wait", "read"}, name : {"settle"}, status : Outcomes]
      BY <1>0, <2>2 DEF Acquire, StoreTypeOK, Calls, Idle
    <3>. QED
      BY <1>0, <2>2, <3>1 DEF Acquire, Settleable, StoreTypeOK
  <2>3. CASE ReadIndex(j) \/ Prune(j) \/ Write(j) \/ \E why \in FaultNames : StoreFault(j, why)
    <3>1. ASSUME NEW STATE next, MoveTo(j, next), next.phase # "settle" PROVE Settleable(j)'
      BY <1>0, <3>1 DEF MoveTo, StoreTypeOK, Settleable
    <3>2. ASSUME NEW STATE outcome, End(j, outcome) PROVE Settleable(j)'
      BY <1>0, <3>2 DEF End, MoveTo, StoreTypeOK, Settleable
    <3>3. CASE ReadIndex(j)
      BY <3>1, <3>3 DEF ReadIndex
    <3>4. CASE Prune(j)
      BY <3>1, <3>2, <3>4 DEF Prune
    <3>5. CASE Write(j)
      BY <3>1, <3>2, <3>5 DEF Write
    <3>6. CASE \E why \in FaultNames : StoreFault(j, why)
      BY <3>2, <3>6 DEF StoreFault, Raise, WriteUnanswered
    <3>. QED
      BY <2>3, <3>3, <3>4, <3>5, <3>6
  <2>. QED
    BY <2>1, <2>2, <2>3 DEF StoreStep
<1>2. ASSUME Answered(j, {"handle"}), Present(records, j, now)' PROVE Lasts(j)
  <2>1. IsSettle(j) /\ work[j] \in Ended
    BY <1>0, <1>2 DEF JobsInv, Storing, Answered
  <2>2. CASE UNCHANGED records
    BY <1>2, <2>2 DEF Lasts, Present
  <2>3. CASE Put1(j)
    <3>1. InPhase(j, {"settle"}) /\ PutSettled(j) /\ op[j].status = StatusOf(work[j])
      BY <2>1, <2>3 DEF IsSettle, Put1
    <3>2. records'[j].value = StatusOf(work[j])
      BY <3>1 DEF PutSettled, Put
    <3>. QED
      BY <2>1, <3>1, <3>2 DEF Settleable, Lasts
  <2>4. UNCHANGED records \/ Put1(j)
    BY DEF StoreStep, StoreFault, Acquire, ReadIndex, Prune, ReadRecord, Write, Raise, WriteUnanswered
  <2>. QED
    BY <2>2, <2>3, <2>4
<1>. QED
  BY <1>1, <1>2

(* So it is whatever happens, as long as no time passes between the two    *)
(* awaits of a settle.                                                     *)
LEMMA RecordStep ==
    ASSUME ~SlowBackend, JobsInv, [JobsNext]_jobVars, NEW j \in Jobs, Settleable(j)
    PROVE  /\ Settleable(j)'
           /\ Answered(j, {"handle"}) /\ Present(records, j, now)' => Lasts(j)
<1>0. JobsTypeOK /\ StoreTypeOK
  BY DEF JobsInv, JobsTypeOK
<1>1. ASSUME UNCHANGED <<now, records>>, op'[j] = op[j] \/ op'[j].phase \in {"idle", "wait"}
      PROVE  Settleable(j)' /\ (Present(records, j, now)' => Lasts(j))
  BY <1>1 DEF Settleable, Lasts, Present
<1>2. ASSUME NEW i \in Jobs, UNCHANGED manager, StoreStep(i) \/ \E why \in FaultsOf(i) : StoreFault(i, why)
      PROVE  /\ Settleable(j)'
             /\ Answered(j, {"handle"}) /\ Present(records, j, now)' => Lasts(j)
  <2>1. FaultsOf(i) \subseteq FaultNames
    BY FaultsAssumption DEF FaultsOf
  <2>2. now' = now
    BY <1>2 DEF StoreStep, StoreFault, Acquire, ReadIndex, Prune, ReadRecord, Write, Raise, WriteUnanswered,
                Put1, PutRecord, PutIndex, PutSettled
  <2>3. CASE i = j
    BY <1>2, <2>1, <2>2, <2>3, RecordLasts
  <2>4. CASE i # j
    <3>1. /\ op'[j] = op[j] /\ (j \in DOMAIN records' <=> j \in DOMAIN records)
          /\ j \in DOMAIN records => records'[j] = records[j]
      BY <1>0, <1>2, <2>1, <2>4, StoreFrame
    <3>. QED
      BY <2>2, <3>1 DEF Settleable, Lasts, Present
  <2>. QED
    BY <2>3, <2>4
<1>3. CASE Tick /\ UNCHANGED manager
  <2>1. ~InPhase(j, {"settle"})' /\ UNCHANGED records /\ now' = now + 1
    BY <1>3 DEF Tick
  <2>2. Present(records, j, now)' => Present(records, j, now)
    BY <1>0, <2>1 DEF Present, StoreTypeOK
  <2>. QED
    BY <2>1, <2>2 DEF Settleable, Lasts
<1>4. CASE Die
  <2>1. op'[j] = Idle /\ now' = now
    BY <1>4 DEF Die, StoreRestart
  <2>2. Present(records, j, now)' => Present(records, j, now) /\ records' = records
    BY <1>4, <2>1 DEF Die, StoreRestart, Present, EmptyStore
  <2>. QED
    BY <2>1, <2>2 DEF Settleable, Lasts, Idle
<1>5. CASE UNCHANGED jobVars
  BY <1>1, <1>5 DEF jobVars
<1>6. ASSUME NEW i \in Jobs,
             \/ Verb(i) \/ Promote(i) \/ Poll(i) \/ Loop(i)
             \/ RejectDefer(i) \/ CancelCall(i) \/ \E end \in Ended : WorkEnds(i, end)
      PROVE  UNCHANGED <<now, records>> /\ (op'[j] = op[j] \/ op'[j].phase \in {"idle", "wait"})
  <2>1. CASE Verb(i)
    BY <1>0, <2>1 DEF Verb, RunWithDeadline, Start, StartCreate, MoveTo, storeVars, collections, StoreTypeOK
  <2>2. CASE Promote(i) \/ Poll(i) \/ RejectDefer(i) \/ CancelCall(i) \/ \E end \in Ended : WorkEnds(i, end)
    BY <1>0, <2>2 DEF Promote, Poll, RejectDefer, CancelCall, WorkEnds, StartCreate, MoveTo, storeVars,
                      collections, StoreTypeOK
  <2>3. CASE Loop(i)
    <3>1. CASE Announced(i) \/ Inline(i) \/ Stopped(i)
      BY <3>1 DEF Announced, Inline, Stopped, storeVars
    <3>2. CASE Created(i) \/ CapRejects(i) \/ CreateFails(i) \/ WriterEnds(i)
      BY <1>0, <3>2 DEF Created, CapRejects, CreateFails, WriterEnds, TakeCreated, Collect, MoveTo, Idle,
                        collections, StoreTypeOK
    <3>3. CASE ScheduleOutcome(i)
      BY <1>0, <3>3 DEF ScheduleOutcome, StartSettle, MoveTo, collections, StoreTypeOK
    <3>. QED
      BY <2>3, <3>1, <3>2, <3>3 DEF Loop
  <2>. QED
    BY <1>6, <2>1, <2>2, <2>3
<1>. QED
  BY <1>1, <1>2, <1>3, <1>4, <1>5, <1>6 DEF JobsNext, JobsRest

(* A request that has returned its handle has returned, and work that has  *)
(* ended has ended.                                                        *)
LEMMA HandleStays ==
    ASSUME JobsInv, [JobsNext]_jobVars, NEW j \in Jobs, Answered(j, {"handle"})
    PROVE  call'[j] = call[j] /\ (work[j] \in Ended => work'[j] = work[j])
<1>. DEFINE Stays == call'[j] = call[j] /\ (work[j] \in Ended => work'[j] = work[j])
<1>0. JobsTypeOK /\ InCall(j, {"done"}) /\ call[j] # NoCall
  BY DEF JobsInv, Answered, NoCall
<1>1. ASSUME NEW i \in Jobs, Verb(i) PROVE Stays
  <2>1. i # j
    BY <1>0, <1>1 DEF Verb, RunWithDeadline, Start
  <2>. QED
    BY <1>0, <1>1, <2>1 DEF Verb, RunWithDeadline, Start, Enter, Reject, Becomes, ClosingOnFailure, JobsTypeOK
<1>2. ASSUME NEW i \in Jobs, Loop(i) PROVE Stays
  <2>1. CASE ScheduleOutcome(i) \/ WriterEnds(i)
    BY <2>1 DEF ScheduleOutcome, WriterEnds, manager
  <2>2. CASE Announced(i) \/ Inline(i) \/ Stopped(i)
    <3>1. i # j
      BY <1>0, <2>2 DEF Announced, Inline, Stopped, InCall
    <3>. QED
      BY <1>0, <2>2, <3>1 DEF Announced, Inline, Stopped, GoOn, Return, Reject, Becomes, JobsTypeOK
  <2>3. CASE Created(i) \/ CapRejects(i) \/ CreateFails(i)
    <3>1. i # j
      BY <1>0, <2>3 DEF Created, CapRejects, CreateFails, TakeCreated, InCall
    <3>. QED
      BY <1>0, <2>3, <3>1 DEF Created, CapRejects, CreateFails, Return, Reject, StopWork, GoOn, Becomes,
                              ClosingOnFailure, JobsTypeOK
  <2>. QED
    BY <1>2, <2>1, <2>2, <2>3 DEF Loop
<1>3. ASSUME NEW i \in Jobs, Promote(i) \/ RejectDefer(i) \/ CancelCall(i) PROVE Stays
  <2>1. i # j
    BY <1>0, <1>3 DEF Promote, RejectDefer, CancelCall, InCall
  <2>. QED
    BY <1>0, <1>3, <2>1 DEF Promote, RejectDefer, CancelCall, GoOn, Return, Reject, Becomes,
                            ClosingOnFailure, JobsTypeOK
<1>4. ASSUME NEW i \in Jobs, NEW end \in Ended, WorkEnds(i, end) PROVE Stays
  <2>1. work[i] = "running" /\ call' = call
    BY <1>4 DEF WorkEnds
  <2>2. work[j] \in Ended => i # j
    BY <2>1 DEF Ended
  <2>. QED
    BY <1>0, <1>4, <2>1, <2>2 DEF WorkEnds, Becomes, JobsTypeOK
<1>5. CASE Die
  BY <1>0, <1>5 DEF Die, JobsTypeOK, InCall, Phases, Ended
<1>6. ASSUME NEW i \in Jobs, Poll(i) PROVE Stays
  BY <1>6 DEF Poll
<1>7. UNCHANGED manager => Stays
  BY DEF manager
<1>8. UNCHANGED jobVars => UNCHANGED manager
  BY DEF jobVars, manager
<1>. QED
  BY <1>1, <1>2, <1>3, <1>4, <1>5, <1>6, <1>7, <1>8 DEF JobsNext, JobsRest

(* Nobody hears anything but by polling. *)
LEMMA OnlyPollsTell ==
    ASSUME JobsInv, [JobsNext]_jobVars, NEW j \in Jobs
    PROVE  told'[j] = told[j] \/ Poll(j)
<1>1. ASSUME NEW i \in Jobs, Poll(i) PROVE told'[j] = told[j] \/ Poll(j)
  BY <1>1 DEF Poll, JobsInv, JobsTypeOK
<1>2. ASSUME NEW i \in Jobs, Verb(i) \/ Loop(i) PROVE told' = told
  <2>1. CASE Verb(i)
    BY <2>1 DEF Verb, RunWithDeadline, Start
  <2>2. CASE Loop(i)
    BY <2>2 DEF Loop, Announced, Inline, Stopped, Created, CapRejects, CreateFails, ScheduleOutcome,
                WriterEnds, manager
  <2>. QED
    BY <1>2, <2>1, <2>2
<1>3. ASSUME NEW i \in Jobs,
             Promote(i) \/ RejectDefer(i) \/ CancelCall(i) \/ \E end \in Ended : WorkEnds(i, end)
      PROVE  told' = told
  BY <1>3 DEF Promote, RejectDefer, CancelCall, WorkEnds
<1>4. UNCHANGED manager \/ Die \/ UNCHANGED jobVars => told' = told
  BY DEF manager, Die, jobVars
<1>. QED
  BY <1>1, <1>2, <1>3, <1>4 DEF JobsNext, JobsRest

(* What a poll hears. *)
LEMMA PollHears ==
    ASSUME JobsInv, PollInv, NEW j \in Jobs, Poll(j)
    PROVE  told'[j] \in Later(told[j]) /\ Hearing(j)'
<1>1. /\ Answered(j, {"handle"}) /\ told'[j] = Heard(j)
      /\ UNCHANGED <<now, records, call, work>>
  BY DEF Poll, storeVars, JobsInv, JobsTypeOK
<1>2. Storing(j) /\ Hearing(j) /\ told[j] \in {"nothing", "unknown"} \cup Statuses
  BY DEF JobsInv, JobsTypeOK, PollInv
<1>3. Answered(j, {"handle"})'
  BY <1>1 DEF Answered
<1>4. CASE ~Present(records, j, now)
  <2>1. told'[j] = "unknown" /\ ~Present(records, j, now)'
    BY <1>1, <1>4 DEF Heard, Present
  <2>2. Hearing(j)'
    BY <1>3, <2>1 DEF Hearing, Outcomes
  <2>3. "unknown" \in Later(told[j])
    BY <1>2 DEF Later, Statuses, Outcomes
  <2>. QED
    BY <2>1, <2>2, <2>3
<1>5. CASE Present(records, j, now)
  <2>1. told'[j] = records[j].value /\ j \in DOMAIN records /\ records[j].value \in Statuses
    BY <1>1, <1>5 DEF Heard, Value, Present, JobsInv, JobsTypeOK, StoreTypeOK
  <2>2. told'[j] \in Outcomes => work[j] \in Ended /\ told'[j] = StatusOf(work[j])
    BY <1>2, <2>1 DEF Storing, Unrecorded, Outcomes
  <2>3. told'[j] \notin {"unknown", "nothing"}
    BY <2>1 DEF Statuses, Outcomes
  <2>4. Hearing(j)'
    BY <1>1, <1>3, <2>1, <2>2, <2>3 DEF Hearing
  <2>5. told[j] # "unknown" /\ (told[j] \in Outcomes => told'[j] = told[j])
    BY <1>2, <1>5, <2>1 DEF Hearing
  <2>6. told'[j] \in Later(told[j])
    BY <1>2, <2>1, <2>5 DEF Later, Statuses, Outcomes
  <2>. QED
    BY <2>4, <2>6
<1>. QED
  BY <1>4, <1>5

(* Between polls what has been heard stays true. *)
LEMMA HearingStays ==
    ASSUME ~SlowBackend, JobsInv, PollInv, [JobsNext]_jobVars, NEW j \in Jobs, told'[j] = told[j]
    PROVE  Hearing(j)' /\ told'[j] \in Later(told[j])
<1>1. Hearing(j) /\ Settleable(j) /\ told[j] \in {"nothing", "unknown"} \cup Statuses
  BY DEF JobsInv, JobsTypeOK, PollInv
<1>2. told[j] \in Later(told[j])
  BY <1>1 DEF Later, Statuses, Outcomes
<1>3. ASSUME told[j] # "nothing"
      PROVE  /\ Answered(j, {"handle"})'
             /\ told[j] \in Outcomes => /\ work'[j] \in Ended /\ told[j] = StatusOf(work'[j])
                                        /\ Present(records, j, now)' => records'[j].value = told[j]
             /\ told[j] = "unknown" => ~Present(records, j, now)'
  <2>1. Answered(j, {"handle"}) /\ call'[j] = call[j] /\ (work[j] \in Ended => work'[j] = work[j])
    BY <1>1, <1>3, HandleStays DEF Hearing
  <2>2. Answered(j, {"handle"})'
    BY <2>1 DEF Answered
  <2>3. Present(records, j, now)' => Lasts(j)
    BY <1>1, <2>1, RecordStep
  <2>4. told[j] \in Outcomes => /\ work'[j] \in Ended /\ told[j] = StatusOf(work'[j])
                                /\ Present(records, j, now)' => records'[j].value = told[j]
    BY <1>1, <2>1, <2>3 DEF Hearing, Lasts
  <2>5. told[j] = "unknown" => ~Present(records, j, now)'
    BY <1>1, <2>3 DEF Hearing, Lasts
  <2>. QED
    BY <2>2, <2>4, <2>5
<1>4. told[j] = "nothing" => told[j] \notin Outcomes \cup {"unknown"}
  BY DEF Outcomes
<1>5. Hearing(j)'
  <2>. DEFINE heard == told'[j]
  <2>1. /\ heard # "nothing" => Answered(j, {"handle"})'
        /\ heard \in Outcomes => /\ work'[j] \in Ended /\ heard = StatusOf(work'[j])
                                 /\ Present(records, j, now)' => records'[j].value = heard
        /\ heard = "unknown" => ~Present(records, j, now)'
    BY <1>3, <1>4
  <2>. QED
    BY <2>1 DEF Hearing
<1>. QED
  BY <1>2, <1>5

(* What polls say one after the other moves forward: an outcome stays that *)
(* outcome until the record expires, and an expired id is unknown for      *)
(* good, whatever fails, is cancelled or restarts, on a backend that is    *)
(* quick enough for a settle to find the record it has read (poll, get,    *)
(* _settle).                                                               *)
THEOREM PollsForward == ASSUME ~SlowBackend PROVE JobsSpec => PollsMoveForward
<1>1. JobsInit => PollInv
  BY DEF JobsInit, StoreInit, PollInv, Settleable, Hearing, Idle, Outcomes
<1>2. JobsInv /\ PollInv /\ [JobsNext]_jobVars =>
         PollInv' /\ \A j \in Jobs : told'[j] \in Later(told[j])
  <2>. SUFFICES ASSUME JobsInv, PollInv, [JobsNext]_jobVars, NEW j \in Jobs
                PROVE  Settleable(j)' /\ Hearing(j)' /\ told'[j] \in Later(told[j])
    BY DEF PollInv
  <2>1. Settleable(j)'
    BY RecordStep DEF PollInv
  <2>2. Hearing(j)' /\ told'[j] \in Later(told[j])
    BY OnlyPollsTell, PollHears, HearingStays
  <2>. QED
    BY <2>1, <2>2
<1>3. JobsInv /\ PollInv /\ [JobsNext]_jobVars => [\A j \in Jobs : told'[j] \in Later(told[j])]_jobVars
  BY <1>2
<1>. QED
  BY <1>1, <1>2, <1>3, JobsSafe, PTL DEF JobsSpec, PollsMoveForward


(* However slow the backend is, the record of a job with a handle keeps    *)
(* what it says until it says what the work came to (_settle).             *)
LEMMA RecordKeeps ==
    ASSUME JobsInv, [JobsNext]_jobVars, NEW j \in Jobs, Answered(j, {"handle"}), j \in DOMAIN records'
    PROVE  \/ j \in DOMAIN records /\ records'[j] = records[j]
           \/ work[j] \in Ended /\ records'[j].value = StatusOf(work[j])
<1>. DEFINE Keeps == \/ j \in DOMAIN records /\ records'[j] = records[j]
                     \/ work[j] \in Ended /\ records'[j].value = StatusOf(work[j])
<1>0. StoreTypeOK /\ Storing(j)
  BY DEF JobsInv, JobsTypeOK
<1>1. ASSUME NEW i \in Jobs, StoreStep(i) \/ \E why \in FaultsOf(i) : StoreFault(i, why) PROVE Keeps
  <2>1. FaultsOf(i) \subseteq FaultNames
    BY FaultsAssumption DEF FaultsOf
  <2>2. CASE i # j
    BY <1>0, <1>1, <2>1, <2>2, StoreFrame
  <2>3. CASE Put1(j)
    <3>1. op[j] # Idle
      BY <2>3 DEF Put1, Idle
    <3>2. IsSettle(j) /\ work[j] \in Ended
      BY <1>0, <3>1 DEF Storing, Answered
    <3>3. PutSettled(j) /\ op[j].status = StatusOf(work[j])
      BY <2>3, <3>2 DEF IsSettle, Put1
    <3>. QED
      BY <3>2, <3>3 DEF PutSettled, Put
  <2>4. UNCHANGED records \/ Put1(i)
    BY <1>1 DEF StoreStep, StoreFault, Acquire, ReadIndex, Prune, ReadRecord, Write, Raise, WriteUnanswered
  <2>. QED
    BY <2>2, <2>3, <2>4
<1>2. ASSUME NEW i \in Jobs,
             \/ Verb(i) \/ Promote(i) \/ Poll(i) \/ Loop(i)
             \/ RejectDefer(i) \/ CancelCall(i) \/ \E end \in Ended : WorkEnds(i, end)
      PROVE  UNCHANGED records
  <2>1. CASE Verb(i)
    BY <2>1 DEF Verb, RunWithDeadline, Start, storeVars
  <2>2. CASE Loop(i)
    BY <2>2 DEF Loop, Announced, Inline, Stopped, Created, CapRejects, CreateFails, ScheduleOutcome,
                WriterEnds, storeVars
  <2>. QED
    BY <1>2, <2>1, <2>2 DEF Promote, Poll, RejectDefer, CancelCall, WorkEnds, storeVars
<1>3. CASE Die
  BY <1>3 DEF Die, StoreRestart, EmptyStore
<1>4. Tick \/ UNCHANGED jobVars => UNCHANGED records
  BY DEF Tick, jobVars
<1>. QED
  BY <1>1, <1>2, <1>3, <1>4 DEF JobsNext, JobsRest

(* An outcome that was heard is what the work came to, and is what the     *)
(* record says if it says anything.                                        *)
Known(j) == told[j] \in Outcomes =>
               /\ Answered(j, {"handle"}) /\ work[j] \in Ended /\ told[j] = StatusOf(work[j])
               /\ j \in DOMAIN records => records[j].value = told[j]

(* Between polls it goes on to be, and another poll hears it again, or     *)
(* that the id is unknown.                                                 *)
LEMMA KnownStays ==
    ASSUME JobsInv, [JobsNext]_jobVars, NEW j \in Jobs, Known(j)
    PROVE  Known(j)' /\ (told[j] \in Outcomes => told'[j] \in {told[j], "unknown"})
<1>1. CASE Poll(j)
  <2>1. /\ Answered(j, {"handle"}) /\ told'[j] = Heard(j)
        /\ UNCHANGED <<now, records, call, work>> /\ Storing(j)
    BY <1>1 DEF Poll, storeVars, JobsInv, JobsTypeOK
  <2>2. CASE ~Present(records, j, now)
    BY <2>1, <2>2 DEF Heard, Known, Outcomes
  <2>3. CASE Present(records, j, now)
    <3>1. told'[j] = records[j].value /\ j \in DOMAIN records
      BY <2>1, <2>3 DEF Heard, Value, Present
    <3>2. told'[j] \in Outcomes => work[j] \in Ended /\ told'[j] = StatusOf(work[j])
      BY <2>1, <3>1 DEF Storing, Unrecorded, Outcomes
    <3>. QED
      BY <2>1, <3>1, <3>2 DEF Known, Answered
  <2>. QED
    BY <2>2, <2>3
<1>2. CASE told'[j] = told[j] /\ told[j] \in Outcomes
  <2>1. Answered(j, {"handle"}) /\ call'[j] = call[j] /\ work[j] \in Ended /\ work'[j] = work[j]
    BY <1>2, HandleStays DEF Known
  <2>2. j \in DOMAIN records' => records'[j].value = told[j]
    BY <1>2, <2>1, RecordKeeps DEF Known
  <2>. QED
    BY <1>2, <2>1, <2>2 DEF Known, Answered
<1>3. CASE told'[j] = told[j] /\ told[j] \notin Outcomes
  BY <1>3 DEF Known
<1>. QED
  BY <1>1, <1>2, <1>3, OnlyPollsTell

(* What PollsMoveForward keeps of outcomes holds on any backend: whoever   *)
(* has heard an outcome hears no other, whatever is slow, fails, is        *)
(* cancelled or restarts (get, _record_outcome).                           *)
THEOREM OutcomesStand ==
    JobsSpec => [][\A j \in Jobs : told[j] \in Outcomes => told'[j] \in Later(told[j])]_jobVars
<1>1. JobsInit => \A j \in Jobs : Known(j)
  BY DEF JobsInit, Known, Outcomes
<1>2. JobsInv /\ (\A j \in Jobs : Known(j)) /\ [JobsNext]_jobVars =>
         /\ (\A j \in Jobs : Known(j))'
         /\ \A j \in Jobs : told[j] \in Outcomes => told'[j] \in Later(told[j])
  <2>. SUFFICES ASSUME JobsInv, [JobsNext]_jobVars, NEW j \in Jobs, Known(j)
                PROVE  Known(j)' /\ (told[j] \in Outcomes => told'[j] \in Later(told[j]))
    OBVIOUS
  <2>. QED
    BY KnownStays DEF Later, Outcomes
<1>. QED
  BY <1>1, <1>2, JobsSafe, PTL DEF JobsSpec
=============================================================================
