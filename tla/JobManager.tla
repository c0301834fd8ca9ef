--------------------------------- MODULE JobManager -----------------------------
(***************************************************************************)
(* The Jobs capability object of _jobs/manager.py over the job store.  A   *)
(* call hands over a coroutine, the work.  Under a native task the call    *)
(* awaits it; otherwise run_with_deadline starts it as a task, waits for   *)
(* the soft deadline and promotes what is still running, and start and     *)
(* defer register a record first and start the task then.  A promoted task *)
(* leaves the request behind: the manager keeps it in _background and its  *)
(* done-callback starts a writer that settles the record.  Requests are    *)
(* cancelled, the store fails and the process restarts at every await.     *)
(*                                                                         *)
(* A call makes at most one record, so a job id stands for the call, its   *)
(* work and its record.                                                    *)
(***************************************************************************)
EXTENDS JobStore

CONSTANTS Verbs,  \* the verbs callers use, among "run", "start" and "defer"
          Modes   \* what the native-task check may say, see ModeNames

(* "skew": fastmcp_tasks is there but lacks the symbol, the check raises.  *)
ModeNames == {"native", "fallback", "skew"}

ASSUME VerbsAssumption == Verbs \subseteq {"run", "start", "defer"}
ASSUME ModesAssumption == Modes \subseteq ModeNames

VARIABLES call,    \* job -> where the request that makes it stands
          work,    \* job -> what became of the coroutine
          stop,    \* the jobs whose task was sent cancel()
          tracked, \* the jobs whose task is in _background with its callbacks
          told     \* job -> what its subject last heard polling it

jobVars == <<now, records, index, lock, op, restarts, call, work, stop, tracked, told>>
manager == <<call, work, stop, tracked, told>>

(* A request announces, awaits or creates, and is done with an outcome.    *)
Phases == {"announcing", "awaiting", "waiting", "creating", "stopping"}
Answers == {"handle", "ok", "raised", "limit", "invalid", "skew"} \cup FaultNames
NoCall == [phase |-> "idle"]
CallStates == {NoCall} \cup [phase : Phases, verb : {"run", "start", "defer"}]
                       \cup [phase : {"done"}, verb : {"run", "start", "defer"}, answer : Answers]

(* The coroutine is constructed and then runs to an end of its own, is     *)
(* closed unstarted, or is lost with the process.                          *)
Ended == {"ok", "raised", "cancelled"}
WorkStates == {"none", "constructed", "running", "closed", "lost"} \cup Ended

JobsTypeOK == /\ StoreTypeOK
              /\ call \in [Jobs -> CallStates]
              /\ work \in [Jobs -> WorkStates]
              /\ stop \subseteq Jobs
              /\ tracked \subseteq Jobs
              /\ told \in [Jobs -> {"nothing", "unknown"} \cup Statuses]

JobsInit == /\ StoreInit
            /\ call = [j \in Jobs |-> NoCall]
            /\ work = [j \in Jobs |-> "none"]
            /\ stop = {} /\ tracked = {}
            /\ told = [j \in Jobs |-> "nothing"]

InCall(j, phases) == call[j].phase \in phases
Answered(j, answers) == InCall(j, {"done"}) /\ call[j].answer \in answers
GoOn(j, phase) == call' = [call EXCEPT ![j].phase = phase]
Becomes(j, state) == work' = [work EXCEPT ![j] = state]

(* A verb is entered up to its first await, left at once, or left later.   *)
Enter(j, verb, phase) == call' = [call EXCEPT ![j] = [phase |-> phase, verb |-> verb]]
Reject(j, verb, answer) ==
    call' = [call EXCEPT ![j] = [phase |-> "done", verb |-> verb, answer |-> answer]]
Return(j, answer) == Reject(j, call[j].verb, answer)

------------------------------------------------------------------------------
(* The verbs, up to their first await. *)

(* run_with_deadline: a coroutine it cannot place is left constructed.     *)
RunWithDeadline(j, mode) ==
    /\ call[j] = NoCall
    /\ \/ mode = "native" /\ Enter(j, "run", "awaiting") /\ Becomes(j, "running")
       \/ mode = "fallback" /\ Enter(j, "run", "waiting") /\ Becomes(j, "running")
       \/ mode = "skew" /\ Reject(j, "run", "skew") /\ Becomes(j, "constructed")
    /\ UNCHANGED <<storeVars, stop, tracked, told>>

(* Mutant of ClosingOnFailure: the coroutine is simply dropped.            *)
DroppedOnFailure(j) == Becomes(j, "constructed")

(* _closing_on_failure around whatever did not hand the coroutine off.     *)
ClosingOnFailure(j) == Becomes(j, "closed")

(* start, and defer once its interval is accepted. *)
Start(j, verb, mode) ==
    /\ call[j] = NoCall
    /\ \/ /\ mode = "native"
          /\ \/ verb = "start" /\ Enter(j, verb, "awaiting") /\ Becomes(j, "running")
             \/ verb = "defer" /\ Enter(j, verb, "announcing") /\ Becomes(j, "constructed")
          /\ UNCHANGED op
       \/ /\ mode = "fallback"
          /\ Enter(j, verb, "creating") /\ Becomes(j, "constructed")
          /\ StartCreate(j)
       \/ mode = "skew" /\ Reject(j, verb, "skew") /\ ClosingOnFailure(j) /\ UNCHANGED op
    /\ UNCHANGED <<now, collections, lock, restarts, stop, tracked, told>>

(* defer with an interval that is not finite and positive. *)
RejectDefer(j) ==
    /\ call[j] = NoCall
    /\ Reject(j, "defer", "invalid")
    /\ Becomes(j, "closed")
    /\ UNCHANGED <<storeVars, stop, tracked, told>>

(* _announce_wait swallows every Exception, so the work begins regardless. *)
Announced(j) ==
    /\ InCall(j, {"announcing"})
    /\ GoOn(j, "awaiting")
    /\ Becomes(j, "running")
    /\ UNCHANGED <<storeVars, stop, tracked, told>>

------------------------------------------------------------------------------
(* The work. *)

(* It ends as it likes, also after it was sent cancel(). *)
WorkEnds(j, end) ==
    /\ work[j] = "running"
    /\ Becomes(j, end)
    /\ UNCHANGED <<storeVars, call, stop, tracked, told>>

(* task.result(), or the await of a coroutine that has ended. *)
ResultOf(j) == work[j]

(* The work ended before the deadline, or under the native task.           *)
Inline(j) ==
    /\ InCall(j, {"awaiting", "waiting"}) /\ work[j] \in Ended
    /\ Return(j, ResultOf(j))
    /\ UNCHANGED <<storeVars, work, stop, tracked, told>>

(* The soft deadline passes with the work still running.                   *)
Promote(j) ==
    /\ InCall(j, {"waiting"}) /\ work[j] = "running"
    /\ GoOn(j, "creating")
    /\ StartCreate(j)
    /\ UNCHANGED <<now, collections, lock, restarts, work, stop, tracked, told>>

------------------------------------------------------------------------------
(* store.create returned: a handle, or a rejection. *)

TakeCreated(j) == InCall(j, {"creating"}) /\ Collect(j)

(* Mutant of Watch: a task that ended during create gets no callback.      *)
WatchRunning(j) == tracked' = IF work[j] \in Ended THEN tracked ELSE tracked \cup {j}

(* _background.add(task) and the done-callbacks, which run at once for a   *)
(* task that is done already.                                              *)
Watch(j) == tracked' = tracked \cup {j}

(* The task is watched; start and defer start it only now.                 *)
Created(j) ==
    /\ TakeCreated(j) /\ op[j].outcome = "ok"
    /\ Watch(j)
    /\ IF call[j].verb = "run" THEN UNCHANGED work ELSE Becomes(j, "running")
    /\ Return(j, "handle")
    /\ UNCHANGED <<now, collections, lock, restarts, stop, told>>

(* Mutant of StopWork: the task of a rejected promotion is not cancelled.  *)
LetItRun(j) == /\ Return(j, "limit")
               /\ UNCHANGED stop

(* task.cancel(), which a task that is done ignores; then await it. *)
StopWork(j) == /\ GoOn(j, "stopping")
               /\ stop' = IF work[j] = "running" THEN stop \cup {j} ELSE stop

(* Mutant of FinishedMeanwhile: a result that came in time is not looked for.*)
NeverFinished(j) == FALSE

(* task.done() and not task.cancelled() *)
FinishedMeanwhile(j) == work[j] \in {"ok", "raised"}

(* JobLimitExceededError out of store.create. *)
CapRejects(j) ==
    /\ TakeCreated(j) /\ op[j].outcome = "limit"
    /\ \/ /\ call[j].verb = "run"
          /\ \/ FinishedMeanwhile(j) /\ Return(j, ResultOf(j)) /\ UNCHANGED stop
             \/ ~FinishedMeanwhile(j) /\ StopWork(j)
          /\ UNCHANGED work
       \/ call[j].verb # "run" /\ Return(j, "limit") /\ ClosingOnFailure(j) /\ UNCHANGED stop
    /\ UNCHANGED <<now, collections, lock, restarts, tracked, told>>

(* The stopped task is over.  Its CancelledError is suppressed, an error   *)
(* it raised instead propagates, a result it came to after all is dropped. *)
Stopped(j) ==
    /\ InCall(j, {"stopping"}) /\ work[j] \in Ended
    /\ Return(j, IF work[j] = "raised" THEN "raised" ELSE "limit")
    /\ UNCHANGED <<storeVars, work, stop, tracked, told>>

(* Anything else out of store.create: only start and defer guard the work. *)
CreateFails(j) ==
    /\ TakeCreated(j) /\ op[j].outcome \in FaultNames
    /\ Return(j, op[j].outcome)
    /\ IF call[j].verb = "run" THEN UNCHANGED work ELSE ClosingOnFailure(j)
    /\ UNCHANGED <<now, collections, lock, restarts, stop, tracked, told>>

(* The request is cancelled at an await of the verb itself.  asyncio.wait  *)
(* leaves its task alone, an awaited coroutine is cancelled with its call, *)
(* an announcement closes its coroutine, and a call that is stopping its   *)
(* task suppresses its own CancelledError.                                 *)
CancelCall(j) ==
    /\ \/ InCall(j, {"waiting"}) /\ Return(j, "cancelled") /\ UNCHANGED <<work, stop>>
       \/ /\ InCall(j, {"awaiting"}) /\ work[j] = "running"
          /\ stop' = stop \cup {j} /\ UNCHANGED <<call, work>>
       \/ /\ InCall(j, {"announcing"})
          /\ Return(j, "cancelled") /\ ClosingOnFailure(j) /\ UNCHANGED stop
    /\ UNCHANGED <<storeVars, tracked, told>>

------------------------------------------------------------------------------
(* The outcome writer and the poller. *)

(* Mutant of StatusOf: a cancelled task is not told from a finished one.   *)
StatusUnchecked(end) == IF end = "raised" THEN "failed" ELSE "completed"

(* _record_outcome's choice among cancel, fail and finish. *)
StatusOf(end) == IF end = "cancelled" THEN "cancelled"
                 ELSE IF end = "raised" THEN "failed" ELSE "completed"

(* The done-callback starts the writer. *)
ScheduleOutcome(j) ==
    /\ j \in tracked /\ work[j] \in Ended
    /\ StartSettle(j, StatusOf(work[j]))
    /\ tracked' = tracked \ {j}
    /\ UNCHANGED <<now, collections, lock, restarts, call, work, stop, told>>

(* The writer is over; an error it met reaches nobody. *)
WriterEnds(j) ==
    /\ InCall(j, {"done"}) /\ Collect(j)
    /\ UNCHANGED <<now, collections, lock, restarts, manager>>

(* get, and poll around it: one kv.get, without the lock. *)
Heard(j) == IF Present(records, j, now) THEN Value(records, j) ELSE "unknown"

Poll(j) ==
    /\ Answered(j, {"handle"})
    /\ told' = [told EXCEPT ![j] = Heard(j)]
    /\ UNCHANGED <<storeVars, call, work, stop, tracked>>

------------------------------------------------------------------------------
(* The process dies: requests, tasks and writers are gone.                 *)
Die == /\ StoreRestart
       /\ call' = [j \in Jobs |->
                     IF InCall(j, Phases)
                     THEN [phase |-> "done", verb |-> call[j].verb, answer |-> "cancelled"]
                     ELSE call[j]]
       /\ work' = [j \in Jobs |-> IF work[j] \in {"constructed", "running"}
                                  THEN "lost" ELSE work[j]]
       /\ tracked' = {}
       /\ UNCHANGED <<stop, told>>

(* Only a request is cancelled; a writer is nobody's to cancel.            *)
FaultsOf(j) == IF InCall(j, {"creating"}) THEN Faults ELSE Faults \ {"cancelled"}

JobsRest == (\A j \in Jobs : op[j] = Idle /\ work[j] # "running") /\ UNCHANGED jobVars

Verb(j) == \E mode \in Modes : \/ "run" \in Verbs /\ RunWithDeadline(j, mode)
                               \/ \E verb \in Verbs \ {"run"} : Start(j, verb, mode)

Loop(j) == \/ Announced(j) \/ Inline(j) \/ Stopped(j)
           \/ Created(j) \/ CapRejects(j) \/ CreateFails(j)
           \/ ScheduleOutcome(j) \/ WriterEnds(j)

JobsNext ==
    \/ \E j \in Jobs :
          \/ Verb(j) \/ Promote(j) \/ Poll(j) \/ Loop(j)
          \/ "defer" \in Verbs /\ RejectDefer(j)
          \/ \E end \in Ended : WorkEnds(j, end)
          \/ "cancelled" \in Faults /\ CancelCall(j)
          \/ StoreStep(j) /\ UNCHANGED manager
          \/ \E why \in FaultsOf(j) : StoreFault(j, why) /\ UNCHANGED manager
    \/ Tick /\ UNCHANGED manager
    \/ Die
    \/ JobsRest

JobsSpec == JobsInit /\ [][JobsNext]_jobVars

(* The event loop runs every ready task and callback, the backend answers  *)
(* or fails every call, and asyncio.Lock wakes its waiters first come      *)
(* first served.  Nothing says that the work ever ends.                    *)
JobsFairSpec ==
    JobsSpec /\ \A j \in Jobs :
        /\ WF_jobVars(Loop(j))
        /\ WF_jobVars((ReadIndex(j) \/ Prune(j) \/ ReadRecord(j) \/ Write(j)) /\ UNCHANGED manager)
        /\ SF_jobVars(Acquire(j) /\ UNCHANGED manager)

------------------------------------------------------------------------------
(* Properties. *)

(* "An untracked task must not outlive this frame": work that runs is      *)
(* watched by the manager, or a request is still there to see it end.      *)
NoUntrackedWork == \A j \in Jobs : work[j] = "running" => j \in tracked \/ InCall(j, Phases)

(* Every path on which start or defer declines to run the coroutine closes *)
(* it: after the request returned, failed or was cancelled at any await,   *)
(* no coroutine is left constructed and never run.                         *)
NoCoroutineDropped ==
    \A j \in Jobs : work[j] = "constructed" /\ call[j].verb # "run" => InCall(j, Phases)

(* A rejection at the cap stops the work: when the caller hears of it, the *)
(* coroutine never started or its task has ended, of the cancel() or after *)
(* it; an outcome reached before the rejection is never thrown away.       *)
RejectionStopsTheWork ==
    \A j \in Jobs : Answered(j, {"limit"}) => \/ work[j] \in {"closed", "cancelled"}
                                              \/ j \in stop /\ work[j] \in Ended

(* The outcome a client gets is the work's own, inline or by polling,      *)
(* across expiry and restarts, and a call answered inline left no record   *)
(* behind to be polled.                                                    *)
OutcomesAreTheWorks ==
    \A j \in Jobs :
       /\ Answered(j, {"ok", "raised"}) => work[j] = call[j].answer /\ j \notin DOMAIN records
       /\ j \in DOMAIN records =>
             /\ Value(records, j) = "completed" => work[j] = "ok"
             /\ Value(records, j) = "failed" => work[j] = "raised"
             /\ Value(records, j) = "cancelled" => work[j] = "cancelled"

(* What polls may say one after the other: an outcome stays that outcome   *)
(* until the record expires, and an expired id is unknown for good.        *)
Later(heard) == CASE heard \in {"nothing", "working"} -> {"nothing", "unknown"} \cup Statuses
                  [] heard \in Outcomes -> {heard, "unknown"}
                  [] heard = "unknown" -> {"unknown"}
PollsMoveForward == [][\A j \in Jobs : told'[j] \in Later(told[j])]_jobVars

(* Work that ended after its handle was returned is settled in the end, or *)
(* its record has expired: no outcome is lost to the race between the end  *)
(* of the work and create, nor the lock to a rejected call.                *)
HandlesSettle ==
    \A j \in Jobs :
       Answered(j, {"handle"}) /\ work[j] \in Ended
          ~> ~Present(records, j, now) \/ Value(records, j) # "working"
==============================================================================
