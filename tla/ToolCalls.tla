------------------------------ MODULE ToolCalls ------------------------------
(***************************************************************************)
(* A tool call through all its layers: the request log around it, the      *)
(* authorization middleware, FastMCP's dispatch, the boundary, and for     *)
(* long work the job manager, whose jobs go on after their call has been   *)
(* answered.  One call is followed at a time; jobs run beside it.  The job *)
(* protocol itself (faults, cancellation, expiry races) is JobManager's:   *)
(* here a job is created, ends and is recorded in one step each.           *)
(***************************************************************************)
EXTENDS ToolBoundary, Authorization, FiniteSets

CONSTANTS Jobs,            \* job ids
          MaxPerSubject,   \* JobsConfig.max_per_subject
          Mode,            \* the recorded auth mode
          Policies,        \* how the checks are put together
          Callers,         \* tokens, or NoToken
          AclTables, GrantTables,  \* what the operator may have written
          OwnVerdict,      \* what a downstream's own check may say
          IncludeTraceback \* wire_middleware_stack's reading of the root logger

(* "long" is register_long_running_tool's, "starts" a tool whose body is   *)
(* return await jobs.start(...), "poll" is get_job_result, "link" one of   *)
(* the create_*_link tools; each has its boundary.                         *)
Tools == {"plain", "long", "starts", "poll", "link"}
Meta(tool) == IF tool = "poll" THEN None
              ELSE IF tool = "starts" THEN "invalid" ELSE CHOOSE s \in Scopes : TRUE

NoExc == [class |-> "none"]
NoJob == "no_job"
Anonymous == "anonymous"        \* _ANONYMOUS_SCOPE

ASSUME ToolCallsAssumption ==
    MaxPerSubject \in Nat \ {0} /\ Mode \in {"none", "bearer"} /\ NoJob \notin Jobs
    /\ Policies \subseteq {"acl", "claims", "any", "both"} /\ Callers \subseteq Tokens \cup {NoToken}
    /\ OwnVerdict \subseteq Verdicts /\ IncludeTraceback \in BOOLEAN

VARIABLES acl, grants, policy,  \* the checks, once loaded
          call,                 \* the call being followed
          job                   \* the records of the jobs, and the work behind them

checks == <<acl, grants, policy>>
cvars  == <<checks, call, job>>

Ended    == [at |-> "ended"]
FreeJob  == [status |-> "free"]
JobRows  == [status : {"working", "completed", "failed"}, scope : Subjects \cup {"local", Anonymous},
             owner : Callers, tool : {"long", "starts"}, cause : Causes \cup {"none"}, error : Texts,
             lines : Seq([event : {"tool_failed", "job_failed"}, level : Levels, traceback : BOOLEAN])]

CInit == /\ acl = Rejected /\ grants = Rejected /\ policy \in Policies
         /\ call = Ended /\ job = [j \in Jobs |-> FreeJob]

(* The checks are built before anything is served; a table that is not     *)
(* accepted stops the server there, for the operator to mend.              *)
Load == /\ acl = Rejected \/ grants = Rejected
        /\ \E t \in AclTables : acl' = LoadTable(t)
        /\ \E t \in GrantTables \cup {NoGrants} :
               grants' = IF t = NoGrants THEN t ELSE LoadTable(t)
        /\ UNCHANGED <<policy, call, job>>

(* Mutant of Scope: no scope for callers without a subject.                *)
ScopeUnset(token) == GetSubject(token, Mode)

(* _current_scope.                                                         *)
Scope(token) == LET s == GetSubject(token, Mode) IN IF s = None THEN Anonymous ELSE s

------------------------------------------------------------------------------
(* The way in. *)

Receive(caller, tool) ==
    /\ call.at = "ended" /\ Rejected \notin {acl, grants}
    /\ call' = [at |-> "authorize", caller |-> caller, tool |-> tool, job |-> NoJob,
                exc |-> NoExc, told |-> "none", cause |-> "none",
                lines |-> <<Line("tool_call_started", INFO, FALSE)>>]
    /\ UNCHANGED <<checks, job>>

Verdict(caller, tool, own) ==
    LET c == Says(ClaimsCheck(caller, Meta(tool), grants))
        a == Says(AclCheck(caller, Meta(tool), acl))
    IN  CASE policy = "acl"    -> AllChecks(<<a>>)
          [] policy = "claims" -> AllChecks(<<c>>)
          [] policy = "any"    -> AllChecks(<<AnyCheck(<<a, own, c>>)>>)
          [] policy = "both"   -> AllChecks(<<a, c>>)

Raises(stage, exc, lines) ==
    call' = [call EXCEPT !.at = stage, !.exc = exc, !.lines = @ \o lines]

(* AuthMiddleware, outside the dispatch.                                   *)
Authorize == /\ call.at = "authorize"
             /\ \E own \in OwnVerdict :
                    IF Verdict(call.caller, call.tool, own) THEN call' = [call EXCEPT !.at = "body"]
                    ELSE Raises("request", ToolError("denied", "denied", ERROR), << >>)
             /\ UNCHANGED <<checks, job>>

------------------------------------------------------------------------------
(* The bodies. *)

Returns(told, j) == call' = [call EXCEPT !.at = "returned", !.told = told, !.job = j]

(* A body raises: its boundary, then the dispatch.                         *)
Leaves(exc, lines) ==
    Raises("request", Dispatched(Boundary(exc)),
           lines \o BoundaryLines(exc) \o DispatchLines(Boundary(exc)))

(* Mutant of BoundaryOnWork: only the registered tool has a boundary.      *)
BoundaryOnWorkNever(tool) == FALSE

(* register_long_running_tool puts one on the work as well: work started   *)
(* with start has none.                                                    *)
BoundaryOnWork(tool)         == tool = "long"
WorkBoundary(tool, exc)      == IF BoundaryOnWork(tool) THEN Boundary(exc) ELSE exc
WorkBoundaryLines(tool, exc) == IF BoundaryOnWork(tool) THEN BoundaryLines(exc) ELSE << >>

(* Work that ends in the call; a refused ttl, before the hook is asked     *)
(* (_check_ttl); a validation hook that rejects, a mint that fails.        *)
EndsInline == /\ call.at = "body" /\ call.tool \in {"plain", "long", "link"}
              /\ \/ Returns("result", NoJob)
                 \/ \E cause \in Causes :
                        LET exc == Raised(cause) IN
                        call' = [call EXCEPT !.at = "request", !.cause = cause,
                            !.exc = Dispatched(Boundary(WorkBoundary(call.tool, exc))),
                            !.lines = @ \o WorkBoundaryLines(call.tool, exc)
                                        \o BoundaryLines(WorkBoundary(call.tool, exc))
                                        \o DispatchLines(Boundary(WorkBoundary(call.tool, exc)))]
                 \/ /\ call.tool = "link"
                    /\ Leaves(ToolError("ttl", "ttl", INFO), << >>)
              /\ UNCHANGED <<checks, job>>

LiveOf(scope) == {j \in Jobs : job[j].status # "free" /\ job[j].scope = scope}

(* The scope is captured while the request is there to be asked.  owner is *)
(* no field of the record: it says for the properties who called.          *)
Adopt(j) ==
    job' = [job EXCEPT ![j] = [status |-> "working", scope |-> Scope(call.caller),
                               owner |-> call.caller, tool |-> call.tool, cause |-> "none", error |-> "none",
                               lines |-> << >>]]

(* run_with_deadline past its deadline, and start.                         *)
BecomesJob == /\ call.at = "body" /\ call.tool \in {"long", "starts"}
              /\ Cardinality(LiveOf(Scope(call.caller))) < MaxPerSubject
              /\ \E j \in Jobs : /\ job[j] = FreeJob
                                 /\ Adopt(j)
                                 /\ Returns("handle", j)
              /\ UNCHANGED checks

(* JobLimitExceededError: the long-running tool translates it, a tool that *)
(* calls start has to itself and here has not.                             *)
AtLimit == /\ call.at = "body" /\ call.tool \in {"long", "starts"}
           /\ Cardinality(LiveOf(Scope(call.caller))) >= MaxPerSubject
           /\ IF call.tool = "long" THEN Leaves(ToolError("limit", "limit", INFO), << >>)
              ELSE Leaves(Raised("bug"), << >>)
           /\ UNCHANGED <<checks, job>>

Visible(j) == job[j].status # "free" /\ job[j].scope = Scope(call.caller)

(* get_job_result.                                                         *)
Poll(j) == /\ call.at = "body" /\ call.tool = "poll"
           /\ IF Visible(j) THEN Returns("record", j)
              ELSE Leaves(ToolError("unknown", "unknown", INFO), << >>)
           /\ UNCHANGED <<checks, job>>

------------------------------------------------------------------------------
(* The way out. *)

(* on_message, after call_next has returned or raised.                     *)
Answer == /\ call.at \in {"returned", "request"}
          /\ call' = IF call.at = "returned"
                     THEN [call EXCEPT !.at = "answered",
                                       !.lines = Append(@, Line("tool_call_completed", INFO, FALSE))]
                     ELSE [call EXCEPT !.at = "answered", !.told = call.exc.text,
                                       !.lines = Append(@, FailedLine(call.exc, IncludeTraceback))]
          /\ UNCHANGED <<checks, job>>

Forget == call.at = "answered" /\ call' = Ended /\ UNCHANGED <<checks, job>>

------------------------------------------------------------------------------
(* The jobs. *)

WorkCompletes(j) == /\ job[j].status = "working"
                    /\ job' = [job EXCEPT ![j].status = "completed"]
                    /\ UNCHANGED <<checks, call>>

(* The work raises, with nobody waiting: _record_outcome is told.          *)
WorkFails(j, cause) ==
    LET exc == WorkBoundary(job[j].tool, Raised(cause)) IN
    /\ job[j].status = "working"
    /\ job' = [job EXCEPT ![j].status = "failed", ![j].cause = cause, ![j].error = JobError(exc),
                          ![j].lines = WorkBoundaryLines(job[j].tool, Raised(cause))
                                       \o <<JobFailedLine(exc)>>]
    /\ UNCHANGED <<checks, call>>

Expire(j) == /\ job[j].status \in {"completed", "failed"}
             /\ ~(call.at # "ended" /\ call.job = j)
             /\ job' = [job EXCEPT ![j] = FreeJob]
             /\ UNCHANGED <<checks, call>>

CNext == \/ Load
         \/ \E caller \in Callers, tool \in Tools : Receive(caller, tool)
         \/ Authorize \/ EndsInline \/ BecomesJob \/ AtLimit \/ Answer \/ Forget
         \/ \E j \in Jobs : Poll(j) \/ WorkCompletes(j) \/ Expire(j)
         \/ \E j \in Jobs, cause \in Causes : WorkFails(j, cause)

CSpec == CInit /\ [][CNext]_cvars
------------------------------------------------------------------------------
Answered == call.at = "answered"
Failures(lines)   == {i \in DOMAIN lines : lines[i].event \in {"tool_failed", "dispatch",
                                                             "tool_call_failed", "job_failed"}}
Tracebacks(lines) == {i \in DOMAIN lines : lines[i].traceback}
Levelled(lines)   == {lines[i].level : i \in Failures(lines)}

CTypeOK ==
    /\ policy \in Policies
    /\ \A j \in Jobs : job[j] = FreeJob \/ job[j] \in JobRows
    /\ call # Ended => /\ call.at \in {"authorize", "body", "returned", "request", "answered"}
                       /\ call.caller \in Callers /\ call.tool \in Tools
                       /\ call.told \in Texts \cup {"result", "handle", "record"}
                       /\ call.exc = NoExc \/ (call.exc.text \in Texts /\ call.exc.level \in Levels)

(* What the call would have been told, had the work failed in it.          *)
ToldInline(tool, cause) == Dispatched(Boundary(WorkBoundary(tool, Raised(cause))))
SameAsInline(j) ==
    /\ job[j].error = ToldInline(job[j].tool, job[j].cause).text
    /\ Levelled(job[j].lines) = {LevelOf(ToldInline(job[j].tool, job[j].cause))}

(* One failure has one account, whichever layers it went through and       *)
(* whether a caller waited for it or a job ran it: its lines agree on the  *)
(* level, a traceback is logged exactly once and exactly when a fault is   *)
(* told, and nobody is told an exception's own text, -32021 apart, which   *)
(* is a protocol error.  A job promoted from a long-running tool fails in  *)
(* the words and at the level its call would have failed with              *)
(* (tool_boundary, register_long_running_tool's second boundary,           *)
(* _record_outcome, on_message).                                           *)
OneAccountOfAFailure ==
    /\ Answered /\ ~IncludeTraceback =>
         /\ Cardinality(Levelled(call.lines)) <= 1
         /\ Cardinality(Tracebacks(call.lines)) = (IF call.told = "fault" THEN 1 ELSE 0)
         /\ call.told = "raw" => call.exc.cause = "capability"
    /\ \A j \in Jobs : job[j].status = "failed" =>
         /\ Cardinality(Levelled(job[j].lines)) = 1
         /\ Cardinality(Tracebacks(job[j].lines)) = (IF job[j].error = "fault" THEN 1 ELSE 0)
         /\ job[j].error # "raw"
         /\ job[j].tool = "long" /\ job[j].cause # "capability" => SameAsInline(j)

(* Whatever the operator has written, a caller gains nothing from a "*"    *)
(* among its own claims, and a check that raises opens nothing             *)
(* (_granted_scopes, make_claims_check, parse_claim_grants, any_check).    *)
StarInClaimMeansNothing ==
    call.at = "authorize" /\ call.caller # NoToken =>
    \A own \in OwnVerdict :
        LET plain      == [call.caller EXCEPT !.values = @ \ {"*"}]
            opened(by) == Verdict(call.caller, call.tool, by)
        IN  /\ opened(own) = Verdict(plain, call.tool, own)
            /\ opened("raises") => opened("no")

(* Two tokens are one caller's if their subjects are, or if neither has    *)
(* one and their clients are.                                              *)
SameCaller(s, t) == \/ s = t
                    \/ /\ NoToken \notin {s, t} /\ s.sub = t.sub
                       /\ s.sub = None => s.client = t.client

(* get_subject tells callers apart by one name, and so takes a token for a *)
(* caller it is not: a client id for the user whose sub it is, a name that *)
(* get_subject or _current_scope gives to a caller without one for such a  *)
(* caller, and a token with neither name for no token.                     *)
GoesBy(t, name) == t # NoToken /\ (t.sub = name \/ (t.sub = None /\ t.client = name))
Nameless(t)     == IF t = NoToken THEN Mode # "none" ELSE t.sub = None /\ t.client = None
TakenFor(t, s) ==
    \/ /\ NoToken \notin {s, t}
       /\ t.sub = None /\ t.client # None /\ t.client = s.sub
    \/ GoesBy(t, Anonymous) /\ Nameless(s)
    \/ GoesBy(t, "local") /\ s = NoToken /\ Mode = "none"
    \/ Nameless(t) /\ Nameless(s)

(* A job is shown to nobody but the caller it was started for, and to one  *)
(* get_subject takes for that caller: however long ago the starting call   *)
(* was answered, whoever else called since (the scope captured in          *)
(* run_with_deadline and _start_fallback, JobStore.get).                   *)
JobsStayWithTheirCaller ==
    Answered /\ call.told \in {"record", "handle"} =>
        LET owner == job[call.job].owner
        IN  /\ \/ SameCaller(call.caller, owner)
               \/ TakenFor(call.caller, owner) \/ TakenFor(owner, call.caller)
            /\ Scope(call.caller) = job[call.job].scope
=============================================================================
