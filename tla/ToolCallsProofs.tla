--------------------------- MODULE ToolCallsProofs ---------------------------
(***************************************************************************)
(* Theorems about the calls of a server: types, who is shown which job,    *)
(* and what a claim can open, for all callers, tables, jobs and caps.      *)
(*                                                                         *)
(* The argument: a job takes the scope of its caller while the call is     *)
(* there to be asked (Owned), nothing moves it from one scope to another,  *)
(* and a call is shown a job of its own scope only (Shown).  A "*" gets no *)
(* further than the tables it is looked up in, which never have it.        *)
(***************************************************************************)
EXTENDS ToolCalls, FiniteSetTheorems, SequenceTheorems, TLAPS

USE ToolCallsAssumption, AuthorizationAssumption

Exceptions == [class : Classes, cause : Causes \cup Texts, text : Texts, level : Levels]
Lines      == [event : {"tool_failed", "job_failed"}, level : Levels, traceback : BOOLEAN]
Calls      == [at : {"authorize", "body", "returned", "request", "answered"},
               caller : Callers, tool : Tools, job : Jobs \cup {NoJob},
               exc : {NoExc} \cup Exceptions, told : Texts \cup {"result", "handle", "record"},
               cause : Causes \cup {"none"}, lines : {call.lines}]

Typed == /\ policy \in Policies
         /\ call = Ended \/ call \in Calls
         /\ job = [j \in Jobs |-> job[j]]
         /\ \A j \in Jobs : job[j] = FreeJob \/ job[j] \in JobRows
         /\ call.at = "request" => call.exc \in Exceptions

(* A job is in the scope of the caller it was started for.                 *)
Owned == \A j \in Jobs : job[j].status # "free" => job[j].scope = Scope(job[j].owner)

(* What a call returned is a job of its caller's scope, still there.       *)
Shown == call.at \in {"returned", "answered"} /\ call.told \in {"record", "handle"} =>
         /\ call.job \in Jobs /\ job[call.job].status # "free"
         /\ job[call.job].scope = Scope(call.caller)

(* No table that was accepted has "*" for a key.                           *)
NoStarKey == "*" \notin DOMAIN grants

CInv == Typed /\ Owned /\ Shown /\ NoStarKey

------------------------------------------------------------------------------
(* Lemmas about exceptions, scopes and checks. *)

(* Whatever layers an exception goes through, it stays one.                *)
LEMMA Layers ==
    /\ \A cause \in Causes : Raised(cause) \in Exceptions
    /\ \A e \in Exceptions : /\ Boundary(e) \in Exceptions /\ Dispatched(e) \in Exceptions
                             /\ \A tool : WorkBoundary(tool, e) \in Exceptions
                             /\ JobError(e) \in Texts
    /\ \A text \in Texts, level \in Levels : ToolError(text, text, level) \in Exceptions
<1>1. \A cause \in Causes : Raised(cause) \in Exceptions
  BY DEF Raised, ToolError, Exceptions, Causes, Classes, Texts, Levels, INFO, WARNING, ERROR
<1>2. \A e \in Exceptions : Fault(e) \in Exceptions
  BY DEF Fault, ToolError, Exceptions, Classes, Texts, Levels, WARNING, ERROR
<1>3. \A e \in Exceptions : Dispatched(e) \in Exceptions
  BY DEF Dispatched, ToolError, Exceptions, Classes, Texts, Levels, WARNING, ERROR
<1>4. \A e \in Exceptions : JobError(e) \in Texts
  BY DEF JobError, Exceptions, Texts
<1>5. \A text \in Texts, level \in Levels : ToolError(text, text, level) \in Exceptions
  BY DEF ToolError, Exceptions, Classes
<1>. QED
  BY <1>1, <1>2, <1>3, <1>4, <1>5 DEF Boundary, WorkBoundary

(* A line is a name, a level and a flag. *)
LEMMA LineTyped ==
    \A event \in {"tool_failed", "job_failed"}, level \in Levels, traceback \in BOOLEAN :
        Line(event, level, traceback) \in Lines
  BY DEF Line, Lines

(* Every line that failing work logs is one. *)
LEMMA LinesTyped ==
    ASSUME NEW e \in Exceptions, NEW tool
    PROVE  WorkBoundaryLines(tool, e) \o <<JobFailedLine(WorkBoundary(tool, e))>> \in Seq(Lines)
<1>1. WorkBoundaryLines(tool, e) \in Seq(Lines)
  <2>1. Fault(e).level \in Levels
    BY DEF Fault, ToolError, Levels, WARNING, ERROR
  <2>2. Line("tool_failed", Fault(e).level, Fault(e).level = ERROR) \in Lines
    BY <2>1, LineTyped
  <2>. QED
    BY <2>2 DEF WorkBoundaryLines, BoundaryLines
<1>2. WorkBoundary(tool, e) \in Exceptions
  BY Layers
<1>3. JobFailedLine(WorkBoundary(tool, e)) \in Lines
  <2>1. LevelOf(WorkBoundary(tool, e)) \in Levels
    BY <1>2 DEF LevelOf, Exceptions, Levels, ERROR
  <2>. QED
    BY <2>1, LineTyped DEF JobFailedLine
<1>. QED
  BY <1>1, <1>3

(* A token is no NoToken, with or without its "*".                         *)
LEMMA TokenFields ==
    ASSUME NEW t \in Callers, t # NoToken
    PROVE  /\ t \in Tokens /\ [t EXCEPT !.values = @ \ {"*"}] # NoToken
           /\ SubjectOf([t EXCEPT !.values = @ \ {"*"}]) = SubjectOf(t)
           /\ [t EXCEPT !.values = @ \ {"*"}].values = t.values \ {"*"}
<1>1. t \in Tokens
  OBVIOUS
<1>2. DOMAIN NoToken = {"kind"} /\ DOMAIN [t EXCEPT !.values = @ \ {"*"}] = DOMAIN t
  BY DEF NoToken
<1>3. "sub" \in DOMAIN t
  BY <1>1 DEF Tokens
<1>. QED
  BY <1>1, <1>2, <1>3 DEF Tokens, SubjectOf

(* A scope is a subject's name, or one of the two that are not.            *)
LEMMA ScopeTyped ==
    ASSUME NEW t \in Callers
    PROVE  /\ Scope(t) \in Subjects \cup {"local", Anonymous}
           /\ t # NoToken /\ SubjectOf(t) # None => Scope(t) = SubjectOf(t) /\ SubjectOf(t) \in Subjects
<1>1. CASE t = NoToken
  BY <1>1 DEF Scope, GetSubject, Anonymous, None
<1>2. CASE t # NoToken
  <2>1. t \in Tokens
    BY <1>2
  <2>. QED
    BY <1>2, <2>1 DEF Scope, GetSubject, SubjectOf, Tokens, Anonymous
<1>. QED
  BY <1>1, <1>2

(* In a table without the key "*", a claim's "*" finds nothing.            *)
LEMMA StarFindsNothing ==
    ASSUME NEW values, NEW g, "*" \notin DOMAIN g
    PROVE  GrantedScopes(values \ {"*"}, g) = GrantedScopes(values, g)
<1>1. (values \ {"*"}) \ {"*"} = values \ {"*"}
  OBVIOUS
<1>2. (values \ {"*"}) \cap DOMAIN g = values \cap DOMAIN g
  OBVIOUS
<1>. QED
  BY <1>1, <1>2 DEF GrantedScopes

(* Three checks, of which one raises, open only what they would open had   *)
(* it said no.                                                             *)
LEMMA RaisingOpensNothing ==
    ASSUME NEW a \in {"yes", "no"}, NEW c \in {"yes", "no"}, AnyCheck(<<a, "raises", c>>) = "yes"
    PROVE  AnyCheck(<<a, "no", c>>) = "yes"
<1>. DEFINE first(v, i) == i \in DOMAIN v /\ v[i] # "no" /\ \A k \in 1 .. i - 1 : v[k] = "no"
<1>1. CASE a = "no"
  <2>. DEFINE v == <<a, "raises", c>>
  <2>1. first(v, 2) /\ \A i \in DOMAIN v : first(v, i) => i = 2
    BY <1>1
  <2>2. (CHOOSE i \in DOMAIN v : v[i] # "no" /\ \A k \in 1 .. i - 1 : v[k] = "no") = 2
    BY <2>1
  <2>3. AnyCheck(v) = "raises"
    BY <2>1, <2>2 DEF AnyCheck
  <2>. QED
    BY <2>3
<1>2. CASE a = "yes"
  <2>. DEFINE v == <<a, "no", c>>
  <2>1. first(v, 1) /\ \A i \in DOMAIN v : first(v, i) => i = 1
    BY <1>2
  <2>2. (CHOOSE i \in DOMAIN v : v[i] # "no" /\ \A k \in 1 .. i - 1 : v[k] = "no") = 1
    BY <2>1
  <2>. QED
    BY <1>2, <2>1, <2>2 DEF AnyCheck
<1>. QED
  BY <1>1, <1>2

------------------------------------------------------------------------------
(* Every step keeps the invariant. *)

(* A server starts with no call and no job.                                *)
LEMMA CallsInit == CInit => CInv
  BY DEF CInit, CInv, Typed, Owned, Shown, NoStarKey, Ended, FreeJob, Rejected

(* A step of the call alone, to a stage at which it has returned nothing,  *)
(* or to one at which it is told something of the exception.               *)
LEMMA CallMoves ==
    ASSUME CInv, UNCHANGED <<checks, job>>, call' = Ended \/ call' \in Calls',
           call'.at = "request" => call'.exc \in Exceptions,
           call'.at \in {"returned", "answered"} => call'.told \notin {"record", "handle"}
    PROVE  CInv'
  BY DEF CInv, Typed, Owned, Shown, NoStarKey, checks

(* A body that ends in an exception. *)
LEMMA CallRaises ==
    ASSUME CInv, UNCHANGED <<checks, job>>, call \in Calls, NEW e \in Exceptions, NEW c \in Causes \cup {"none"},
           NEW lines, call' = [call EXCEPT !.at = "request", !.exc = e, !.cause = c, !.lines = lines]
    PROVE  CInv'
<1>1. call' \in Calls' /\ call'.at = "request" /\ call'.exc = e
  BY DEF Calls
<1>. QED
  BY <1>1, CallMoves

(* What an exception makes of the call it leaves.                          *)
LEMMA RaisesIs ==
    ASSUME call \in Calls, NEW e, NEW lines, Raises("request", e, lines)
    PROVE  call' = [call EXCEPT !.at = "request", !.exc = e, !.cause = call.cause, !.lines = @ \o lines]
  BY DEF Raises, Calls

(* An exception passes the middleware: jobs stay as they are.              *)
LEMMA LeavesStep ==
    ASSUME CInv, UNCHANGED <<checks, job>>, call \in Calls, NEW e \in Exceptions, NEW lines, Leaves(e, lines)
    PROVE  CInv'
<1>1. Dispatched(Boundary(e)) \in Exceptions /\ call.cause \in Causes \cup {"none"}
  BY Layers DEF Calls
<1>. DEFINE all == call.lines \o (lines \o BoundaryLines(e) \o DispatchLines(Boundary(e)))
<1>2. call' = [call EXCEPT !.at = "request", !.exc = Dispatched(Boundary(e)), !.cause = call.cause,
                           !.lines = all]
  BY RaisesIs DEF Leaves, Calls
<1>. HIDE DEF all
<1>. QED
  BY <1>1, <1>2, CallRaises

(* The call goes on, whichever way.                                        *)
LEMMA CallStep ==
    ASSUME CInv,
           \/ \E caller \in Callers, tool \in Tools : Receive(caller, tool)
           \/ Authorize \/ EndsInline \/ AtLimit \/ Forget
    PROVE  CInv'
<1>0. call # Ended => call \in Calls
  BY DEF CInv, Typed
<1>1. ASSUME NEW caller \in Callers, NEW tool \in Tools, Receive(caller, tool)
      PROVE  CInv'
  <2>1. call' \in Calls' /\ call'.at = "authorize"
    BY <1>1 DEF Receive, Calls, Texts
  <2>. QED
    BY <1>1, <2>1, CallMoves DEF Receive
<1>2. CASE Authorize
  <2>1. call \in Calls
    BY <1>0, <1>2 DEF Authorize, Ended
  <2>2. CASE call' = [call EXCEPT !.at = "body"]
    <3>1. call' \in Calls' /\ call'.at = "body"
      BY <2>1, <2>2 DEF Calls
    <3>. QED
      BY <1>2, <3>1, CallMoves DEF Authorize
  <2>3. CASE Raises("request", ToolError("denied", "denied", ERROR), << >>)
    <3>1. ToolError("denied", "denied", ERROR) \in Exceptions
      BY Layers DEF Texts, Levels, ERROR
    <3>2. call.cause \in Causes \cup {"none"}
      BY <2>1 DEF Calls
    <3>. QED
      BY <1>2, <2>1, <2>3, <3>1, <3>2, RaisesIs, CallRaises DEF Authorize
  <2>. QED
    BY <1>2, <2>2, <2>3 DEF Authorize
<1>3. CASE EndsInline
  <2>0. call.at = "body" /\ UNCHANGED <<checks, job>>
    BY <1>3 DEF EndsInline
  <2>1. call \in Calls /\ UNCHANGED <<checks, job>>
    BY <1>0, <2>0 DEF Ended
  <2>2. CASE Returns("result", NoJob)
    <3>1. call' \in Calls' /\ call'.at = "returned" /\ call'.told = "result"
      BY <2>1, <2>2 DEF Returns, Calls
    <3>. QED
      BY <2>1, <3>1, CallMoves
  <2>3. ASSUME NEW cause \in Causes, NEW lines,
               call' = [call EXCEPT !.at = "request", !.cause = cause,
                          !.exc = Dispatched(Boundary(WorkBoundary(call.tool, Raised(cause)))), !.lines = lines]
        PROVE  CInv'
    <3>1. Dispatched(Boundary(WorkBoundary(call.tool, Raised(cause)))) \in Exceptions
      BY Layers
    <3>. DEFINE e == Dispatched(Boundary(WorkBoundary(call.tool, Raised(cause))))
    <3>2. call' = [call EXCEPT !.at = "request", !.exc = e, !.cause = cause, !.lines = lines]
      BY <2>1, <2>3 DEF Calls
    <3>. HIDE DEF e
    <3>3. e \in Exceptions
      BY <3>1 DEF e
    <3>. QED
      BY <2>1, <3>2, <3>3, CallRaises
  <2>4. CASE Leaves(ToolError("ttl", "ttl", INFO), << >>)
    BY <2>1, <2>4, LeavesStep, Layers DEF Texts, Levels, INFO
  <2>. QED
    BY <1>3, <2>2, <2>3, <2>4 DEF EndsInline
<1>4. CASE AtLimit
  <2>0. call.at = "body" /\ UNCHANGED <<checks, job>>
    BY <1>4 DEF AtLimit
  <2>1. call \in Calls /\ UNCHANGED <<checks, job>>
    BY <1>0, <2>0 DEF Ended
  <2>2. ToolError("limit", "limit", INFO) \in Exceptions /\ Raised("bug") \in Exceptions
    BY Layers DEF Texts, Levels, INFO, Causes
  <2>. QED
    BY <1>4, <2>1, <2>2, LeavesStep DEF AtLimit
<1>5. CASE Forget
  <2>1. call'.at = "ended"
    BY <1>5 DEF Forget, Ended
  <2>. QED
    BY <1>5, <2>1, CallMoves DEF Forget
<1>. QED
  BY <1>1, <1>2, <1>3, <1>4, <1>5

(* The answer tells what the call was told already, or an exception's text.*)
LEMMA AnswerStep == CInv /\ Answer => CInv'
<1>. SUFFICES ASSUME CInv, Answer PROVE CInv'
  OBVIOUS
<1>1. call \in Calls /\ UNCHANGED <<checks, job>>
  <2>1. call.at # "ended"
    BY DEF Answer
  <2>. QED
    BY <2>1 DEF Answer, CInv, Typed, Ended
<1>2. CASE call.at = "returned"
  <2>1. /\ call' \in Calls' /\ call'.at = "answered" /\ call'.told = call.told
        /\ call'.job = call.job /\ call'.caller = call.caller
    BY <1>1, <1>2 DEF Answer, Calls
  <2>. QED
    BY <1>1, <1>2, <2>1 DEF CInv, Typed, Owned, Shown, NoStarKey, checks
<1>3. CASE call.at = "request"
  <2>1. call.exc \in Exceptions
    BY <1>3 DEF CInv, Typed
  <2>2. call' \in Calls' /\ call'.at = "answered" /\ call'.told = call.exc.text
    BY <1>1, <1>3, <2>1 DEF Answer, Calls, Exceptions
  <2>3. call'.told \notin {"record", "handle"}
    BY <2>1, <2>2 DEF Exceptions, Texts
  <2>. QED
    BY <1>1, <2>2, <2>3, CallMoves
<1>. QED
  BY <1>2, <1>3 DEF Answer

(* A job begins in its caller's scope. *)
LEMMA AdoptStep == CInv /\ BecomesJob => CInv'
<1>. SUFFICES ASSUME CInv, NEW j \in Jobs, job[j] = FreeJob, Adopt(j), Returns("handle", j),
                     UNCHANGED checks, call.at = "body", call.tool \in {"long", "starts"}
              PROVE  CInv'
  BY DEF BecomesJob
<1>. DEFINE row == [status |-> "working", scope |-> Scope(call.caller), owner |-> call.caller,
                    tool |-> call.tool, cause |-> "none", error |-> "none", lines |-> << >>]
<1>1. call \in Calls
  BY DEF CInv, Typed, Ended
<1>2. row \in JobRows
  BY <1>1, ScopeTyped DEF Calls, JobRows, Texts
<1>3. job' = [i \in Jobs |-> IF i = j THEN row ELSE job[i]]
  BY DEF Adopt, CInv, Typed
<1>4. /\ call' \in Calls' /\ call'.at = "returned" /\ call'.told = "handle" /\ call'.job = j
      /\ call'.caller = call.caller
  BY <1>1 DEF Returns, Calls
<1>5. row.status = "working" /\ row.scope = Scope(row.owner) /\ row.owner = call.caller
  OBVIOUS
<1>. HIDE DEF row
<1>6. Typed'
  BY <1>2, <1>3, <1>4 DEF CInv, Typed, checks
<1>7. Owned' /\ Shown'
  BY <1>3, <1>4, <1>5 DEF CInv, Owned, Shown
<1>. QED
  BY <1>6, <1>7 DEF CInv, NoStarKey, checks

(* A poll returns a job of its caller's scope, or tells it is unknown.     *)
LEMMA PollStep ==
    ASSUME CInv, NEW j \in Jobs, Poll(j)
    PROVE  CInv'
<1>1. call \in Calls /\ UNCHANGED <<checks, job>>
  BY DEF Poll, CInv, Typed, Ended
<1>2. CASE Visible(j) /\ Returns("record", j)
  <2>1. /\ call' \in Calls' /\ call'.at = "returned" /\ call'.told = "record" /\ call'.job = j
        /\ call'.caller = call.caller
    BY <1>1, <1>2 DEF Returns, Calls
  <2>. QED
    BY <1>1, <1>2, <2>1 DEF CInv, Typed, Owned, Shown, NoStarKey, Visible, checks
<1>3. CASE Leaves(ToolError("unknown", "unknown", INFO), << >>)
  BY <1>1, <1>3, LeavesStep, Layers DEF Texts, Levels, INFO
<1>. QED
  BY <1>2, <1>3 DEF Poll

(* A job's own steps leave its scope and its owner alone. *)
LEMMA JobStep ==
    ASSUME CInv, NEW j \in Jobs,
           WorkCompletes(j) \/ Expire(j) \/ \E cause \in Causes : WorkFails(j, cause)
    PROVE  CInv'
<1>0. UNCHANGED <<checks, call>>
  BY DEF WorkCompletes, Expire, WorkFails
<1>1. ASSUME NEW row \in JobRows, job[j].status # "free", job' = [job EXCEPT ![j] = row],
             row.scope = job[j].scope, row.owner = job[j].owner
      PROVE  CInv'
  <2>1. job' = [i \in Jobs |-> IF i = j THEN row ELSE job[i]] /\ row.status # "free"
    BY <1>1 DEF CInv, Typed, JobRows
  <2>. QED
    BY <1>0, <1>1, <2>1 DEF CInv, Typed, Owned, Shown, NoStarKey, checks, Calls
<1>2. CASE WorkCompletes(j)
  <2>1. job[j] \in JobRows /\ job[j].status # "free"
    BY <1>2 DEF WorkCompletes, CInv, Typed, FreeJob
  <2>2. PICK row : row = [job[j] EXCEPT !.status = "completed"]
    OBVIOUS
  <2>3. row \in JobRows /\ row.scope = job[j].scope /\ row.owner = job[j].owner
    BY <2>1, <2>2 DEF JobRows
  <2>4. job' = [job EXCEPT ![j] = row]
    BY <1>2, <2>2 DEF WorkCompletes, CInv, Typed
  <2>. QED
    BY <1>1, <2>1, <2>3, <2>4
<1>3. ASSUME NEW cause \in Causes, WorkFails(j, cause)
      PROVE  CInv'
  <2>. DEFINE exc == WorkBoundary(job[j].tool, Raised(cause))
              lines == WorkBoundaryLines(job[j].tool, Raised(cause)) \o <<JobFailedLine(exc)>>
  <2>1. job[j] \in JobRows /\ job[j].status # "free"
    <3>1. job[j].status = "working"
      BY <1>3 DEF WorkFails
    <3>. QED
      BY <3>1 DEF CInv, Typed, FreeJob
  <2>2. PICK row : row = [job[j] EXCEPT !.status = "failed", !.cause = cause, !.error = JobError(exc),
                                        !.lines = lines]
    OBVIOUS
  <2>3. JobError(exc) \in Texts /\ lines \in Seq(Lines)
    BY Layers, LinesTyped
  <2>4. row.scope = job[j].scope /\ row.owner = job[j].owner
    BY <2>1, <2>2 DEF JobRows
  <2>5. job' = [job EXCEPT ![j] = row]
    BY <1>3, <2>2 DEF WorkFails, CInv, Typed
  <2>. HIDE DEF exc, lines
  <2>6. row \in JobRows
    BY <2>1, <2>2, <2>3 DEF JobRows, Lines
  <2>. QED
    BY <1>1, <2>1, <2>4, <2>5, <2>6
<1>4. CASE Expire(j)
  <2>1. job' = [i \in Jobs |-> IF i = j THEN FreeJob ELSE job[i]] /\ FreeJob.status = "free"
    BY <1>4 DEF Expire, CInv, Typed, FreeJob
  <2>2. call.at # "ended" => call.job # j
    BY <1>4 DEF Expire
  <2>. QED
    BY <1>0, <2>1, <2>2 DEF CInv, Typed, Owned, Shown, NoStarKey, checks, Calls
<1>. QED
  BY <1>2, <1>3, <1>4

(* A table that is accepted has no key "*". *)
LEMMA LoadStep == CInv /\ Load => CInv'
<1>. SUFFICES ASSUME CInv, Load PROVE CInv'
  OBVIOUS
<1>1. \A t : "*" \notin DOMAIN LoadTable(t)
  BY DEF LoadTable, Rejected
<1>2. NoStarKey'
  BY <1>1 DEF Load, NoStarKey, NoGrants
<1>. QED
  BY <1>2 DEF Load, CInv, Typed, Owned, Shown, Calls

(* Every step of callers, calls and jobs keeps the invariant.              *)
LEMMA CallsStep == CInv /\ [CNext]_cvars => CInv'
<1>. SUFFICES ASSUME CInv, [CNext]_cvars PROVE CInv'
  OBVIOUS
<1>1. CASE UNCHANGED cvars
  BY <1>1 DEF cvars, checks, CInv, Typed, Owned, Shown, NoStarKey, Calls
<1>. QED
  BY <1>1, CallStep, AnswerStep, AdoptStep, PollStep, JobStep, LoadStep DEF CNext

(* The invariant of calls and jobs: types, every job in the scope of the   *)
(* caller that started it, and a call shown jobs of its own scope only     *)
(* (run_with_deadline captures the scope, JobStore.get looks it up).       *)
THEOREM CallsSafe == CSpec => []CInv
  BY CallsInit, CallsStep, PTL DEF CSpec

------------------------------------------------------------------------------
(* Theorems. *)

(* Every reachable state of a server's calls and jobs has its type.        *)
THEOREM CallsTypeCorrect == CSpec => []CTypeOK
<1>1. CInv => CTypeOK
  BY DEF CInv, Typed, CTypeOK, Calls, Exceptions
<1>. QED
  BY <1>1, CallsSafe, PTL

(* Whatever tables the operator writes and however the checks are          *)
(* combined, a "*" among a token's claims is worth nothing and a check     *)
(* that raises opens nothing (_granted_scopes, any_check).                 *)
THEOREM StarMeansNothing == CSpec => []StarInClaimMeansNothing
<1>1. CInv => StarInClaimMeansNothing
  <2>. SUFFICES ASSUME CInv, call.at = "authorize", call.caller # NoToken, NEW own \in OwnVerdict
                PROVE  LET plain      == [call.caller EXCEPT !.values = @ \ {"*"}]
                           opened(by) == Verdict(call.caller, call.tool, by)
                       IN  /\ opened(own) = Verdict(plain, call.tool, own)
                           /\ opened("raises") => opened("no")
    BY DEF StarInClaimMeansNothing
  <2>. DEFINE plain == [call.caller EXCEPT !.values = @ \ {"*"}]
              meta  == Meta(call.tool)
              c     == Says(ClaimsCheck(call.caller, meta, grants))
              a     == Says(AclCheck(call.caller, meta, acl))
  <2>1. call.caller \in Callers /\ policy \in {"acl", "claims", "any", "both"}
    BY DEF CInv, Typed, Ended, Calls
  <2>2. GrantedScopes(plain.values, grants) = GrantedScopes(call.caller.values, grants)
    BY <2>1, TokenFields, StarFindsNothing DEF CInv, NoStarKey
  <2>3. ClaimsCheck(plain, meta, grants) = ClaimsCheck(call.caller, meta, grants)
    BY <2>1, <2>2, TokenFields DEF ClaimsCheck
  <2>4. AclCheck(plain, meta, acl) = AclCheck(call.caller, meta, acl)
    BY <2>1, TokenFields DEF AclCheck
  <2>5. Verdict(call.caller, call.tool, own) = Verdict(plain, call.tool, own)
    BY <2>3, <2>4 DEF Verdict
  <2>6. a \in {"yes", "no"} /\ c \in {"yes", "no"}
    BY DEF Says
  <2>. HIDE DEF a, c
  <2>7. ASSUME Verdict(call.caller, call.tool, "raises")
        PROVE  Verdict(call.caller, call.tool, "no")
    <3>1. CASE policy = "any"
      <4>1. AnyCheck(<<a, "raises", c>>) = "yes"
        BY <2>7, <3>1 DEF Verdict, AllChecks, a, c
      <4>2. AnyCheck(<<a, "no", c>>) = "yes"
        BY <2>6, <4>1, RaisingOpensNothing
      <4>. QED
        BY <3>1, <4>2 DEF Verdict, AllChecks, a, c
    <3>2. CASE policy # "any"
      BY <2>1, <2>7, <3>2 DEF Verdict
    <3>. QED
      BY <3>1, <3>2
  <2>. QED
    BY <2>5, <2>7
<1>. QED
  BY <1>1, CallsSafe, PTL

(* No caller is ever shown a job that was started for another it is not    *)
(* taken for: not by a handle, not by a poll, not after the call that      *)
(* started it is gone, for every set of tokens and names                   *)
(* (_current_scope, JobStore.get).                                         *)
THEOREM JobsStay == CSpec => []JobsStayWithTheirCaller
<1>1. ASSUME NEW s \in Callers, NEW t \in Callers, Scope(s) = Scope(t)
      PROVE  SameCaller(s, t) \/ TakenFor(s, t) \/ TakenFor(t, s)
  <2>1. ASSUME NEW a \in Callers, NEW b \in Callers, Scope(a) = Scope(b), a = NoToken
        PROVE  SameCaller(a, b) \/ TakenFor(b, a)
    <3>1. CASE b = NoToken
      BY <2>1, <3>1 DEF SameCaller
    <3>2. CASE b # NoToken /\ SubjectOf(b) = None
      <4>1. Scope(b) = Anonymous /\ b.sub = None /\ b.client = None
        BY <3>2 DEF Scope, GetSubject, SubjectOf, Tokens
      <4>2. Mode # "none"
        BY <2>1, <4>1 DEF Scope, GetSubject, Anonymous, None
      <4>. QED
        BY <2>1, <3>2, <4>1, <4>2 DEF TakenFor, Nameless
    <3>3. CASE b # NoToken /\ SubjectOf(b) # None
      <4>1. Scope(b) = SubjectOf(b) /\ GoesBy(b, Scope(b))
        BY <3>3, ScopeTyped DEF SubjectOf, GoesBy
      <4>2. Scope(a) = IF Mode = "none" THEN "local" ELSE Anonymous
        BY <2>1 DEF Scope, GetSubject, None
      <4>. QED
        BY <2>1, <4>1, <4>2 DEF TakenFor, Nameless
    <3>. QED
      BY <3>1, <3>2, <3>3
  <2>2. ASSUME NEW a \in Callers, NEW b \in Callers, Scope(a) = Scope(b),
               a # NoToken, b # NoToken, SubjectOf(a) = None
        PROVE  SameCaller(a, b) \/ TakenFor(b, a)
    <3>1. Scope(a) = Anonymous /\ a.sub = None /\ a.client = None /\ Nameless(a)
      BY <2>2 DEF Scope, GetSubject, SubjectOf, Tokens, Nameless
    <3>2. CASE SubjectOf(b) = None
      BY <2>2, <3>1, <3>2 DEF SubjectOf, SameCaller
    <3>3. CASE SubjectOf(b) # None
      BY <2>2, <3>1, <3>3, ScopeTyped DEF SubjectOf, GoesBy, TakenFor
    <3>. QED
      BY <3>2, <3>3
  <2>3. ASSUME s # NoToken, t # NoToken, SubjectOf(s) # None, SubjectOf(t) # None
        PROVE  SameCaller(s, t) \/ TakenFor(s, t) \/ TakenFor(t, s)
    <3>1. SubjectOf(s) = SubjectOf(t)
      BY <1>1, <2>3, ScopeTyped
    <3>. QED
      BY <2>3, <3>1 DEF SameCaller, TakenFor, SubjectOf
  <2>. QED
    BY <1>1, <2>1, <2>2, <2>3 DEF SameCaller
<1>2. CInv => JobsStayWithTheirCaller
  <2>. SUFFICES ASSUME CInv, Answered, call.told \in {"record", "handle"}
                PROVE  /\ \/ SameCaller(call.caller, job[call.job].owner)
                          \/ TakenFor(call.caller, job[call.job].owner)
                          \/ TakenFor(job[call.job].owner, call.caller)
                       /\ Scope(call.caller) = job[call.job].scope
    BY DEF JobsStayWithTheirCaller
  <2>1. /\ call.job \in Jobs /\ job[call.job].status # "free"
        /\ job[call.job].scope = Scope(call.caller) /\ job[call.job].scope = Scope(job[call.job].owner)
    BY DEF CInv, Owned, Shown, Answered
  <2>2. call.caller \in Callers /\ job[call.job].owner \in Callers
    BY <2>1 DEF CInv, Typed, Answered, Ended, FreeJob, Calls, JobRows
  <2>. QED
    BY <1>1, <2>1, <2>2
<1>. QED
  BY <1>2, CallsSafe, PTL

------------------------------------------------------------------------------
(* One account of a failure. *)

CallLines == [event : {"tool_call_started", "tool_call_completed", "tool_call_failed", "tool_failed",
                       "dispatch", "job_failed"}, level : Levels, traceback : BOOLEAN]

(* What the lines so far have to say of the exception on its way out: one  *)
(* that is classified has its level in all of them, and a traceback        *)
(* exactly if it is a fault; of any other nothing has been told yet.       *)
Told(lines, e) ==
    /\ lines \in Seq(CallLines) /\ e \in Exceptions
    /\ IF e.class = "FastMCPError"
       THEN /\ \A i \in Failures(lines) : lines[i].level = e.level
            /\ IF e.text = "fault" THEN \E i : Tracebacks(lines) = {i} ELSE Tracebacks(lines) = {}
            /\ e.text # "raw"
       ELSE Failures(lines) = {} /\ Tracebacks(lines) = {} /\ e.text = "raw"

(* A call that has not failed has nothing to tell but that it started.     *)
CallAccount ==
    /\ call.at \in {"authorize", "body", "returned"} =>
         call.lines = <<Line("tool_call_started", INFO, FALSE)>>
    /\ call.at = "returned" => call.told \in {"result", "handle", "record"}
    /\ call.at = "request" => Told(call.lines, call.exc) /\ PassesThrough(call.exc)
    /\ call.at = "answered" /\ ~IncludeTraceback =>
         /\ \E level : Levelled(call.lines) \subseteq {level}
         /\ IF call.told = "fault" THEN \E i : Tracebacks(call.lines) = {i} ELSE Tracebacks(call.lines) = {}
         /\ call.told = "raw" => call.exc.cause = "capability"

(* A job that failed tells what its work raised.                           *)
JobAccount ==
    \A j \in Jobs : job[j].status = "failed" =>
        LET raised == Raised(job[j].cause) IN
        /\ job[j].cause \in Causes
        /\ job[j].error = JobError(WorkBoundary(job[j].tool, raised))
        /\ job[j].lines = WorkBoundaryLines(job[j].tool, raised)
                          \o <<JobFailedLine(WorkBoundary(job[j].tool, raised))>>

(* A log of two lines. *)
LEMMA TwoLines ==
    ASSUME NEW x, NEW y
    PROVE  /\ DOMAIN <<x, y>> = {1, 2} /\ <<x, y>>[1] = x /\ <<x, y>>[2] = y
           /\ Append(<<x>>, y) = <<x, y>>
<1>1. <<x>> \in Seq({x, y}) /\ <<x, y>> \in Seq({x, y}) /\ Len(<<x>>) = 1 /\ Len(<<x, y>>) = 2
  OBVIOUS
<1>2. DOMAIN <<x, y>> = 1 .. 2 /\ <<x, y>>[1] = x /\ <<x, y>>[2] = y
  OBVIOUS
<1>3. Append(<<x>>, y) \in Seq({x, y}) /\ Len(Append(<<x>>, y)) = 2
  BY <1>1
<1>4. \A i \in 1 .. 2 : Append(<<x>>, y)[i] = <<x, y>>[i]
  BY <1>1
<1>5. Append(<<x>>, y) = <<x, y>>
  BY <1>1, <1>3, <1>4, SeqEqual
<1>. QED
  BY <1>2, <1>5

(* A line more is one more to agree with.                                  *)
LEMMA OneMoreLine ==
    ASSUME NEW lines \in Seq(CallLines), NEW l \in CallLines
    PROVE  /\ lines \o <<l>> \in Seq(CallLines)
           /\ IF l.event \in {"tool_failed", "dispatch", "tool_call_failed", "job_failed"}
              THEN Failures(lines \o <<l>>) = Failures(lines) \cup {Len(lines) + 1}
              ELSE Failures(lines \o <<l>>) = Failures(lines)
           /\ l.traceback => Tracebacks(lines \o <<l>>) = Tracebacks(lines) \cup {Len(lines) + 1}
           /\ ~l.traceback => Tracebacks(lines \o <<l>>) = Tracebacks(lines)
           /\ \A i \in DOMAIN lines : (lines \o <<l>>)[i] = lines[i]
           /\ (lines \o <<l>>)[Len(lines) + 1] = l
           /\ DOMAIN lines = 1 .. Len(lines) /\ Len(lines) \in Nat
<1>1. /\ lines \o <<l>> \in Seq(CallLines)
      /\ Len(lines \o <<l>>) = Len(lines) + 1 /\ Len(lines) \in Nat
      /\ DOMAIN lines = 1 .. Len(lines) /\ DOMAIN (lines \o <<l>>) = 1 .. (Len(lines) + 1)
      /\ \A i \in 1 .. Len(lines) : (lines \o <<l>>)[i] = lines[i]
      /\ (lines \o <<l>>)[Len(lines) + 1] = l
  OBVIOUS
<1>2. 1 .. (Len(lines) + 1) = (1 .. Len(lines)) \cup {Len(lines) + 1} /\ Len(lines) + 1 \notin 1 .. Len(lines)
  BY <1>1
<1>3. IF l.event \in {"tool_failed", "dispatch", "tool_call_failed", "job_failed"}
      THEN Failures(lines \o <<l>>) = Failures(lines) \cup {Len(lines) + 1}
      ELSE Failures(lines \o <<l>>) = Failures(lines)
  BY <1>1, <1>2 DEF Failures
<1>4. /\ l.traceback => Tracebacks(lines \o <<l>>) = Tracebacks(lines) \cup {Len(lines) + 1}
      /\ ~l.traceback => Tracebacks(lines \o <<l>>) = Tracebacks(lines)
  BY <1>1, <1>2 DEF Tracebacks
<1>. QED
  BY <1>1, <1>3, <1>4

(* A line without a traceback, at the exception's level, changes no account.*)
LEMMA AgreeingLine ==
    ASSUME NEW lines, NEW e, Told(lines, e), e.class = "FastMCPError",
           NEW l \in CallLines, l.level = e.level, ~l.traceback
    PROVE  Told(lines \o <<l>>, e)
<1>1. lines \in Seq(CallLines)
  BY DEF Told
<1>2. Tracebacks(lines \o <<l>>) = Tracebacks(lines)
  BY <1>1, OneMoreLine
<1>4. Failures(lines \o <<l>>) \subseteq Failures(lines) \cup {Len(lines) + 1}
  BY <1>1, OneMoreLine
<1>5. lines \o <<l>> \in Seq(CallLines)
  BY <1>1, OneMoreLine
<1>3. ASSUME NEW i \in Failures(lines \o <<l>>) PROVE (lines \o <<l>>)[i].level = e.level
  <2>1. CASE i \in Failures(lines)
    BY <1>1, <2>1, OneMoreLine DEF Told, Failures
  <2>2. CASE i = Len(lines) + 1
    BY <1>1, <2>2, OneMoreLine
  <2>. QED
    BY <1>4, <2>1, <2>2
<1>. QED
  BY <1>2, <1>3, <1>5 DEF Told

(* A boundary tells of what it classifies, once, and of nothing else.      *)
LEMMA BoundaryTells ==
    ASSUME NEW lines, NEW e, Told(lines, e)
    PROVE  /\ Told(lines \o BoundaryLines(e), Boundary(e))
           /\ PassesThrough(Boundary(e))
<1>0. lines \in Seq(CallLines) /\ e \in Exceptions
  BY DEF Told
<1>1. CASE PassesThrough(e)
  <2>1. lines \o << >> = lines
    BY <1>0
  <2>. QED
    BY <1>1, <2>1 DEF Boundary, BoundaryLines
<1>2. CASE ~PassesThrough(e)
  <2>. DEFINE l == Line("tool_failed", Fault(e).level, Fault(e).level = ERROR)
  <2>1. /\ Fault(e) \in Exceptions /\ Fault(e).class = "FastMCPError" /\ Fault(e).text # "raw"
        /\ Fault(e).level \in Levels /\ (Fault(e).level = ERROR <=> Fault(e).text = "fault")
    BY <1>0, <1>2 DEF Fault, ToolError, Exceptions, Classes, Texts, Levels, WARNING, ERROR
  <2>2. /\ l \in CallLines /\ l.level = Fault(e).level /\ (l.traceback <=> Fault(e).text = "fault")
        /\ l.event = "tool_failed"
    BY <2>1 DEF Line, CallLines
  <2>3. Boundary(e) = Fault(e) /\ BoundaryLines(e) = <<l>>
    BY <1>2 DEF Boundary, BoundaryLines
  <2>4. Failures(lines) = {} /\ Tracebacks(lines) = {}
    BY <1>2 DEF Told, PassesThrough
  <2>. HIDE DEF l
  <2>5. /\ Failures(lines \o <<l>>) = {Len(lines) + 1} /\ (lines \o <<l>>)[Len(lines) + 1] = l
        /\ Tracebacks(lines \o <<l>>) = IF Fault(e).text = "fault" THEN {Len(lines) + 1} ELSE {}
        /\ lines \o <<l>> \in Seq(CallLines)
    BY <1>0, <2>2, <2>4, OneMoreLine
  <2>6. Told(lines \o <<l>>, Fault(e))
    BY <2>1, <2>2, <2>5 DEF Told
  <2>. QED
    BY <2>1, <2>3, <2>6 DEF PassesThrough
<1>. QED
  BY <1>1, <1>2

(* The dispatch repeats what a boundary has classified, without traceback. *)
LEMMA DispatchTells ==
    ASSUME NEW lines, NEW e, Told(lines, e), PassesThrough(e)
    PROVE  Dispatched(e) = e /\ Told(lines \o DispatchLines(e), e)
<1>0. lines \in Seq(CallLines) /\ e \in Exceptions
  BY DEF Told
<1>1. CASE e.class = "FastMCPError"
  <2>1. Line("dispatch", e.level, FALSE) \in CallLines
    BY <1>0 DEF Line, CallLines, Exceptions
  <2>. QED
    BY <1>1, <2>1, AgreeingLine DEF DispatchLines, Dispatched, Line
<1>2. CASE e.class # "FastMCPError"
  <2>1. lines \o << >> = lines
    BY <1>0
  <2>. QED
    BY <1>2, <2>1 DEF DispatchLines, Dispatched, PassesThrough
<1>. QED
  BY <1>1, <1>2

(* What the work raises has not been told of.                              *)
LEMMA NothingTold ==
    ASSUME NEW e \in Exceptions,
           e.class = "FastMCPError" => e.text \notin {"raw", "fault"},
           e.class # "FastMCPError" => e.text = "raw"
    PROVE  Told(<<Line("tool_call_started", INFO, FALSE)>>, e) /\ Told(<< >>, e)
<1>. DEFINE l == Line("tool_call_started", INFO, FALSE)
<1>1. l \in CallLines /\ l.event = "tool_call_started" /\ ~l.traceback
  BY DEF Line, CallLines, Levels
<1>2. Failures(<< >>) = {} /\ Tracebacks(<< >>) = {} /\ << >> \in Seq(CallLines)
  BY DEF Failures, Tracebacks
<1>. HIDE DEF l
<1>3. DOMAIN <<l>> = {1} /\ <<l>>[1] = l /\ <<l>> \in Seq(CallLines)
  BY <1>1
<1>4. Failures(<<l>>) = {} /\ Tracebacks(<<l>>) = {} /\ <<l>> \in Seq(CallLines)
  BY <1>1, <1>3 DEF Failures, Tracebacks
<1>. QED
  BY <1>2, <1>4 DEF Told, l

(* That is so of every cause. *)
LEMMA RaisedUntold ==
    ASSUME NEW cause \in Causes
    PROVE  /\ Raised(cause) \in Exceptions
           /\ Raised(cause).class = "FastMCPError" => Raised(cause).text \notin {"raw", "fault"}
           /\ Raised(cause).class # "FastMCPError" => Raised(cause).text = "raw"
  BY Layers DEF Raised, ToolError

(* And of a refusal of the library's own.                                  *)
LEMMA RefusalUntold ==
    ASSUME NEW text \in {"ttl", "limit", "unknown", "denied"}, NEW level \in Levels
    PROVE  /\ ToolError(text, text, level) \in Exceptions
           /\ ToolError(text, text, level).class = "FastMCPError"
           /\ ToolError(text, text, level).text = text
  BY Layers DEF ToolError, Texts

(* Concatenation of what the layers log.                                   *)
LEMMA LinesConcat ==
    ASSUME NEW a \in Seq(CallLines), NEW b \in Seq(CallLines), NEW c \in Seq(CallLines)
    PROVE  (a \o b) \o c = a \o (b \o c)
  OBVIOUS

(* What the layers log are lines, whatever they are given.                 *)
LEMMA LayersLog ==
    ASSUME NEW e \in Exceptions
    PROVE  /\ BoundaryLines(e) \in Seq(CallLines)
           /\ \A tool : WorkBoundaryLines(tool, e) \in Seq(CallLines)
           /\ PassesThrough(e) => DispatchLines(e) \in Seq(CallLines)
<1>0. /\ \A l \in CallLines : <<l>> \in Seq(CallLines)
      /\ << >> \in Seq(CallLines)
  OBVIOUS
<1>1. BoundaryLines(e) \in Seq(CallLines)
  <2>1. Fault(e).level \in Levels
    BY DEF Fault, ToolError, Levels, WARNING, ERROR
  <2>2. Line("tool_failed", Fault(e).level, Fault(e).level = ERROR) \in CallLines
    BY <2>1 DEF Line, CallLines
  <2>. QED
    BY <2>2 DEF BoundaryLines
<1>2. ASSUME NEW tool PROVE WorkBoundaryLines(tool, e) \in Seq(CallLines)
  BY <1>0, <1>1 DEF WorkBoundaryLines
<1>3. ASSUME PassesThrough(e) PROVE DispatchLines(e) \in Seq(CallLines)
  <2>1. DispatchLines(e) = IF e.class = "FastMCPError" THEN <<Line("dispatch", e.level, FALSE)>> ELSE << >>
    BY <1>3 DEF DispatchLines, PassesThrough
  <2>2. Line("dispatch", e.level, FALSE) \in CallLines
    BY DEF Line, CallLines, Exceptions
  <2>. QED
    BY <1>0, <2>1, <2>2, Zenon
<1>. QED
  BY <1>1, <1>2, <1>3

(* Work that fails in its call goes through its own boundary first.        *)
LEMMA WorkTells ==
    ASSUME NEW lines, NEW e, Told(lines, e), NEW tool
    PROVE  /\ Told(lines \o WorkBoundaryLines(tool, e), WorkBoundary(tool, e))
           /\ BoundaryOnWork(tool) => PassesThrough(WorkBoundary(tool, e))
<1>1. lines \o << >> = lines
  BY DEF Told
<1>. QED
  BY <1>1, BoundaryTells DEF WorkBoundary, WorkBoundaryLines

(* Whatever leaves a body has been told of when the request hears of it.   *)
LEMMA OutTells ==
    ASSUME NEW e, NEW lines, Told(lines, e),
           NEW out, out = Dispatched(Boundary(e)),
           NEW all, all = (lines \o BoundaryLines(e)) \o DispatchLines(Boundary(e))
    PROVE  Told(all, out) /\ PassesThrough(out)
<1>1. Told(lines \o BoundaryLines(e), Boundary(e)) /\ PassesThrough(Boundary(e))
  BY BoundaryTells
<1>. QED
  BY <1>1, DispatchTells

(* A refusal of the library's own, or a bug of a tool's.                   *)
LEMMA LeavesTells ==
    ASSUME CallAccount, call \in Calls, call.at = "body", NEW e \in Exceptions,
           e.class = "FastMCPError" => e.text \notin {"raw", "fault"},
           e.class # "FastMCPError" => e.text = "raw",
           Leaves(e, << >>)
    PROVE  CallAccount'
<1>. DEFINE start == <<Line("tool_call_started", INFO, FALSE)>>
            b == BoundaryLines(e)
            d == DispatchLines(Boundary(e))
            out == Dispatched(Boundary(e))
            all == (<< >> \o b) \o d
<1>1. Told(start, e) /\ call.lines = start
  BY NothingTold DEF CallAccount
<1>2. Told((start \o b) \o d, out) /\ PassesThrough(out)
  BY <1>1, OutTells
<1>3. start \in Seq(CallLines) /\ b \in Seq(CallLines) /\ d \in Seq(CallLines)
  <2>1. Boundary(e) \in Exceptions /\ PassesThrough(Boundary(e))
    BY <1>1, Layers, BoundaryTells
  <2>. QED
    BY <1>1, <2>1, LayersLog DEF Told
<1>4. Raises("request", out, all)
  BY DEF Leaves
<1>5. start \o all = (start \o b) \o d
  <2>. HIDE DEF start, b, d
  <2>1. << >> \o b = b
    BY <1>3
  <2>. QED
    BY <1>3, <2>1, LinesConcat
<1>. HIDE DEF start, b, d, out, all
<1>6. call' = [call EXCEPT !.at = "request", !.exc = out, !.cause = call.cause, !.lines = @ \o all]
  BY <1>4, RaisesIs
<1>7. call'.at = "request" /\ call'.exc = out /\ call'.lines = call.lines \o all
  BY <1>6 DEF Calls
<1>. QED
  BY <1>1, <1>2, <1>5, <1>7 DEF CallAccount

(* The call's own steps keep its account, the answer completes it.         *)
LEMMA CallAccountStep ==
    ASSUME CInv, CallAccount, [CNext]_cvars
    PROVE  CallAccount'
<1>0. call.at # "ended" => call \in Calls
  BY DEF CInv, Typed, Ended
<1>1. ASSUME NEW caller \in Callers, NEW tool \in Tools, Receive(caller, tool) PROVE CallAccount'
  BY <1>1 DEF Receive, CallAccount
<1>2. CASE Authorize
  <2>1. call \in Calls /\ call.lines = <<Line("tool_call_started", INFO, FALSE)>> /\ call.at = "authorize"
    BY <1>0, <1>2 DEF Authorize, CallAccount
  <2>2. CASE call' = [call EXCEPT !.at = "body"]
    BY <2>1, <2>2 DEF CallAccount, Calls
  <2>3. CASE Raises("request", ToolError("denied", "denied", ERROR), << >>)
    <3>. DEFINE e == ToolError("denied", "denied", ERROR)
    <3>1. e \in Exceptions /\ e.class = "FastMCPError" /\ e.text = "denied"
      BY RefusalUntold DEF Levels
    <3>2. Told(call.lines, e)
      BY <2>1, <3>1, NothingTold
    <3>. HIDE DEF e
    <3>3. call' = [call EXCEPT !.at = "request", !.exc = e, !.cause = call.cause, !.lines = @ \o << >>]
      BY <2>1, <2>3, RaisesIs DEF e
    <3>4. call'.at = "request" /\ call'.exc = e /\ call'.lines = call.lines \o << >>
      BY <2>1, <3>3 DEF Calls
    <3>5. call.lines \o << >> = call.lines
      BY <3>2 DEF Told
    <3>. QED
      BY <3>1, <3>2, <3>4, <3>5 DEF CallAccount, PassesThrough
  <2>. QED
    BY <1>2, <2>2, <2>3 DEF Authorize
<1>3. ASSUME NEW told \in {"result", "handle", "record"}, NEW j, call.at = "body", Returns(told, j)
      PROVE  CallAccount'
  <2>1. call \in Calls /\ call.lines = <<Line("tool_call_started", INFO, FALSE)>>
    BY <1>0, <1>3 DEF CallAccount
  <2>2. call'.at = "returned" /\ call'.told = told /\ call'.lines = call.lines
    BY <1>3, <2>1 DEF Returns, Calls
  <2>. QED
    BY <2>1, <2>2 DEF CallAccount
<1>4. CASE EndsInline
  <2>0. call.at = "body" /\ call \in Calls /\ call.lines = <<Line("tool_call_started", INFO, FALSE)>>
    BY <1>0, <1>4 DEF EndsInline, CallAccount
  <2>1. CASE Returns("result", NoJob)
    BY <1>3, <2>0, <2>1
  <2>2. ASSUME NEW cause \in Causes,
               LET exc == Raised(cause) IN
               call' = [call EXCEPT !.at = "request", !.cause = cause,
                   !.exc = Dispatched(Boundary(WorkBoundary(call.tool, exc))),
                   !.lines = @ \o WorkBoundaryLines(call.tool, exc)
                               \o BoundaryLines(WorkBoundary(call.tool, exc))
                               \o DispatchLines(Boundary(WorkBoundary(call.tool, exc)))]
        PROVE  CallAccount'
    <3>. DEFINE start == <<Line("tool_call_started", INFO, FALSE)>>
                w == WorkBoundaryLines(call.tool, Raised(cause))
                e == WorkBoundary(call.tool, Raised(cause))
                all == ((start \o w) \o BoundaryLines(e)) \o DispatchLines(Boundary(e))
                out == Dispatched(Boundary(e))
    <3>1. Told(start, Raised(cause))
      BY RaisedUntold, NothingTold
    <3>2. Told(start \o w, e)
      BY <3>1, WorkTells
    <3>3. Told(all, out) /\ PassesThrough(out)
      BY <3>2, OutTells
    <3>4. call'.at = "request" /\ call'.exc = out /\ call'.lines = all
      BY <2>0, <2>2 DEF Calls
    <3>. HIDE DEF all, out
    <3>. QED
      BY <3>3, <3>4 DEF CallAccount
  <2>3. CASE Leaves(ToolError("ttl", "ttl", INFO), << >>)
    BY <2>0, <2>3, LeavesTells, RefusalUntold DEF Levels
  <2>. QED
    BY <1>4, <2>1, <2>2, <2>3 DEF EndsInline
<1>5. CASE BecomesJob
  BY <1>3, <1>5 DEF BecomesJob
<1>6. CASE AtLimit
  <2>0. call.at = "body" /\ call \in Calls
    BY <1>0, <1>6 DEF AtLimit
  <2>1. CASE Leaves(ToolError("limit", "limit", INFO), << >>)
    BY <2>0, <2>1, LeavesTells, RefusalUntold DEF Levels
  <2>2. CASE Leaves(Raised("bug"), << >>)
    <3>1. "bug" \in Causes
      BY DEF Causes
    <3>. QED
      BY <2>0, <2>2, <3>1, LeavesTells, RaisedUntold
  <2>. QED
    BY <1>6, <2>1, <2>2 DEF AtLimit
<1>7. ASSUME NEW j \in Jobs, Poll(j) PROVE CallAccount'
  <2>0. call.at = "body" /\ call \in Calls
    BY <1>0, <1>7 DEF Poll
  <2>1. CASE Returns("record", j)
    BY <1>3, <2>0, <2>1
  <2>2. CASE Leaves(ToolError("unknown", "unknown", INFO), << >>)
    BY <2>0, <2>2, LeavesTells, RefusalUntold DEF Levels
  <2>. QED
    BY <1>7, <2>1, <2>2 DEF Poll
<1>8. CASE Answer
  <2>1. CASE call.at = "returned"
    <3>. DEFINE start == Line("tool_call_started", INFO, FALSE)
                end   == Line("tool_call_completed", INFO, FALSE)
    <3>1. call'.at = "answered" /\ call'.told = call.told /\ call'.lines = Append(call.lines, end)
      BY <1>0, <1>8, <2>1 DEF Answer, Calls
    <3>2. call.lines = <<start>> /\ call.told \in {"result", "handle", "record"}
      BY <2>1 DEF CallAccount
    <3>3. /\ DOMAIN <<start, end>> = {1, 2} /\ <<start, end>>[1] = start /\ <<start, end>>[2] = end
          /\ Append(<<start>>, end) = <<start, end>>
      BY TwoLines
    <3>4. start.event = "tool_call_started" /\ end.event = "tool_call_completed"
      BY DEF Line
    <3>5. ~start.traceback /\ ~end.traceback
      BY DEF Line
    <3>. HIDE DEF start, end
    <3>6. Failures(<<start, end>>) = {}
      BY <3>3, <3>4 DEF Failures
    <3>7. Tracebacks(<<start, end>>) = {}
      BY <3>3, <3>5 DEF Tracebacks
    <3>8. Levelled(<<start, end>>) \subseteq {INFO}
      BY <3>6 DEF Levelled
    <3>. QED
      BY <3>1, <3>2, <3>3, <3>7, <3>8 DEF CallAccount
  <2>2. CASE call.at = "request"
    <3>. DEFINE e == call.exc
                l == FailedLine(e, IncludeTraceback)
                lines == call.lines
    <3>1. Told(lines, e) /\ PassesThrough(e)
      BY <2>2 DEF CallAccount
    <3>2. call'.at = "answered" /\ call'.told = e.text /\ call'.lines = Append(lines, l) /\ call'.exc = e
      BY <1>0, <1>8, <2>2 DEF Answer, Calls
    <3>3. LevelOf(e) \in Levels /\ l = Line("tool_call_failed", LevelOf(e), IncludeTraceback)
      BY <3>1 DEF Told, LevelOf, FailedLine, Exceptions, Levels
    <3>4. l \in CallLines /\ l.level = LevelOf(e) /\ (l.traceback <=> IncludeTraceback)
      BY <3>3 DEF Line, CallLines
    <3>. HIDE DEF e, l, lines
    <3>5. lines \in Seq(CallLines) /\ Append(lines, l) = lines \o <<l>>
      BY <3>1, <3>4 DEF Told
    <3>6. \A i \in Failures(lines) : lines[i].level = LevelOf(e)
      BY <3>1 DEF Told, LevelOf
    <3>7. /\ Failures(lines \o <<l>>) \subseteq Failures(lines) \cup {Len(lines) + 1}
          /\ \A i \in Failures(lines) : (lines \o <<l>>)[i] = lines[i]
          /\ (lines \o <<l>>)[Len(lines) + 1] = l
      BY <3>4, <3>5, OneMoreLine DEF Failures
    <3>8. Levelled(lines \o <<l>>) \subseteq {LevelOf(e)}
      BY <3>4, <3>6, <3>7 DEF Levelled
    <3>9. ~IncludeTraceback => Tracebacks(lines \o <<l>>) = Tracebacks(lines)
      BY <3>4, <3>5, OneMoreLine
    <3>10. /\ IF e.text = "fault" THEN \E i : Tracebacks(lines) = {i} ELSE Tracebacks(lines) = {}
           /\ e.text = "raw" => e.cause = "capability"
      BY <3>1 DEF Told, PassesThrough
    <3>. QED
      BY <3>2, <3>5, <3>8, <3>9, <3>10 DEF CallAccount
  <2>. QED
    BY <1>8, <2>1, <2>2 DEF Answer
<1>9. CASE Forget
  BY <1>9 DEF Forget, CallAccount, Ended
<1>10. CASE UNCHANGED call
  BY <1>10 DEF CallAccount
<1>. QED
  BY <1>1, <1>2, <1>4, <1>5, <1>6, <1>7, <1>8, <1>9, <1>10
  DEF CNext, Load, WorkCompletes, WorkFails, Expire, cvars

(* Only WorkFails makes a job a failed one.                                *)
LEMMA JobAccountStep ==
    ASSUME CInv, JobAccount, [CNext]_cvars
    PROVE  JobAccount'
<1>1. CASE UNCHANGED job
  BY <1>1 DEF JobAccount
<1>2. ASSUME NEW j \in Jobs, Adopt(j) PROVE JobAccount'
  <2>1. job'[j].status = "working" /\ \A i \in Jobs \ {j} : job'[i] = job[i]
    BY <1>2 DEF Adopt, CInv, Typed
  <2>. QED
    BY <2>1 DEF JobAccount
<1>3. ASSUME NEW j \in Jobs, WorkCompletes(j) PROVE JobAccount'
  <2>1. job[j] \in JobRows
    BY <1>3 DEF WorkCompletes, CInv, Typed, FreeJob
  <2>2. job'[j].status = "completed" /\ \A i \in Jobs \ {j} : job'[i] = job[i]
    BY <1>3, <2>1 DEF WorkCompletes, CInv, Typed, JobRows
  <2>. QED
    BY <2>2 DEF JobAccount
<1>4. ASSUME NEW j \in Jobs, NEW cause \in Causes, WorkFails(j, cause) PROVE JobAccount'
  <2>. DEFINE raised == Raised(cause)
              exc == WorkBoundary(job[j].tool, raised)
              error == JobError(exc)
              lines == WorkBoundaryLines(job[j].tool, raised) \o <<JobFailedLine(exc)>>
  <2>1. job[j] \in JobRows
    BY <1>4 DEF WorkFails, CInv, Typed, FreeJob
  <2>2. job' = [job EXCEPT ![j] = [job[j] EXCEPT !.status = "failed", !.cause = cause, !.error = error,
                                                 !.lines = lines]]
    BY <1>4 DEF WorkFails
  <2>. HIDE DEF error, lines
  <2>3. /\ job'[j].cause = cause /\ job'[j].error = error /\ job'[j].lines = lines
        /\ job'[j].tool = job[j].tool /\ \A i \in Jobs \ {j} : job'[i] = job[i]
    BY <2>1, <2>2 DEF CInv, Typed, JobRows
  <2>4. job'[j].error = JobError(WorkBoundary(job'[j].tool, Raised(job'[j].cause)))
    BY <2>3 DEF error
  <2>5. job'[j].lines = WorkBoundaryLines(job'[j].tool, Raised(job'[j].cause))
                        \o <<JobFailedLine(WorkBoundary(job'[j].tool, Raised(job'[j].cause)))>>
    BY <2>3 DEF lines
  <2>. QED
    BY <2>3, <2>4, <2>5 DEF JobAccount
<1>5. ASSUME NEW j \in Jobs, Expire(j) PROVE JobAccount'
  <2>1. job'[j] = FreeJob /\ \A i \in Jobs \ {j} : job'[i] = job[i]
    BY <1>5 DEF Expire, CInv, Typed
  <2>2. job'[j].status = "free"
    BY <2>1 DEF FreeJob
  <2>. QED
    BY <2>1, <2>2 DEF JobAccount
<1>. QED
  BY <1>1, <1>2, <1>3, <1>4, <1>5
  DEF CNext, Load, Receive, Authorize, EndsInline, BecomesJob, AtLimit, Answer, Forget, Poll, cvars

(* A job that failed tells of it like a call, once and at one level.       *)
LEMMA JobTells ==
    ASSUME NEW tool \in {"long", "starts"}, NEW cause \in Causes,
           NEW lines, lines = WorkBoundaryLines(tool, Raised(cause))
                              \o <<JobFailedLine(WorkBoundary(tool, Raised(cause)))>>,
           NEW error, error = JobError(WorkBoundary(tool, Raised(cause)))
    PROVE  /\ Levelled(lines) = {LevelOf(WorkBoundary(tool, Raised(cause)))}
           /\ IF error = "fault" THEN \E i : Tracebacks(lines) = {i} ELSE Tracebacks(lines) = {}
           /\ error # "raw"
<1>. DEFINE w == WorkBoundaryLines(tool, Raised(cause))
            e == WorkBoundary(tool, Raised(cause))
            l == JobFailedLine(e)
<1>1. Told(w, e)
  <2>1. Told(<< >>, Raised(cause))
    BY RaisedUntold, NothingTold
  <2>2. w \in Seq(CallLines)
    BY RaisedUntold, LayersLog
  <2>3. << >> \o w = w
    BY <2>2
  <2>4. Told(<< >> \o w, e)
    BY <2>1, WorkTells
  <2>. QED
    BY <2>3, <2>4
<1>2. LevelOf(e) \in Levels
  BY <1>1 DEF Told, LevelOf, Exceptions, Levels
<1>3. /\ l \in CallLines /\ l.event = "job_failed" /\ l.level = LevelOf(e)
      /\ (l.traceback <=> e.class # "FastMCPError")
  BY <1>2 DEF JobFailedLine, Line, CallLines
<1>4. lines = w \o <<l>> /\ error = JobError(e)
  OBVIOUS
<1>. HIDE DEF w, e, l
<1>5. w \in Seq(CallLines)
  BY <1>1 DEF Told
<1>6. /\ Failures(lines) = Failures(w) \cup {Len(w) + 1} /\ lines[Len(w) + 1] = l
      /\ \A i \in Failures(w) : lines[i] = w[i]
  BY <1>3, <1>4, <1>5, OneMoreLine DEF Failures
<1>7. \A i \in Failures(w) : w[i].level = LevelOf(e)
  BY <1>1 DEF Told, LevelOf
<1>8. Levelled(lines) = {LevelOf(e)}
  <2>1. ASSUME NEW i \in Failures(lines) PROVE lines[i].level = LevelOf(e)
    BY <1>3, <1>6, <1>7, <2>1
  <2>2. Len(w) + 1 \in Failures(lines)
    BY <1>6
  <2>. QED
    BY <2>1, <2>2 DEF Levelled
<1>9. CASE e.class = "FastMCPError"
  <2>0. ~l.traceback
    BY <1>3, <1>9
  <2>1. Tracebacks(lines) = Tracebacks(w)
    <3>1. Tracebacks(w \o <<l>>) = Tracebacks(w)
      BY <1>3, <1>5, <2>0, OneMoreLine
    <3>. QED
      BY <1>4, <3>1
  <2>. QED
    BY <1>1, <1>4, <1>8, <1>9, <2>1 DEF Told, JobError, e
<1>10. CASE e.class # "FastMCPError"
  <2>0. l.traceback
    BY <1>3, <1>10
  <2>1. Tracebacks(lines) = Tracebacks(w) \cup {Len(w) + 1}
    <3>1. Tracebacks(w \o <<l>>) = Tracebacks(w) \cup {Len(w) + 1}
      BY <1>3, <1>5, <2>0, OneMoreLine
    <3>. QED
      BY <1>4, <3>1
  <2>2. Tracebacks(w) = {} /\ error = "fault"
    BY <1>1, <1>4, <1>10 DEF Told, JobError
  <2>3. Tracebacks(lines) = {Len(w) + 1}
    BY <2>1, <2>2
  <2>. QED
    BY <1>8, <2>2, <2>3 DEF e
<1>. QED
  BY <1>9, <1>10

(* What a poller of a promoted job reads is what its caller would have     *)
(* been told: the second boundary finds nothing more to classify.          *)
LEMMA SameWords ==
    ASSUME NEW cause \in Causes \ {"capability"}
    PROVE  /\ JobError(WorkBoundary("long", Raised(cause))) = ToldInline("long", cause).text
           /\ LevelOf(WorkBoundary("long", Raised(cause))) = LevelOf(ToldInline("long", cause))
<1>. DEFINE e == Boundary(Raised(cause))
<1>1. WorkBoundary("long", Raised(cause)) = e
  BY DEF WorkBoundary, BoundaryOnWork
<1>2. e.class = "FastMCPError"
  BY DEF Boundary, PassesThrough, Fault, ToolError, Raised
<1>3. Boundary(e) = e /\ Dispatched(e) = e
  BY <1>2 DEF Boundary, PassesThrough, Dispatched
<1>. QED
  BY <1>1, <1>2, <1>3 DEF ToldInline, JobError

(* One failure has one account: its lines agree on the level, a traceback  *)
(* is logged once and exactly when a fault is told, nobody reads an        *)
(* exception's own text, and a job fails in the words its call would have  *)
(* failed with (tool_boundary, _record_outcome, on_message).               *)
THEOREM OneAccount == CSpec => []OneAccountOfAFailure
<1>1. CInit => CallAccount /\ JobAccount
  BY DEF CInit, CallAccount, JobAccount, Ended, FreeJob
<1>2. CInv /\ CallAccount /\ JobAccount /\ [CNext]_cvars => (CallAccount /\ JobAccount)'
  BY CallAccountStep, JobAccountStep
<1>3. CInv /\ CallAccount /\ JobAccount => OneAccountOfAFailure
  <2>. SUFFICES ASSUME CInv, CallAccount, JobAccount PROVE OneAccountOfAFailure
    OBVIOUS
  <2>0. /\ Cardinality({}) = 0 /\ \A x : Cardinality({x}) = 1
    BY FS_EmptySet, FS_Singleton
  <2>1. ASSUME Answered, ~IncludeTraceback
        PROVE  /\ Cardinality(Levelled(call.lines)) <= 1
               /\ Cardinality(Tracebacks(call.lines)) = (IF call.told = "fault" THEN 1 ELSE 0)
               /\ call.told = "raw" => call.exc.cause = "capability"
    <3>1. PICK level : Levelled(call.lines) \subseteq {level}
      BY <2>1 DEF Answered, CallAccount
    <3>2. Levelled(call.lines) = {} \/ Levelled(call.lines) = {level}
      BY <3>1
    <3>3. Cardinality(Levelled(call.lines)) <= 1
      <4>1. CASE Levelled(call.lines) = {}
        BY <2>0, <4>1
      <4>2. CASE Levelled(call.lines) = {level}
        <5>1. Cardinality({level}) = 1
          BY <2>0
        <5>. QED
          BY <4>2, <5>1
      <4>. QED
        BY <3>2, <4>1, <4>2
    <3>4. Cardinality(Tracebacks(call.lines)) = (IF call.told = "fault" THEN 1 ELSE 0)
      BY <2>0, <2>1 DEF Answered, CallAccount
    <3>. QED
      BY <2>1, <3>3, <3>4 DEF Answered, CallAccount
  <2>2. ASSUME NEW j \in Jobs, job[j].status = "failed"
        PROVE  /\ Cardinality(Levelled(job[j].lines)) = 1
               /\ Cardinality(Tracebacks(job[j].lines)) = (IF job[j].error = "fault" THEN 1 ELSE 0)
               /\ job[j].error # "raw"
               /\ job[j].tool = "long" /\ job[j].cause # "capability" => SameAsInline(j)
    <3>1. /\ job[j].cause \in Causes /\ job[j].tool \in {"long", "starts"}
          /\ job[j].error = JobError(WorkBoundary(job[j].tool, Raised(job[j].cause)))
          /\ job[j].lines = WorkBoundaryLines(job[j].tool, Raised(job[j].cause))
                            \o <<JobFailedLine(WorkBoundary(job[j].tool, Raised(job[j].cause)))>>
      BY <2>2 DEF JobAccount, CInv, Typed, FreeJob, JobRows
    <3>2. /\ Levelled(job[j].lines) = {LevelOf(WorkBoundary(job[j].tool, Raised(job[j].cause)))}
          /\ IF job[j].error = "fault" THEN \E i : Tracebacks(job[j].lines) = {i}
             ELSE Tracebacks(job[j].lines) = {}
          /\ job[j].error # "raw"
      BY <3>1, JobTells
    <3>3. job[j].tool = "long" /\ job[j].cause # "capability" => SameAsInline(j)
      BY <3>1, <3>2, SameWords DEF SameAsInline
    <3>. QED
      BY <2>0, <3>2, <3>3
  <2>. QED
    BY <2>1, <2>2 DEF OneAccountOfAFailure
<1>. QED
  BY <1>1, <1>2, <1>3, CallsSafe, PTL DEF CSpec
=============================================================================
