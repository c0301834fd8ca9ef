----------------------------- MODULE ToolBoundary -----------------------------
(***************************************************************************)
(* How a failure is told and logged: exceptions as they are raised, what   *)
(* _tool_boundary.py makes of them, what FastMCP's dispatch does with what *)
(* leaves a tool, and the failure lines of the request log and of the job  *)
(* manager.  Texts are kept apart by who wrote them: "raw" is the          *)
(* exception's own, which may carry internals.                             *)
(***************************************************************************)
EXTENDS Naturals, Sequences

INFO    == 20
WARNING == 30
ERROR   == 40
Levels  == {INFO, WARNING, ERROR}

(* Why a tool's work fails: on purpose with a request to change, on purpose *)
(* at the default level, an upstream 429, an upstream timeout, a client    *)
(* that lacks a capability (-32021), another protocol error, a bug.        *)
Causes  == {"refusal", "error", "rate", "timeout", "capability", "protocol", "bug"}
Classes == {"FastMCPError", "MCPError", "other"}
Texts   == {"none", "own", "raw", "fault", "rate", "timeout", "limit", "unknown",
            "ttl", "denied"}

ToolError(cause, text, level) ==
    [class |-> "FastMCPError", cause |-> cause, text |-> text, level |-> level]

(* What the work raises.                                                   *)
Raised(cause) ==
    IF cause \in {"refusal", "error"}
    THEN ToolError(cause, "own", IF cause = "refusal" THEN INFO ELSE ERROR)
    ELSE [class |-> IF cause \in {"capability", "protocol"} THEN "MCPError" ELSE "other",
          cause |-> cause, text |-> "raw", level |-> ERROR]

Line(event, level, traceback) == [event |-> event, level |-> level, traceback |-> traceback]

------------------------------------------------------------------------------
(* tool_boundary. *)

PassesThrough(exc) == exc.class = "FastMCPError" \/ exc.cause = "capability"

(* _fault: rate limits and timeouts heal themselves.                       *)
Fault(exc) ==
    IF exc.cause \in {"rate", "timeout"}
    THEN ToolError(exc.cause, exc.cause, WARNING)
    ELSE ToolError(exc.cause, "fault", ERROR)

(* _raise_classified: the exception that leaves a boundary.                *)
Boundary(exc) == IF PassesThrough(exc) THEN exc ELSE Fault(exc)

BoundaryLines(exc) ==
    IF PassesThrough(exc) THEN << >>
    ELSE <<Line("tool_failed", Fault(exc).level, Fault(exc).level = ERROR)>>

------------------------------------------------------------------------------
(* FastMCP's innermost dispatch, as the library relies on it.              *)

DispatchLines(exc) ==
    IF exc.class = "FastMCPError" THEN <<Line("dispatch", exc.level, FALSE)>>
    ELSE IF exc.cause = "capability" THEN << >>
    ELSE <<Line("dispatch", IF exc.cause \in {"rate", "timeout"} THEN WARNING ELSE ERROR,
                exc.cause \notin {"rate", "timeout"})>>

Dispatched(exc) ==
    IF PassesThrough(exc) THEN exc
    ELSE IF exc.cause \in {"rate", "timeout"} THEN ToolError(exc.cause, exc.cause, WARNING)
    ELSE ToolError(exc.cause, "raw", ERROR)

------------------------------------------------------------------------------
(* The two lines that report the end of the work. *)

LevelOf(exc) == IF exc.class = "FastMCPError" THEN exc.level ELSE ERROR

(* RequestLoggingMiddleware.on_message, when call_next raises.             *)
FailedLine(exc, withTraceback) == Line("tool_call_failed", LevelOf(exc), withTraceback)

(* Jobs._record_outcome: a classified failure takes its level, anything    *)
(* else carries the traceback nobody else has logged.                      *)
JobFailedLine(exc) == Line("job_failed", LevelOf(exc), exc.class # "FastMCPError")

(* What the poller reads as error.                                         *)
JobError(exc) == IF exc.class = "FastMCPError" THEN exc.text ELSE "fault"
=============================================================================
