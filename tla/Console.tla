------------------------------- MODULE Console -------------------------------
(***************************************************************************)
(* _logging.py: the process's logging as configure_logging_from_env leaves *)
(* it.  A handler is known by who installed it, by the stream it writes to *)
(* and by the records it lets through, others' by a number as well; in     *)
(* which order a logger has its handlers is left out.  Rich looks its      *)
(* stream up at each record ("live"), the JSON handler keeps the one it    *)
(* was built with.  How a record is rendered is left out.                  *)
(***************************************************************************)
EXTENDS Environment, Sequences, FiniteSets

NOTSET   == 0
DEBUG    == 10
INFO     == 20
WARNING  == 30
ERROR    == 40
CRITICAL == 50
Levels   == {DEBUG, INFO, WARNING, ERROR, CRITICAL}
LevelNames == {"DEBUG", "INFO", "WARNING", "ERROR", "CRITICAL"}
LevelOf(name) == CASE name = "DEBUG" -> DEBUG [] name = "INFO" -> INFO [] name = "WARNING" -> WARNING
                   [] name = "ERROR" -> ERROR [] name = "CRITICAL" -> CRITICAL

(* "original" is sys.__stderr__, "captured" what a harness puts in its     *)
(* place; "gone" is a sys.stderr that is None, "closed" one that raises.   *)
Stderrs  == {"original", "captured", "gone", "closed"}
Nowhere  == {"gone", "closed"}
Streams  == {"stdout", "live", "elsewhere"} \cup Stderrs
Lets     == {"all", "plain", "tracebacks"}
Handlers == [owned : BOOLEAN, to : Streams, lets : Lets, nr : Nat]
Owned(stream, lets) == [owned |-> TRUE, to |-> stream, lets |-> lets, nr |-> 0]
Foreign(stream, n)  == [owned |-> FALSE, to |-> stream, lets |-> "all", nr |-> n]

(* A process before anybody configures logging: FastMCP has, on import.    *)
Pristine == [root |-> {}, level |-> WARNING, stderr |-> "original", fastmcp |-> {Foreign("live", 0)},
             fastmcp_level |-> INFO, propagates |-> FALSE, log_enabled |-> TRUE,
             access |-> << >>, noisy |-> NOTSET, flood |-> NOTSET]

------------------------------------------------------------------------------
StreamOf(console, h) == IF h.to = "live" THEN console.stderr ELSE h.to

(* _is_console_handler: stdout, stderr and the streams the process began   *)
(* with.                                                                   *)
IsConsole(console, h) ==
    StreamOf(console, h) \in {"stdout", "original", console.stderr} \ {"gone"}

(* Mutant of Survives: the mark is not looked at.                          *)
SurvivesUnmarked(console, h) == ~IsConsole(console, h)

(* What _install_root_handlers leaves in place.                            *)
Survives(console, h) == ~h.owned /\ ~IsConsole(console, h)

(* The handlers it adds.                                                   *)
Chain(console, format) ==
    IF format = "json" THEN {Owned(console.stderr, "all")}
    ELSE {Owned("live", "plain"), Owned("live", "tracebacks")}

InstallRootHandlers(console, level, format) ==
    [console EXCEPT !.root = {h \in @ : Survives(console, h)} \cup Chain(console, format),
                    !.level = level]

(* _neutralise_fastmcp.                                                    *)
Neutralise(console) ==
    [console EXCEPT !.log_enabled = FALSE, !.fastmcp = {}, !.propagates = TRUE, !.fastmcp_level = NOTSET]

(* FastMCP's own configure_logging, which it runs unless it is disabled.   *)
FastmcpConfigures(console) ==
    IF console.log_enabled
    THEN [console EXCEPT !.fastmcp = {Foreign("live", 0)}, !.propagates = FALSE, !.fastmcp_level = INFO]
    ELSE console

(* _apply_access_policy: one filter, which always redacts.                 *)
ApplyAccessPolicy(console, level) == [console EXCEPT !.access = <<[drops |-> level # DEBUG]>>]

(* _AccessLogFilter.filter: which requests are worth a line.  uvicorn tells *)
(* of all of them at INFO, on a logger without a level of its own.         *)
ShowsAccess(console, status) ==
    /\ console.level <= INFO
    /\ \A i \in DOMAIN console.access : console.access[i].drops => status >= 400

(* Two of the loggers that are noisy at INFO, and the one that floods.     *)
QuietThirdParties(console, level) ==
    [console EXCEPT !.noisy = IF level = DEBUG THEN NOTSET ELSE IF level > WARNING THEN level ELSE WARNING,
                    !.flood = IF level = DEBUG THEN INFO ELSE NOTSET]

(* _resolve_level: a blank variable is not set; an unknown name is INFO.   *)
LevelName(e) == IF Env(e.log_level, None) # None THEN e.log_level
                ELSE Env(e.fastmcp_log_level, "INFO")
ResolveLevel(e) == IF e.verbose THEN DEBUG
                   ELSE IF LevelName(e) \in LevelNames THEN LevelOf(LevelName(e)) ELSE INFO

(* The fallback to FASTMCP_LOG_LEVEL is told, at whatever level is heard.  *)
Bridged(e) == ~e.verbose /\ Env(e.log_level, None) = None /\ Env(e.fastmcp_log_level, None) # None

(* _resolve_format: a stderr that is gone or closed is no terminal.        *)
ResolveFormat(console, e) ==
    CASE e.log_format \in {"rich", "json"}    -> e.log_format
      [] e.log_format \notin {"rich", "json"} -> IF e.tty /\ console.stderr \notin Nowhere THEN "rich" ELSE "json"

(* configure_logging_from_env.                                             *)
Configured(console, e) ==
    LET level     == ResolveLevel(e)
        installed == InstallRootHandlers(Neutralise(console), level, ResolveFormat(console, e))
    IN  ApplyAccessPolicy(QuietThirdParties(installed, level), level)

------------------------------------------------------------------------------
(* What becomes of a record. *)

Lines(console, handlers, traceback) ==
    {h \in handlers : /\ IsConsole(console, h) /\ StreamOf(console, h) \notin Nowhere
                      /\ h.lets \in {"all", IF traceback THEN "tracebacks" ELSE "plain"}}

(* The level from which FastMCP's records go on to the root logger.        *)
FastmcpLevel(console) == IF console.fastmcp_level = NOTSET THEN console.level ELSE console.fastmcp_level

(* How often a record of the application's, or of FastMCP's, is rendered   *)
(* on the console.                                                         *)
Rendered(console, traceback) == Cardinality(Lines(console, console.root, traceback))
RenderedFastmcp(console, traceback) ==
    Cardinality(Lines(console, console.fastmcp, traceback))
    + IF console.propagates THEN Rendered(console, traceback) ELSE 0
==============================================================================
