------------------------------ MODULE Backends ------------------------------
(***************************************************************************)
(* _kv_store.py and _tasks.py: which backend a configuration selects for   *)
(* state and for background tasks.  A URL is a word for its scheme and for *)
(* what is wrong with it.                                                  *)
(***************************************************************************)
EXTENDS Environment

Urls == {"memory", "file", "file_host", "file_bare", "file_unmade", "redis", "dynamodb",
         "dynamodb_bare", "mongodb", "other", "broken"}

(* urlparse, of text that is no URL as well: it has no scheme.             *)
Scheme(url) == CASE url \in {"file", "file_host", "file_bare", "file_unmade"} -> "file"
                 [] url \in {"dynamodb", "dynamodb_bare"}  -> "dynamodb"
                 [] url \in {"memory", "redis", "mongodb"} -> url
                 [] OTHER                                  -> "other"

(* parse_operator_url raises for it.                                       *)
Parseable(url) == url # "broken"

NoBackend == "error"

(* _build_backend; extras are the client libraries that are installed.     *)
(* Most of what is wrong with a URL is a ConfigurationError; a directory   *)
(* that cannot be made ("file_unmade") is the OSError of mkdir.            *)
Backend(url, extras) ==
    IF url \in {"memory", "file"} THEN url
    ELSE IF Parseable(url) /\ url \in {"redis", "dynamodb", "mongodb"} /\ url \in extras THEN url
    ELSE NoBackend

(* _default_url and _unusable_reason.                                      *)
DefaultUrl(dataDir) == IF dataDir = "usable" THEN "file" ELSE "memory"

FromLegacy(c) == c.kv_url = None /\ c.event_url # None

(* build_kv_store: the URL for every namespace of a configuration.         *)
SelectedUrl(c, dataDir) ==
    LET url == IF FromLegacy(c) THEN c.event_url ELSE c.kv_url
    IN  IF Truthy(url) THEN url ELSE DefaultUrl(dataDir)

(* The default was needed and was not usable.                              *)
FellBack(c, dataDir) ==
    ~Truthy(IF FromLegacy(c) THEN c.event_url ELSE c.kv_url) /\ DefaultUrl(dataDir) = "memory"

------------------------------------------------------------------------------
(* Tasks.  native is FASTMCP_DOCKET_URL, which fastmcp_tasks reads itself. *)

DocketSchemes == {"memory", "redis"}
NativeDefault == "memory"
NoTasks       == "no_extension"

(* The first step of configure_task_backend: Docket's schemes only.        *)
TasksUrlAccepted(c) ==
    Truthy(c.tasks_url) => Parseable(c.tasks_url) /\ Scheme(c.tasks_url) \in DocketSchemes

StateUrl(c) == IF Truthy(c.kv_url) THEN c.kv_url ELSE c.event_url

(* Mutant of TasksOverride: a URL for state overrides the native variable. *)
TasksOverrideDerivedFirst(c, native) ==
    IF Truthy(c.tasks_url) THEN c.tasks_url
    ELSE IF Truthy(StateUrl(c)) /\ Scheme(StateUrl(c)) = "redis" THEN StateUrl(c) ELSE None

(* _resolve_url_override: TASKS_URL, else the native variable by itself,   *)
(* else the URL for state if Docket can use it.                            *)
TasksOverride(c, native) ==
    CASE Truthy(c.tasks_url) -> c.tasks_url
      [] ~Truthy(c.tasks_url) /\ native # None -> None
      [] ~Truthy(c.tasks_url) /\ native = None ->
             IF Truthy(StateUrl(c)) /\ Scheme(StateUrl(c)) = "redis" THEN StateUrl(c) ELSE None

(* What the extension then runs on.                                        *)
EffectiveTasksUrl(c, native) ==
    LET override == TasksOverride(c, native)
    IN  IF override # None THEN override ELSE IF native # None THEN native ELSE NativeDefault

(* The state's URL is looked at only to derive the tasks' from it.         *)
StateUrlParsed(c, native) ==
    ~Truthy(c.tasks_url) /\ native = None /\ Truthy(StateUrl(c)) => Parseable(StateUrl(c))
==============================================================================
