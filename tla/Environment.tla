----------------------------- MODULE Environment -----------------------------
(***************************************************************************)
(* From environment variables to configurations: _env.py and the from_env  *)
(* of ServerConfig, JobsConfig and TransferConfig.  An environment is a    *)
(* record with a field for each variable.  A text is "unset", "empty",     *)
(* "blank" or what it says; a number comes with the reason it may not be   *)
(* read as one.  Whole seconds only: fractions are left out.               *)
(***************************************************************************)
EXTENDS Integers

CONSTANTS Tools,      \* tool names
          Scopes      \* OAuth scopes, "openid" and "offline_access" among them

ASSUME EnvironmentAssumption == {"openid", "offline_access"} \subseteq Scopes

(* A field that an unset variable without a default leaves None.           *)
None == "unset"
Truthy(text) == text \notin {"unset", "empty"}

Number(n)  == [is |-> "number", n |-> n]
Junk       == [is |-> "junk", n |-> 0]
Infinite   == [is |-> "infinite", n |-> 0]
NotSet     == [is |-> "unset", n |-> 0]
NoNumber   == -1                       \* no field takes a negative value
Unbounded  == 1000000                  \* maximum=None
MaxPort    == 65535

------------------------------------------------------------------------------
(* _env.py. *)

(* env: stripped, and nothing left is not set.                             *)
Env(text, default) == IF text \in {"unset", "empty", "blank"} THEN default ELSE text

(* _reject: strict raises, otherwise the default stands in with a warning. *)
Reject(default, strict) == IF strict THEN NoNumber ELSE default

CheckBounds(n, default, strict, low, high) ==
    IF n \in low .. high THEN n ELSE Reject(default, strict)

EnvInt(raw, default, strict, low, high) ==
    CASE raw.is = "unset"               -> default
      [] raw.is \in {"junk", "infinite"} -> Reject(default, strict)
      [] raw.is = "number"              -> CheckBounds(raw.n, default, strict, low, high)

(* env_float is called without bounds: "inf" is a float, but not finite.   *)
EnvFloat(raw, default, strict) ==
    CASE raw.is = "unset"               -> default
      [] raw.is \in {"junk", "infinite"} -> Reject(default, strict)
      [] raw.is = "number"              -> raw.n

(* The values of parse_bool.                                               *)
ParseBool(text) == text \in {"1", "true", "yes", "on"}

------------------------------------------------------------------------------
(* The configurations. *)

(* What a from_env makes of a rejected value: ConfigurationError.          *)
Rejected == [ok |-> FALSE]

(* A list variable is there or not, and names tools or only separators.    *)
ToolList(names) == [there |-> TRUE, names |-> names]
NoToolList      == [there |-> FALSE, names |-> {}]

(* Mutant of ToolListsAccepted: each list is looked at by itself.          *)
ToolListsAcceptedEach(e) == \A list \in {e.allow, e.deny} : list.there => list.names # {}

(* _parse_tool_list and _read_tools_visibility.                            *)
ToolListsAccepted(e) ==
    /\ \A list \in {e.allow, e.deny} : list.there => list.names # {}
    /\ ~(e.allow.there /\ e.deny.there)

(* A text of ServerConfig: read from the environment, or given by hand.    *)
Text(e, field, byHand) == IF byHand THEN e[field] ELSE Env(e[field], None)

(* The fields of ServerConfig.  Scope lists are sets, a list without a     *)
(* scope is an empty one.  __post_init__ mends a default subject only.     *)
ServerConfig(e, byHand) ==
    [ok |-> TRUE,
     port |-> EnvInt(e.port, 8000, TRUE, 1, MaxPort),
     shutdown_grace_s |-> EnvInt(e.grace, 3, TRUE, 0, Unbounded),
     transport |-> IF e.transport \in {"http", "sse"} THEN e.transport ELSE "stdio",
     auth_mode |-> Text(e, "auth_mode", byHand),
     base_url |-> Text(e, "base_url", byHand), config_url |-> Text(e, "config_url", byHand),
     client_id |-> Text(e, "client_id", byHand), client_secret |-> Text(e, "client_secret", byHand),
     required |-> e.required, advertised |-> e.advertised,
     verify_access |-> ParseBool(Env(e.verify_access, None)),
     bearer_token |-> Text(e, "bearer_token", byHand), tokens_file |-> Text(e, "tokens_file", byHand),
     default_subject |-> Env(e.default_subject, "bearer-anon"),
     kv_url |-> Text(e, "kv_url", byHand), event_url |-> Text(e, "event_url", byHand),
     tasks_url |-> Text(e, "tasks_url", byHand),
     allow |-> e.allow.names, deny |-> e.deny.names]

(* ServerConfig.from_env: PORT and SHUTDOWN_GRACE_S are strict.            *)
FromEnv(e) ==
    LET c == ServerConfig(e, FALSE)
    IN  IF NoNumber \in {c.port, c.shutdown_grace_s} \/ ~ToolListsAccepted(e) THEN Rejected ELSE c

(* __post_init__ of JobsConfig and TransferConfig: every field a positive  *)
(* number, and no default lifetime past the longest.                       *)
PositiveFields(c) == \A field \in DOMAIN c : c[field] > 0

JobsFromEnv(e) ==
    LET c == [soft_deadline_s |-> EnvFloat(e.soft_deadline, 25, TRUE),
              result_ttl_s    |-> EnvFloat(e.result_ttl, 3600, TRUE),
              max_per_subject |-> EnvInt(e.max_per_subject, 256, TRUE, 1, Unbounded)]
    IN  [ok |-> PositiveFields(c), c |-> c]

TransferFromEnv(e) ==
    LET c == [ttl_default_s |-> EnvFloat(e.ttl_default, 3600, TRUE),
              ttl_max_s     |-> EnvFloat(e.ttl_max, 86400, TRUE),
              grace_ttl_s   |-> EnvFloat(e.grace_ttl, 60, TRUE),
              lease_s       |-> EnvFloat(e.lease, 60, TRUE)]
    IN  [ok |-> PositiveFields(c) /\ c.ttl_default_s <= c.ttl_max_s, c |-> c]
==============================================================================
