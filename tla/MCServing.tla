------------------------------ MODULE MCServing ------------------------------
(* Instances of Serving: plans in six families, each of which varies one   *)
(* part of the environment in full and uses the parts of the library that  *)
(* depend on it.                                                           *)
EXTENDS Serving, TLC

CONSTANTS first, second, read, write

E == [transport |-> "unset", port |-> NotSet, grace |-> NotSet,
      auth_mode |-> "unset", base_url |-> "unset", config_url |-> "unset", client_id |-> "unset",
      client_secret |-> "unset", required |-> {}, advertised |-> {}, verify_access |-> "unset",
      bearer_token |-> "unset", tokens_file |-> "unset", default_subject |-> "unset",
      kv_url |-> "unset", event_url |-> "unset", tasks_url |-> "unset", docket_url |-> "unset",
      allow |-> NoToolList, deny |-> NoToolList,
      instructions |-> "unset", routing |-> "unset", policy |-> "unset", health_detail |-> "unset",
      log_level |-> "unset", fastmcp_log_level |-> "unset", log_format |-> "unset", tty |-> FALSE,
      verbose |-> FALSE, debug_port |-> NotSet,
      soft_deadline |-> NotSet, result_ttl |-> NotSet, max_per_subject |-> NotSet,
      ttl_default |-> NotSet, ttl_max |-> NotSet, grace_ttl |-> NotSet, lease |-> NotSet]

D(e) == [env |-> e, by_hand |-> FALSE, discovery |-> [is |-> "complete", scopes |-> {}],
         extras |-> {"redis", "dynamodb"}, data_dir |-> "usable", tasks_installed |-> TRUE, checks |-> {}, sync |-> {}]
Plan(deploy, uses) == [deploy |-> deploy, uses |-> uses, isolated |-> TRUE,
                       foreign |-> 0, domain |-> 0, probes |-> 0]

(* Authentication: every way the variables are set, and a second server    *)
(* without any, or with a token, in the same context or another.           *)
Auth == {[E EXCEPT !.auth_mode = m, !.base_url = u[1], !.config_url = u[2],
                   !.client_id = i[1], !.client_secret = i[2],
                   !.bearer_token = t, !.tokens_file = f, !.required = r, !.advertised = v] :
            m \in {"unset", "remote", "oidc-proxy", "junk"},
            u \in {<<"unset", "unset">>, <<"set", "set">>, <<"set", "blank">>},
            i \in {<<"set", "set">>, <<"set", "unset">>},
            t \in {"unset", "secret", "blank"}, f \in {"unset", "good", "blank_key"},
            r \in {{}, {"groups"}}, v \in {{}, {"groups"}}}
Discoveries == {[is |-> "complete", scopes |-> {}], [is |-> "complete", scopes |-> {"openid"}],
                [is |-> "unreachable", scopes |-> {}]}
AuthPlans ==
    {Plan(first :> [D(e) EXCEPT !.discovery = d], {}) : e \in Auth, d \in Discoveries}
    \cup {Plan(first :> [D(e) EXCEPT !.by_hand = TRUE], {}) :
             e \in {x \in Auth : x.required = {} /\ x.advertised = {}}}
    \cup {[Plan(first :> D([E EXCEPT !.bearer_token = t]) @@ second :> D([E EXCEPT !.bearer_token = u]), {})
              EXCEPT !.isolated = i] :
             t \in {"unset", "secret"}, u \in {"unset", "secret", "blank"}, i \in BOOLEAN}

(* Numbers: in range, at its ends, out of it, and no numbers.              *)
NumberPlans ==
    {Plan(first :> D(e), {}) : e \in
        {[E EXCEPT !.port = Number(n)] : n \in {0, 1, 65535, 65536}}
        \cup {[E EXCEPT !.grace = x] : x \in {Number(0), Number(-2), Junk}}
        \cup {[E EXCEPT !.soft_deadline = x] : x \in {Number(0), Number(5), Infinite}}
        \cup {[E EXCEPT !.max_per_subject = x] : x \in {Number(0), Number(1), Junk}}
        \cup {[E EXCEPT !.ttl_default = Number(x), !.ttl_max = Number(y)] : x, y \in {0, 50, 60}}
        \cup {[E EXCEPT !.debug_port = x] : x \in {Number(0), Number(5678), Number(-1), Junk}}}

(* State and tasks.                                                        *)
Stores == {[E EXCEPT !.kv_url = k, !.event_url = v, !.tasks_url = t, !.docket_url = n,
                     !.base_url = IF t = "broken" THEN "unset" ELSE "set"] :
              k \in {"unset", "blank", "memory", "file_host", "file_unmade", "redis", "mongodb", "broken"},
              v \in {"unset", "redis"}, t \in {"unset", "blank", "redis", "file", "broken"},
              n \in {"unset", "redis", "broken"}}
StorePlans ==
    {Plan(first :> [D(e) EXCEPT !.data_dir = d, !.tasks_installed = i], {"stores"}) :
        e \in Stores, d \in {"usable", "no_parent"}, i \in BOOLEAN}
    \cup {Plan(first :> [D(e) EXCEPT !.data_dir = "not_writable"] @@
                  second :> D([E EXCEPT !.event_url = "memory"]), {"stores"}) :
             e \in {E, [E EXCEPT !.event_url = "redis"]}}

(* Logging: two calls, with whatever others do to the console in between.  *)
Log == {[E EXCEPT !.log_level = l, !.log_format = f, !.tty = TRUE] :
           l \in {"DEBUG", "ERROR"}, f \in {"unset", "json"}}
LogPlans ==
    {[Plan(first :> D(e) @@ second :> D(f), {"middleware"}) EXCEPT !.foreign = 2] : e \in Log, f \in Log}
    \cup {Plan(first :> D(e), {"middleware"}) : e \in
            {[E EXCEPT !.log_level = l, !.fastmcp_log_level = m, !.verbose = v, !.log_format = f] :
                l \in {"blank", "junk", "INFO"}, m \in {"unset", "DEBUG", "WARNING", "CRITICAL"}, v \in BOOLEAN,
                f \in {"junk", "rich"}}}

(* Tools and instructions.                                                 *)
Surfaces == {E, [E EXCEPT !.allow = ToolList({read})], [E EXCEPT !.deny = ToolList({read}), !.routing = "text"],
             [E EXCEPT !.policy = "text", !.routing = "blank"], [E EXCEPT !.instructions = "text"],
             [E EXCEPT !.allow = ToolList({})],
             [E EXCEPT !.allow = ToolList({read}), !.deny = ToolList({write})]}
SurfacePlans ==
    {[Plan(first :> [D(e) EXCEPT !.by_hand = h], {"tools"}) EXCEPT !.domain = 3] : e \in Surfaces, h \in BOOLEAN}

(* Readiness: the check of the index is synchronous in some.               *)
ProbePlans ==
    {[Plan(first :> [D([E EXCEPT !.health_detail = d]) EXCEPT !.checks = c, !.sync = c \cap b], {"stores"})
         EXCEPT !.probes = 2] :
        d \in {"unset", "status", "full"}, c \in {{}, {"index"}, {"index", "upstream"}, {Kv}},
        b \in {{}, {"index"}}}

MCPlans == AuthPlans \cup NumberPlans \cup StorePlans \cup LogPlans \cup SurfacePlans \cup ProbePlans

MCSnippets ==
    {[role |-> "identity", requires |-> {}, blank |-> FALSE],
     [role |-> "workflows", requires |-> {read, write}, blank |-> FALSE],
     [role |-> "capabilities", requires |-> {read}, blank |-> FALSE],
     [role |-> "documentation", requires |-> {}, blank |-> FALSE],
     [role |-> "policy", requires |-> {}, blank |-> FALSE],
     [role |-> "instance", requires |-> {}, blank |-> TRUE]}
=============================================================================
