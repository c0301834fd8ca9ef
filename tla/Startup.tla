------------------------------- MODULE Startup -------------------------------
(***************************************************************************)
(* A process builds its servers one after another, each from its own       *)
(* environment: logging, configuration, authentication, then the stores    *)
(* and the task backend, which Assembly interleaves with the tools.  What  *)
(* the servers share is the process's: the console, the flags of its       *)
(* one-shot warnings, the debugger and, unless each is built in a context  *)
(* of its own, the recorded auth mode.                                     *)
(***************************************************************************)
EXTENDS AuthModes, Backends, Console

CONSTANTS Servers,      \* in no order: whichever is started next
          Plans,        \* what operator and domain code may set out to do
          Debuggable    \* debugpy: "absent", "busy" or "listens"

(* A plan gives each of the servers it builds a deployment: environment,   *)
(* whether the configuration is built by hand from it, what its            *)
(* authorization server answers, the client libraries installed, whether   *)
(* /data/state is usable, whether the tasks extension is installed and the *)
(* names of its own health checks, the synchronous ones in sync.  uses     *)
(* says which parts of the library the servers call; isolated, whether     *)
(* each is built in a context of its own.  foreign, domain and probes      *)
(* bound what others do to the console, what the domain contributes to a   *)
(* server and the probes a server gets.                                    *)
Numerals  == [is : {"number", "junk", "infinite", "unset"}, n : Int]
ToolLists == [there : BOOLEAN, names : SUBSET Tools]
ASSUME PlansAssumption ==
    \A p \in Plans :
        /\ p.foreign \in Nat /\ DOMAIN p.deploy \subseteq Servers
        /\ \A s \in DOMAIN p.deploy : LET e == p.deploy[s].env IN
             /\ {e.port, e.grace} \subseteq Numerals
             /\ {e.allow, e.deny} \subseteq {NoToolList} \cup {list \in ToolLists : list.there}
             /\ {e.kv_url, e.event_url, e.tasks_url, e.docket_url}
                    \subseteq Urls \cup {"unset", "empty", "blank"}

VARIABLES plan,
          server,   \* the servers, as far as they have been built
          process,  \* what they share
          console   \* logging, of the whole process

svars == <<plan, server, process, console>>

Namespaces == {"events", "jobs", "links", "health"}
Stages  == {"idle", "logged", "read", "assembling", "serving", "failed"}
NoStore == "no_store"
Idle    == [stage |-> "idle", config |-> Rejected, mode |-> None, provider |-> NoProvider,
            announced |-> << >>, stores |-> [n \in Namespaces |-> NoStore],
            tasks |-> None, traceback |-> FALSE]

SInit == /\ plan \in Plans
         /\ server = [s \in Servers |-> Idle]
         /\ process = [recorded |-> [s \in Servers |-> None], legacy_warned |-> FALSE, fallback_warned |-> FALSE,
                       warnings |-> << >>, debugger |-> FALSE, foreign |-> 0, elsewhere |-> 0, fresh |-> FALSE]
         /\ console = Pristine

Planned(s)    == s \in DOMAIN plan.deploy
Deployment(s) == plan.deploy[s]
Building(s)   == server[s].stage \notin {"idle", "serving", "failed"}

(* _current_auth_mode: one cell for the process, or one for each context.  *)
Cell(s) == IF plan.isolated THEN {s} ELSE Servers

Fails(s) == server' = [server EXCEPT ![s].stage = "failed"]

------------------------------------------------------------------------------
(* Logging. *)

ConfigureLogging(s) ==
    /\ Planned(s) /\ server[s].stage = "idle"
    /\ \A t \in Servers : ~Building(t)
    /\ server' = [server EXCEPT ![s].stage = "logged"]
    /\ console' = Configured(console, Deployment(s).env)
    /\ process' = [process EXCEPT !.fresh = TRUE,
                       !.warnings = @ \o IF Bridged(Deployment(s).env) THEN <<"log_level">> ELSE << >>]
    /\ UNCHANGED plan

(* What others do to the console: they add handlers, to the console or to  *)
(* a file, and put their own stream in place of stderr, or take it away.   *)
Interferes == /\ process.foreign < plan.foreign
              /\ \/ \E stream \in {"stdout", "live", "elsewhere"} :
                        /\ console' = [console EXCEPT !.root = @ \cup {Foreign(stream, process.foreign + 1)}]
                        /\ process' = [process EXCEPT !.foreign = @ + 1, !.fresh = @ /\ stream = "elsewhere",
                                           !.elsewhere = @ + (IF stream = "elsewhere" THEN 1 ELSE 0)]
                 \/ \E stream \in Stderrs \ {console.stderr} :
                        /\ console' = [console EXCEPT !.stderr = stream]
                        /\ process' = [process EXCEPT !.foreign = @ + 1, !.fresh = FALSE]
              /\ UNCHANGED <<plan, server>>

(* maybe_start_debugpy, once its port has been read: a port that is no     *)
(* number or out of range is none.                                         *)
StartDebugger(s) ==
    /\ server[s].stage = "logged" /\ ~process.debugger
    /\ EnvInt(Deployment(s).env.debug_port, NoNumber, FALSE, 0, MaxPort) > 0
    /\ Debuggable = "listens"
    /\ process' = [process EXCEPT !.debugger = TRUE]
    /\ UNCHANGED <<plan, server, console>>

------------------------------------------------------------------------------
(* Configuration and authentication. *)

(* from_env of the three configurations; a ConfigurationError ends it.     *)
ReadConfig(s) ==
    LET d == Deployment(s)
        c == IF d.by_hand THEN ServerConfig(d.env, TRUE) ELSE FromEnv(d.env)
    IN  /\ server[s].stage = "logged"
        /\ IF c.ok /\ JobsFromEnv(d.env).ok /\ TransferFromEnv(d.env).ok
           THEN server' = [server EXCEPT ![s].stage = "read", ![s].config = c]
           ELSE Fails(s)
        /\ UNCHANGED <<plan, process, console>>

(* build_auth: the mode is recorded before anything is built; the          *)
(* announcement is made whether or not it is.                              *)
BuildAuth(s) ==
    LET d == Deployment(s)
        c == server[s].config
        provider == BuildProvider(c, ResolveMode(c), d.discovery)
    IN  /\ server[s].stage = "read"
        /\ process' = [process EXCEPT !.recorded =
                           [t \in Servers |-> IF t \in Cell(s) THEN ResolveMode(c) ELSE @[t]]]
        /\ server' = [server EXCEPT ![s].stage = IF provider = Failed THEN "failed" ELSE "assembling",
                                    ![s].mode = ResolveMode(c), ![s].provider = provider,
                                    ![s].announced = Append(@, Announcement(provider))]
        /\ UNCHANGED <<plan, console>>

(* The FastMCP server comes into being, which would configure its logging, *)
(* and wire_middleware_stack reads the level of the moment.                *)
WireMiddleware(s) ==
    /\ server[s].stage = "assembling" /\ ~server[s].traceback /\ "middleware" \in plan.uses
    /\ console' = FastmcpConfigures(console)
    /\ server' = [server EXCEPT ![s].traceback = console.level = DEBUG]
    /\ UNCHANGED <<plan, process>>

------------------------------------------------------------------------------
(* State. *)

(* The warnings of build_kv_store, each once in the life of the process.   *)
Warn(c, dataDir) ==
    LET legacy   == FromLegacy(c) /\ ~process.legacy_warned
        fallback == FellBack(c, dataDir) /\ ~process.fallback_warned
    IN  process' = [process EXCEPT !.legacy_warned = @ \/ legacy, !.fallback_warned = @ \/ fallback,
                        !.warnings = @ \o (IF legacy THEN <<"legacy">> ELSE << >>)
                                       \o (IF fallback THEN <<"fallback">> ELSE << >>)]

(* build_kv_store; build_event_store, the job and link stores and the      *)
(* health check call it, each with its namespace.                          *)
BuildStore(s, namespace) ==
    LET d   == Deployment(s)
        c   == server[s].config
        url == Backend(SelectedUrl(c, d.data_dir), d.extras)
    IN  /\ server[s].stage = "assembling" /\ server[s].stores[namespace] = NoStore
        /\ "stores" \in plan.uses
        /\ Warn(c, d.data_dir)
        /\ IF url = NoBackend THEN Fails(s)
           ELSE server' = [server EXCEPT ![s].stores[namespace] = url]
        /\ UNCHANGED <<plan, console>>

(* configure_task_backend, called once for a server.                       *)
ConfigureTasks(s) ==
    LET d == Deployment(s)
        c == server[s].config
        native == Env(d.env.docket_url, None)
    IN  /\ server[s].stage = "assembling" /\ server[s].tasks = None
        /\ IF ~TasksUrlAccepted(c) THEN Fails(s)
           ELSE IF ~d.tasks_installed THEN server' = [server EXCEPT ![s].tasks = NoTasks]
           ELSE IF ~StateUrlParsed(c, native) THEN Fails(s)
           ELSE LET url == EffectiveTasksUrl(c, native)
                IN  server' = [server EXCEPT ![s].tasks = url,
                                             ![s].stage = IF Parseable(url) THEN @ ELSE "failed"]
        /\ UNCHANGED <<plan, process, console>>

StartupStep == \/ Interferes
               \/ \E s \in Servers :
                      \/ ConfigureLogging(s) \/ StartDebugger(s) \/ ReadConfig(s) \/ BuildAuth(s)
                      \/ WireMiddleware(s) \/ ConfigureTasks(s)
                      \/ \E n \in {"events", "jobs"} : BuildStore(s, n)
------------------------------------------------------------------------------
STypeOK ==
    /\ \A s \in Servers :
         /\ server[s].stage \in Stages /\ server[s].mode \in Modes \cup {None}
         /\ server[s].config.ok =>
              LET c == server[s].config IN
              /\ c.transport \in {"stdio", "http", "sse"} /\ {c.allow, c.deny} \subseteq SUBSET Tools
              /\ \/ Deployment(s).by_hand
                 \/ c.port \in 1 .. MaxPort /\ c.shutdown_grace_s \in Nat /\ {} \in {c.allow, c.deny}
         /\ \A n \in Namespaces : server[s].stores[n] \in Urls \cup {NoStore}
         /\ server[s].tasks \in Urls \cup {None, NoTasks}
    /\ console.root \subseteq Handlers
    /\ console.level \in Levels /\ process.foreign \in 0 .. plan.foreign

(* The operator has asked for authentication.                              *)
AsksForAuth(c) == Override(c) # None \/ HasMapped(c) \/ HasSingle(c) \/ HasRemote(c)

(* No server goes on without authentication unless nothing in its          *)
(* configuration asks for it: not by a credential that is blank, a file    *)
(* that cannot be read, a discovery that fails or half a pair.  What the   *)
(* log announces, once, is what is served, and a caller without a token    *)
(* is the local one exactly there, whatever other servers of the process   *)
(* are built in contexts of their own (build_auth, get_subject).           *)
NeverOpenByAccident ==
    \A s \in Servers : server[s].stage \in {"assembling", "serving"} =>
        LET open == server[s].provider = NoProvider IN
        /\ open <=> ~AsksForAuth(server[s].config)
        /\ server[s].announced = <<IF open THEN "unauthenticated" ELSE "authenticated">>
        /\ server[s].mode = "multi" =>
               /\ server[s].provider.kind = "multi"
               /\ {server[s].provider.server, server[s].provider.verifier} \cap {NoProvider, Failed} = {}
        /\ plan.isolated => (open <=> process.recorded[s] = "none")

(* All stores of a server are in one backend, the one its health check     *)
(* writes to, and a task backend derived from it is the same; an explicit  *)
(* variable is what it says, unless the configuration was made by hand,    *)
(* where an empty one counts as set in one place and not in the other.     *)
(* Each warning of the process comes at most once, however many stores are *)
(* built (build_kv_store, configure_task_backend).                         *)
StoresAgree ==
    /\ \A s \in Servers :
         LET built == {server[s].stores[n] : n \in Namespaces} \ {NoStore}
             env   == Deployment(s).env IN
         /\ Cardinality(built) <= 1
         /\ Planned(s) /\ server[s].stage \in {"assembling", "serving"} /\ ~Deployment(s).by_hand
            /\ server[s].tasks \notin {None, NoTasks} =>
              IF Env(env.tasks_url, None) # None THEN server[s].tasks = env.tasks_url
              ELSE IF Env(env.docket_url, None) # None THEN server[s].tasks = env.docket_url
              ELSE \A url \in built : server[s].tasks = IF url = "redis" THEN url ELSE "memory"
    /\ \A w \in {"legacy", "fallback"} :
           \A i, k \in DOMAIN process.warnings : {process.warnings[i], process.warnings[k]} = {w} => i = k

(* Until somebody adds a handler to it again or exchanges stderr, every    *)
(* record reaches the console exactly once, if there is one: FastMCP's own *)
(* from the same level on, with or without a traceback; a request has its  *)
(* line if it failed and, at DEBUG, if it did not.  Handlers elsewhere are *)
(* all still there, and nothing is left of what earlier calls have set     *)
(* (configure_logging_from_env's three invariants, _neutralise_fastmcp).   *)
ConsoleOnce ==
    /\ process.fresh => \A traceback \in BOOLEAN :
           LET once == IF console.stderr \in Nowhere THEN 0 ELSE 1 IN
           /\ Rendered(console, traceback) = once
           /\ RenderedFastmcp(console, traceback) = once
           /\ FastmcpLevel(console) = console.level
           /\ ShowsAccess(console, 401) <=> console.level <= INFO
           /\ ShowsAccess(console, 200) <=> console.level = DEBUG
    /\ Cardinality({h \in console.root : h.to = "elsewhere"}) = process.elsewhere
    /\ \A s \in Servers : server[s].stage = "logged" =>
           LET anew == Configured([Pristine EXCEPT !.stderr = console.stderr], Deployment(s).env) IN
           process.fresh => /\ console.access = anew.access /\ console.level = anew.level
                            /\ console.noisy = anew.noisy /\ console.flood = anew.flood
                            /\ {h \in console.root : h.owned} = anew.root

(* What the server requires of a token is among what it advertises, or no  *)
(* client would ask for it (_resolve_advertised_scopes).                   *)
RequiredIsAdvertised ==
    \A s \in Servers : server[s].stage \in {"assembling", "serving"} =>
        \A oidc \in OidcPart(server[s].provider) : oidc.required \subseteq oidc.advertised
==============================================================================
