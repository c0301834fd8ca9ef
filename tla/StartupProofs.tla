---------------------------- MODULE StartupProofs -----------------------------
(***************************************************************************)
(* Theorems about how a process of servers comes up, for every plan: its   *)
(* types, where its servers keep their state and run their tasks, what its *)
(* console shows, and what clients are shown and told.                     *)
(*                                                                         *)
(* The argument: a server reads its configuration once, and what is built  *)
(* from it later is a function of it (Started).  The console is as the     *)
(* last call has left it as long as it is fresh (ConsoleInv), and others'  *)
(* handlers are told apart by numbers that only grow.  The lists of the    *)
(* operator are applied after whatever the domain did to its tools, and    *)
(* the instructions are the retained candidates in the order of their      *)
(* roles, each text once (SurfaceInv).                                     *)
(***************************************************************************)
EXTENDS ServingProofs, FiniteSetTheorems

------------------------------------------------------------------------------
(* Configurations. *)

(* A tool list names tools. *)
LEMMA ListsNameTools ==
    ASSUME NEW list \in {NoToolList} \cup {l \in ToolLists : l.there}
    PROVE  list.names \subseteq Tools /\ (list.there \/ list.names = {})
  BY DEF NoToolList, ToolLists

(* An environment whose numbers and tool lists have the forms they can     *)
(* have.                                                                   *)
WellTyped(e) == /\ {e.port, e.grace} \subseteq Numerals
                /\ {e.allow, e.deny} \subseteq {NoToolList} \cup {list \in ToolLists : list.there}

(* A configuration with a known transport and tools of the server; a       *)
(* number out of range shows.                                              *)
Typed(c) == /\ c.ok = TRUE
            /\ c.transport \in {"stdio", "http", "sse"} /\ {c.allow, c.deny} \subseteq SUBSET Tools
            /\ c.port \in (1 .. MaxPort) \cup {8000, NoNumber}
            /\ c.shutdown_grace_s \in (0 .. Unbounded) \cup {3, NoNumber}

(* Every configuration is typed, by hand or not, and has at most one list  *)
(* if its lists are accepted (ServerConfig, env_int).                      *)
LEMMA AnyConfig ==
    ASSUME NEW e, WellTyped(e), NEW byHand
    PROVE  /\ Typed(ServerConfig(e, byHand))
           /\ ToolListsAccepted(e) => {} \in {ServerConfig(e, byHand).allow, ServerConfig(e, byHand).deny}
<1>. DEFINE c == ServerConfig(e, byHand)
<1>1. /\ e.port.is \in {"number", "junk", "infinite", "unset"}
      /\ e.grace.is \in {"number", "junk", "infinite", "unset"}
  BY DEF WellTyped, Numerals
<1>2. c.port \in (1 .. MaxPort) \cup {8000, NoNumber}
  BY <1>1 DEF ServerConfig, EnvInt, CheckBounds, Reject
<1>3. c.shutdown_grace_s \in (0 .. Unbounded) \cup {3, NoNumber}
  BY <1>1 DEF ServerConfig, EnvInt, CheckBounds, Reject
<1>4. c.ok = TRUE /\ c.allow = e.allow.names /\ c.deny = e.deny.names
  BY DEF ServerConfig
<1>5. c.transport \in {"stdio", "http", "sse"}
  BY DEF ServerConfig
<1>. HIDE DEF c
<1>6. /\ e.allow.names \subseteq Tools /\ e.deny.names \subseteq Tools
      /\ e.allow.there \/ e.allow.names = {}
      /\ e.deny.there \/ e.deny.names = {}
  BY ListsNameTools DEF WellTyped
<1>7. ToolListsAccepted(e) => {} \in {c.allow, c.deny}
  BY <1>4, <1>6 DEF ToolListsAccepted
<1>8. Typed(c)
  BY <1>2, <1>3, <1>4, <1>5, <1>6 DEF Typed
<1>. QED
  BY <1>7, <1>8 DEF c

(* What from_env accepts has its numbers and at most one list.             *)
LEMMA AcceptedByFromEnv ==
    ASSUME NEW e, FromEnv(e).ok
    PROVE  /\ FromEnv(e) = ServerConfig(e, FALSE) /\ ToolListsAccepted(e)
           /\ NoNumber \notin {FromEnv(e).port, FromEnv(e).shutdown_grace_s}
<1>1. Rejected.ok = FALSE
  BY DEF Rejected
<1>. QED
  BY <1>1 DEF FromEnv

(* What a server's configuration is when it has one. *)
ReadFrom(d) == IF d.by_hand THEN ServerConfig(d.env, TRUE) ELSE FromEnv(d.env)

(* A configuration that is accepted is well formed.                        *)
WellFormed(c, byHand) ==
    /\ c.transport \in {"stdio", "http", "sse"} /\ {c.allow, c.deny} \subseteq SUBSET Tools
    /\ \/ byHand
       \/ c.port \in 1 .. MaxPort /\ c.shutdown_grace_s \in Nat /\ {} \in {c.allow, c.deny}

(* Every configuration a server is built from is (from_env).               *)
LEMMA AcceptedConfig ==
    ASSUME NEW d, WellTyped(d.env), ReadFrom(d).ok
    PROVE  WellFormed(ReadFrom(d), d.by_hand)
<1>1. CASE d.by_hand
  <2>1. ReadFrom(d) = ServerConfig(d.env, TRUE)
    BY <1>1 DEF ReadFrom
  <2>2. Typed(ServerConfig(d.env, TRUE))
    BY AnyConfig, Zenon
  <2>3. Typed(ReadFrom(d))
    BY <2>1, <2>2, Zenon
  <2>. QED
    BY <1>1, <2>3 DEF WellFormed, Typed
<1>2. CASE ~d.by_hand
  <2>. DEFINE c == FromEnv(d.env)
  <2>1. ReadFrom(d) = c /\ c.ok
    BY <1>2 DEF ReadFrom
  <2>2. c = ServerConfig(d.env, FALSE) /\ ToolListsAccepted(d.env)
    BY <2>1, AcceptedByFromEnv, Zenon
  <2>3. NoNumber \notin {c.port, c.shutdown_grace_s}
    BY <2>1, AcceptedByFromEnv, Zenon
  <2>4. Typed(ServerConfig(d.env, FALSE)) /\ {} \in {ServerConfig(d.env, FALSE).allow, ServerConfig(d.env, FALSE).deny}
    BY <2>2, AnyConfig, Zenon
  <2>5. Typed(c) /\ {} \in {c.allow, c.deny}
    BY <2>2, <2>4, Zenon
  <2>. HIDE DEF c
  <2>6. 8000 \in 1 .. MaxPort /\ \A n \in 0 .. Unbounded : n \in Nat
    BY DEF MaxPort
  <2>7. c.port \in 1 .. MaxPort /\ c.shutdown_grace_s \in Nat
    BY <2>3, <2>5, <2>6 DEF Typed
  <2>. QED
    BY <2>1, <2>5, <2>7 DEF WellFormed, Typed
<1>. QED
  BY <1>1, <1>2

(* What variables can say a text is. *)
LEMMA TextRead ==
    ASSUME NEW e
    PROVE  \A url \in Urls \cup {"unset", "empty", "blank"} :
               /\ Env(url, None) \in Urls \cup {None}
               /\ Truthy(Env(url, None)) <=> Env(url, None) # None
               /\ Env(url, None) # None => Env(url, None) = url
  BY DEF Env, None, Truthy, Urls

------------------------------------------------------------------------------
(* Backends. *)

(* A backend that is built is one of those the library knows. *)
LEMMA BackendKnown ==
    ASSUME NEW url, NEW extras, Backend(url, extras) # NoBackend
    PROVE  Backend(url, extras) = url /\ url \in {"memory", "file", "redis", "dynamodb", "mongodb"}
  BY DEF Backend

(* Docket's schemes are those of two URLs.                                 *)
LEMMA DocketUrls ==
    ASSUME NEW url
    PROVE  /\ Scheme(url) = "redis" <=> url = "redis"
           /\ Scheme(url) \in DocketSchemes => url \in {"memory", "redis"}
  BY DEF Scheme, DocketSchemes

(* Tasks run where an accepted variable says, else where the native one    *)
(* does, else where the state is if Docket can use that (_resolve_url_-    *)
(* override).                                                              *)
LEMMA TasksRunOn ==
    ASSUME NEW c, NEW native, TasksUrlAccepted(c)
    PROVE  LET url == EffectiveTasksUrl(c, native) IN
           /\ Truthy(c.tasks_url) => url = c.tasks_url /\ url \in {"memory", "redis"}
           /\ ~Truthy(c.tasks_url) /\ native # None => url = native
           /\ ~Truthy(c.tasks_url) /\ native = None =>
                 url = IF Truthy(StateUrl(c)) /\ StateUrl(c) = "redis" THEN "redis" ELSE "memory"
<1>. DEFINE url == EffectiveTasksUrl(c, native)
<1>1. CASE Truthy(c.tasks_url)
  <2>1. c.tasks_url \in {"memory", "redis"}
    BY <1>1, DocketUrls DEF TasksUrlAccepted
  <2>2. TasksOverride(c, native) = c.tasks_url
    BY <1>1 DEF TasksOverride
  <2>. QED
    BY <1>1, <2>1, <2>2 DEF EffectiveTasksUrl, None
<1>2. CASE ~Truthy(c.tasks_url) /\ native # None
  <2>1. TasksOverride(c, native) = None
    BY <1>2 DEF TasksOverride
  <2>. QED
    BY <1>2, <2>1 DEF EffectiveTasksUrl
<1>3. CASE ~Truthy(c.tasks_url) /\ native = None
  <2>1. TasksOverride(c, native) = IF Truthy(StateUrl(c)) /\ StateUrl(c) = "redis" THEN "redis" ELSE None
    BY <1>3, DocketUrls DEF TasksOverride
  <2>. QED
    BY <1>3, <2>1 DEF EffectiveTasksUrl, NativeDefault, None
<1>. QED
  BY <1>1, <1>2, <1>3

------------------------------------------------------------------------------
(* What a server is built from. *)

HomeOf(s) == Backend(SelectedUrl(server[s].config, Deployment(s).data_dir), Deployment(s).extras)
NoStores  == [n \in Namespaces |-> NoStore]

(* A server's configuration, once read, is what its environment says; its  *)
(* stores are in the backend this selects, its tasks where it says.        *)
HasRead(s)   == server[s].config # Rejected
ConfigOf(s)  == /\ server[s].stage # "idle" => Planned(s)
                /\ HasRead(s) => Planned(s) /\ server[s].config = ReadFrom(Deployment(s)) /\ server[s].config.ok
                /\ server[s].stage \in {"read", "assembling", "serving"} => HasRead(s)
StoresOf(s)  == /\ server[s].stores \in [Namespaces -> {NoStore, HomeOf(s)} \ {NoBackend}]
                /\ server[s].stage \in {"idle", "logged", "read"} =>
                      server[s].stores = NoStores /\ server[s].tasks = None
TasksOf(s)   == server[s].tasks \notin {None, NoTasks} =>
                   /\ HasRead(s) /\ TasksUrlAccepted(server[s].config)
                   /\ server[s].tasks =
                         EffectiveTasksUrl(server[s].config, Env(Deployment(s).env.docket_url, None))
Started(s)   == ConfigOf(s) /\ StoresOf(s) /\ TasksOf(s) /\ server[s].mode \in Modes \cup {None}
StartInv     == plan \in Plans /\ \A s \in Servers : Started(s)

(* A step that builds nothing of this server's state, and goes forward.    *)
KeptStart(s) ==
    /\ server'[s].config = server[s].config /\ server'[s].stores = server[s].stores
    /\ server'[s].tasks = server[s].tasks /\ server'[s].mode \in {server[s].mode} \cup Modes
    /\ server'[s].stage # "idle" => server[s].stage # "idle" \/ Planned(s)
    /\ server'[s].stage \in {"read", "assembling", "serving"} =>
          server[s].stage \in {"read", "assembling", "serving"}
    /\ server'[s].stage \in {"idle", "logged", "read"} => server[s].stage \in {"idle", "logged", "read"}

(* Such a step keeps what the server was built from. *)
LEMMA KeptIsStarted ==
    ASSUME NEW s \in Servers, Started(s), KeptStart(s), plan' = plan
    PROVE  Started(s)'
<1>1. Planned(s)' = Planned(s) /\ Deployment(s)' = Deployment(s) /\ HomeOf(s)' = HomeOf(s)
  BY DEF Planned, Deployment, HomeOf, KeptStart
<1>2. ConfigOf(s)'
  BY <1>1 DEF Started, ConfigOf, HasRead, KeptStart
<1>3. StoresOf(s)'
  BY <1>1 DEF Started, StoresOf, KeptStart
<1>4. TasksOf(s)'
  BY <1>1 DEF Started, TasksOf, HasRead, KeptStart
<1>. QED
  BY <1>2, <1>3, <1>4 DEF Started, KeptStart

(* All servers are kept, but for a field the state does not depend on.     *)
LEMMA FieldKept ==
    ASSUME Shape, NEW s \in Servers, NEW x,
           \/ server' = server
           \/ server' = [server EXCEPT ![s].stage = x] /\ x = "failed" /\ (Planned(s) \/ server[s].stage # "idle")
           \/ server' = [server EXCEPT ![s].stage = x] /\ x = "logged" /\ Planned(s) /\ server[s].stage = "idle"
           \/ server' = [server EXCEPT ![s].stage = x] /\ x = "serving" /\ server[s].stage = "assembling"
           \/ server' = [server EXCEPT ![s].traceback = x]
    PROVE  \A t \in Servers : KeptStart(t)
  BY DEF Shape, IsServer, KeptStart, Stages

(* Then the invariant is kept. *)
LEMMA KeptIsStartInv ==
    ASSUME StartInv, plan' = plan, \A t \in Servers : KeptStart(t)
    PROVE  StartInv'
  BY KeptIsStarted DEF StartInv

(* One server is replaced by one that is started. *)
LEMMA OneStarted ==
    ASSUME Shape, StartInv, plan' = plan, NEW s \in Servers, Started(s)',
           \A t \in Servers \ {s} : server'[t] = server[t]
    PROVE  StartInv'
<1>1. ASSUME NEW t \in Servers \ {s} PROVE KeptStart(t)
  BY <1>1 DEF KeptStart
<1>. QED
  BY <1>1, KeptIsStarted DEF StartInv

(* A start that fails keeps what has been built. *)
LEMMA FailsKept ==
    ASSUME Shape, StartInv, plan' = plan, NEW s \in Servers, server[s].stage # "idle", Fails(s)
    PROVE  StartInv'
  BY FieldKept, KeptIsStartInv DEF Fails

(* The configuration is read when nothing has been built from it.          *)
LEMMA ReadConfigStarts ==
    ASSUME Shape, StartInv, NEW s \in Servers, ReadConfig(s)
    PROVE  StartInv'
<1>. DEFINE c == ReadFrom(Deployment(s))
<1>1. plan' = plan /\ server[s].stage = "logged"
  BY DEF ReadConfig
<1>2. \/ Fails(s)
      \/ c.ok /\ server' = [server EXCEPT ![s].stage = "read", ![s].config = c]
  BY Zenon DEF ReadConfig, ReadFrom
<1>3. CASE Fails(s)
  BY <1>1, <1>3, FailsKept
<1>4. CASE c.ok /\ server' = [server EXCEPT ![s].stage = "read", ![s].config = c]
  <2>. HIDE DEF c
  <2>1. /\ server'[s].stage = "read" /\ server'[s].config = c /\ server'[s].mode = server[s].mode
        /\ server'[s].stores = server[s].stores /\ server'[s].tasks = server[s].tasks
        /\ \A t \in Servers \ {s} : server'[t] = server[t]
    BY <1>4 DEF Shape, IsServer
  <2>2. server'[s].stores = NoStores /\ server'[s].tasks = None
    BY <1>1, <2>1 DEF StartInv, Started, StoresOf
  <2>3. StoresOf(s)'
    <3>1. NoStores \in [Namespaces -> {NoStore, HomeOf(s)'} \ {NoBackend}]
      BY DEF NoStores, NoStore, NoBackend
    <3>. QED
      BY <2>2, <3>1 DEF StoresOf
  <2>4. TasksOf(s)'
    BY <2>2 DEF TasksOf
  <2>5. ConfigOf(s)'
    <3>1. Planned(s)' = Planned(s) /\ Deployment(s)' = Deployment(s) /\ Planned(s)
      BY <1>1 DEF Planned, Deployment, StartInv, Started, ConfigOf
    <3>2. c # Rejected
      BY <1>4 DEF Rejected
    <3>. QED
      BY <1>4, <2>1, <3>1, <3>2 DEF ConfigOf, HasRead, c
  <2>. QED
    BY <1>1, <2>1, <2>3, <2>4, <2>5, OneStarted DEF StartInv, Started
<1>. QED
  BY <1>2, <1>3, <1>4

(* build_auth builds no state. *)
LEMMA BuildAuthStarts ==
    ASSUME Shape, StartInv, NEW s \in Servers, BuildAuth(s)
    PROVE  StartInv'
<1>. DEFINE c == server[s].config
            mode == ResolveMode(c)
            provider == BuildProvider(c, mode, Deployment(s).discovery)
            stage == IF provider = Failed THEN "failed" ELSE "assembling"
            said == Append(server[s].announced, Announcement(provider))
<1>1. /\ stage \in {"failed", "assembling"}
      /\ server' = [server EXCEPT ![s].stage = stage, ![s].mode = mode, ![s].provider = provider,
                                  ![s].announced = said]
  BY DEF BuildAuth
<1>2. mode \in Modes /\ plan' = plan /\ server[s].stage = "read"
  BY NoneUnlessAsked DEF BuildAuth
<1>. HIDE DEF c, mode, provider, stage, said
<1>3. ASSUME NEW t \in Servers PROVE KeptStart(t)
  BY <1>1, <1>2, <1>3 DEF Shape, IsServer, KeptStart
<1>. QED
  BY <1>2, <1>3, KeptIsStartInv

(* A store is built in the backend of the configuration (build_kv_store).  *)
LEMMA BuildStoreStarts ==
    ASSUME Shape, StartInv, NEW s \in Servers, NEW n \in Namespaces, BuildStore(s, n)
    PROVE  StartInv'
<1>1. plan' = plan /\ server[s].stage = "assembling"
  BY DEF BuildStore
<1>2. \/ Fails(s)
      \/ HomeOf(s) # NoBackend /\ server' = [server EXCEPT ![s].stores[n] = HomeOf(s)]
  BY DEF BuildStore, HomeOf
<1>3. CASE Fails(s)
  BY <1>1, <1>3, FailsKept
<1>4. CASE HomeOf(s) # NoBackend /\ server' = [server EXCEPT ![s].stores[n] = HomeOf(s)]
  <2>. DEFINE stores == [server[s].stores EXCEPT ![n] = HomeOf(s)]
  <2>0. server' = [server EXCEPT ![s].stores = stores]
    BY <1>4
  <2>1. stores \in [Namespaces -> {NoStore, HomeOf(s)} \ {NoBackend}]
    BY <1>4 DEF StartInv, Started, StoresOf
  <2>. HIDE DEF stores
  <2>2. /\ server'[s].stage = "assembling" /\ server'[s].config = server[s].config
        /\ server'[s].mode = server[s].mode
        /\ server'[s].stores = stores /\ server'[s].tasks = server[s].tasks
        /\ \A t \in Servers \ {s} : server'[t] = server[t]
    BY <1>1, <2>0 DEF Shape, IsServer
  <2>3. Planned(s)' = Planned(s) /\ Deployment(s)' = Deployment(s) /\ HomeOf(s)' = HomeOf(s)
    BY <1>1, <2>2 DEF Planned, Deployment, HomeOf
  <2>4. StoresOf(s)'
    BY <2>1, <2>2, <2>3 DEF StoresOf
  <2>5. ConfigOf(s)' /\ TasksOf(s)' /\ server'[s].mode \in Modes \cup {None}
    BY <1>1, <2>2, <2>3 DEF StartInv, Started, ConfigOf, TasksOf, HasRead
  <2>. QED
    BY <1>1, <2>2, <2>4, <2>5, OneStarted DEF Started
<1>. QED
  BY <1>2, <1>3, <1>4

(* A server's tasks are given a URL, whether or not they can use it.       *)
TasksGiven(s, tasks) ==
    /\ server'[s].stage \in {"assembling", "failed"} /\ server'[s].config = server[s].config
    /\ server'[s].mode = server[s].mode /\ server'[s].stores = server[s].stores
    /\ server'[s].tasks = tasks
    /\ \A t \in Servers \ {s} : server'[t] = server[t]

(* Tasks are given the URL of the configuration (configure_task_backend).  *)
LEMMA ConfigureTasksStarts ==
    ASSUME Shape, StartInv, NEW s \in Servers, ConfigureTasks(s)
    PROVE  StartInv'
<1>. DEFINE url == EffectiveTasksUrl(server[s].config, Env(Deployment(s).env.docket_url, None))
<1>1. plan' = plan /\ server[s].stage = "assembling"
  BY DEF ConfigureTasks
<1>2. \/ Fails(s)
      \/ TasksGiven(s, NoTasks)
      \/ TasksGiven(s, url) /\ TasksUrlAccepted(server[s].config)
  <2>1. CASE server' = [server EXCEPT ![s].tasks = NoTasks]
    BY <1>1, <2>1 DEF Shape, IsServer, TasksGiven
  <2>2. ASSUME server' = [server EXCEPT ![s].tasks = url,
                                        ![s].stage = IF Parseable(url) THEN server[s].stage ELSE "failed"]
        PROVE  TasksGiven(s, url)
    <3>. DEFINE stage == IF Parseable(url) THEN server[s].stage ELSE "failed"
    <3>1. stage \in {"assembling", "failed"} /\ server' = [server EXCEPT ![s].tasks = url, ![s].stage = stage]
      BY <1>1, <2>2
    <3>. HIDE DEF url, stage
    <3>. QED
      BY <3>1 DEF Shape, IsServer, TasksGiven
  <2>3. \/ Fails(s) \/ server' = [server EXCEPT ![s].tasks = NoTasks]
        \/ /\ server' = [server EXCEPT ![s].tasks = url,
                                       ![s].stage = IF Parseable(url) THEN server[s].stage ELSE "failed"]
           /\ TasksUrlAccepted(server[s].config)
    BY DEF ConfigureTasks
  <2>. QED
    BY <2>1, <2>2, <2>3
<1>3. CASE Fails(s)
  BY <1>1, <1>3, FailsKept
<1>4. CASE TasksGiven(s, NoTasks) \/ (TasksGiven(s, url) /\ TasksUrlAccepted(server[s].config))
  <2>. HIDE DEF url
  <2>1. PICK tasks : TasksGiven(s, tasks) /\ (tasks # NoTasks => tasks = url /\ TasksUrlAccepted(server[s].config))
    BY <1>4
  <2>2. /\ server'[s].stage \in {"assembling", "failed"} /\ server'[s].config = server[s].config
        /\ server'[s].mode = server[s].mode
        /\ server'[s].stores = server[s].stores /\ server'[s].tasks = tasks
        /\ \A t \in Servers \ {s} : server'[t] = server[t]
    BY <2>1 DEF TasksGiven
  <2>3. Planned(s)' = Planned(s) /\ Deployment(s)' = Deployment(s) /\ HomeOf(s)' = HomeOf(s)
    BY <1>1, <2>2 DEF Planned, Deployment, HomeOf
  <2>4. ConfigOf(s)' /\ HasRead(s) /\ StoresOf(s)' /\ server'[s].mode \in Modes \cup {None}
    BY <1>1, <2>2, <2>3 DEF StartInv, Started, ConfigOf, StoresOf, HasRead
  <2>5. TasksOf(s)'
    BY <2>1, <2>2, <2>3, <2>4 DEF TasksOf, HasRead, url
  <2>. QED
    BY <1>1, <2>2, <2>4, <2>5, OneStarted DEF Started
<1>. QED
  BY <1>2, <1>3, <1>4

(* Every step keeps what each server was built from.                       *)
LEMMA StartInductive == AuthInv /\ StartInv /\ [Next]_vars => StartInv'
<1>. SUFFICES ASSUME AuthInv, StartInv, [Next]_vars PROVE StartInv'
  OBVIOUS
<1>0. Shape /\ plan' = plan
  BY PlanStays DEF AuthInv
<1>1. CASE server' = server
  <2>1. \A t \in Servers : KeptStart(t)
    BY <1>1 DEF KeptStart
  <2>. QED
    BY <1>0, <2>1, KeptIsStartInv
<1>2. ASSUME NEW s \in Servers, Fails(s), server[s].stage # "idle" PROVE StartInv'
  BY <1>0, <1>2, FailsKept
<1>3. CASE StartupStep
  <2>1. ASSUME NEW s \in Servers, ConfigureLogging(s) PROVE StartInv'
    BY <1>0, <2>1, FieldKept, KeptIsStartInv DEF ConfigureLogging
  <2>2. ASSUME NEW s \in Servers, WireMiddleware(s) PROVE StartInv'
    <3>1. PICK x : server' = [server EXCEPT ![s].traceback = x]
      BY <2>2 DEF WireMiddleware
    <3>. QED
      BY <1>0, <3>1, FieldKept, KeptIsStartInv
  <2>3. ASSUME NEW s \in Servers, NEW n \in {"events", "jobs"}, BuildStore(s, n) PROVE StartInv'
    BY <1>0, <2>3, BuildStoreStarts DEF Namespaces
  <2>4. ASSUME NEW s \in Servers, StartDebugger(s) PROVE StartInv'
    BY <1>1, <2>4 DEF StartDebugger
  <2>5. CASE Interferes
    BY <1>1, <2>5 DEF Interferes
  <2>. QED
    BY <1>0, <1>3, <2>1, <2>2, <2>3, <2>4, <2>5, ReadConfigStarts, BuildAuthStarts, ConfigureTasksStarts
       DEF StartupStep
<1>4. CASE AssemblyStep
  <2>1. \/ server' = server \/ \E s \in Servers : Fails(s) /\ server[s].stage = "assembling"
    BY <1>4 DEF AssemblyStep, RegisterTool, OwnVisibility, ApplyToolVisibility, Contribute, Finalize, svars,
                Domain, Assembling
  <2>. QED
    BY <1>1, <1>2, <2>1
<1>5. ASSUME NEW s \in Servers, RegisterHealth(s) \/ RegisterTransfer(s) PROVE StartInv'
  <2>1. \/ Fails(s) /\ server[s].stage = "assembling"
        \/ \E n \in Namespaces : BuildStore(s, n)
    BY <1>5 DEF RegisterHealth, RegisterTransfer, Namespaces, Assembling
  <2>. QED
    BY <1>0, <1>2, <2>1, BuildStoreStarts
<1>6. ASSUME NEW s \in Servers, Serve(s) PROVE StartInv'
  <2>1. CASE Fails(s)
    BY <1>2, <1>6, <2>1 DEF Serve, Assembling
  <2>2. CASE server' = [server EXCEPT ![s].stage = "serving"]
    BY <1>0, <1>6, <2>2, FieldKept, KeptIsStartInv DEF Serve, Assembling
  <2>. QED
    BY <1>6, <2>1, <2>2 DEF Serve
<1>7. ProbeLoop => server' = server
  BY DEF ProbeLoop, ProbeAnswers, ProbeTick, CheckTimesOut, avars, svars
<1>8. ASSUME NEW s \in Servers,
             \/ ProbeStarts(s) \/ ProbeCancelled(s)
             \/ \E c \in DOMAIN probe[s].checks, v \in Verdicts : CheckEnds(s, c, v)
      PROVE  server' = server
  BY <1>8 DEF ProbeStarts, ProbeCancelled, CheckEnds, avars, svars
<1>. QED
  BY <1>1, <1>3, <1>4, <1>5, <1>6, <1>7, <1>8 DEF Next, vars, avars, svars

(* Nothing has been read or built at first. *)
LEMMA StartInit == Init => StartInv
<1>. SUFFICES ASSUME Init PROVE StartInv
  OBVIOUS
<1>1. server = [s \in Servers |-> Idle] /\ plan \in Plans
  BY DEF Init, AInit, SInit
<1>2. ASSUME NEW s \in Servers PROVE Started(s)
  <2>1. server[s].stores = NoStores /\ server[s].tasks = None /\ server[s].mode = None
    BY <1>1 DEF Idle, NoStores
  <2>2. server[s].config = Rejected /\ server[s].stage = "idle"
    BY <1>1 DEF Idle
  <2>3. NoStores \in [Namespaces -> {NoStore, HomeOf(s)} \ {NoBackend}]
    BY DEF NoStores, NoStore, NoBackend
  <2>. QED
    BY <2>1, <2>2, <2>3 DEF Started, ConfigOf, StoresOf, TasksOf, HasRead
<1>. QED
  BY <1>1, <1>2 DEF StartInv

------------------------------------------------------------------------------
(* Who touches the console, and who warns. *)

(* The console and its history are as they were, and nobody has just       *)
(* configured it.                                                          *)
LogKept == /\ console' = console /\ process'.fresh = process.fresh
           /\ process'.foreign = process.foreign /\ process'.elsewhere = process.elsewhere
           /\ \A s \in Servers : server'[s].stage = "logged" => server[s].stage = "logged"
Quiet   == /\ process'.warnings = process.warnings
           /\ process'.legacy_warned = process.legacy_warned
           /\ process'.fallback_warned = process.fallback_warned

(* A failed start touches neither. *)
LEMMA FailsQuietly ==
    ASSUME Shape, NEW s \in Servers, Fails(s), UNCHANGED <<process, console>>
    PROVE  LogKept /\ Quiet
  BY DEF Fails, LogKept, Quiet, Shape, IsServer

(* build_kv_store may warn. *)
LEMMA BuildStoreWarns ==
    ASSUME Shape, NEW s \in Servers, NEW n, BuildStore(s, n)
    PROVE  LogKept /\ \E c, d : Warn(c, d)
<1>1. console' = console /\ Warn(server[s].config, Deployment(s).data_dir)
  BY DEF BuildStore
<1>2. /\ process'.fresh = process.fresh /\ process'.foreign = process.foreign
      /\ process'.elsewhere = process.elsewhere
  BY <1>1 DEF Warn, Shape, IsProcess
<1>3. \A t \in Servers : server'[t].stage = "logged" => server[t].stage = "logged"
  <2>1. CASE Fails(s)
    BY <2>1 DEF Fails, Shape, IsServer
  <2>2. CASE \E url : server' = [server EXCEPT ![s].stores[n] = url]
    <3>1. PICK url : server' = [server EXCEPT ![s].stores = [server[s].stores EXCEPT ![n] = url]]
      BY <2>2
    <3>. QED
      BY <3>1 DEF Shape, IsServer
  <2>. QED
    BY <2>1, <2>2 DEF BuildStore
<1>. QED
  BY <1>1, <1>2, <1>3 DEF LogKept

(* What a step does to logging and to the warnings of the process.         *)
LEMMA WhoLogs ==
    ASSUME AuthInv, [Next]_vars
    PROVE  \/ \E s \in Servers : ConfigureLogging(s) \/ WireMiddleware(s)
           \/ Interferes
           \/ LogKept /\ (Quiet \/ \E c, d : Warn(c, d))
<1>. DEFINE Elsewhere == LogKept /\ (Quiet \/ \E c, d : Warn(c, d))
<1>0. Shape
  BY DEF AuthInv
<1>1. CASE UNCHANGED <<server, process, console>>
  BY <1>1 DEF LogKept, Quiet
<1>2. ASSUME NEW s \in Servers, Fails(s), UNCHANGED <<process, console>> PROVE Elsewhere
  BY <1>0, <1>2, FailsQuietly
<1>3. ASSUME NEW s \in Servers, ReadConfig(s) PROVE Elsewhere
  <2>1. CASE Fails(s)
    BY <1>2, <1>3, <2>1 DEF ReadConfig
  <2>2. CASE \E c : server' = [server EXCEPT ![s].stage = "read", ![s].config = c]
    <3>1. \A t \in Servers : server'[t].stage = "logged" => server[t].stage = "logged"
      BY <1>0, <2>2 DEF Shape, IsServer
    <3>. QED
      BY <1>3, <3>1 DEF ReadConfig, LogKept, Quiet
  <2>3. Fails(s) \/ \E c : server' = [server EXCEPT ![s].stage = "read", ![s].config = c]
    BY <1>3 DEF ReadConfig
  <2>. QED
    BY <2>1, <2>2, <2>3
<1>4. ASSUME NEW s \in Servers, BuildAuth(s) PROVE Elsewhere
  <2>. DEFINE provider == BuildProvider(server[s].config, ResolveMode(server[s].config), Deployment(s).discovery)
              stage == IF provider = Failed THEN "failed" ELSE "assembling"
              mode == ResolveMode(server[s].config)
              said == Append(server[s].announced, Announcement(provider))
              modes == [t \in Servers |-> IF t \in Cell(s) THEN mode ELSE process.recorded[t]]
  <2>1. /\ server' = [server EXCEPT ![s].stage = stage, ![s].mode = mode, ![s].provider = provider,
                                    ![s].announced = said]
        /\ process' = [process EXCEPT !.recorded = modes] /\ console' = console /\ stage # "logged"
    BY <1>4 DEF BuildAuth
  <2>. HIDE DEF provider, stage, mode, said, modes
  <2>2. \A t \in Servers : server'[t].stage = "logged" => server[t].stage = "logged"
    BY <1>0, <2>1 DEF Shape, IsServer
  <2>. QED
    BY <1>0, <2>1, <2>2 DEF LogKept, Quiet, Shape, IsProcess
<1>5. ASSUME NEW s \in Servers, ConfigureTasks(s) PROVE Elsewhere
  <2>. DEFINE url == EffectiveTasksUrl(server[s].config, Env(Deployment(s).env.docket_url, None))
              stage == IF Parseable(url) THEN server[s].stage ELSE "failed"
  <2>1. /\ UNCHANGED <<process, console>> /\ stage # "logged"
        /\ \/ Fails(s)
           \/ server' = [server EXCEPT ![s].tasks = NoTasks]
           \/ server' = [server EXCEPT ![s].tasks = url, ![s].stage = stage]
    BY <1>5 DEF ConfigureTasks
  <2>. HIDE DEF url, stage
  <2>2. CASE ~Fails(s)
    <3>1. \A t \in Servers : server'[t].stage = "logged" => server[t].stage = "logged"
      BY <1>0, <2>1, <2>2 DEF Shape, IsServer
    <3>. QED
      BY <2>1, <3>1 DEF LogKept, Quiet
  <2>. QED
    BY <1>2, <2>1, <2>2
<1>6. ASSUME NEW s \in Servers, StartDebugger(s) PROVE Elsewhere
  <2>1. process' = [process EXCEPT !.debugger = TRUE] /\ UNCHANGED <<server, console>>
    BY <1>6 DEF StartDebugger
  <2>. QED
    BY <1>0, <2>1 DEF LogKept, Quiet, Shape, IsProcess
<1>7. ASSUME NEW s \in Servers, NEW n, BuildStore(s, n) PROVE Elsewhere
  BY <1>0, <1>7, BuildStoreWarns
<1>8. ASSUME NEW s \in Servers, Serve(s) PROVE Elsewhere
  <2>1. CASE server' = [server EXCEPT ![s].stage = "serving"]
    <3>1. \A t \in Servers : server'[t].stage = "logged" => server[t].stage = "logged"
      BY <1>0, <2>1 DEF Shape, IsServer
    <3>. QED
      BY <1>8, <3>1 DEF Serve, LogKept, Quiet
  <2>. QED
    BY <1>2, <1>8, <2>1 DEF Serve
<1>9. CASE StartupStep
  BY <1>3, <1>4, <1>5, <1>6, <1>7, <1>9 DEF StartupStep
<1>10. CASE AssemblyStep
  <2>1. \/ UNCHANGED <<server, process, console>>
        \/ \E s \in Servers : Fails(s) /\ UNCHANGED <<process, console>>
    BY <1>10 DEF AssemblyStep, RegisterTool, OwnVisibility, ApplyToolVisibility, Contribute, Finalize, svars
  <2>. QED
    BY <1>1, <1>2, <2>1
<1>11. ASSUME NEW s \in Servers, RegisterHealth(s) \/ RegisterTransfer(s) PROVE Elsewhere
  <2>1. \/ Fails(s) /\ UNCHANGED <<process, console>>
        \/ \E n \in Namespaces : BuildStore(s, n)
    BY <1>11 DEF RegisterHealth, RegisterTransfer, Namespaces
  <2>. QED
    BY <1>2, <1>7, <2>1
<1>12. ProbeLoop => UNCHANGED <<server, process, console>>
  BY DEF ProbeLoop, ProbeAnswers, ProbeTick, CheckTimesOut, avars, svars
<1>13. ASSUME NEW s \in Servers,
             \/ ProbeStarts(s) \/ ProbeCancelled(s)
             \/ \E c \in DOMAIN probe[s].checks, v \in Verdicts : CheckEnds(s, c, v)
      PROVE  UNCHANGED <<server, process, console>>
  BY <1>13 DEF ProbeStarts, ProbeCancelled, CheckEnds, avars, svars
<1>. QED
  BY <1>1, <1>8, <1>9, <1>10, <1>11, <1>12, <1>13 DEF Next, vars, avars, svars

------------------------------------------------------------------------------
(* Warnings. *)

Warnings == {"log_level", "legacy", "fallback"}
Absent(ws, w) == \A i \in DOMAIN ws : ws[i] # w
Once(ws, w)   == \A i, k \in DOMAIN ws : ws[i] = w /\ ws[k] = w => i = k
Told(v, b)    == IF b THEN <<v>> ELSE << >>

(* A one-shot warning is there at most once, and not while its flag is     *)
(* down.                                                                   *)
WarnInv == LET ws == process.warnings IN
    /\ ws \in Seq(Warnings)
    /\ Once(ws, "legacy") /\ (~process.legacy_warned => Absent(ws, "legacy"))
    /\ Once(ws, "fallback") /\ (~process.fallback_warned => Absent(ws, "fallback"))

(* One more warning leaves the count of others, and is the first of its    *)
(* kind if there was none.                                                 *)
LEMMA OneMoreWarning ==
    ASSUME NEW ws \in Seq(Warnings), NEW v \in Warnings, NEW b \in BOOLEAN
    PROVE  /\ ws \o Told(v, b) \in Seq(Warnings)
           /\ \A w : (w # v \/ ~b) => (Absent(ws, w) => Absent(ws \o Told(v, b), w))
           /\ \A w : (w # v \/ ~b) => (Once(ws, w) => Once(ws \o Told(v, b), w))
           /\ Absent(ws, v) => Once(ws \o Told(v, b), v)
<1>1. CASE b
  <2>1. Told(v, b) = <<v>>
    BY <1>1 DEF Told
  <2>. DEFINE out == ws \o <<v>>
  <2>2. /\ out \in Seq(Warnings) /\ Len(out) = Len(ws) + 1 /\ out[Len(ws) + 1] = v
        /\ \A i \in 1 .. Len(ws) : out[i] = ws[i]
    OBVIOUS
  <2>3. DOMAIN ws = 1 .. Len(ws) /\ DOMAIN out = 1 .. Len(ws) + 1 /\ Len(ws) \in Nat
    BY <2>2
  <2>. HIDE DEF out
  <2>4. \A w : w # v => (Absent(ws, w) => Absent(out, w))
    BY <2>2, <2>3 DEF Absent
  <2>5. \A w : w # v => (Once(ws, w) => Once(out, w))
    BY <2>2, <2>3 DEF Once
  <2>6. Absent(ws, v) => Once(out, v)
    BY <2>2, <2>3 DEF Once, Absent
  <2>. QED
    BY <1>1, <2>1, <2>2, <2>4, <2>5, <2>6 DEF out
<1>2. CASE ~b
  <2>1. ws \o Told(v, b) = ws
    BY <1>2 DEF Told
  <2>2. Absent(ws, v) => Once(ws, v)
    BY DEF Absent, Once
  <2>. QED
    BY <2>1, <2>2
<1>. QED
  BY <1>1, <1>2

(* build_kv_store's two warnings. *)
LEMMA WarnStep ==
    ASSUME Shape, WarnInv, NEW c, NEW d, Warn(c, d)
    PROVE  WarnInv'
<1>. DEFINE legacy   == FromLegacy(c) /\ ~process.legacy_warned
            fallback == FellBack(c, d) /\ ~process.fallback_warned
            ws == process.warnings
            mid == ws \o Told("legacy", legacy)
            out == mid \o Told("fallback", fallback)
<1>1. process' = [process EXCEPT !.legacy_warned = process.legacy_warned \/ legacy,
                                 !.fallback_warned = process.fallback_warned \/ fallback,
                                 !.warnings = out]
  BY DEF Warn, Told
<1>2. legacy \in BOOLEAN /\ fallback \in BOOLEAN
  BY DEF FromLegacy, FellBack
<1>3. (~process.legacy_warned => Absent(ws, "legacy")) /\ (legacy => ~process.legacy_warned)
  BY DEF WarnInv
<1>4. (~process.fallback_warned => Absent(ws, "fallback")) /\ (fallback => ~process.fallback_warned)
  BY DEF WarnInv
<1>5. ws \in Seq(Warnings) /\ Once(ws, "legacy") /\ Once(ws, "fallback")
  BY DEF WarnInv
<1>6. /\ process'.warnings = out
      /\ process'.legacy_warned = (process.legacy_warned \/ legacy)
      /\ process'.fallback_warned = (process.fallback_warned \/ fallback)
  <2>. HIDE DEF legacy, fallback, out
  <2>. QED
    BY <1>1 DEF Shape, IsProcess
<1>. HIDE DEF legacy, fallback, ws
<1>7. /\ mid \in Seq(Warnings) /\ Once(mid, "legacy") /\ Once(mid, "fallback")
      /\ ~legacy /\ Absent(ws, "legacy") => Absent(mid, "legacy")
      /\ Absent(ws, "fallback") => Absent(mid, "fallback")
  BY <1>2, <1>3, <1>5, OneMoreWarning DEF Warnings
<1>. HIDE DEF mid
<1>8. /\ out \in Seq(Warnings) /\ Once(out, "legacy") /\ Once(out, "fallback")
      /\ Absent(mid, "legacy") => Absent(out, "legacy")
      /\ ~fallback /\ Absent(mid, "fallback") => Absent(out, "fallback")
  BY <1>2, <1>4, <1>7, OneMoreWarning DEF Warnings
<1>. HIDE DEF out
<1>. QED
  BY <1>3, <1>4, <1>6, <1>7, <1>8 DEF WarnInv

(* Every step keeps the warnings apart. *)
LEMMA WarnInductive == AuthInv /\ WarnInv /\ [Next]_vars => WarnInv'
<1>. SUFFICES ASSUME AuthInv, WarnInv, [Next]_vars PROVE WarnInv'
  OBVIOUS
<1>0. Shape
  BY DEF AuthInv
<1>1. CASE Quiet
  BY <1>1 DEF Quiet, WarnInv
<1>2. ASSUME NEW s \in Servers, ConfigureLogging(s) PROVE WarnInv'
  <2>. DEFINE b == Bridged(Deployment(s).env)
              out == process.warnings \o Told("log_level", b)
  <2>1. process' = [process EXCEPT !.fresh = TRUE, !.warnings = out]
    BY <1>2 DEF ConfigureLogging, Told
  <2>2. b \in BOOLEAN /\ process.warnings \in Seq(Warnings)
    BY DEF Bridged, WarnInv
  <2>3. /\ process'.warnings = out
        /\ process'.legacy_warned = process.legacy_warned
        /\ process'.fallback_warned = process.fallback_warned
    <3>. HIDE DEF out
    <3>. QED
      BY <1>0, <2>1 DEF Shape, IsProcess
  <2>. HIDE DEF b
  <2>4. /\ out \in Seq(Warnings)
        /\ \A w \in {"legacy", "fallback"} : /\ Once(process.warnings, w) => Once(out, w)
                                             /\ Absent(process.warnings, w) => Absent(out, w)
    BY <2>2, OneMoreWarning DEF Warnings
  <2>. HIDE DEF out
  <2>. QED
    BY <2>3, <2>4 DEF WarnInv
<1>3. CASE Interferes
  <2>1. Quiet
    BY <1>0, <1>3 DEF Interferes, Quiet, Shape, IsProcess
  <2>. QED
    BY <1>1, <2>1
<1>4. ASSUME NEW s \in Servers, WireMiddleware(s) PROVE WarnInv'
  BY <1>1, <1>4 DEF WireMiddleware, Quiet
<1>. QED
  BY <1>0, <1>1, <1>2, <1>3, <1>4, WhoLogs, WarnStep

(* No warning has been given at first. *)
LEMMA WarnInit == Init => WarnInv
<1>. SUFFICES ASSUME Init PROVE WarnInv
  OBVIOUS
<1>1. process.warnings = << >>
  BY DEF Init, AInit, SInit
<1>. QED
  BY <1>1 DEF WarnInv, Once, Absent

------------------------------------------------------------------------------
(* State. *)

(* A configuration from the environment says of URLs what the environment  *)
(* does.                                                                   *)
LEMMA UrlsRead ==
    ASSUME NEW d, ReadFrom(d).ok, ~d.by_hand
    PROVE  /\ ReadFrom(d).tasks_url = Env(d.env.tasks_url, None)
           /\ ReadFrom(d).kv_url = Env(d.env.kv_url, None)
           /\ ReadFrom(d).event_url = Env(d.env.event_url, None)
<1>1. ReadFrom(d) = FromEnv(d.env) /\ FromEnv(d.env).ok
  BY DEF ReadFrom
<1>2. FromEnv(d.env) = ServerConfig(d.env, FALSE)
  BY <1>1, AcceptedByFromEnv, Zenon
<1>3. /\ ServerConfig(d.env, FALSE).tasks_url = Env(d.env.tasks_url, None)
      /\ ServerConfig(d.env, FALSE).kv_url = Env(d.env.kv_url, None)
      /\ ServerConfig(d.env, FALSE).event_url = Env(d.env.event_url, None)
  BY DEF ServerConfig, Text
<1>. QED
  BY <1>1, <1>2, <1>3, Zenon

(* Where state is selected to be redis, so is what a task backend derives  *)
(* from the configuration, and the other way round.                        *)
LEMMA DerivedIsHome ==
    ASSUME NEW c, NEW dataDir, NEW extras,
           Truthy(c.kv_url) <=> c.kv_url # None, Truthy(c.event_url) <=> c.event_url # None,
           Backend(SelectedUrl(c, dataDir), extras) # NoBackend
    PROVE  (Truthy(StateUrl(c)) /\ StateUrl(c) = "redis")
             <=> Backend(SelectedUrl(c, dataDir), extras) = "redis"
<1>1. Backend(SelectedUrl(c, dataDir), extras) = SelectedUrl(c, dataDir)
  BY BackendKnown
<1>2. SelectedUrl(c, dataDir) = IF Truthy(StateUrl(c)) THEN StateUrl(c) ELSE DefaultUrl(dataDir)
  BY DEF SelectedUrl, StateUrl, FromLegacy, Truthy, None
<1>3. DefaultUrl(dataDir) # "redis"
  BY DEF DefaultUrl
<1>. QED
  BY <1>1, <1>2, <1>3

(* The URLs of a plan are known, or say nothing. *)
LEMMA PlannedUrls ==
    ASSUME StartInv, NEW s \in Servers, Planned(s)
    PROVE  /\ {Deployment(s).env.kv_url, Deployment(s).env.event_url, Deployment(s).env.tasks_url,
               Deployment(s).env.docket_url} \subseteq Urls \cup {"unset", "empty", "blank"}
           /\ WellTyped(Deployment(s).env)
  BY PlansAssumption DEF StartInv, Planned, Deployment, WellTyped

(* A built server's tasks run where an explicit variable says, else in the *)
(* backend of its stores if Docket can use that.                           *)
LEMMA TasksAgree ==
    ASSUME StartInv, NEW s \in Servers, ~Deployment(s).by_hand, server[s].tasks \notin {None, NoTasks}
    PROVE  LET env == Deployment(s).env IN
           IF Env(env.tasks_url, None) # None THEN server[s].tasks = env.tasks_url
           ELSE IF Env(env.docket_url, None) # None THEN server[s].tasks = env.docket_url
           ELSE \A url \in {server[s].stores[n] : n \in Namespaces} \ {NoStore} :
                   server[s].tasks = IF url = "redis" THEN url ELSE "memory"
<1>. DEFINE c == server[s].config
            d == Deployment(s)
            native == Env(d.env.docket_url, None)
<1>1. /\ c = ReadFrom(d) /\ c.ok /\ Planned(s) /\ TasksUrlAccepted(c)
      /\ server[s].tasks = EffectiveTasksUrl(c, native)
  BY DEF StartInv, Started, TasksOf, ConfigOf
<1>2. /\ c.tasks_url = Env(d.env.tasks_url, None) /\ c.kv_url = Env(d.env.kv_url, None)
      /\ c.event_url = Env(d.env.event_url, None)
  BY <1>1, UrlsRead
<1>3. /\ Truthy(c.tasks_url) <=> c.tasks_url # None
      /\ Truthy(c.kv_url) <=> c.kv_url # None
      /\ Truthy(c.event_url) <=> c.event_url # None
  BY <1>2 DEF Env, Truthy, None
<1>4. /\ c.tasks_url # None => c.tasks_url = d.env.tasks_url
      /\ native # None => native = d.env.docket_url
  BY <1>2 DEF Env
<1>5. \A url \in {server[s].stores[n] : n \in Namespaces} \ {NoStore} : url = HomeOf(s) /\ url # NoBackend
  BY DEF StartInv, Started, StoresOf
<1>6. HomeOf(s) # NoBackend => ((Truthy(StateUrl(c)) /\ StateUrl(c) = "redis") <=> HomeOf(s) = "redis")
  BY <1>3, DerivedIsHome DEF HomeOf
<1>. HIDE DEF c, native
<1>7. /\ Truthy(c.tasks_url) => server[s].tasks = c.tasks_url
      /\ ~Truthy(c.tasks_url) /\ native # None => server[s].tasks = native
      /\ ~Truthy(c.tasks_url) /\ native = None =>
            server[s].tasks = IF Truthy(StateUrl(c)) /\ StateUrl(c) = "redis" THEN "redis" ELSE "memory"
  BY <1>1, TasksRunOn
<1>8. CASE c.tasks_url # None
  BY <1>2, <1>3, <1>4, <1>7, <1>8
<1>9. CASE c.tasks_url = None /\ native # None
  BY <1>2, <1>3, <1>4, <1>7, <1>9 DEF native
<1>10. CASE c.tasks_url = None /\ native = None
  BY <1>2, <1>3, <1>5, <1>6, <1>7, <1>10 DEF native
<1>. QED
  BY <1>8, <1>9, <1>10

(* All stores of a server are in the backend of its configuration, tasks   *)
(* derived from it as well, and each warning of the process is given at    *)
(* most once (build_kv_store, configure_task_backend).                     *)
THEOREM OneHome == Spec => []StoresAgree
<1>1. StartInv /\ WarnInv => StoresAgree
  <2>. SUFFICES ASSUME StartInv, WarnInv PROVE StoresAgree
    OBVIOUS
  <2>1. ASSUME NEW s \in Servers
        PROVE  Cardinality({server[s].stores[n] : n \in Namespaces} \ {NoStore}) <= 1
    <3>. DEFINE built == {server[s].stores[n] : n \in Namespaces} \ {NoStore}
    <3>1. built \subseteq {HomeOf(s)}
      BY DEF StartInv, Started, StoresOf
    <3>2. CASE built = {}
      <4>1. Cardinality({}) = 0
        BY FS_EmptySet
      <4>. QED
        BY <3>2, <4>1
    <3>3. CASE built = {HomeOf(s)}
      <4>1. Cardinality({HomeOf(s)}) = 1
        BY FS_Singleton
      <4>. QED
        BY <3>3, <4>1
    <3>. QED
      BY <3>1, <3>2, <3>3
  <2>2. ASSUME NEW w \in {"legacy", "fallback"}, NEW i \in DOMAIN process.warnings,
               NEW k \in DOMAIN process.warnings, {process.warnings[i], process.warnings[k]} = {w}
        PROVE  i = k
    <3>1. process.warnings[i] = w /\ process.warnings[k] = w
      BY <2>2
    <3>. QED
      BY <3>1 DEF WarnInv, Once
  <2>. QED
    BY <2>1, <2>2, TasksAgree DEF StoresAgree
<1>2. AuthInv /\ StartInv /\ WarnInv /\ [Next]_vars => (AuthInv /\ StartInv /\ WarnInv)'
  BY AuthInductive, StartInductive, WarnInductive
<1>3. Init => AuthInv /\ StartInv /\ WarnInv
  BY AuthInit, StartInit, WarnInit
<1>. QED
  BY <1>1, <1>2, <1>3, PTL DEF Spec

------------------------------------------------------------------------------
(* The console. *)

ConsoleRecord(c) ==
    c \in [root : SUBSET Handlers, level : Levels, stderr : Stderrs, fastmcp : {c.fastmcp},
           fastmcp_level : {c.fastmcp_level}, propagates : BOOLEAN, log_enabled : BOOLEAN,
           access : {c.access}, noisy : {c.noisy}, flood : {c.flood}]

(* Only the stream in place of stderr decides what is a console handler,   *)
(* which handlers a format has and which format there is.                  *)
LEMMA StderrDecides ==
    ASSUME NEW c, NEW d, c.stderr = d.stderr
    PROVE  /\ \A h : IsConsole(c, h) <=> IsConsole(d, h)
           /\ \A h : Survives(c, h) <=> Survives(d, h)
           /\ \A f : Chain(c, f) = Chain(d, f)
           /\ \A e : ResolveFormat(c, e) = ResolveFormat(d, e)
  BY DEF IsConsole, StreamOf, Survives, Chain, ResolveFormat

(* A level and a format are always found. *)
LEMMA Resolved ==
    ASSUME NEW c, NEW e
    PROVE  ResolveLevel(e) \in Levels /\ ResolveFormat(c, e) \in {"rich", "json"}
  BY DEF ResolveLevel, ResolveFormat, LevelNames, LevelOf, Levels

(* What a call of configure_logging_from_env leaves of a console c, at a   *)
(* level and in a format.                                                  *)
Leaves(d, c, level, format) ==
    /\ ConsoleRecord(d) /\ d.stderr = c.stderr /\ d.level = level
    /\ d.root = {h \in c.root : Survives(c, h)} \cup Chain(c, format)
    /\ d.fastmcp = {} /\ d.fastmcp_level = NOTSET /\ d.propagates = TRUE /\ d.log_enabled = FALSE
    /\ d.access = <<[drops |-> level # DEBUG]>>
    /\ d.noisy = (IF level = DEBUG THEN NOTSET ELSE IF level > WARNING THEN level ELSE WARNING)
    /\ d.flood = (IF level = DEBUG THEN INFO ELSE NOTSET)

(* It does so, at the level and in the format it finds. *)
LEMMA AsConfigured ==
    ASSUME NEW c, ConsoleRecord(c), NEW e
    PROVE  Leaves(Configured(c, e), c, ResolveLevel(e), ResolveFormat(c, e))
<1>. DEFINE level == ResolveLevel(e)
            quiet == Neutralise(c)
            format == ResolveFormat(c, e)
            root == {h \in c.root : Survives(c, h)} \cup Chain(c, format)
            noisy == IF level = DEBUG THEN NOTSET ELSE IF level > WARNING THEN level ELSE WARNING
            flood == IF level = DEBUG THEN INFO ELSE NOTSET
            access == <<[drops |-> level # DEBUG]>>
            installed == InstallRootHandlers(quiet, level, format)
<1>1. level \in Levels /\ format \in {"rich", "json"}
  BY Resolved
<1>2. root \subseteq Handlers
  <2>1. \A lets \in Lets, to \in Streams : Owned(to, lets) \in Handlers
    BY DEF Owned, Handlers
  <2>2. c.stderr \in Streams /\ c.root \subseteq Handlers
    BY DEF ConsoleRecord, Stderrs, Streams
  <2>3. Chain(c, format) \subseteq Handlers
    BY <2>1, <2>2 DEF Chain, Lets, Streams
  <2>. QED
    BY <2>2, <2>3
<1>3. /\ quiet = [c EXCEPT !.log_enabled = FALSE, !.fastmcp = {}, !.propagates = TRUE, !.fastmcp_level = NOTSET]
      /\ quiet.stderr = c.stderr /\ quiet.root = c.root
  BY DEF Neutralise, ConsoleRecord
<1>4. installed = [quiet EXCEPT !.root = root, !.level = level]
  <2>0. quiet.stderr = c.stderr /\ quiet.root = c.root
    BY <1>3
  <2>. HIDE DEF quiet, format, level
  <2>1. {h \in quiet.root : Survives(quiet, h)} = {h \in c.root : Survives(c, h)}
    BY <2>0, StderrDecides
  <2>2. Chain(quiet, format) = Chain(c, format)
    BY <2>0, StderrDecides
  <2>. QED
    BY <2>1, <2>2 DEF InstallRootHandlers
<1>5. Configured(c, e) = [installed EXCEPT !.noisy = noisy, !.flood = flood, !.access = access]
  <2>1. ResolveFormat(quiet, e) = format
    <3>1. quiet.stderr = c.stderr
      BY <1>3
    <3>. HIDE DEF quiet
    <3>. QED
      BY <3>1, StderrDecides
  <2>2. Configured(c, e) = ApplyAccessPolicy(QuietThirdParties(installed, level), level)
    BY <2>1 DEF Configured
  <2>. HIDE DEF installed, level
  <2>. QED
    BY <2>2 DEF ApplyAccessPolicy, QuietThirdParties
<1>. HIDE DEF installed, quiet, format, root, noisy, flood, access, level
<1>6. Configured(c, e) =
         [root |-> root, level |-> level, stderr |-> c.stderr, fastmcp |-> {}, fastmcp_level |-> NOTSET,
          propagates |-> TRUE, log_enabled |-> FALSE, access |-> access, noisy |-> noisy, flood |-> flood]
  BY <1>3, <1>4, <1>5 DEF ConsoleRecord
<1>7. c.stderr \in Stderrs
  BY DEF ConsoleRecord
<1>. DEFINE d == Configured(c, e)
<1>8. /\ d.root = root /\ d.level = level /\ d.stderr = c.stderr /\ d.fastmcp = {}
      /\ d.fastmcp_level = NOTSET /\ d.propagates = TRUE /\ d.log_enabled = FALSE /\ d.access = access
      /\ d.noisy = noisy /\ d.flood = flood
  BY <1>6
<1>9. ConsoleRecord(d)
  <2>1. d = [root |-> d.root, level |-> d.level, stderr |-> d.stderr, fastmcp |-> d.fastmcp,
             fastmcp_level |-> d.fastmcp_level, propagates |-> d.propagates, log_enabled |-> d.log_enabled,
             access |-> d.access, noisy |-> d.noisy, flood |-> d.flood]
    BY <1>6, <1>8
  <2>2. /\ d.root \in SUBSET Handlers /\ d.level \in Levels /\ d.stderr \in Stderrs
        /\ d.propagates \in BOOLEAN /\ d.log_enabled \in BOOLEAN
    BY <1>1, <1>2, <1>7, <1>8
  <2>. HIDE DEF d
  <2>. QED
    BY <2>1, <2>2 DEF ConsoleRecord
<1>. HIDE DEF d
<1>. QED
  BY <1>8, <1>9 DEF Leaves, root, noisy, flood, access, d, level, format

(* The handlers on the console, and those that write elsewhere.            *)
OnConsole(c) == {h \in c.root : h.owned \/ IsConsole(c, h)}
Elsewhere(c) == {h \in c.root : h.to = "elsewhere"}

(* While it is fresh, the console has the handlers of one format, FastMCP  *)
(* has none of its own, and a server that has just called has its          *)
(* settings.                                                               *)
FreshConsole ==
    /\ console.fastmcp = {} /\ console.fastmcp_level = NOTSET /\ console.propagates /\ ~console.log_enabled
    /\ console.access = <<[drops |-> console.level # DEBUG]>>
    /\ \E format \in {"rich", "json"} : OnConsole(console) = Chain(console, format)
    /\ \A s \in Servers : server[s].stage = "logged" =>
           LET anew == Configured([Pristine EXCEPT !.stderr = console.stderr], Deployment(s).env) IN
           /\ console.access = anew.access /\ console.level = anew.level
           /\ console.noisy = anew.noisy /\ console.flood = anew.flood
           /\ {h \in console.root : h.owned} = anew.root

(* Others' handlers are told apart by their numbers, and none is lost.     *)
OthersThere ==
    /\ \A h \in console.root : IF h.owned THEN h.to # "elsewhere" ELSE h.nr <= process.foreign
    /\ IsFiniteSet(Elsewhere(console)) /\ Cardinality(Elsewhere(console)) = process.elsewhere
ConsoleInv == /\ ConsoleRecord(console)
              /\ process.foreign \in 0 .. plan.foreign
              /\ process.fresh \in BOOLEAN /\ (process.fresh => FreshConsole)
              /\ OthersThere

(* The chain of a format writes to where stderr is looked up, and is of    *)
(* the library's own handlers.                                             *)
LEMMA ChainOwned ==
    ASSUME NEW c, c.stderr \in Stderrs, NEW f, NEW h \in Chain(c, f)
    PROVE  h.owned = TRUE /\ h.to # "elsewhere"
  BY DEF Chain, Owned, Stderrs

(* A handler that survives a call is another's.                            *)
LEMMA ElsewhereSurvives ==
    ASSUME NEW c, c.stderr \in Stderrs, NEW h, h.to = "elsewhere"
    PROVE  ~IsConsole(c, h)
  BY DEF IsConsole, StreamOf, Stderrs

(* configure_logging_from_env leaves a fresh console. *)
LEMMA ConfiguresConsole ==
    ASSUME Shape, StartInv, ConsoleInv, NEW s \in Servers, ConfigureLogging(s)
    PROVE  ConsoleInv'
<1>. DEFINE e == Deployment(s).env
            format == ResolveFormat(console, e)
            level == ResolveLevel(e)
            chain == Chain(console, format)
            stays == {h \in console.root : Survives(console, h)}
<1>1. /\ plan' = plan /\ console' = Configured(console, e)
      /\ server' = [server EXCEPT ![s].stage = "logged"]
      /\ \A t \in Servers : server[t].stage # "logged"
  BY DEF ConfigureLogging, Building
<1>2. process'.fresh = TRUE /\ process'.foreign = process.foreign /\ process'.elsewhere = process.elsewhere
  BY DEF ConfigureLogging, Shape, IsProcess
<1>3. ConsoleRecord(console) /\ console.stderr \in Stderrs
  BY DEF ConsoleInv, ConsoleRecord
<1>4. /\ ConsoleRecord(console') /\ console'.stderr = console.stderr /\ console'.level = level
      /\ console'.root = stays \cup chain
      /\ console'.fastmcp = {} /\ console'.fastmcp_level = NOTSET
      /\ console'.propagates = TRUE /\ console'.log_enabled = FALSE
      /\ console'.access = <<[drops |-> level # DEBUG]>>
      /\ console'.noisy = (IF level = DEBUG THEN NOTSET ELSE IF level > WARNING THEN level ELSE WARNING)
      /\ console'.flood = (IF level = DEBUG THEN INFO ELSE NOTSET)
  <2>1. Leaves(console', console, level, format)
    BY <1>1, <1>3, AsConfigured
  <2>. HIDE DEF level, format
  <2>. QED
    BY <2>1 DEF Leaves
<1>. HIDE DEF format, level, chain, e
<1>5. /\ \A h \in stays : ~h.owned /\ ~IsConsole(console', h)
      /\ \A h \in chain : h.owned = TRUE /\ h.to # "elsewhere"
  <2>1. \A h \in stays : ~h.owned /\ ~IsConsole(console', h)
    BY <1>4, StderrDecides DEF Survives
  <2>2. \A h \in chain : h.owned = TRUE /\ h.to # "elsewhere"
    BY <1>3, ChainOwned DEF chain
  <2>. QED
    BY <2>1, <2>2
<1>6. /\ OnConsole(console') = chain /\ {h \in console'.root : h.owned} = chain
  BY <1>4, <1>5 DEF OnConsole
<1>7. Elsewhere(console') = Elsewhere(console)
  <2>1. \A h \in console.root : h.to = "elsewhere" => h \in stays
    BY <1>3, ElsewhereSurvives DEF ConsoleInv, OthersThere, Survives
  <2>. QED
    BY <1>4, <1>5, <2>1 DEF Elsewhere
<1>8. OthersThere'
  <2>1. \A h \in console'.root : IF h.owned THEN h.to # "elsewhere" ELSE h.nr <= process'.foreign
    BY <1>2, <1>4, <1>5 DEF ConsoleInv, OthersThere
  <2>. QED
    BY <1>2, <1>7, <2>1 DEF ConsoleInv, OthersThere
<1>9. ASSUME NEW t \in Servers, server'[t].stage = "logged"
      PROVE  LET anew == Configured([Pristine EXCEPT !.stderr = console'.stderr], Deployment(t)'.env) IN
             /\ console'.access = anew.access /\ console'.level = anew.level
             /\ console'.noisy = anew.noisy /\ console'.flood = anew.flood
             /\ {h \in console'.root : h.owned} = anew.root
  <2>1. t = s
    BY <1>1, <1>9 DEF Shape
  <2>2. Deployment(t)'.env = e
    BY <1>1, <2>1 DEF Deployment, e
  <2>. DEFINE clean == [Pristine EXCEPT !.stderr = console'.stderr]
  <2>3. ConsoleRecord(clean) /\ clean.stderr = console.stderr /\ clean.root = {}
    BY <1>3, <1>4 DEF ConsoleRecord, Pristine, Levels
  <2>. HIDE DEF clean
  <2>4. /\ ResolveFormat(clean, e) = format
        /\ Chain(clean, format) = chain
    BY <2>3, StderrDecides DEF format, chain
  <2>7. Leaves(Configured(clean, e), clean, level, format)
    BY <2>3, <2>4, AsConfigured DEF level
  <2>5. Configured(clean, e).root = chain
    BY <2>3, <2>4, <2>7 DEF Leaves
  <2>6. /\ Configured(clean, e).access = <<[drops |-> level # DEBUG]>>
        /\ Configured(clean, e).level = level
        /\ Configured(clean, e).noisy = (IF level = DEBUG THEN NOTSET ELSE IF level > WARNING THEN level ELSE WARNING)
        /\ Configured(clean, e).flood = (IF level = DEBUG THEN INFO ELSE NOTSET)
    BY <2>7 DEF Leaves
  <2>. QED
    BY <1>4, <1>6, <2>2, <2>5, <2>6 DEF clean
<1>10. FreshConsole'
  <2>1. \E f \in {"rich", "json"} : OnConsole(console') = Chain(console', f)
    <3>1. Chain(console', format) = chain
      BY <1>4, StderrDecides DEF chain
    <3>. QED
      BY <1>6, <3>1, Resolved DEF format
  <2>. QED
    BY <1>4, <1>9, <2>1 DEF FreshConsole
<1>. QED
  BY <1>1, <1>2, <1>4, <1>8, <1>10 DEF ConsoleInv

(* Others add handlers, which are new, or put another stream in place of   *)
(* stderr.                                                                 *)
LEMMA InterferesConsole ==
    ASSUME Shape, StartInv, ConsoleInv, Interferes
    PROVE  ConsoleInv'
<1>0. /\ ConsoleRecord(console) /\ plan' = plan /\ server' = server
      /\ process.foreign \in 0 .. plan.foreign /\ process.foreign < plan.foreign
      /\ plan.foreign \in Nat /\ process.fresh \in BOOLEAN
  BY PlansAssumption DEF ConsoleInv, Interferes, StartInv
<1>1. ASSUME NEW stream \in {"stdout", "live", "elsewhere"},
             console' = [console EXCEPT !.root = @ \cup {Foreign(stream, process.foreign + 1)}],
             process' = [process EXCEPT !.foreign = @ + 1, !.fresh = @ /\ stream = "elsewhere",
                                        !.elsewhere = @ + (IF stream = "elsewhere" THEN 1 ELSE 0)]
      PROVE  ConsoleInv'
  <2>. DEFINE new == Foreign(stream, process.foreign + 1)
              more == IF stream = "elsewhere" THEN 1 ELSE 0
  <2>1. /\ new.owned = FALSE /\ new.to = stream /\ new.nr = process.foreign + 1 /\ new \in Handlers
    BY <1>0 DEF Foreign, Handlers, Streams, Lets
  <2>2. /\ process'.foreign = process.foreign + 1 /\ process'.elsewhere = process.elsewhere + more
        /\ process'.fresh = (process.fresh /\ stream = "elsewhere")
    <3>. HIDE DEF new, more
    <3>. QED
      BY <1>1 DEF Shape, IsProcess, more
  <2>. HIDE DEF new
  <2>3. /\ console'.root = console.root \cup {new} /\ console'.stderr = console.stderr
        /\ console'.level = console.level /\ console'.fastmcp = console.fastmcp
        /\ console'.fastmcp_level = console.fastmcp_level
        /\ console'.propagates = console.propagates /\ console'.log_enabled = console.log_enabled
        /\ console'.access = console.access /\ console'.noisy = console.noisy
        /\ console'.flood = console.flood
    BY <1>0, <1>1 DEF ConsoleRecord, new
  <2>4. ConsoleRecord(console')
    BY <1>0, <1>1, <2>1 DEF ConsoleRecord, new
  <2>5. \A h \in console.root : ~h.owned => h.nr <= process.foreign
    BY DEF ConsoleInv, OthersThere
  <2>6. new \notin console.root
    BY <1>0, <2>1, <2>5
  <2>7. OthersThere'
    <3>1. \A h \in console'.root : IF h.owned THEN h.to # "elsewhere" ELSE h.nr <= process'.foreign
      <4>1. \A h \in console.root : ~h.owned => h.nr <= process.foreign + 1
        BY <1>0, <2>5 DEF ConsoleRecord, Handlers
      <4>. QED
        BY <1>0, <2>1, <2>2, <2>3, <4>1 DEF ConsoleInv, OthersThere
    <3>2. IsFiniteSet(Elsewhere(console)) /\ Cardinality(Elsewhere(console)) = process.elsewhere
      BY DEF ConsoleInv, OthersThere
    <3>3. CASE stream = "elsewhere"
      <4>1. Elsewhere(console') = Elsewhere(console) \cup {new} /\ new \notin Elsewhere(console)
        BY <2>1, <2>3, <2>6, <3>3 DEF Elsewhere
      <4>2. IsFiniteSet(Elsewhere(console')) /\ Cardinality(Elsewhere(console')) = process.elsewhere + 1
        BY <3>2, <4>1, FS_AddElement
      <4>. QED
        BY <2>2, <3>1, <3>3, <4>2 DEF OthersThere
    <3>4. CASE stream # "elsewhere"
      <4>1. Elsewhere(console') = Elsewhere(console)
        BY <2>1, <2>3, <3>4 DEF Elsewhere
      <4>2. process.elsewhere + 0 = process.elsewhere
        BY <3>2, FS_CardinalityType
      <4>. QED
        BY <2>2, <3>1, <3>2, <3>4, <4>1, <4>2 DEF OthersThere
    <3>. QED
      BY <3>3, <3>4
  <2>8. ASSUME process'.fresh PROVE FreshConsole'
    <3>1. process.fresh /\ stream = "elsewhere" /\ FreshConsole
      BY <2>2, <2>8 DEF ConsoleInv
    <3>2. ~IsConsole(console', new) /\ \A h : IsConsole(console', h) <=> IsConsole(console, h)
      BY <1>0, <2>1, <2>3, <3>1, ElsewhereSurvives, StderrDecides DEF ConsoleRecord
    <3>3. OnConsole(console') = OnConsole(console) /\ \A f : Chain(console', f) = Chain(console, f)
      BY <2>1, <2>3, <3>2, StderrDecides DEF OnConsole
    <3>4. {h \in console'.root : h.owned} = {h \in console.root : h.owned}
      BY <2>1, <2>3
    <3>5. \A s \in Servers : Deployment(s)' = Deployment(s) /\ server'[s] = server[s]
      BY <1>0 DEF Deployment
    <3>. QED
      BY <2>3, <3>1, <3>3, <3>4, <3>5 DEF FreshConsole
  <2>. QED
    BY <1>0, <2>2, <2>4, <2>7, <2>8 DEF ConsoleInv
<1>2. ASSUME NEW stream \in Stderrs, console' = [console EXCEPT !.stderr = stream],
             process' = [process EXCEPT !.foreign = @ + 1, !.fresh = FALSE]
      PROVE  ConsoleInv'
  <2>1. /\ process'.foreign = process.foreign + 1 /\ process'.elsewhere = process.elsewhere
        /\ process'.fresh = FALSE
    BY <1>2 DEF Shape, IsProcess
  <2>2. ConsoleRecord(console') /\ console'.root = console.root
    BY <1>0, <1>2 DEF ConsoleRecord
  <2>3. \A h \in console.root : h.nr <= process.foreign => h.nr <= process.foreign + 1
    BY <1>0 DEF ConsoleRecord, Handlers
  <2>4. OthersThere'
    <3>1. \A h \in console'.root : IF h.owned THEN h.to # "elsewhere" ELSE h.nr <= process'.foreign
      BY <2>1, <2>2, <2>3 DEF ConsoleInv, OthersThere
    <3>2. Elsewhere(console') = Elsewhere(console)
      BY <2>2 DEF Elsewhere
    <3>. QED
      BY <2>1, <3>1, <3>2 DEF ConsoleInv, OthersThere
  <2>5. process'.foreign \in 0 .. plan.foreign
    BY <1>0, <2>1
  <2>6. ~process'.fresh
    BY <2>1
  <2>7. plan'.foreign = plan.foreign /\ process'.fresh \in BOOLEAN
    BY <1>0, <2>1
  <2>. QED
    BY <2>2, <2>4, <2>5, <2>6, <2>7 DEF ConsoleInv
<1>. QED
  BY <1>1, <1>2 DEF Interferes

(* FastMCP does not configure a logging that it is told to leave.          *)
LEMMA WireMiddlewareConsole ==
    ASSUME Shape, ConsoleInv, NEW s \in Servers, WireMiddleware(s)
    PROVE  ConsoleInv'
<1>1. /\ plan' = plan /\ process' = process /\ console' = FastmcpConfigures(console)
      /\ ConsoleRecord(console)
      /\ \A t \in Servers : server'[t].stage = server[t].stage
  <2>1. PICK x : server' = [server EXCEPT ![s].traceback = x]
    BY DEF WireMiddleware
  <2>2. \A t \in Servers : server'[t].stage = server[t].stage
    BY <2>1 DEF Shape, IsServer
  <2>. QED
    BY <2>2 DEF WireMiddleware, ConsoleInv
<1>2. CASE console.log_enabled
  <2>1. console' = [console EXCEPT !.fastmcp = {Foreign("live", 0)}, !.propagates = FALSE, !.fastmcp_level = INFO]
    BY <1>1, <1>2 DEF FastmcpConfigures
  <2>2. ConsoleRecord(console') /\ console'.root = console.root
    BY <1>1, <2>1 DEF ConsoleRecord
  <2>3. ~process.fresh
    BY <1>2 DEF ConsoleInv, FreshConsole
  <2>. QED
    BY <1>1, <2>2, <2>3 DEF ConsoleInv, OthersThere, Elsewhere
<1>3. CASE ~console.log_enabled
  <2>1. console' = console
    BY <1>1, <1>3 DEF FastmcpConfigures
  <2>2. FreshConsole => FreshConsole'
    BY <1>1, <2>1 DEF FreshConsole, Deployment
  <2>. QED
    BY <1>1, <2>1, <2>2 DEF ConsoleInv, OthersThere
<1>. QED
  BY <1>2, <1>3

(* Every step keeps the console. *)
LEMMA ConsoleInductive == AuthInv /\ StartInv /\ ConsoleInv /\ [Next]_vars => ConsoleInv'
<1>. SUFFICES ASSUME AuthInv, StartInv, ConsoleInv, [Next]_vars PROVE ConsoleInv'
  OBVIOUS
<1>0. Shape /\ plan' = plan
  BY PlanStays DEF AuthInv
<1>1. CASE LogKept
  <2>1. FreshConsole => FreshConsole'
    BY <1>0, <1>1 DEF LogKept, FreshConsole, Deployment
  <2>2. OthersThere'
    BY <1>1 DEF LogKept, ConsoleInv, OthersThere
  <2>. QED
    BY <1>0, <1>1, <2>1, <2>2 DEF ConsoleInv, LogKept
<1>. QED
  BY <1>0, <1>1, WhoLogs, ConfiguresConsole, InterferesConsole, WireMiddlewareConsole

(* Before anybody configures it, FastMCP has.                              *)
LEMMA ConsoleInit == Init => ConsoleInv
<1>. SUFFICES ASSUME Init PROVE ConsoleInv
  OBVIOUS
<1>1. console = Pristine /\ process.fresh = FALSE /\ process.foreign = 0 /\ process.elsewhere = 0
  BY DEF Init, AInit, SInit
<1>2. plan.foreign \in Nat
  BY PlansAssumption DEF Init, AInit, SInit
<1>3. ConsoleRecord(console) /\ console.root = {}
  <2>1. Pristine.root = {}
    BY DEF Pristine
  <2>2. ConsoleRecord(Pristine)
    BY DEF ConsoleRecord, Pristine, Stderrs, Levels
  <2>. QED
    BY <1>1, <2>1, <2>2
<1>4. Elsewhere(console) = {}
  BY <1>3 DEF Elsewhere
<1>5. IsFiniteSet({}) /\ Cardinality({}) = 0
  BY FS_EmptySet
<1>6. OthersThere
  BY <1>1, <1>3, <1>4, <1>5 DEF OthersThere
<1>7. process.foreign \in 0 .. plan.foreign
  BY <1>1, <1>2
<1>8. ~process.fresh /\ process.fresh \in BOOLEAN
  BY <1>1
<1>. QED
  BY <1>3, <1>6, <1>7, <1>8 DEF ConsoleInv

(* The handlers of a format that let a record through are one.             *)
LEMMA ChainShowsOnce ==
    ASSUME NEW c, NEW f \in {"rich", "json"}, NEW kind \in {"plain", "tracebacks"}
    PROVE  Cardinality({h \in Chain(c, f) : h.lets \in {"all", kind}}) = 1
<1>. DEFINE shown == {h \in Chain(c, f) : h.lets \in {"all", kind}}
<1>1. CASE f = "json"
  <2>1. shown = {Owned(c.stderr, "all")}
    BY <1>1 DEF Chain, Owned
  <2>. QED
    BY <2>1, FS_Singleton
<1>2. CASE f = "rich"
  <2>1. Chain(c, f) = {Owned("live", "plain"), Owned("live", "tracebacks")}
    BY <1>2 DEF Chain
  <2>2. Owned("live", "plain").lets = "plain" /\ Owned("live", "tracebacks").lets = "tracebacks"
    BY DEF Owned
  <2>3. shown = {Owned("live", kind)}
    BY <2>1, <2>2
  <2>. QED
    BY <2>3, FS_Singleton
<1>. QED
  BY <1>1, <1>2

(* The handlers of a format write to stderr, which is the console unless   *)
(* it is gone.                                                             *)
LEMMA ChainStream ==
    ASSUME NEW c, NEW f, NEW h \in Chain(c, f)
    PROVE  StreamOf(c, h) = c.stderr /\ (IsConsole(c, h) <=> c.stderr # "gone")
  BY DEF Chain, Owned, StreamOf, IsConsole

(* Until somebody adds a handler to it or exchanges stderr, every record   *)
(* reaches the console exactly once, if there is one, FastMCP's own from   *)
(* the same level on; a failed request has its line, handlers elsewhere    *)
(* are all still there and nothing is left of what earlier calls have set  *)
(* (configure_logging_from_env's three invariants).                        *)
THEOREM OneLine == Spec => []ConsoleOnce
<1>1. ConsoleInv => ConsoleOnce
  <2>. SUFFICES ASSUME ConsoleInv PROVE ConsoleOnce
    OBVIOUS
  <2>1. ASSUME process.fresh, NEW traceback \in BOOLEAN
        PROVE  LET once == IF console.stderr \in Nowhere THEN 0 ELSE 1 IN
               /\ Rendered(console, traceback) = once
               /\ RenderedFastmcp(console, traceback) = once
               /\ FastmcpLevel(console) = console.level
               /\ ShowsAccess(console, 401) <=> console.level <= INFO
               /\ ShowsAccess(console, 200) <=> console.level = DEBUG
    <3>. DEFINE kind == IF traceback THEN "tracebacks" ELSE "plain"
    <3>1. FreshConsole
      BY <2>1 DEF ConsoleInv
    <3>2. PICK f \in {"rich", "json"} : OnConsole(console) = Chain(console, f)
      BY <3>1 DEF FreshConsole
    <3>. DEFINE once == IF console.stderr \in Nowhere THEN 0 ELSE 1
    <3>3. Lines(console, console.root, traceback) =
             IF console.stderr \in Nowhere THEN {} ELSE {h \in Chain(console, f) : h.lets \in {"all", kind}}
      <4>1. \A h \in Chain(console, f) :
               StreamOf(console, h) = console.stderr /\ (IsConsole(console, h) <=> console.stderr # "gone")
        BY ChainStream
      <4>2. \A h \in console.root : IsConsole(console, h) => h \in Chain(console, f)
        BY <3>2 DEF OnConsole
      <4>3. Chain(console, f) \subseteq console.root
        BY <3>2 DEF OnConsole
      <4>. QED
        BY <4>1, <4>2, <4>3 DEF Lines, Nowhere
    <3>4. kind \in {"plain", "tracebacks"}
      OBVIOUS
    <3>. HIDE DEF kind
    <3>5. Rendered(console, traceback) = once
      <4>1. Cardinality({}) = 0
        BY FS_EmptySet
      <4>. QED
        BY <3>3, <3>4, <4>1, ChainShowsOnce DEF Rendered
    <3>. HIDE DEF once
    <3>6. RenderedFastmcp(console, traceback) = once
      <4>1. Lines(console, console.fastmcp, traceback) = {}
        BY <3>1 DEF Lines, FreshConsole
      <4>2. Cardinality({}) = 0
        BY FS_EmptySet
      <4>3. console.propagates
        BY <3>1 DEF FreshConsole
      <4>4. once \in {0, 1}
        BY DEF once
      <4>. QED
        BY <3>5, <4>1, <4>2, <4>3, <4>4 DEF RenderedFastmcp
    <3>7. /\ DOMAIN console.access = {1} /\ (console.access[1].drops <=> console.level # DEBUG)
          /\ console.level \in Levels
      <4>. DEFINE filter == [drops |-> console.level # DEBUG]
      <4>1. console.access = <<filter>>
        BY <3>1 DEF FreshConsole
      <4>2. filter.drops <=> console.level # DEBUG
        OBVIOUS
      <4>. HIDE DEF filter
      <4>3. DOMAIN console.access = {1} /\ console.access[1] = filter
        BY <4>1
      <4>. QED
        BY <4>2, <4>3 DEF ConsoleInv, ConsoleRecord
    <3>8. ShowsAccess(console, 401) <=> console.level <= INFO
      BY <3>7 DEF ShowsAccess
    <3>9. ShowsAccess(console, 200) <=> console.level = DEBUG
      BY <3>7 DEF ShowsAccess, DEBUG, INFO, WARNING, ERROR, CRITICAL, Levels
    <3>10. FastmcpLevel(console) = console.level
      BY <3>1 DEF FastmcpLevel, FreshConsole
    <3>. QED
      BY <3>5, <3>6, <3>8, <3>9, <3>10 DEF once
  <2>2. Cardinality({h \in console.root : h.to = "elsewhere"}) = process.elsewhere
    BY DEF ConsoleInv, OthersThere, Elsewhere
  <2>. QED
    BY <2>1, <2>2 DEF ConsoleOnce, ConsoleInv, FreshConsole
<1>2. Init => AuthInv /\ StartInv /\ ConsoleInv
  BY AuthInit, StartInit, ConsoleInit
<1>3. AuthInv /\ StartInv /\ ConsoleInv /\ [Next]_vars => (AuthInv /\ StartInv /\ ConsoleInv)'
  BY AuthInductive, StartInductive, ConsoleInductive
<1>. QED
  BY <1>1, <1>2, <1>3, PTL DEF Spec

------------------------------------------------------------------------------
(* Types. *)

(* A server's tasks run on a URL that is known. *)
LEMMA TasksTyped ==
    ASSUME StartInv, NEW s \in Servers
    PROVE  server[s].tasks \in Urls \cup {None, NoTasks}
<1>. DEFINE c == server[s].config
            native == Env(Deployment(s).env.docket_url, None)
<1>1. CASE server[s].tasks \notin {None, NoTasks}
  <2>1. Planned(s) /\ TasksUrlAccepted(c) /\ server[s].tasks = EffectiveTasksUrl(c, native)
    BY <1>1 DEF StartInv, Started, TasksOf, ConfigOf
  <2>2. native \in Urls \cup {None}
    BY <2>1, PlannedUrls, TextRead
  <2>. HIDE DEF c, native
  <2>3. /\ Truthy(c.tasks_url) => server[s].tasks \in {"memory", "redis"}
        /\ ~Truthy(c.tasks_url) /\ native # None => server[s].tasks = native
        /\ ~Truthy(c.tasks_url) /\ native = None => server[s].tasks \in {"memory", "redis"}
    BY <2>1, TasksRunOn
  <2>. QED
    BY <2>2, <2>3 DEF Urls
<1>. QED
  BY <1>1

(* Stages, configurations, stores and the console are what their code can  *)
(* make of them: a configuration that is accepted has its numbers in range *)
(* and, unless it is built by hand, at most one tool list.                 *)
THEOREM StartupTypes == Spec => []STypeOK
<1>1. AuthInv /\ StartInv /\ ConsoleInv => STypeOK
  <2>. SUFFICES ASSUME AuthInv, StartInv, ConsoleInv PROVE STypeOK
    OBVIOUS
  <2>1. ASSUME NEW s \in Servers, server[s].config.ok
        PROVE  LET c == server[s].config IN
               /\ c.transport \in {"stdio", "http", "sse"} /\ {c.allow, c.deny} \subseteq SUBSET Tools
               /\ \/ Deployment(s).by_hand
                  \/ c.port \in 1 .. MaxPort /\ c.shutdown_grace_s \in Nat /\ {} \in {c.allow, c.deny}
    <3>1. Rejected.ok = FALSE
      BY DEF Rejected
    <3>2. Planned(s) /\ server[s].config = ReadFrom(Deployment(s))
      BY <2>1, <3>1 DEF StartInv, Started, ConfigOf, HasRead
    <3>3. WellFormed(server[s].config, Deployment(s).by_hand)
      BY <2>1, <3>2, PlannedUrls, AcceptedConfig
    <3>. QED
      BY <3>3 DEF WellFormed
  <2>2. ASSUME NEW s \in Servers, NEW n \in Namespaces PROVE server[s].stores[n] \in Urls \cup {NoStore}
    <3>1. server[s].stores[n] \in {NoStore, HomeOf(s)} \ {NoBackend}
      BY DEF StartInv, Started, StoresOf
    <3>2. HomeOf(s) # NoBackend => HomeOf(s) \in Urls
      BY BackendKnown DEF HomeOf, Urls
    <3>. QED
      BY <3>1, <3>2
  <2>3. ASSUME NEW s \in Servers
        PROVE  server[s].stage \in Stages /\ server[s].mode \in Modes \cup {None}
    BY DEF AuthInv, Shape, StartInv, Started
  <2>4. /\ console.root \subseteq Handlers /\ console.level \in Levels
        /\ process.foreign \in 0 .. plan.foreign
    BY DEF ConsoleInv, ConsoleRecord
  <2>. QED
    BY <2>1, <2>2, <2>3, <2>4, TasksTyped DEF STypeOK
<1>2. Init => AuthInv /\ StartInv /\ ConsoleInv
  BY AuthInit, StartInit, ConsoleInit
<1>3. AuthInv /\ StartInv /\ ConsoleInv /\ [Next]_vars => (AuthInv /\ StartInv /\ ConsoleInv)'
  BY AuthInductive, StartInductive, ConsoleInductive
<1>. QED
  BY <1>1, <1>2, <1>3, PTL DEF Spec

------------------------------------------------------------------------------
(* Snippets in order. *)

Below(S, x) == {y \in S : Before(y, x)}
Ranked(S) ==
    /\ \A x, y \in S : x = y \/ Before(x, y) \/ Before(y, x)
    /\ \A x, y \in S : ~(Before(x, y) /\ Before(y, x))
    /\ \A x, y, z \in S : Before(x, y) /\ Before(y, z) => Before(x, z)

(* Of two elements the one that comes before has fewer before it.          *)
LEMMA FewerBelow ==
    ASSUME NEW S, IsFiniteSet(S), Ranked(S), NEW x \in S
    PROVE  /\ Cardinality(Below(S, x)) \in 0 .. Cardinality(S) - 1
           /\ \A y \in S : Before(y, x) => Cardinality(Below(S, y)) < Cardinality(Below(S, x))
<1>0. Cardinality(S) \in Nat
  BY FS_CardinalityType
<1>1. ASSUME NEW y \in S
      PROVE  /\ IsFiniteSet(Below(S, y)) /\ Cardinality(Below(S, y)) \in Nat /\ y \notin Below(S, y)
             /\ Below(S, y) \in SUBSET S
  <2>1. Below(S, y) \in SUBSET S /\ y \notin Below(S, y)
    BY DEF Below, Ranked
  <2>. QED
    BY <2>1, FS_Subset, FS_CardinalityType
<1>2. Cardinality(Below(S, x)) <= Cardinality(S) /\ Cardinality(Below(S, x)) # Cardinality(S)
  BY <1>1, FS_Subset
<1>3. ASSUME NEW y \in S, Before(y, x)
      PROVE  Cardinality(Below(S, y)) < Cardinality(Below(S, x))
  <2>1. Below(S, y) \in SUBSET Below(S, x) /\ y \in Below(S, x)
    BY <1>3 DEF Below, Ranked
  <2>2. /\ Cardinality(Below(S, y)) <= Cardinality(Below(S, x))
        /\ Cardinality(Below(S, y)) # Cardinality(Below(S, x))
    BY <1>1, <2>1, FS_Subset
  <2>. QED
    BY <1>1, <2>2
<1>. QED
  BY <1>0, <1>1, <1>2, <1>3

(* Sorted lists each element of a ranked set once, in its order            *)
(* (_retained).                                                            *)
LEMMA SortedLists ==
    ASSUME NEW S, IsFiniteSet(S), Ranked(S)
    PROVE  /\ DOMAIN Sorted(S) = 1 .. Cardinality(S) /\ Cardinality(S) \in Nat
           /\ \A i \in DOMAIN Sorted(S) : Sorted(S)[i] \in S
           /\ \A x \in S : \E i \in DOMAIN Sorted(S) : Sorted(S)[i] = x
           /\ \A i, k \in DOMAIN Sorted(S) : i < k => Before(Sorted(S)[i], Sorted(S)[k])
<1>. DEFINE n == Cardinality(S)
            places == 0 .. n - 1
            place == [x \in S |-> Cardinality(Below(S, x))]
<1>0. n \in Nat /\ DOMAIN Sorted(S) = 1 .. n
  BY FS_CardinalityType DEF Sorted
<1>1. ASSUME NEW x \in S PROVE place[x] \in places
  BY FewerBelow
<1>2. ASSUME NEW x \in S, NEW y \in S, Before(x, y) PROVE place[x] < place[y]
  BY <1>2, FewerBelow
<1>3. place \in Injection(S, places)
  <2>1. ASSUME NEW x \in S, NEW y \in S, place[x] = place[y] PROVE x = y
    <3>. HIDE DEF place
    <3>. QED
      BY <1>0, <1>1, <1>2, <2>1 DEF Ranked
  <2>. QED
    BY <1>1, <2>1 DEF Injection, IsInjective
<1>4. IsFiniteSet(places) /\ Cardinality(places) = n
  <2>. HIDE DEF n
  <2>1. 0 \in Int /\ n - 1 \in Int /\ (IF 0 > n - 1 THEN 0 ELSE n - 1 - 0 + 1) = n
    BY <1>0
  <2>. QED
    BY <2>1, FS_Interval
<1>5. place \in Surjection(S, places)
  BY <1>3, <1>4, FS_Injection
<1>6. ASSUME NEW i \in 1 .. n
      PROVE  Sorted(S)[i] \in S /\ place[Sorted(S)[i]] = i - 1
  <2>1. i - 1 \in places
    BY <1>0
  <2>2. PICK x \in S : place[x] = i - 1
    BY <1>5, <2>1 DEF Surjection
  <2>3. Sorted(S)[i] = CHOOSE z \in S : Cardinality(Below(S, z)) = i - 1
    BY DEF Sorted, Below
  <2>. QED
    BY <2>2, <2>3
<1>. HIDE DEF place
<1>7. ASSUME NEW x \in S PROVE \E i \in 1 .. n : Sorted(S)[i] = x
  <2>1. PICK i \in 1 .. n : i - 1 = place[x]
    <3>1. place[x] + 1 \in 1 .. n /\ (place[x] + 1) - 1 = place[x]
      BY <1>0, <1>1
    <3>. QED
      BY <3>1
  <2>2. Sorted(S)[i] \in S /\ place[Sorted(S)[i]] = place[x]
    BY <1>6, <2>1
  <2>3. Sorted(S)[i] = x
    BY <1>0, <1>1, <1>2, <2>2 DEF Ranked
  <2>. QED
    BY <2>1, <2>3
<1>8. ASSUME NEW i \in 1 .. n, NEW k \in 1 .. n, i < k
      PROVE  Before(Sorted(S)[i], Sorted(S)[k])
  <2>1. place[Sorted(S)[i]] < place[Sorted(S)[k]]
    BY <1>0, <1>6, <1>8
  <2>2. ~Before(Sorted(S)[k], Sorted(S)[i]) /\ Sorted(S)[i] # Sorted(S)[k]
    BY <1>0, <1>1, <1>2, <1>6, <2>1
  <2>. QED
    BY <1>6, <2>2 DEF Ranked
<1>. QED
  BY <1>0, <1>6, <1>7, <1>8

(* The roles have an order. *)
LEMMA RolesRanked ==
    /\ Rank("identity") = 1 /\ Rank("routing") = 2 /\ Rank("instance") = 3 /\ Rank("policy") = 4
    /\ Rank("capabilities") = 5 /\ Rank("workflows") = 6 /\ Rank("documentation") = 7
<1>1. DOMAIN Roles = 1 .. 7
  BY DEF Roles
<1>2. /\ Roles[1] = "identity" /\ Roles[2] = "routing" /\ Roles[3] = "instance" /\ Roles[4] = "policy"
      /\ Roles[5] = "capabilities" /\ Roles[6] = "workflows" /\ Roles[7] = "documentation"
  BY DEF Roles
<1>3. \A i \in 1 .. 7 : i \in {1, 2, 3, 4, 5, 6, 7}
  OBVIOUS
<1>. QED
  BY <1>1, <1>2, <1>3 DEF Rank

(* The snippets of a builder: their roles are a contributor's, they are    *)
(* numbered as they come, and an identity requires nothing (add).          *)
Texts == [role : AddRoles \cup Shaped, requires : {x.requires : x \in Snippets}, seq : Nat]
Written(a) ==
    /\ a.snippets \in Seq(Texts)
    /\ \A i \in DOMAIN a.snippets : /\ a.snippets[i].seq = i - 1
                                    /\ a.snippets[i].role = "identity" => a.snippets[i].requires = {}

(* What the operator adds has roles of its own. *)
LEMMA OperatorRoles ==
    ASSUME NEW a, Written(a), NEW e
    PROVE  /\ IsFiniteSet(OperatorSnippets(a, e))
           /\ \A x \in OperatorSnippets(a, e) : x.role \in {"routing", "policy"} /\ x.seq \in Nat
           /\ \A x, y \in OperatorSnippets(a, e) : x.role = y.role => x = y
<1>. DEFINE given == {f \in {"routing", "policy"} : Env(e[f], None) # None}
            of(f) == [role |-> f, requires |-> {},
                      seq |-> Len(a.snippets) + (IF given # {f} /\ f = "policy" THEN 1 ELSE 0)]
<1>1. OperatorSnippets(a, e) = {of(f) : f \in given} /\ given \subseteq {"routing", "policy"}
  BY DEF OperatorSnippets
<1>2. Len(a.snippets) \in Nat
  BY DEF Written
<1>. HIDE DEF given
<1>3. ASSUME NEW f \in {"routing", "policy"} PROVE of(f).role = f /\ of(f).seq \in Nat
  <2>1. \A n \in Nat : n + 0 \in Nat /\ n + 1 \in Nat
    OBVIOUS
  <2>2. /\ of(f).role = f
        /\ of(f).seq \in {Len(a.snippets) + 0, Len(a.snippets) + 1}
    OBVIOUS
  <2>. HIDE DEF of
  <2>. QED
    BY <1>2, <2>1, <2>2
<1>. HIDE DEF of
<1>4. IsFiniteSet({of("routing"), of("policy")})
  <2>1. IsFiniteSet({of("routing")} \cup {of("policy")})
    BY FS_Singleton, FS_AddElement
  <2>2. {of("routing")} \cup {of("policy")} = {of("routing"), of("policy")}
    OBVIOUS
  <2>. QED
    BY <2>1, <2>2
<1>5. OperatorSnippets(a, e) \in SUBSET {of("routing"), of("policy")}
  BY <1>1
<1>. QED
  BY <1>1, <1>3, <1>4, <1>5, FS_Subset

(* All candidates together are finitely many and in one order: the roles   *)
(* are, and within a role the places.                                      *)
LEMMA CandidatesRanked ==
    ASSUME NEW a, Written(a), NEW e
    PROVE  /\ IsFiniteSet(Candidates(a, e)) /\ Ranked(Candidates(a, e))
           /\ \A x \in Candidates(a, e) : /\ Rank(x.role) \in Nat \ {0}
                                          /\ Rank(x.role) = 1 <=> x.role = "identity"
                                          /\ x.role = "identity" => x \in ToSet(a.snippets)
<1>. DEFINE own == ToSet(a.snippets)
            added == OperatorSnippets(a, e)
<1>1. Candidates(a, e) = own \cup added
  BY DEF Candidates
<1>2. IsFiniteSet(own)
  <2>1. /\ DOMAIN a.snippets = 1 .. Len(a.snippets) /\ Len(a.snippets) \in Nat
        /\ a.snippets = [i \in DOMAIN a.snippets |-> a.snippets[i]]
    BY DEF Written
  <2>2. own = {a.snippets[i] : i \in DOMAIN a.snippets}
    BY DEF ToSet
  <2>3. a.snippets \in Surjection(DOMAIN a.snippets, own)
    BY <2>1, <2>2 DEF Surjection
  <2>4. IsFiniteSet(DOMAIN a.snippets)
    BY <2>1, FS_Interval
  <2>. QED
    BY <2>3, <2>4, FS_Surjection
<1>3. ASSUME NEW x \in own
      PROVE  /\ x.role \in AddRoles \cup Shaped /\ x.seq \in Nat
             /\ \A y \in own : x.seq = y.seq => x = y
  <2>1. PICK i \in DOMAIN a.snippets : x = a.snippets[i]
    BY DEF ToSet
  <2>2. \A k \in DOMAIN a.snippets : a.snippets[k] \in Texts /\ a.snippets[k].seq = k - 1 /\ k \in Nat
    BY DEF Written
  <2>3. ASSUME NEW y \in own, x.seq = y.seq PROVE x = y
    <3>1. PICK k \in DOMAIN a.snippets : y = a.snippets[k]
      BY DEF ToSet
    <3>. QED
      BY <2>1, <2>2, <2>3, <3>1
  <2>. QED
    BY <2>1, <2>2, <2>3 DEF Texts
<1>4. ASSUME NEW x \in added PROVE x.role \in {"routing", "policy"} /\ x.seq \in Nat
  BY OperatorRoles
<1>5. ASSUME NEW x \in Candidates(a, e)
      PROVE  /\ Rank(x.role) \in 1 .. 7 /\ x.seq \in Nat /\ (Rank(x.role) = 1 <=> x.role = "identity")
             /\ x.role = "identity" => x \in own
             /\ \A y \in Candidates(a, e) : Rank(x.role) = Rank(y.role) => x.role = y.role
  BY <1>1, <1>3, <1>4, RolesRanked DEF AddRoles, Shaped
<1>6. ASSUME NEW x \in Candidates(a, e), NEW y \in Candidates(a, e), x.role = y.role, x.seq = y.seq
      PROVE  x = y
  <2>1. CASE x \in own /\ y \in own
    BY <1>3, <1>6, <2>1
  <2>2. CASE x \in added /\ y \in added
    BY <1>6, <2>2, OperatorRoles
  <2>. QED
    BY <1>1, <1>3, <1>4, <1>6, <2>1, <2>2 DEF AddRoles, Shaped
<1>7. Ranked(Candidates(a, e))
  <2>1. ASSUME NEW x \in Candidates(a, e), NEW y \in Candidates(a, e)
        PROVE  x = y \/ Before(x, y) \/ Before(y, x)
    BY <1>5, <1>6 DEF Before
  <2>2. ASSUME NEW x \in Candidates(a, e), NEW y \in Candidates(a, e)
        PROVE  ~(Before(x, y) /\ Before(y, x))
    BY <1>5 DEF Before
  <2>3. ASSUME NEW x \in Candidates(a, e), NEW y \in Candidates(a, e), NEW z \in Candidates(a, e),
               Before(x, y), Before(y, z)
        PROVE  Before(x, z)
    BY <1>5, <2>3 DEF Before
  <2>. QED
    BY <2>1, <2>2, <2>3 DEF Ranked
<1>8. IsFiniteSet(Candidates(a, e))
  <2>1. IsFiniteSet(added)
    BY OperatorRoles
  <2>. HIDE DEF own, added
  <2>. QED
    BY <1>1, <1>2, <2>1, FS_Union
<1>. QED
  BY <1>5, <1>7, <1>8

(* What a builder retains is a list of its candidates, in order.           *)
Kept(a, e) == {x \in Candidates(a, e) : x.requires \subseteq a.seen}

(* The text that is made of exactly the candidates whose tools are seen,   *)
(* and of one identity, is the text a client is to see (_retained).        *)
LEMMA RetainedIsTrue ==
    ASSUME NEW a, Written(a), NEW e, Cardinality(Identities(a.snippets)) = 1
    PROVE  LET parts == Sorted(Kept(a, e)) IN
           /\ Identities(parts) = {1}
           /\ \A i, k \in DOMAIN parts : i < k => Rank(parts[i].role) <= Rank(parts[k].role)
           /\ ToSet(parts) = Kept(a, e)
<1>. DEFINE S == Kept(a, e)
            parts == Sorted(S)
<1>1. S \in SUBSET Candidates(a, e)
  BY DEF Kept
<1>2. IsFiniteSet(S) /\ Ranked(S)
  <2>1. IsFiniteSet(S)
    BY <1>1, CandidatesRanked, FS_Subset
  <2>2. Ranked(S)
    BY <1>1, CandidatesRanked DEF Ranked
  <2>. QED
    BY <2>1, <2>2
<1>. HIDE DEF S
<1>3. /\ DOMAIN parts = 1 .. Cardinality(S) /\ Cardinality(S) \in Nat
      /\ \A i \in DOMAIN parts : parts[i] \in S
      /\ \A x \in S : \E i \in DOMAIN parts : parts[i] = x
      /\ \A i, k \in DOMAIN parts : i < k => Before(parts[i], parts[k])
  BY <1>2, SortedLists
<1>. HIDE DEF parts
<1>4. ASSUME NEW i \in DOMAIN parts
      PROVE  /\ parts[i] \in Candidates(a, e) /\ Rank(parts[i].role) \in Nat \ {0}
             /\ Rank(parts[i].role) = 1 <=> parts[i].role = "identity"
             /\ parts[i].role = "identity" => parts[i] \in ToSet(a.snippets)
  BY <1>1, <1>3, CandidatesRanked
<1>5. \A i, k \in DOMAIN parts : i < k => Rank(parts[i].role) <= Rank(parts[k].role)
  BY <1>3, <1>4 DEF Before
<1>6. ToSet(parts) = S
  BY <1>3 DEF ToSet
<1>7. PICK n \in DOMAIN a.snippets : Identities(a.snippets) = {n}
  <2>1. DOMAIN a.snippets = 1 .. Len(a.snippets) /\ Len(a.snippets) \in Nat
    BY DEF Written
  <2>2. IsFiniteSet(DOMAIN a.snippets) /\ Identities(a.snippets) \in SUBSET DOMAIN a.snippets
    BY <2>1, FS_Interval DEF Identities
  <2>3. IsFiniteSet(Identities(a.snippets))
    BY <2>2, FS_Subset
  <2>4. \E n : Identities(a.snippets) = {n}
    BY <2>3, FS_Singleton
  <2>. QED
    BY <2>2, <2>4
<1>8. a.snippets[n].role = "identity" /\ a.snippets[n].requires = {}
  BY <1>7 DEF Written, Identities
<1>9. a.snippets[n] \in S
  BY <1>7, <1>8 DEF S, Kept, Candidates, ToSet
<1>10. ASSUME NEW x \in ToSet(a.snippets), x.role = "identity" PROVE x = a.snippets[n]
  BY <1>7, <1>10 DEF ToSet, Identities
<1>11. PICK k \in DOMAIN parts : parts[k] = a.snippets[n]
  BY <1>3, <1>9
<1>12. \A i \in DOMAIN parts : parts[i].role = "identity" <=> i = k
  <2>1. ASSUME NEW i \in DOMAIN parts, parts[i].role = "identity" PROVE i = k
    <3>1. parts[i] = parts[k] /\ ~Before(parts[i], parts[i])
      BY <1>2, <1>3, <1>4, <1>10, <1>11, <2>1 DEF Ranked
    <3>. QED
      BY <1>3, <3>1
  <2>. QED
    BY <1>8, <1>11, <2>1
<1>13. k = 1
  <2>1. 1 \in DOMAIN parts /\ k >= 1
    BY <1>3, <1>11
  <2>2. k > 1 => Rank(parts[1].role) <= 1
    BY <1>4, <1>5, <1>12, <2>1
  <2>. QED
    BY <1>3, <1>4, <1>12, <2>1, <2>2
<1>14. Identities(parts) = {1}
  BY <1>12, <1>13 DEF Identities
<1>. QED
  BY <1>5, <1>6, <1>14 DEF parts, S


------------------------------------------------------------------------------
(* What clients are shown and told. *)

(* The operator's lists, once applied, are where they were put, and they   *)
(* are those of the configuration that was read (apply_tool_visibility).   *)
IsApp(x) == x \in [tools : {x.tools}, transforms : {x.transforms}, snippets : {x.snippets}, frozen : {x.frozen},
                   text : {x.text}, seen : {x.seen}, applied : {x.applied}, steps : {x.steps}]
Transforms == [shows : BOOLEAN, names : SUBSET Tools]
ListsAt(ts, n, c) ==
    /\ n > 0 => ~BothLists(c)
    /\ n > 0 /\ c.allow # {} => /\ n > 1
                                /\ ~ts[n - 1].shows /\ ts[n - 1].names = Tools
                                /\ ts[n].shows /\ ts[n].names = c.allow
    /\ n > 0 /\ c.allow = {} /\ c.deny # {} => ~ts[n].shows /\ ts[n].names = c.deny
Listed(s) ==
    LET a == app[s] IN
    /\ a.tools \in SUBSET Tools /\ a.transforms \in Seq(Transforms)
    /\ a.applied \in 0 .. Len(a.transforms)
    /\ a.applied > 0 => HasRead(s)
    /\ ListsAt(a.transforms, a.applied, server[s].config)

(* A text has been rendered from what the builder still holds and from     *)
(* what was exposed then (finalize_instructions).                          *)
Rendering(s) ==
    LET a == app[s] IN
    /\ Written(a) /\ a.frozen \in BOOLEAN
    /\ a.frozen <=> a.text # NoText
    /\ a.text.is = "rendered" => /\ Cardinality(Identities(a.snippets)) = 1
                                 /\ a.text.parts = Sorted(Kept(a, Deployment(s).env))

SurfaceInv == /\ DOMAIN app = Servers /\ app = [s \in Servers |-> app[s]]
              /\ \A s \in Servers : IsApp(app[s]) /\ Listed(s) /\ Rendering(s)

(* A step reads a configuration, or keeps all. *)
ConfigKept == \A t \in Servers : server'[t].config = server[t].config
LEMMA WhoReads ==
    ASSUME AuthInv, [Next]_vars
    PROVE  ConfigKept \/ \E s \in Servers : ReadConfig(s)
<1>0. Shape
  BY DEF AuthInv
<1>1. CASE server' = server
  BY <1>1 DEF ConfigKept
<1>2. ASSUME NEW s \in Servers, Fails(s) PROVE ConfigKept
  BY <1>0, <1>2 DEF Fails, ConfigKept, Shape, IsServer
<1>3. ASSUME NEW s \in Servers, NEW n, BuildStore(s, n) PROVE ConfigKept
  <2>1. CASE \E url : server' = [server EXCEPT ![s].stores[n] = url]
    <3>1. PICK url : server' = [server EXCEPT ![s].stores = [server[s].stores EXCEPT ![n] = url]]
      BY <2>1
    <3>. QED
      BY <1>0, <3>1 DEF ConfigKept, Shape, IsServer
  <2>. QED
    BY <1>2, <1>3, <2>1 DEF BuildStore
<1>4. ASSUME NEW s \in Servers, BuildAuth(s) PROVE ConfigKept
  <2>1. PICK stage, mode, provider, said :
            server' = [server EXCEPT ![s].stage = stage, ![s].mode = mode, ![s].provider = provider,
                                     ![s].announced = said]
    BY <1>4 DEF BuildAuth
  <2>. QED
    BY <1>0, <2>1 DEF ConfigKept, Shape, IsServer
<1>5. ASSUME NEW s \in Servers, ConfigureTasks(s) PROVE ConfigKept
  <2>1. \/ Fails(s)
        \/ \E url : server' = [server EXCEPT ![s].tasks = url]
        \/ \E url, stage : server' = [server EXCEPT ![s].tasks = url, ![s].stage = stage]
    BY <1>5 DEF ConfigureTasks
  <2>2. ASSUME NEW url, server' = [server EXCEPT ![s].tasks = url] PROVE ConfigKept
    BY <1>0, <2>2 DEF ConfigKept, Shape, IsServer
  <2>3. ASSUME NEW url, NEW stage, server' = [server EXCEPT ![s].tasks = url, ![s].stage = stage]
        PROVE  ConfigKept
    BY <1>0, <2>3 DEF ConfigKept, Shape, IsServer
  <2>. QED
    BY <1>2, <2>1, <2>2, <2>3
<1>6. ASSUME NEW s \in Servers, ConfigureLogging(s) \/ WireMiddleware(s) \/ Serve(s) PROVE ConfigKept
  <2>1. \/ Fails(s)
        \/ \E x : server' = [server EXCEPT ![s].stage = x]
        \/ \E x : server' = [server EXCEPT ![s].traceback = x]
    BY <1>6 DEF ConfigureLogging, WireMiddleware, Serve
  <2>. QED
    BY <1>0, <1>2, <2>1 DEF ConfigKept, Shape, IsServer
<1>7. CASE StartupStep
  <2>1. Interferes => server' = server
    BY DEF Interferes
  <2>2. \A s \in Servers : StartDebugger(s) => server' = server
    BY DEF StartDebugger
  <2>. QED
    BY <1>1, <1>3, <1>4, <1>5, <1>6, <1>7, <2>1, <2>2 DEF StartupStep
<1>8. CASE AssemblyStep
  <2>1. server' = server \/ \E s \in Servers : Fails(s)
    BY <1>8 DEF AssemblyStep, RegisterTool, OwnVisibility, ApplyToolVisibility, Contribute, Finalize, svars
  <2>. QED
    BY <1>1, <1>2, <2>1
<1>9. ASSUME NEW s \in Servers, RegisterHealth(s) \/ RegisterTransfer(s) PROVE ConfigKept
  <2>1. Fails(s) \/ \E n \in Namespaces : BuildStore(s, n)
    BY <1>9 DEF RegisterHealth, RegisterTransfer, Namespaces
  <2>. QED
    BY <1>2, <1>3, <2>1
<1>10. ProbeLoop => server' = server
  BY DEF ProbeLoop, ProbeAnswers, ProbeTick, CheckTimesOut, avars, svars
<1>11. ASSUME NEW s \in Servers,
             \/ ProbeStarts(s) \/ ProbeCancelled(s)
             \/ \E c \in DOMAIN probe[s].checks, v \in Verdicts : CheckEnds(s, c, v)
      PROVE  server' = server
  BY <1>11 DEF ProbeStarts, ProbeCancelled, CheckEnds, avars, svars
<1>. QED
  BY <1>1, <1>6, <1>7, <1>8, <1>9, <1>10, <1>11 DEF Next, vars, avars, svars

(* A configuration that has been read stays.                               *)
LEMMA ConfigStays ==
    ASSUME AuthInv, StartInv, [Next]_vars, NEW t \in Servers, HasRead(t)
    PROVE  server'[t].config = server[t].config
<1>1. CASE ConfigKept
  BY <1>1 DEF ConfigKept
<1>2. ASSUME NEW s \in Servers, ReadConfig(s) PROVE server'[t].config = server[t].config
  <2>0. Shape /\ plan' = plan
    BY PlanStays DEF AuthInv
  <2>1. CASE Fails(s)
    BY <2>0, <2>1 DEF Fails, Shape, IsServer
  <2>2. CASE server' = [server EXCEPT ![s].stage = "read", ![s].config = ReadFrom(Deployment(s))]
    <3>. DEFINE c == ReadFrom(Deployment(s))
    <3>1. server'[t].config = (IF t = s THEN c ELSE server[t].config)
      <4>. HIDE DEF c
      <4>1. server' = [server EXCEPT ![s].stage = "read", ![s].config = c]
        BY <2>2 DEF c
      <4>. QED
        BY <2>0, <4>1 DEF Shape, IsServer
    <3>2. server[t].config = ReadFrom(Deployment(t))
      BY DEF StartInv, Started, ConfigOf
    <3>. QED
      BY <3>1, <3>2
  <2>3. Fails(s) \/ server' = [server EXCEPT ![s].stage = "read", ![s].config = ReadFrom(Deployment(s))]
    BY <1>2, Zenon DEF ReadConfig, ReadFrom
  <2>. QED
    BY <2>1, <2>2, <2>3
<1>. QED
  BY <1>1, <1>2, WhoReads


(* A server whose lists are as they were, or follow others, has its lists. *)
LEMMA ListedKept ==
    ASSUME NEW s \in Servers, Listed(s), HasRead(s) => server'[s].config = server[s].config,
           app'[s].tools \in SUBSET Tools, app'[s].applied = app[s].applied,
           \/ app'[s].transforms = app[s].transforms
           \/ \E x \in Transforms : app'[s].transforms = Append(app[s].transforms, x)
    PROVE  Listed(s)'
<1>. DEFINE ts == app[s].transforms
            n == app[s].applied
<1>1. ts \in Seq(Transforms) /\ n \in 0 .. Len(ts) /\ Len(ts) \in Nat
  BY DEF Listed
<1>2. /\ app'[s].transforms \in Seq(Transforms) /\ Len(ts) <= Len(app'[s].transforms)
      /\ \A i \in 1 .. Len(ts) : app'[s].transforms[i] = ts[i]
  <2>1. CASE app'[s].transforms = ts
    BY <1>1, <2>1
  <2>2. CASE \E x \in Transforms : app'[s].transforms = Append(ts, x)
    <3>1. PICK x \in Transforms : app'[s].transforms = Append(ts, x)
      BY <2>2
    <3>. HIDE DEF ts
    <3>. QED
      BY <1>1, <3>1
  <2>. QED
    BY <2>1, <2>2
<1>3. n > 0 => HasRead(s) /\ HasRead(s)' /\ server'[s].config = server[s].config
  BY DEF Listed, HasRead
<1>4. ListsAt(ts, n, server[s].config)
  BY DEF Listed
<1>5. ListsAt(app'[s].transforms, n, server'[s].config)
  <2>1. n > 0 => app'[s].transforms[n] = ts[n]
    BY <1>1, <1>2
  <2>2. n > 1 => app'[s].transforms[n - 1] = ts[n - 1]
    <3>1. n > 1 => n - 1 \in 1 .. Len(ts)
      <4>. HIDE DEF ts, n
      <4>. QED
        BY <1>1
    <3>. QED
      BY <1>2, <3>1
  <2>. HIDE DEF ts, n
  <2>. QED
    BY <1>3, <1>4, <2>1, <2>2 DEF ListsAt
<1>6. n \in 0 .. Len(app'[s].transforms)
  <2>. HIDE DEF ts, n
  <2>1. Len(app'[s].transforms) \in Nat
    BY <1>2
  <2>. QED
    BY <1>1, <1>2, <2>1
<1>. QED
  BY <1>2, <1>3, <1>5, <1>6 DEF Listed

(* A builder that nobody touches has rendered what it has.                 *)
LEMMA RenderingKept ==
    ASSUME NEW s \in Servers, Rendering(s), plan' = plan,
           app'[s].snippets = app[s].snippets, app'[s].frozen = app[s].frozen,
           app'[s].text = app[s].text, app'[s].seen = app[s].seen
    PROVE  Rendering(s)'
<1>1. Written(app[s])' /\ Identities(app[s].snippets)' = Identities(app[s].snippets)
  BY DEF Rendering, Written, Identities
<1>2. Kept(app[s], Deployment(s).env)' = Kept(app[s], Deployment(s).env)
  BY DEF Kept, Candidates, OperatorSnippets, ToSet, Deployment
<1>3. Sorted(Kept(app[s], Deployment(s).env))' = Sorted(Kept(app[s], Deployment(s).env))
  BY <1>2 DEF Sorted, Before, Rank, Roles
<1>. QED
  BY <1>1, <1>3 DEF Rendering, NoText


(* One server's surface changes. *)
OthersShow(s) == /\ DOMAIN app' = Servers /\ app' = [t \in Servers |-> app'[t]]
                 /\ IsApp(app'[s]) /\ \A t \in Servers \ {s} : app'[t] = app[t]

(* The rest of the invariant is then kept. *)
LEMMA OneSurface ==
    ASSUME SurfaceInv, plan' = plan, NEW s \in Servers, OthersShow(s), Listed(s)', Rendering(s)',
           \A t \in Servers : HasRead(t) => server'[t].config = server[t].config
    PROVE  SurfaceInv'
<1>1. ASSUME NEW t \in Servers \ {s} PROVE IsApp(app'[t]) /\ Listed(t)' /\ Rendering(t)'
  <2>1. app'[t] = app[t] /\ IsApp(app[t]) /\ Listed(t) /\ Rendering(t)
    BY <1>1 DEF OthersShow, SurfaceInv
  <2>2. app[t].tools \in SUBSET Tools
    BY <2>1 DEF Listed
  <2>. QED
    BY <2>1, <2>2, ListedKept, RenderingKept
<1>. QED
  BY <1>1 DEF SurfaceInv, OthersShow

(* Nor does anything else in a process without a surface to change.        *)
LEMMA NoSurface ==
    ASSUME SurfaceInv, plan' = plan, app' = app,
           \A t \in Servers : HasRead(t) => server'[t].config = server[t].config
    PROVE  SurfaceInv'
<1>1. ASSUME NEW t \in Servers PROVE Listed(t)' /\ Rendering(t)'
  <2>1. Listed(t) /\ Rendering(t) /\ app'[t] = app[t]
    BY DEF SurfaceInv
  <2>2. app[t].tools \in SUBSET Tools
    BY <2>1 DEF Listed
  <2>. QED
    BY <2>1, <2>2, ListedKept, RenderingKept
<1>. QED
  BY <1>1 DEF SurfaceInv

(* A tool is registered, or hidden or shown by the server itself.          *)
LEMMA OwnToolsShown ==
    ASSUME SurfaceInv, plan' = plan, NEW s \in Servers, NEW t \in Tools,
           RegisterTool(s, t) \/ \E shows \in BOOLEAN : OwnVisibility(s, t, shows)
    PROVE  SurfaceInv'
<1>1. server' = server /\ IsApp(app[s]) /\ Listed(s) /\ Rendering(s)
  BY DEF RegisterTool, OwnVisibility, svars, SurfaceInv
<1>2. /\ OthersShow(s) /\ app'[s].tools \in SUBSET Tools /\ app'[s].applied = app[s].applied
      /\ \/ app'[s].transforms = app[s].transforms
         \/ \E x \in Transforms : app'[s].transforms = Append(app[s].transforms, x)
      /\ app'[s].snippets = app[s].snippets /\ app'[s].frozen = app[s].frozen
      /\ app'[s].text = app[s].text /\ app'[s].seen = app[s].seen
  <2>1. CASE RegisterTool(s, t)
    <3>1. app' = [app EXCEPT ![s].tools = @ \cup {t}, ![s].steps = @ + 1]
      BY <2>1 DEF RegisterTool
    <3>2. /\ OthersShow(s) /\ app'[s].tools = app[s].tools \cup {t} /\ app'[s].applied = app[s].applied
          /\ app'[s].transforms = app[s].transforms
          /\ app'[s].snippets = app[s].snippets /\ app'[s].frozen = app[s].frozen
          /\ app'[s].text = app[s].text /\ app'[s].seen = app[s].seen
      BY <3>1 DEF SurfaceInv, IsApp, OthersShow
    <3>. QED
      BY <1>1, <3>2 DEF Listed
  <2>2. ASSUME NEW shows \in BOOLEAN, OwnVisibility(s, t, shows)
        PROVE  /\ OthersShow(s) /\ app'[s].tools = app[s].tools /\ app'[s].applied = app[s].applied
               /\ \E x \in Transforms : app'[s].transforms = Append(app[s].transforms, x)
               /\ app'[s].snippets = app[s].snippets /\ app'[s].frozen = app[s].frozen
               /\ app'[s].text = app[s].text /\ app'[s].seen = app[s].seen
    <3>. DEFINE x == [shows |-> shows, names |-> {t}]
    <3>1. x \in Transforms
      BY DEF Transforms
    <3>2. app' = [app EXCEPT ![s].transforms = Append(@, x), ![s].steps = @ + 1]
      BY <2>2 DEF OwnVisibility, Transform
    <3>. HIDE DEF x
    <3>3. app'[s].transforms = Append(app[s].transforms, x)
      BY <3>2 DEF SurfaceInv, IsApp
    <3>4. /\ OthersShow(s) /\ app'[s].tools = app[s].tools /\ app'[s].applied = app[s].applied
          /\ app'[s].snippets = app[s].snippets /\ app'[s].frozen = app[s].frozen
          /\ app'[s].text = app[s].text /\ app'[s].seen = app[s].seen
      BY <3>2 DEF SurfaceInv, IsApp, OthersShow
    <3>. QED
      BY <3>1, <3>3, <3>4
  <2>. QED
    BY <1>1, <2>1, <2>2 DEF Listed
<1>3. Listed(s)'
  BY <1>1, <1>2, ListedKept
<1>4. Rendering(s)'
  BY <1>1, <1>2, RenderingKept
<1>. QED
  BY <1>1, <1>2, <1>3, <1>4, OneSurface


(* The operator's lists, behind whatever transforms there are, are where   *)
(* they are to be.                                                         *)
LEMMA ListsBehind ==
    ASSUME NEW c, c.allow \in SUBSET Tools, c.deny \in SUBSET Tools, ~BothLists(c),
           NEW a, NEW ts \in Seq(Transforms)
    PROVE  /\ ts \o Lists(a, c) \in Seq(Transforms) /\ Len(ts \o Lists(a, c)) \in Nat
           /\ ListsAt(ts \o Lists(a, c), Len(ts \o Lists(a, c)), c)
<1>. DEFINE hides(names) == [shows |-> FALSE, names |-> names]
            allows == [shows |-> TRUE, names |-> c.allow]
            m == Len(ts)
<1>1. ASSUME NEW names \in SUBSET Tools
      PROVE  hides(names) \in Transforms /\ ~hides(names).shows /\ hides(names).names = names
  BY DEF Transforms
<1>2. allows \in Transforms /\ allows.shows /\ allows.names = c.allow
  BY DEF Transforms
<1>3. /\ c.allow # {} => Lists(a, c) = <<hides(Tools), allows>>
      /\ c.allow = {} /\ c.deny # {} => Lists(a, c) = <<hides(c.deny)>>
      /\ c.allow = {} /\ c.deny = {} => Lists(a, c) = << >>
  BY DEF Lists, Transform
<1>. HIDE DEF hides, allows
<1>4. Tools \in SUBSET Tools
  OBVIOUS
<1>5. ASSUME NEW x \in Transforms, NEW y \in Transforms
      PROVE  LET more == ts \o <<x, y>> IN
             /\ more \in Seq(Transforms) /\ Len(more) \in Nat /\ Len(more) > 1
             /\ more[Len(more) - 1] = x /\ more[Len(more)] = y
  <2>. DEFINE more == ts \o <<x, y>>
  <2>1. more \in Seq(Transforms) /\ Len(more) = m + 2 /\ m \in Nat
    OBVIOUS
  <2>2. more[m + 1] = x /\ more[m + 2] = y
    BY <2>1
  <2>. HIDE DEF more, m
  <2>3. Len(more) - 1 = m + 1 /\ Len(more) > 1 /\ Len(more) \in Nat
    BY <2>1
  <2>. QED
    BY <2>1, <2>2, <2>3 DEF more
<1>6. ASSUME NEW x \in Transforms
      PROVE  LET more == ts \o <<x>> IN
             more \in Seq(Transforms) /\ Len(more) \in Nat /\ more[Len(more)] = x
  OBVIOUS
<1>7. CASE c.allow # {}
  <2>. DEFINE more == ts \o <<hides(Tools), allows>>
  <2>1. /\ more \in Seq(Transforms) /\ Len(more) \in Nat /\ Len(more) > 1
        /\ more[Len(more) - 1] = hides(Tools) /\ more[Len(more)] = allows
    BY <1>1, <1>2, <1>4, <1>5
  <2>2. Lists(a, c) = <<hides(Tools), allows>>
    BY <1>3, <1>7
  <2>. HIDE DEF more
  <2>3. ListsAt(more, Len(more), c)
    BY <1>1, <1>2, <1>4, <1>7, <2>1 DEF ListsAt
  <2>. QED
    BY <2>1, <2>2, <2>3 DEF more
<1>8. CASE c.allow = {} /\ c.deny # {}
  <2>. DEFINE more == ts \o <<hides(c.deny)>>
  <2>1. more \in Seq(Transforms) /\ Len(more) \in Nat /\ more[Len(more)] = hides(c.deny)
    BY <1>1, <1>6
  <2>2. Lists(a, c) = <<hides(c.deny)>>
    BY <1>3, <1>8
  <2>. HIDE DEF more
  <2>3. ListsAt(more, Len(more), c)
    BY <1>1, <1>8, <2>1 DEF ListsAt
  <2>. QED
    BY <2>1, <2>2, <2>3 DEF more
<1>9. CASE c.allow = {} /\ c.deny = {}
  <2>1. Lists(a, c) = << >> /\ ts \o << >> = ts /\ Len(ts) \in Nat
    BY <1>3, <1>9
  <2>2. ListsAt(ts, Len(ts), c)
    BY <1>9 DEF ListsAt
  <2>. QED
    BY <2>1, <2>2
<1>. QED
  BY <1>7, <1>8, <1>9

(* apply_tool_visibility, with at most one list.                           *)
LEMMA ListsApplied ==
    ASSUME AuthInv, StartInv, SurfaceInv, NEW s \in Servers, ApplyToolVisibility(s), app' # app
    PROVE  SurfaceInv'
<1>. DEFINE c == server[s].config
            more == app[s].transforms \o Lists(app[s], c)
            n == Len(more)
<1>1. /\ server' = server /\ plan' = plan /\ ~BothLists(c) /\ server[s].stage = "assembling"
      /\ app' = [app EXCEPT ![s].transforms = more, ![s].applied = n]
  BY DEF ApplyToolVisibility, svars, Assembling
<1>2. HasRead(s) /\ c.allow \in SUBSET Tools /\ c.deny \in SUBSET Tools
  <2>1. HasRead(s) /\ Planned(s) /\ c = ReadFrom(Deployment(s)) /\ c.ok
    BY <1>1 DEF StartInv, Started, ConfigOf
  <2>2. WellFormed(c, Deployment(s).by_hand)
    BY <2>1, PlannedUrls, AcceptedConfig
  <2>. QED
    BY <2>1, <2>2 DEF WellFormed
<1>3. IsApp(app[s]) /\ Listed(s) /\ Rendering(s)
  BY DEF SurfaceInv
<1>4. more \in Seq(Transforms) /\ n \in Nat /\ ListsAt(more, n, c)
  <2>1. app[s].transforms \in Seq(Transforms)
    BY <1>3 DEF Listed
  <2>. HIDE DEF c
  <2>. QED
    BY <1>1, <1>2, <2>1, ListsBehind
<1>5. n \in 0 .. Len(more)
  <2>. HIDE DEF more
  <2>. QED
    BY <1>4
<1>. HIDE DEF c, more, n
<1>6. /\ OthersShow(s) /\ app'[s].tools = app[s].tools
      /\ app'[s].applied = n /\ app'[s].transforms = more
      /\ app'[s].snippets = app[s].snippets /\ app'[s].frozen = app[s].frozen
      /\ app'[s].text = app[s].text /\ app'[s].seen = app[s].seen
  BY <1>1 DEF SurfaceInv, IsApp, OthersShow
<1>7. Listed(s)'
  <2>1. server'[s].config = c /\ HasRead(s)' /\ app[s].tools \in SUBSET Tools
    BY <1>1, <1>2, <1>3 DEF HasRead, c, Listed
  <2>. QED
    BY <1>4, <1>5, <1>6, <2>1 DEF Listed
<1>8. Rendering(s)'
  BY <1>1, <1>3, <1>6, RenderingKept
<1>. QED
  BY <1>1, <1>6, <1>7, <1>8, OneSurface

(* A builder that has not rendered takes a contribution (add).             *)
LEMMA Contributed ==
    ASSUME SurfaceInv, NEW s \in Servers, NEW snippet \in Snippets, Contribute(s, snippet), app' # app
    PROVE  SurfaceInv'
<1>. DEFINE old == app[s].snippets
            x == [role |-> snippet.role, requires |-> snippet.requires, seq |-> Len(old)]
<1>1. /\ server' = server /\ plan' = plan /\ ~app[s].frozen /\ snippet.role \in AddRoles \cup Shaped
      /\ app' = [app EXCEPT ![s].steps = @ + 1, ![s].snippets = Append(@, x)]
  BY DEF Contribute, svars
<1>2. IsApp(app[s]) /\ Listed(s) /\ Rendering(s) /\ app[s].text = NoText
  BY <1>1 DEF SurfaceInv, Rendering
<1>3. /\ old \in Seq(Texts) /\ Len(old) \in Nat
      /\ \A i \in 1 .. Len(old) : /\ old[i].seq = i - 1
                                  /\ old[i].role = "identity" => old[i].requires = {}
  BY <1>2 DEF Rendering, Written
<1>4. x \in Texts /\ x.seq = Len(old) /\ (x.role = "identity" => x.requires = {})
  <2>1. snippet.role = "identity" => snippet.requires = {}
    BY SnippetsAssumption
  <2>. QED
    BY <1>1, <1>3, <2>1 DEF Texts
<1>. HIDE DEF x
<1>5. /\ OthersShow(s) /\ app'[s].tools = app[s].tools /\ app'[s].applied = app[s].applied
      /\ app'[s].transforms = app[s].transforms /\ app'[s].frozen = app[s].frozen
      /\ app'[s].text = app[s].text
  BY <1>1 DEF SurfaceInv, IsApp, OthersShow
<1>6. app'[s].snippets = Append(old, x)
  BY <1>1 DEF SurfaceInv, IsApp
<1>. HIDE DEF old
<1>7. Written(app'[s])
  <2>1. Append(old, x) \in Seq(Texts) /\ Len(Append(old, x)) = Len(old) + 1
    BY <1>3, <1>4
  <2>2. ASSUME NEW i \in 1 .. Len(old) + 1
        PROVE  /\ Append(old, x)[i].seq = i - 1
               /\ Append(old, x)[i].role = "identity" => Append(old, x)[i].requires = {}
    <3>1. CASE i <= Len(old)
      <4>1. i \in 1 .. Len(old) /\ Append(old, x)[i] = old[i]
        BY <1>3, <3>1
      <4>. QED
        BY <1>3, <4>1
    <3>2. CASE i = Len(old) + 1
      <4>1. Append(old, x)[i] = x /\ i - 1 = Len(old)
        BY <1>3, <3>2
      <4>. QED
        BY <1>4, <4>1
    <3>. QED
      BY <1>3, <3>1, <3>2
  <2>3. DOMAIN Append(old, x) = 1 .. Len(old) + 1
    BY <2>1
  <2>. QED
    BY <1>6, <2>1, <2>2, <2>3 DEF Written
<1>8. Rendering(s)'
  BY <1>2, <1>5, <1>7 DEF Rendering, NoText
<1>9. Listed(s)'
  <2>1. app[s].tools \in SUBSET Tools
    BY <1>2 DEF Listed
  <2>. QED
    BY <1>1, <1>2, <1>5, <2>1, ListedKept
<1>. QED
  BY <1>1, <1>5, <1>8, <1>9, OneSurface


(* A text is the operator's own, or is rendered from what is there         *)
(* (finalize_instructions).                                                *)
LEMMA Finalized ==
    ASSUME SurfaceInv, NEW s \in Servers, Finalize(s), app' # app
    PROVE  SurfaceInv'
<1>. DEFINE a == app[s]
            e == Deployment(s).env
            parts == Retained(a, e)
            shown == Exposed(a)
<1>1. server' = server /\ plan' = plan
  BY DEF Finalize, svars
<1>2. IsApp(app[s]) /\ Listed(s) /\ Rendering(s)
  BY DEF SurfaceInv
<1>3. PICK text \in {LegacyText, TextOf(parts)} :
          /\ app' = [app EXCEPT ![s].frozen = TRUE, ![s].seen = shown, ![s].text = text]
          /\ text # LegacyText => Cardinality(Identities(a.snippets)) = 1
  BY DEF Finalize
<1>4. text # NoText /\ (text.is = "rendered" => text # LegacyText /\ text.parts = parts)
  BY <1>3 DEF NoText, LegacyText, TextOf
<1>5. Deployment(s)' = Deployment(s)
  BY <1>1 DEF Deployment
<1>. HIDE DEF e, parts, shown
<1>6. /\ OthersShow(s) /\ app'[s].tools = a.tools /\ app'[s].applied = a.applied
      /\ app'[s].transforms = a.transforms /\ app'[s].snippets = a.snippets
      /\ app'[s].frozen = TRUE /\ app'[s].seen = shown /\ app'[s].text = text
  BY <1>3 DEF SurfaceInv, IsApp, OthersShow
<1>7. Written(app'[s]) /\ Identities(app'[s].snippets) = Identities(a.snippets)
  BY <1>2, <1>6 DEF Rendering, Written, Identities
<1>8. Sorted(Kept(app'[s], e)) = parts
  <2>1. Candidates(app'[s], e) = Candidates(a, e)
    BY <1>6 DEF Candidates, OperatorSnippets, ToSet
  <2>2. Kept(app'[s], e) = {x \in Candidates(a, e) : x.requires \subseteq Exposed(a)}
    BY <1>6, <2>1 DEF Kept, shown
  <2>. QED
    BY <2>2 DEF parts, Retained
<1>9. Rendering(s)'
  BY <1>3, <1>4, <1>5, <1>6, <1>7, <1>8 DEF Rendering, e
<1>10. Listed(s)'
  <2>1. a.tools \in SUBSET Tools
    BY <1>2 DEF Listed
  <2>. QED
    BY <1>1, <1>2, <1>6, <2>1, ListedKept
<1>. QED
  BY <1>1, <1>6, <1>9, <1>10, OneSurface

(* Every step keeps the surface of every server.                           *)
LEMMA SurfaceInductive == AuthInv /\ StartInv /\ SurfaceInv /\ [Next]_vars => SurfaceInv'
<1>. SUFFICES ASSUME AuthInv, StartInv, SurfaceInv, [Next]_vars PROVE SurfaceInv'
  OBVIOUS
<1>1. plan' = plan /\ \A t \in Servers : HasRead(t) => server'[t].config = server[t].config
  BY PlanStays, ConfigStays
<1>2. CASE app' = app
  BY <1>1, <1>2, NoSurface
<1>3. CASE AssemblyStep
  <2>1. PICK s \in Servers :
            \/ \E t \in Tools : RegisterTool(s, t) \/ \E shows \in BOOLEAN : OwnVisibility(s, t, shows)
            \/ ApplyToolVisibility(s) \/ Finalize(s)
            \/ \E snippet \in Snippets : Contribute(s, snippet)
    BY <1>3 DEF AssemblyStep
  <2>. QED
    BY <1>1, <1>2, <2>1, OwnToolsShown, ListsApplied, Contributed, Finalized
<1>4. AssemblyStep \/ app' = app
  <2>1. ProbeLoop => app' = app
    BY DEF ProbeLoop, ProbeAnswers, ProbeTick, CheckTimesOut, avars
  <2>2. ASSUME NEW s \in Servers,
               \/ RegisterHealth(s) \/ RegisterTransfer(s) \/ Serve(s) \/ ProbeStarts(s) \/ ProbeCancelled(s)
               \/ \E c \in DOMAIN probe[s].checks, v \in Verdicts : CheckEnds(s, c, v)
        PROVE  app' = app
    BY <2>2 DEF RegisterHealth, RegisterTransfer, Serve, ProbeStarts, ProbeCancelled, CheckEnds, avars
  <2>. QED
    BY <2>1, <2>2 DEF Next, vars, avars
<1>. QED
  BY <1>2, <1>3, <1>4

(* At first nobody is shown or told anything.                              *)
LEMMA SurfaceInit == Init => SurfaceInv
<1>. SUFFICES ASSUME Init PROVE SurfaceInv
  OBVIOUS
<1>1. app = [s \in Servers |-> EmptyApp]
  BY DEF Init, AInit
<1>2. IsApp(EmptyApp)
  BY DEF IsApp, EmptyApp
<1>3. /\ EmptyApp.tools = {} /\ EmptyApp.transforms = << >> /\ EmptyApp.snippets = << >>
      /\ EmptyApp.frozen = FALSE /\ EmptyApp.text = NoText /\ EmptyApp.applied = 0
  BY DEF EmptyApp
<1>4. ASSUME NEW s \in Servers PROVE Listed(s) /\ Rendering(s)
  <2>1. /\ app[s].tools = {} /\ app[s].transforms = << >> /\ app[s].snippets = << >>
        /\ app[s].frozen = FALSE /\ app[s].text = NoText /\ app[s].applied = 0
    BY <1>1, <1>3
  <2>2. /\ << >> \in Seq(Transforms) /\ << >> \in Seq(Texts)
        /\ 0 \in 0 .. Len(<< >>) /\ \A i \in DOMAIN << >> : FALSE
    OBVIOUS
  <2>3. Listed(s)
    BY <2>1, <2>2 DEF Listed, ListsAt
  <2>4. Written(app[s])
    BY <2>1, <2>2 DEF Written
  <2>5. Rendering(s)
    <3>1. ~app[s].frozen /\ app[s].frozen \in BOOLEAN
      BY <2>1
    <3>2. NoText.is # "rendered"
      BY DEF NoText
    <3>. QED
      BY <2>1, <2>4, <3>1, <3>2 DEF Rendering
  <2>. QED
    BY <2>3, <2>5
<1>. QED
  BY <1>1, <1>2, <1>4 DEF SurfaceInv

(* What clients are shown and told is what the operator has let them see:  *)
(* after the server's own calls the operator's lists decide on every tool, *)
(* registered before or after; the instructions are about exposed tools    *)
(* only, leave out no snippet that is, begin with the one identity and     *)
(* keep the order of the roles (apply_tool_visibility,                     *)
(* finalize_instructions).                                                 *)
THEOREM OperatorsSurface == Spec => []SurfaceIsTheOperators
<1>1. SurfaceInv => OperatorListsWin
  <2>. SUFFICES ASSUME SurfaceInv, NEW s \in Servers, ListsLast(s)
                PROVE  /\ Exposed(app[s]) \cap server[s].config.deny = {}
                       /\ server[s].config.allow # {} => Exposed(app[s]) \subseteq server[s].config.allow
    BY DEF OperatorListsWin
  <2>. DEFINE c == server[s].config
              ts == app[s].transforms
              n == Len(ts)
  <2>1. /\ ts \in Seq(Transforms) /\ n \in Nat /\ n > 0 /\ DOMAIN ts = 1 .. n
        /\ ListsAt(ts, n, c) /\ app[s].tools \in SUBSET Tools
    BY DEF ListsLast, SurfaceInv, Listed
  <2>2. ASSUME NEW t \in Exposed(app[s]), NEW i \in 1 .. n, t \in ts[i].names, ~ts[i].shows
        PROVE  t \in Tools /\ \E k \in i + 1 .. n : t \in ts[k].names
    BY <2>1, <2>2 DEF Exposed
  <2>3. \A t \in Exposed(app[s]) : t \in Tools
    BY <2>1 DEF Exposed
  <2>. HIDE DEF c, ts, n
  <2>4. CASE c.allow # {}
    <3>1. /\ n - 1 \in 1 .. n /\ ~ts[n - 1].shows /\ ts[n - 1].names = Tools /\ ts[n].names = c.allow
          /\ c.deny = {}
      BY <2>1, <2>4 DEF ListsAt, BothLists
    <3>2. \A k \in (n - 1) + 1 .. n : k = n
      BY <2>1
    <3>3. \A t \in Exposed(app[s]) : t \in c.allow
      BY <2>2, <2>3, <3>1, <3>2
    <3>. QED
      BY <3>1, <3>3 DEF c
  <2>5. CASE c.allow = {} /\ c.deny # {}
    <3>1. n \in 1 .. n /\ ~ts[n].shows /\ ts[n].names = c.deny
      BY <2>1, <2>5 DEF ListsAt
    <3>2. n + 1 .. n = {}
      BY <2>1
    <3>3. \A t \in Exposed(app[s]) : t \notin c.deny
      BY <2>2, <3>1, <3>2
    <3>. QED
      BY <2>5, <3>3 DEF c
  <2>. QED
    BY <2>4, <2>5 DEF c
<1>2. SurfaceInv => InstructionsTrue
  <2>. SUFFICES ASSUME SurfaceInv, NEW s \in Servers
                PROVE  LET a == app[s] IN
                       /\ a.frozen <=> a.text # NoText
                       /\ a.text.is = "rendered" => LET parts == a.text.parts IN
                            /\ Identities(parts) = {1}
                            /\ \A i, k \in DOMAIN parts : i < k => Rank(parts[i].role) <= Rank(parts[k].role)
                            /\ Exposed(a) = a.seen =>
                                 /\ \A x \in ToSet(parts) : x.requires \subseteq Exposed(a)
                                 /\ \A x \in ToSet(a.snippets) :
                                        x.requires \subseteq Exposed(a) => x \in ToSet(parts)
    BY DEF InstructionsTrue
  <2>. DEFINE a == app[s]
              e == Deployment(s).env
              parts == a.text.parts
  <2>1. /\ Written(a) /\ (a.frozen <=> a.text # NoText)
        /\ a.text.is = "rendered" => Cardinality(Identities(a.snippets)) = 1 /\ parts = Sorted(Kept(a, e))
    BY DEF SurfaceInv, Rendering
  <2>2. ASSUME a.text.is = "rendered"
        PROVE  /\ Identities(parts) = {1}
               /\ \A i, k \in DOMAIN parts : i < k => Rank(parts[i].role) <= Rank(parts[k].role)
               /\ ToSet(parts) = Kept(a, e)
    <3>1. Cardinality(Identities(a.snippets)) = 1 /\ parts = Sorted(Kept(a, e))
      BY <2>1, <2>2
    <3>. HIDE DEF a, e, parts
    <3>. QED
      BY <2>1, <3>1, RetainedIsTrue
  <2>. HIDE DEF e
  <2>3. ASSUME a.text.is = "rendered", Exposed(a) = a.seen
        PROVE  /\ \A x \in ToSet(parts) : x.requires \subseteq Exposed(a)
               /\ \A x \in ToSet(a.snippets) : x.requires \subseteq Exposed(a) => x \in ToSet(parts)
    BY <2>2, <2>3 DEF Kept, Candidates
  <2>. QED
    BY <2>1, <2>2, <2>3
<1>3. Init => AuthInv /\ StartInv /\ SurfaceInv
  BY AuthInit, StartInit, SurfaceInit
<1>4. AuthInv /\ StartInv /\ SurfaceInv /\ [Next]_vars => (AuthInv /\ StartInv /\ SurfaceInv)'
  BY AuthInductive, StartInductive, SurfaceInductive
<1>5. SurfaceInv => SurfaceIsTheOperators
  BY <1>1, <1>2 DEF SurfaceIsTheOperators
<1>. QED
  BY <1>3, <1>4, <1>5, PTL DEF Spec
=============================================================================
