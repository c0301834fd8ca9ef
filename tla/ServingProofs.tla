---------------------------- MODULE ServingProofs -----------------------------
(***************************************************************************)
(* Theorems about the life of a process of servers, for every plan, every  *)
(* environment, every set of servers and whatever authorization servers    *)
(* answer: no server goes on without authentication that its operator has  *)
(* asked for, and a readiness probe says what its checks have found.  The  *)
(* tables the first rests on are in AuthModes; what the proof adds is that *)
(* nothing between build_auth and the last request changes what build_auth *)
(* has decided (AuthInv).  A probe is followed check by check (ProbeInv).  *)
(***************************************************************************)
EXTENDS Serving, TLAPS

------------------------------------------------------------------------------
(* The decision tables of _auth.py. *)

(* The mode is "none" exactly when nothing asks for authentication.        *)
LEMMA NoneUnlessAsked ==
    ASSUME NEW c
    PROVE  /\ ResolveMode(c) = "none" <=> ~AsksForAuth(c)
           /\ ResolveMode(c) \in Modes
  BY DEF ResolveMode, AsksForAuth, Override, Overrides, Modes, None

(* A provider is missing only in that mode. *)
LEMMA ProvisionedUnlessNone ==
    ASSUME NEW c, NEW mode, NEW d
    PROVE  BuildProvider(c, mode, d) = NoProvider <=> mode = "none"
<1>1. NoProvider # Failed
  BY DEF NoProvider, Failed
<1>. QED
  BY <1>1 DEF BuildProvider, Provisioned

(* A composed provider has both its parts. *)
LEMMA MultiIsBoth ==
    ASSUME NEW c, NEW d, BuildProvider(c, "multi", d) # Failed
    PROVE  /\ BuildProvider(c, "multi", d).kind = "multi"
           /\ {BuildProvider(c, "multi", d).server, BuildProvider(c, "multi", d).verifier}
                 \cap {NoProvider, Failed} = {}
<1>. DEFINE oidc == IF BuildProxy(c, d) = NoProvider THEN BuildRemote(c, d) ELSE BuildProxy(c, d)
<1>1. BuildProvider(c, "multi", d) = Provisioned("multi", BuildMulti(c, d))
  BY DEF BuildProvider
<1>2. BuildMulti(c, d) # Failed
  BY <1>1, ProvisionedUnlessNone DEF Provisioned
<1>3. /\ BuildMulti(c, d) = [kind |-> "multi", server |-> oidc, verifier |-> BuildBearer(c)]
      /\ {oidc, BuildBearer(c)} \cap {NoProvider, Failed} = {}
  BY <1>2 DEF BuildMulti
<1>4. BuildProvider(c, "multi", d) = BuildMulti(c, d)
  BY <1>1, <1>3 DEF Provisioned, NoProvider
<1>. QED
  BY <1>3, <1>4

------------------------------------------------------------------------------
(* The invariant. *)

(* The servers and what they share are records with the fields they began  *)
(* with, whatever these hold.                                              *)
IsServer(x) == x \in [stage : {x.stage}, config : {x.config}, mode : {x.mode}, provider : {x.provider},
                      announced : {x.announced}, stores : {x.stores}, tasks : {x.tasks},
                      traceback : {x.traceback}]
IsProcess(x) == x \in [recorded : {x.recorded}, legacy_warned : {x.legacy_warned},
                       fallback_warned : {x.fallback_warned}, warnings : {x.warnings},
                       debugger : {x.debugger}, foreign : {x.foreign}, elsewhere : {x.elsewhere},
                       fresh : {x.fresh}]
Shape == /\ DOMAIN server = Servers /\ server = [s \in Servers |-> server[s]]
         /\ \A s \in Servers : IsServer(server[s]) /\ server[s].stage \in Stages
         /\ IsProcess(process) /\ DOMAIN process.recorded = Servers

(* From build_auth on a server has what build_auth made of its             *)
(* configuration, has said so once, and is recorded as it.                 *)
AsBuilt(s) ==
    LET c == server[s].config
        provider == BuildProvider(c, ResolveMode(c), Deployment(s).discovery)
    IN  /\ server[s].stage \in {"idle", "logged", "read"} => server[s].announced = << >>
        /\ server[s].stage \in {"assembling", "serving"} =>
              /\ server[s].mode = ResolveMode(c)
              /\ server[s].provider = provider /\ provider # Failed
              /\ server[s].announced = <<Announcement(provider)>>
              /\ plan.isolated => process.recorded[s] = server[s].mode

AuthInv == Shape /\ \A s \in Servers : AsBuilt(s)

(* A step that keeps a server as built: it may fail, or move on from where *)
(* nothing has been announced.                                             *)
KeptAuth(s) ==
    /\ server'[s].announced = server[s].announced
    /\ \/ server'[s].stage = "failed"
       \/ server[s].stage \in {"idle", "logged", "read"} /\ server'[s].stage \in {"idle", "logged", "read"}
       \/ /\ server[s].stage \in {"assembling", "serving"} /\ server'[s].stage \in {"assembling", "serving"}
          /\ server'[s].config = server[s].config /\ server'[s].mode = server[s].mode
          /\ server'[s].provider = server[s].provider
    /\ plan.isolated => process'.recorded[s] = process.recorded[s]

(* A server that keeps what it was built with stays as built.              *)
LEMMA KeptIsBuilt ==
    ASSUME NEW s \in Servers, AsBuilt(s), KeptAuth(s), plan' = plan
    PROVE  AsBuilt(s)'
  BY DEF AsBuilt, KeptAuth, Deployment

(* What a step may do to the recorded modes without build_auth: nothing.   *)
KeptProcess == IsProcess(process') /\ process'.recorded = process.recorded

(* A field of one server is replaced, other than those of build_auth.      *)
LEMMA OneField ==
    ASSUME Shape, NEW s \in Servers, NEW x, plan' = plan, KeptProcess,
           \/ server' = server
           \/ server' = [server EXCEPT ![s].stage = x] /\ x = "failed"
           \/ server' = [server EXCEPT ![s].stage = x] /\ x = "logged" /\ server[s].stage = "idle"
           \/ server' = [server EXCEPT ![s].stage = x] /\ x = "serving" /\ server[s].stage = "assembling"
           \/ server' = [server EXCEPT ![s].traceback = x]
           \/ server' = [server EXCEPT ![s].tasks = x]
           \/ server' = [server EXCEPT ![s].stores = x]
    PROVE  Shape' /\ \A t \in Servers : KeptAuth(t)
<1>1. Shape'
  BY DEF Shape, IsServer, KeptProcess, Stages
<1>2. ASSUME NEW t \in Servers PROVE KeptAuth(t)
  BY <1>2 DEF Shape, IsServer, KeptAuth, KeptProcess, Stages
<1>. QED
  BY <1>1, <1>2

(* A step that keeps all servers as built keeps the invariant.             *)
LEMMA KeptIsInv ==
    ASSUME AuthInv, Shape', \A t \in Servers : KeptAuth(t), plan' = plan
    PROVE  AuthInv'
  BY KeptIsBuilt DEF AuthInv

(* A step that leaves the process alone keeps its servers.                 *)
LEMMA ProcessUnchanged == ASSUME Shape, UNCHANGED process PROVE KeptProcess
  BY DEF Shape, KeptProcess

(* Warnings, the debugger and the console's history leave it alone.        *)
LEMMA WarnKeeps == ASSUME Shape, NEW c, NEW d, Warn(c, d) PROVE KeptProcess
  BY DEF Shape, IsProcess, KeptProcess, Warn

------------------------------------------------------------------------------
(* The actions. *)

(* configure_logging_from_env touches no server's provider.                *)
LEMMA ConfigureLoggingStep ==
    ASSUME AuthInv, NEW s \in Servers, ConfigureLogging(s)
    PROVE  AuthInv'
<1>1. KeptProcess
  BY DEF ConfigureLogging, AuthInv, Shape, IsProcess, KeptProcess
<1>. QED
  BY <1>1, OneField, KeptIsInv DEF ConfigureLogging, AuthInv

(* Nor does what others do to the logging of the process.                  *)
LEMMA InterferesStep ==
    ASSUME AuthInv, Interferes
    PROVE  AuthInv'
<1>1. KeptProcess
  BY DEF Interferes, AuthInv, Shape, IsProcess, KeptProcess
<1>2. plan' = plan /\ server' = server
  BY DEF Interferes
<1>3. Shape'
  BY <1>1, <1>2 DEF AuthInv, Shape, IsServer, KeptProcess
<1>4. ASSUME NEW t \in Servers PROVE KeptAuth(t)
  BY <1>1, <1>2, <1>4 DEF AuthInv, Shape, KeptAuth, KeptProcess, Stages
<1>. QED
  BY <1>2, <1>3, <1>4, KeptIsInv

(* Nor does maybe_start_debugpy.                                           *)
LEMMA StartDebuggerStep ==
    ASSUME AuthInv, NEW s \in Servers, StartDebugger(s)
    PROVE  AuthInv'
<1>0. UNCHANGED <<plan, server, console>>
  BY DEF StartDebugger
<1>1. process' = [process EXCEPT !.debugger = TRUE]
  BY DEF StartDebugger
<1>2. KeptProcess
  BY <1>1 DEF AuthInv, Shape, IsProcess, KeptProcess
<1>. QED
  BY <1>0, <1>2, OneField, KeptIsInv DEF AuthInv

(* The configuration is read before anything is announced. *)
LEMMA ReadConfigStep ==
    ASSUME AuthInv, NEW s \in Servers, ReadConfig(s)
    PROVE  AuthInv'
<1>1. KeptProcess /\ plan' = plan
  BY ProcessUnchanged DEF ReadConfig, AuthInv
<1>2. CASE Fails(s)
  BY <1>1, <1>2, OneField, KeptIsInv DEF Fails, AuthInv
<1>3. CASE \E c : server' = [server EXCEPT ![s].stage = "read", ![s].config = c]
  <2>0. PICK c : server' = [server EXCEPT ![s].stage = "read", ![s].config = c]
    BY <1>3
  <2>. DEFINE x == [server[s] EXCEPT !.stage = "read", !.config = c]
  <2>3. server' = [t \in Servers |-> IF t = s THEN x ELSE server[t]]
    BY <2>0 DEF AuthInv, Shape
  <2>4. IsServer(x) /\ x.stage = "read" /\ x.announced = server[s].announced
    BY DEF AuthInv, Shape, IsServer
  <2>. HIDE DEF x
  <2>1. Shape'
    BY <1>1, <2>3, <2>4 DEF AuthInv, Shape, KeptProcess, Stages
  <2>2. ASSUME NEW t \in Servers PROVE KeptAuth(t)
    <3>1. CASE t = s
      BY <1>1, <2>3, <2>4, <3>1 DEF ReadConfig, KeptAuth, KeptProcess
    <3>2. CASE t # s
      BY <1>1, <2>3, <3>2 DEF AuthInv, Shape, KeptAuth, KeptProcess, Stages
    <3>. QED
      BY <3>1, <3>2
  <2>. QED
    BY <1>1, <2>1, <2>2, KeptIsInv
<1>. QED
  BY <1>2, <1>3 DEF ReadConfig

(* build_auth itself.  In contexts of their own other servers' records     *)
(* stay; in a shared one only the last server's is its own.                *)
LEMMA BuildAuthStep ==
    ASSUME AuthInv, NEW s \in Servers, BuildAuth(s)
    PROVE  AuthInv'
<1>. DEFINE c == server[s].config
            provider == BuildProvider(c, ResolveMode(c), Deployment(s).discovery)
            stage == IF provider = Failed THEN "failed" ELSE "assembling"
<1>0. Shape /\ AsBuilt(s) /\ plan' = plan /\ server[s].stage = "read"
  BY DEF BuildAuth, AuthInv
<1>1. process' = [process EXCEPT !.recorded =
                     [t \in Servers |-> IF t \in Cell(s) THEN ResolveMode(c) ELSE process.recorded[t]]]
  BY DEF BuildAuth
<1>2. /\ IsProcess(process') /\ DOMAIN process'.recorded = Servers
      /\ \A t \in Servers : process'.recorded[t] = IF t \in Cell(s) THEN ResolveMode(c) ELSE process.recorded[t]
  BY <1>0, <1>1 DEF Shape, IsProcess
<1>3. server' = [server EXCEPT ![s].stage = stage, ![s].mode = ResolveMode(c), ![s].provider = provider,
                               ![s].announced = <<Announcement(provider)>>]
  <2>1. server[s].announced = << >>
    BY <1>0 DEF AsBuilt
  <2>2. Append(<< >>, Announcement(provider)) = <<Announcement(provider)>>
    OBVIOUS
  <2>. QED
    BY <2>1, <2>2 DEF BuildAuth
<1>4. Shape'
  BY <1>0, <1>2, <1>3 DEF Shape, IsServer, Stages
<1>5. /\ server'[s].stage = stage /\ server'[s].config = c /\ server'[s].mode = ResolveMode(c)
      /\ server'[s].provider = provider /\ server'[s].announced = <<Announcement(provider)>>
  BY <1>0, <1>3 DEF Shape, IsServer
<1>6. AsBuilt(s)'
  <2>1. plan.isolated => process'.recorded[s] = ResolveMode(c)
    BY <1>2 DEF Cell
  <2>. QED
    BY <1>0, <1>5, <2>1 DEF AsBuilt, Deployment
<1>7. ASSUME NEW t \in Servers \ {s} PROVE AsBuilt(t)'
  <2>1. server'[t] = server[t]
    BY <1>0, <1>3, <1>7 DEF Shape
  <2>2. plan.isolated => process'.recorded[t] = process.recorded[t]
    BY <1>2, <1>7 DEF Cell
  <2>. QED
    BY <1>0, <1>7, <2>1, <2>2 DEF AuthInv, AsBuilt, Deployment
<1>. QED
  BY <1>4, <1>6, <1>7 DEF AuthInv

(* Nor does wire_middleware_stack.                                         *)
LEMMA WireMiddlewareStep ==
    ASSUME AuthInv, NEW s \in Servers, WireMiddleware(s)
    PROVE  AuthInv'
<1>1. KeptProcess
  BY ProcessUnchanged DEF WireMiddleware, AuthInv
<1>. QED
  BY <1>1, OneField, KeptIsInv DEF WireMiddleware, AuthInv

(* A start that fails builds nothing more.                                 *)
LEMMA FailsStep ==
    ASSUME AuthInv, NEW s \in Servers, Fails(s), KeptProcess, plan' = plan
    PROVE  AuthInv'
  BY OneField, KeptIsInv DEF Fails, AuthInv

(* build_kv_store leaves the provider as it was built.                     *)
LEMMA BuildStoreStep ==
    ASSUME AuthInv, NEW s \in Servers, NEW namespace, BuildStore(s, namespace)
    PROVE  AuthInv'
<1>1. KeptProcess /\ plan' = plan
  BY WarnKeeps DEF BuildStore, AuthInv
<1>2. CASE Fails(s)
  BY <1>1, <1>2, FailsStep
<1>3. CASE ~Fails(s)
  <2>1. PICK url : server' = [server EXCEPT ![s].stores[namespace] = url]
    BY <1>3 DEF BuildStore
  <2>2. server' = [server EXCEPT ![s].stores = [server[s].stores EXCEPT ![namespace] = url]]
    BY <2>1
  <2>. QED
    BY <1>1, <2>2, OneField, KeptIsInv DEF AuthInv
<1>. QED
  BY <1>2, <1>3

(* So does configure_task_backend.                                         *)
LEMMA ConfigureTasksStep ==
    ASSUME AuthInv, NEW s \in Servers, ConfigureTasks(s)
    PROVE  AuthInv'
<1>1. KeptProcess /\ plan' = plan
  BY ProcessUnchanged DEF ConfigureTasks, AuthInv
<1>2. CASE Fails(s)
  BY <1>1, <1>2, FailsStep
<1>3. CASE server' = [server EXCEPT ![s].tasks = NoTasks]
  BY <1>1, <1>3, OneField, KeptIsInv DEF AuthInv
<1>4. CASE \E url : server' = [server EXCEPT ![s].tasks = url,
                                            ![s].stage = IF Parseable(url) THEN server[s].stage ELSE "failed"]
  <2>1. PICK url : server' = [server EXCEPT ![s].tasks = url,
                                            ![s].stage = IF Parseable(url) THEN server[s].stage ELSE "failed"]
    BY <1>4
  <2>2. Shape'
    BY <1>1, <2>1 DEF AuthInv, Shape, IsServer, KeptProcess, Stages
  <2>3. ASSUME NEW t \in Servers PROVE KeptAuth(t)
    BY <1>1, <2>1, <2>3 DEF AuthInv, Shape, IsServer, KeptAuth, KeptProcess, Stages
  <2>. QED
    BY <1>1, <2>2, <2>3, KeptIsInv
<1>. QED
  BY <1>2, <1>3, <1>4 DEF ConfigureTasks

(* Serving, and what follows. *)
LEMMA ServeStep ==
    ASSUME AuthInv, NEW s \in Servers, Serve(s)
    PROVE  AuthInv'
<1>1. KeptProcess /\ plan' = plan /\ server[s].stage = "assembling"
  BY ProcessUnchanged DEF Serve, Assembling, AuthInv
<1>2. CASE Fails(s)
  BY <1>1, <1>2, FailsStep
<1>3. CASE server' = [server EXCEPT ![s].stage = "serving"]
  BY <1>1, <1>3, OneField, KeptIsInv DEF AuthInv
<1>. QED
  BY <1>2, <1>3 DEF Serve

(* A step that leaves the servers and what they share alone. *)
LEMMA ElsewhereStep ==
    ASSUME AuthInv, UNCHANGED <<plan, server, process>>
    PROVE  AuthInv'
<1>1. Shape'
  BY DEF AuthInv, Shape, IsServer, IsProcess
<1>2. ASSUME NEW t \in Servers PROVE AsBuilt(t)'
  BY <1>2 DEF AuthInv, AsBuilt, Deployment
<1>. QED
  BY <1>1, <1>2 DEF AuthInv

(* Assembling the surface changes nothing of the process.                  *)
LEMMA AssemblyIsElsewhere ==
    ASSUME AuthInv, AssemblyStep
    PROVE  AuthInv'
<1>1. \/ UNCHANGED <<plan, server, process>>
      \/ \E s \in Servers : Fails(s) /\ UNCHANGED <<plan, process>>
  BY DEF AssemblyStep, RegisterTool, OwnVisibility, ApplyToolVisibility, Contribute, Finalize, svars
<1>. QED
  BY <1>1, ElsewhereStep, FailsStep, ProcessUnchanged DEF AuthInv

(* Every step keeps what each server was built with.                       *)
LEMMA AuthInductive == AuthInv /\ [Next]_vars => AuthInv'
<1>. SUFFICES ASSUME AuthInv, [Next]_vars PROVE AuthInv'
  OBVIOUS
<1>1. CASE StartupStep
  BY <1>1, InterferesStep, ConfigureLoggingStep, StartDebuggerStep, ReadConfigStep, BuildAuthStep,
     WireMiddlewareStep, ConfigureTasksStep, BuildStoreStep DEF StartupStep
<1>2. CASE AssemblyStep
  BY <1>2, AssemblyIsElsewhere
<1>3. ASSUME NEW s \in Servers, RegisterHealth(s) \/ RegisterTransfer(s) PROVE AuthInv'
  <2>1. \/ Fails(s) /\ UNCHANGED <<plan, process>>
        \/ \E namespace \in Namespaces : BuildStore(s, namespace)
    BY <1>3 DEF RegisterHealth, RegisterTransfer, Namespaces
  <2>. QED
    BY <1>3, <2>1, FailsStep, ProcessUnchanged, BuildStoreStep DEF AuthInv
<1>4. ASSUME NEW s \in Servers, Serve(s) PROVE AuthInv'
  BY <1>4, ServeStep
<1>5. CASE UNCHANGED avars
  BY <1>5, ElsewhereStep DEF avars, svars
<1>6. ProbeLoop => UNCHANGED avars
  BY DEF ProbeLoop, ProbeAnswers, ProbeTick, CheckTimesOut
<1>7. ASSUME NEW s \in Servers,
             \/ ProbeStarts(s) \/ ProbeCancelled(s)
             \/ \E c \in DOMAIN probe[s].checks, v \in Verdicts : CheckEnds(s, c, v)
      PROVE  UNCHANGED avars
  BY <1>7 DEF ProbeStarts, ProbeCancelled, CheckEnds
<1>. QED
  BY <1>1, <1>2, <1>3, <1>4, <1>5, <1>6, <1>7 DEF Next, vars

(* It holds of a process without a server.                                 *)
LEMMA AuthInit == Init => AuthInv
<1>. SUFFICES ASSUME Init PROVE AuthInv
  OBVIOUS
<1>1. server = [s \in Servers |-> Idle] /\ process.recorded = [s \in Servers |-> None]
  BY DEF Init, AInit, SInit
<1>2. IsProcess(process)
  BY DEF Init, AInit, SInit, IsProcess
<1>3. Shape
  BY <1>1, <1>2 DEF Shape, IsServer, Idle, Stages
<1>4. ASSUME NEW s \in Servers PROVE AsBuilt(s)
  BY <1>1, <1>4 DEF AsBuilt, Idle
<1>. QED
  BY <1>3, <1>4 DEF AuthInv

(* What operator and domain code set out to do is settled at the start.    *)
LEMMA PlanStays == [Next]_vars => plan' = plan
<1>1. StartupStep => plan' = plan
  <2>1. Interferes => plan' = plan
    BY DEF Interferes
  <2>2. ASSUME NEW s \in Servers
        PROVE  ConfigureLogging(s) \/ StartDebugger(s) \/ ReadConfig(s) \/ BuildAuth(s) => plan' = plan
    <3>1. ConfigureLogging(s) \/ BuildAuth(s) => plan' = plan
      BY DEF ConfigureLogging, BuildAuth
    <3>2. StartDebugger(s) => plan' = plan
      BY DEF StartDebugger
    <3>3. ReadConfig(s) => plan' = plan
      BY DEF ReadConfig
    <3>. QED
      BY <3>1, <3>2, <3>3
  <2>3. ASSUME NEW s \in Servers PROVE WireMiddleware(s) \/ ConfigureTasks(s) => plan' = plan
    BY DEF WireMiddleware, ConfigureTasks
  <2>4. ASSUME NEW s \in Servers, NEW n, BuildStore(s, n) PROVE plan' = plan
    BY <2>4 DEF BuildStore
  <2>. QED
    BY <2>1, <2>2, <2>3, <2>4 DEF StartupStep
<1>2. AssemblyStep => plan' = plan
  BY DEF AssemblyStep, RegisterTool, OwnVisibility, ApplyToolVisibility, Contribute, Finalize, svars
<1>3. ProbeLoop => plan' = plan
  BY DEF ProbeLoop, ProbeAnswers, ProbeTick, CheckTimesOut, avars, svars
<1>4. ASSUME NEW s \in Servers,
             \/ RegisterHealth(s) \/ RegisterTransfer(s) \/ Serve(s) \/ ProbeStarts(s) \/ ProbeCancelled(s)
             \/ \E c \in DOMAIN probe[s].checks, v \in Verdicts : CheckEnds(s, c, v)
      PROVE  plan' = plan
  BY <1>4 DEF RegisterHealth, RegisterTransfer, Serve, ProbeStarts, ProbeCancelled, CheckEnds, BuildStore,
              avars, svars
<1>. QED
  BY <1>1, <1>2, <1>3, <1>4 DEF Next, vars, avars, svars

------------------------------------------------------------------------------
(* Readiness. *)

(* A probe that is under way or answered is about the checks of the        *)
(* deployment and pvl-core's own, each running or with a verdict; what it  *)
(* has answered is what they have said.                                    *)
ProbeShape(s) ==
    /\ probe[s] \in [at : {"none", "checking", "answered"}, checks : {probe[s].checks}, age : {probe[s].age},
                     status : {probe[s].status}, errors : {probe[s].errors}, count : {probe[s].count}]
    /\ probe[s].at # "none" =>
          probe[s].checks \in [Deployment(s).checks \cup {Kv} -> Verdicts \cup {"running"}]
Answers(s) ==
    probe[s].at = "answered" =>
        /\ Running(s) = {}
        /\ probe[s].status = 200 => Of(s, "raised") = {} /\ Of(s, "false") = {}
        /\ probe[s].errors \subseteq Of(s, "raised")
        /\ probe[s].errors # {} => Detail(s) = "full" /\ probe[s].status = 503
ProbeInv == /\ probe = [s \in Servers |-> probe[s]]
            /\ \A s \in Servers : ProbeShape(s) /\ Answers(s)

(* One server's probe is replaced by one that fits. *)
LEMMA OneProbe ==
    ASSUME ProbeInv, plan' = plan, NEW s \in Servers, NEW p,
           probe' = [probe EXCEPT ![s] = p], ProbeShape(s)', Answers(s)'
    PROVE  ProbeInv'
<1>1. probe' = [t \in Servers |-> probe'[t]]
  BY DEF ProbeInv
<1>2. ASSUME NEW t \in Servers \ {s} PROVE ProbeShape(t)' /\ Answers(t)'
  <2>1. probe'[t] = probe[t] /\ ProbeShape(t) /\ Answers(t)
    BY DEF ProbeInv
  <2>. QED
    BY <2>1 DEF ProbeShape, Answers, Deployment, Running, Of, Detail
<1>. QED
  BY <1>1, <1>2 DEF ProbeInv

(* A probe that is started, or goes on, fits: it has answered nothing.     *)
LEMMA OpenProbe ==
    ASSUME ProbeInv, UNCHANGED avars, NEW s \in Servers, NEW p, probe' = [probe EXCEPT ![s] = p],
           p \in [at : {"none", "checking"}, checks : {p.checks}, age : {p.age}, status : {p.status},
                  errors : {p.errors}, count : {p.count}],
           p.at = "checking" => p.checks \in [Deployment(s).checks \cup {Kv} -> Verdicts \cup {"running"}]
    PROVE  ProbeInv'
<1>1. plan' = plan /\ probe'[s] = p
  <2>1. probe'[s] = p
    BY DEF ProbeInv
  <2>. QED
    BY <2>1 DEF avars, svars
<1>2. ProbeShape(s)' /\ Answers(s)'
  BY <1>1 DEF ProbeShape, Answers, Deployment
<1>. QED
  BY <1>1, <1>2, OneProbe

(* A check that comes to its end leaves the probe open.                    *)
LEMMA CheckStep ==
    ASSUME ProbeInv, UNCHANGED avars, NEW s \in Servers, Probed(s), NEW c \in Running(s),
           NEW verdict \in Verdicts, probe' = [probe EXCEPT ![s].checks[c] = verdict]
    PROVE  ProbeInv'
<1>. DEFINE p == [probe[s] EXCEPT !.checks = [probe[s].checks EXCEPT ![c] = verdict]]
<1>1. probe' = [probe EXCEPT ![s] = p]
  OBVIOUS
<1>2. /\ ProbeShape(s) /\ probe[s].at = "checking"
  BY DEF ProbeInv, Probed
<1>3. p.checks \in [Deployment(s).checks \cup {Kv} -> Verdicts \cup {"running"}]
  BY <1>2 DEF ProbeShape, Running
<1>4. p \in [at : {"checking"}, checks : {p.checks}, age : {p.age}, status : {p.status},
             errors : {p.errors}, count : {p.count}]
  BY <1>2 DEF ProbeShape
<1>. HIDE DEF p
<1>. QED
  BY <1>1, <1>3, <1>4, OpenProbe

(* A probe answers what its checks have said. *)
LEMMA ProbeAnswersStep ==
    ASSUME ProbeInv, NEW s \in Servers, ProbeAnswers(s)
    PROVE  ProbeInv'
<1>. DEFINE status == IF Of(s, "raised") = {} /\ Of(s, "false") = {} THEN 200 ELSE 503
            errors == IF Detail(s) = "full" THEN Of(s, "raised") ELSE {}
            p == [probe[s] EXCEPT !.at = "answered", !.status = status, !.errors = errors]
<1>1. /\ probe' = [probe EXCEPT ![s] = p] /\ plan' = plan
      /\ ProbeShape(s) /\ probe[s].at = "checking" /\ Running(s) = {}
  <2>1. ProbeShape(s) /\ probe[s].at = "checking" /\ Running(s) = {} /\ plan' = plan
    BY DEF ProbeAnswers, avars, svars, ProbeInv, Probed
  <2>2. probe' = [probe EXCEPT ![s].at = "answered", ![s].status = status, ![s].errors = errors]
    BY DEF ProbeAnswers
  <2>3. probe' = [probe EXCEPT ![s] = p]
    <3>. HIDE DEF status, errors
    <3>. QED
      BY <2>2 DEF ProbeInv
  <2>. QED
    BY <2>1, <2>3
<1>2. /\ p.at = "answered" /\ p.checks = probe[s].checks /\ p.status = status /\ p.errors = errors
      /\ p \in [at : {"answered"}, checks : {p.checks}, age : {p.age}, status : {p.status},
                errors : {p.errors}, count : {p.count}]
  <2>. HIDE DEF status, errors
  <2>. QED
    BY <1>1 DEF ProbeShape
<1>. HIDE DEF p
<1>3. probe'[s] = p
  BY <1>1 DEF ProbeInv
<1>4. ProbeShape(s)'
  BY <1>1, <1>2, <1>3 DEF ProbeShape, Deployment
<1>5. /\ Running(s)' = {} /\ Detail(s)' = Detail(s)
      /\ Of(s, "raised")' = Of(s, "raised") /\ Of(s, "false")' = Of(s, "false")
  BY <1>1, <1>2, <1>3 DEF Running, Of, Detail, Deployment
<1>6. Answers(s)'
  BY <1>2, <1>3, <1>5 DEF Answers
<1>. QED
  BY <1>1, <1>4, <1>6, OneProbe

(* Every step keeps what probes are about and have answered.               *)
LEMMA ProbeInductive == ProbeInv /\ [Next]_vars => ProbeInv'
<1>. SUFFICES ASSUME ProbeInv, [Next]_vars PROVE ProbeInv'
  OBVIOUS
<1>1. CASE probe' = probe /\ plan' = plan
  <2>1. ASSUME NEW s \in Servers PROVE ProbeShape(s)' /\ Answers(s)'
    <3>1. ProbeShape(s) /\ Answers(s)
      BY DEF ProbeInv
    <3>. QED
      BY <1>1, <3>1 DEF ProbeShape, Answers, Deployment, Running, Of, Detail
  <2>. QED
    BY <1>1, <2>1 DEF ProbeInv
<1>2. ASSUME NEW s \in Servers, ProbeAnswers(s) PROVE ProbeInv'
  BY <1>2, ProbeAnswersStep
<1>3. ASSUME NEW s \in Servers, ProbeTick(s) PROVE ProbeInv'
  <2>. DEFINE p == [probe[s] EXCEPT !.age = probe[s].age + 1]
  <2>1. probe' = [probe EXCEPT ![s] = p] /\ UNCHANGED avars /\ probe[s].at = "checking" /\ ProbeShape(s)
    BY <1>3 DEF ProbeTick, Probed, ProbeInv
  <2>2. /\ p \in [at : {"checking"}, checks : {p.checks}, age : {p.age}, status : {p.status},
                  errors : {p.errors}, count : {p.count}]
        /\ p.checks \in [Deployment(s).checks \cup {Kv} -> Verdicts \cup {"running"}]
    BY <2>1 DEF ProbeShape
  <2>. HIDE DEF p
  <2>. QED
    BY <2>1, <2>2, OpenProbe
<1>4. ASSUME NEW s \in Servers, NEW c \in DOMAIN probe[s].checks,
             CheckTimesOut(s, c) \/ \E v \in Verdicts : CheckEnds(s, c, v)
      PROVE  ProbeInv'
  BY <1>4, CheckStep DEF CheckTimesOut, CheckEnds, Verdicts
<1>5. ASSUME NEW s \in Servers, ProbeStarts(s) PROVE ProbeInv'
  <2>. DEFINE p == [NoProbe EXCEPT !.at = "checking", !.count = probe[s].count + 1,
                       !.checks = [c \in Deployment(s).checks \cup {Kv} |-> "running"]]
  <2>1. probe' = [probe EXCEPT ![s] = p] /\ UNCHANGED avars
    BY <1>5 DEF ProbeStarts
  <2>2. /\ p \in [at : {"checking"}, checks : {p.checks}, age : {p.age}, status : {p.status},
                  errors : {p.errors}, count : {p.count}]
        /\ p.checks \in [Deployment(s).checks \cup {Kv} -> Verdicts \cup {"running"}]
    BY DEF NoProbe
  <2>. HIDE DEF p
  <2>. QED
    BY <2>1, <2>2, OpenProbe
<1>6. ASSUME NEW s \in Servers, ProbeCancelled(s) PROVE ProbeInv'
  <2>. DEFINE p == [NoProbe EXCEPT !.count = probe[s].count]
  <2>1. probe' = [probe EXCEPT ![s] = p] /\ UNCHANGED avars
    BY <1>6 DEF ProbeCancelled
  <2>2. /\ p \in [at : {"none"}, checks : {p.checks}, age : {p.age}, status : {p.status},
                  errors : {p.errors}, count : {p.count}]
    BY DEF NoProbe
  <2>. HIDE DEF p
  <2>. QED
    BY <2>1, <2>2, OpenProbe
<1>7. plan' = plan
  BY PlanStays
<1>. QED
  BY <1>1, <1>2, <1>3, <1>4, <1>5, <1>6, <1>7
     DEF Next, vars, ProbeLoop, RegisterHealth, RegisterTransfer, Serve

------------------------------------------------------------------------------
(* Theorems. *)

(* No server goes on without authentication that its configuration asks    *)
(* for in any way, and what is announced and recorded is what is served    *)
(* (build_auth, _reject_unprovisioned_mode, get_subject).                  *)
THEOREM NeverOpen == Spec => []NeverOpenByAccident
<1>1. AuthInv => NeverOpenByAccident
  <2>. SUFFICES ASSUME AuthInv, NEW s \in Servers, server[s].stage \in {"assembling", "serving"}
                PROVE  LET open == server[s].provider = NoProvider IN
                       /\ open <=> ~AsksForAuth(server[s].config)
                       /\ server[s].announced = <<IF open THEN "unauthenticated" ELSE "authenticated">>
                       /\ server[s].mode = "multi" =>
                              /\ server[s].provider.kind = "multi"
                              /\ {server[s].provider.server, server[s].provider.verifier}
                                     \cap {NoProvider, Failed} = {}
                       /\ plan.isolated => (open <=> process.recorded[s] = "none")
    BY DEF NeverOpenByAccident
  <2>. DEFINE c == server[s].config
              d == Deployment(s).discovery
              provider == BuildProvider(c, ResolveMode(c), d)
  <2>1. /\ server[s].mode = ResolveMode(c) /\ server[s].provider = provider /\ provider # Failed
        /\ server[s].announced = <<Announcement(provider)>>
        /\ plan.isolated => process.recorded[s] = ResolveMode(c)
    BY DEF AuthInv, AsBuilt
  <2>2. provider = NoProvider <=> ResolveMode(c) = "none"
    BY ProvisionedUnlessNone
  <2>3. ResolveMode(c) = "none" <=> ~AsksForAuth(c)
    BY NoneUnlessAsked
  <2>4. Announcement(provider) = IF provider = NoProvider THEN "unauthenticated" ELSE "authenticated"
    BY <2>1 DEF Announcement
  <2>5. ResolveMode(c) = "multi" =>
           provider.kind = "multi" /\ {provider.server, provider.verifier} \cap {NoProvider, Failed} = {}
    BY <2>1, MultiIsBoth
  <2>. QED
    BY <2>1, <2>2, <2>3, <2>4, <2>5
<1>. QED
  BY <1>1, AuthInit, AuthInductive, PTL DEF Spec

(* A probe says ready only when every check did, pvl-core's own write      *)
(* included, and gives reasons only for checks that raised, to an operator *)
(* who asked for them (_gather_checks).                                    *)
THEOREM ReadyIsTheChecks == Spec => []ReadinessIsTheChecks
<1>1. Init => ProbeInv
  <2>. SUFFICES ASSUME Init PROVE ProbeInv
    OBVIOUS
  <2>1. probe = [s \in Servers |-> NoProbe]
    BY DEF Init
  <2>. QED
    BY <2>1 DEF ProbeInv, ProbeShape, Answers, NoProbe
<1>2. ProbeInv => ReadinessIsTheChecks
  <2>. SUFFICES ASSUME ProbeInv, NEW s \in Servers, probe[s].at = "answered"
                PROVE  /\ Running(s) = {}
                       /\ probe[s].status = 200 =>
                             \A c \in Deployment(s).checks \cup {Kv} : probe[s].checks[c] = "true"
                       /\ probe[s].errors \subseteq Of(s, "raised")
                       /\ probe[s].errors # {} => Detail(s) = "full" /\ probe[s].status = 503
    BY DEF ReadinessIsTheChecks
  <2>1. ProbeShape(s) /\ Answers(s)
    BY DEF ProbeInv
  <2>2. ASSUME probe[s].status = 200, NEW c \in Deployment(s).checks \cup {Kv}
        PROVE  probe[s].checks[c] = "true"
    <3>1. probe[s].checks[c] \in Verdicts \cup {"running"} /\ c \in DOMAIN probe[s].checks
      BY <2>1 DEF ProbeShape
    <3>. QED
      BY <2>1, <2>2, <3>1 DEF Answers, Running, Of, Verdicts
  <2>. QED
    BY <2>1, <2>2 DEF Answers
<1>. QED
  BY <1>1, <1>2, ProbeInductive, PTL DEF Spec


(* The OpenID Connect part of what is built comes from one of two builders. *)
LEMMA OidcPartIsBuilt ==
    ASSUME NEW c, NEW mode \in Modes, NEW d, BuildProvider(c, mode, d) # Failed,
           NEW oidc \in OidcPart(BuildProvider(c, mode, d))
    PROVE  /\ oidc \in {BuildProxy(c, d), BuildRemote(c, d)}
           /\ oidc \notin {NoProvider, Failed}
<1>. DEFINE provider == BuildProvider(c, mode, d)
<1>1. CASE mode = "multi"
  <2>1. provider.kind = "multi" /\ provider.server \notin {NoProvider, Failed}
    BY <1>1, MultiIsBoth
  <2>2. oidc = provider.server
    BY <2>1 DEF OidcPart
  <2>3. provider = BuildMulti(c, d)
    BY <1>1, ProvisionedUnlessNone DEF BuildProvider, Provisioned
  <2>4. provider.server \in {BuildProxy(c, d), BuildRemote(c, d)}
    BY <2>3, <1>1 DEF BuildMulti
  <2>. QED
    BY <2>1, <2>2, <2>4
<1>2. CASE mode \in {"oidc-proxy", "remote"}
  <2>1. provider \in {BuildProxy(c, d), BuildRemote(c, d)} /\ provider # NoProvider
    BY <1>2, ProvisionedUnlessNone DEF BuildProvider, Provisioned
  <2>2. provider.kind \in {"oidc-proxy", "remote"}
    BY <2>1 DEF BuildProxy, BuildRemote, NoProvider, Failed
  <2>. QED
    BY <2>1, <2>2 DEF OidcPart
<1>3. CASE mode \in {"none", "bearer-single", "bearer-mapped"}
  <2>1. provider \in {NoProvider, BuildBearer(c)}
    BY <1>3 DEF BuildProvider, Provisioned
  <2>2. provider.kind \notin {"oidc-proxy", "remote", "multi"}
    BY <2>1 DEF BuildBearer, NoProvider, Failed
  <2>. QED
    BY <2>2 DEF OidcPart
<1>. QED
  BY <1>1, <1>2, <1>3 DEF Modes

(* The run serving_scopes shows that a server may require what it does not *)
(* advertise.  The one scope this can be is the openid that a proxy        *)
(* requires when the operator has named no scope to require                *)
(* (build_oidc_proxy_auth, _resolve_advertised_scopes).                    *)
OnlyOpenidIsMissing ==
    \A s \in Servers : server[s].stage \in {"assembling", "serving"} =>
        \A oidc \in OidcPart(server[s].provider) :
            oidc.required \subseteq
                oidc.advertised \cup {x \in {"openid"} : server[s].config.required = {}}

(* So it is in every process of servers. *)
THEOREM OpenidIsTheException == Spec => []OnlyOpenidIsMissing
<1>1. ASSUME AuthInv, NEW s \in Servers, server[s].stage \in {"assembling", "serving"},
             NEW oidc \in OidcPart(server[s].provider)
      PROVE  oidc.required \subseteq
                 oidc.advertised \cup {x \in {"openid"} : server[s].config.required = {}}
  <2>. DEFINE c == server[s].config
              d == Deployment(s).discovery
  <2>1. server[s].provider = BuildProvider(c, ResolveMode(c), d) /\ server[s].provider # Failed
    BY <1>1 DEF AuthInv, AsBuilt
  <2>2. oidc \in {BuildProxy(c, d), BuildRemote(c, d)} \ {NoProvider, Failed}
    BY <1>1, <2>1, NoneUnlessAsked, OidcPartIsBuilt
  <2>3. CASE oidc = BuildProxy(c, d)
    BY <2>2, <2>3 DEF BuildProxy, Advertised
  <2>4. CASE oidc = BuildRemote(c, d)
    BY <2>2, <2>4 DEF BuildRemote, Advertised
  <2>. QED
    BY <2>2, <2>3, <2>4
<1>2. AuthInv => OnlyOpenidIsMissing
  BY <1>1 DEF OnlyOpenidIsMissing
<1>. QED
  BY <1>2, AuthInit, AuthInductive, PTL DEF Spec
==============================================================================
