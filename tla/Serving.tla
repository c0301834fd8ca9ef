------------------------------- MODULE Serving -------------------------------
(***************************************************************************)
(* The life of a process of servers: built by Startup and Assembly, served *)
(* by run_http, and probed by an orchestrator through the readiness route  *)
(* of _health.py, which runs all checks of a server at once.  Each check   *)
(* answers, raises or hangs, and one that is synchronous holds the event   *)
(* loop meanwhile; the liveness route has no state.                        *)
(***************************************************************************)
EXTENDS Assembly

CONSTANT CheckTimeoutS       \* _CHECK_TIMEOUT_S

VARIABLE probe               \* the readiness probe each server is answering

vars == <<avars, probe>>

Kv       == "kv_store"       \* _RESERVED_CHECK_NAMES
Verdicts == {"true", "false", "raised"}
NoProbe  == [at |-> "none", checks |-> [c \in {Kv} |-> "none"], age |-> 0, status |-> 0, errors |-> {}, count |-> 0]

Init == AInit /\ probe = [s \in Servers |-> NoProbe]

(* register_health_routes: a domain check may not take pvl-core's name.    *)
RegisterHealth(s) ==
    /\ Assembling(s) /\ server[s].stores["health"] = NoStore
    /\ UNCHANGED <<app, probe>>
    /\ \/ Kv \in Deployment(s).checks /\ Fails(s) /\ UNCHANGED <<plan, process, console>>
       \/ Kv \notin Deployment(s).checks /\ BuildStore(s, "health")

(* build_transfer_links: there is no link without a public URL.            *)
RegisterTransfer(s) ==
    /\ Assembling(s) /\ "stores" \in plan.uses /\ server[s].stores["links"] = NoStore
    /\ UNCHANGED <<app, probe>>
    /\ \/ ~Truthy(server[s].config.base_url) /\ Fails(s) /\ UNCHANGED <<plan, process, console>>
       \/ Truthy(server[s].config.base_url) /\ BuildStore(s, "links")

(* run_http: uvicorn leaves logging as it is, and a server that has not    *)
(* started exits.                                                          *)
Serve(s) ==
    /\ Assembling(s)
    /\ \/ server' = [server EXCEPT ![s].stage = "serving"]
       \/ Fails(s)
    /\ UNCHANGED <<plan, process, console, app, probe>>

------------------------------------------------------------------------------
(* _health_detail: unset and unknown are "standard".                       *)
Detail(s) == LET d == Env(Deployment(s).env.health_detail, "standard")
             IN  IF d \in {"status", "full"} THEN d ELSE "standard"

Probed(s) == probe[s].at = "checking"
Running(s) == {c \in DOMAIN probe[s].checks : probe[s].checks[c] = "running"}

(* Synchronous checks, which do not return to the event loop before they   *)
(* return: nothing else of the probe goes on.                              *)
Blocking(s) == Running(s) \cap Deployment(s).sync

ProbeStarts(s) ==
    /\ server[s].stage = "serving" /\ server[s].stores["health"] # NoStore
    /\ ~Probed(s) /\ probe[s].count < plan.probes
    /\ probe' = [probe EXCEPT ![s] = [NoProbe EXCEPT
                    !.at = "checking", !.count = probe[s].count + 1,
                    !.checks = [c \in Deployment(s).checks \cup {Kv} |-> "running"]]]
    /\ UNCHANGED avars

(* _invoke: the check returns, or raises.  While another one blocks, only  *)
(* one that never awaits can have done so before.                          *)
CheckEnds(s, c, verdict) ==
    /\ Probed(s) /\ c \in Running(s)
    /\ c \in Deployment(s).sync \/ Blocking(s) = {} \/ probe[s].age = 0
    /\ c = Kv => verdict # "false"
    /\ probe' = [probe EXCEPT ![s].checks[c] = verdict]
    /\ UNCHANGED avars

(* Mutant of CheckTimesOut: wait_for is given no time.                     *)
CheckTimesOutNever(s, c) == FALSE /\ CheckEnds(s, c, "raised")

(* wait_for in _invoke, of a check that returned an awaitable.  (That the  *)
(* limit of one called after a blocking check begins later is left out.)   *)
CheckTimesOut(s, c) ==
    /\ Probed(s) /\ c \in Running(s) /\ probe[s].age >= CheckTimeoutS
    /\ Blocking(s) = {}
    /\ probe' = [probe EXCEPT ![s].checks[c] = "raised"]
    /\ UNCHANGED avars

Of(s, verdict) == {c \in DOMAIN probe[s].checks : probe[s].checks[c] = verdict}

(* Mutant of ProbeAnswers: the first check that raises ends the probe.     *)
ProbeAnswersFirst(s) ==
    /\ Probed(s) /\ (Running(s) = {} \/ Of(s, "raised") # {})
    /\ probe' = [probe EXCEPT ![s].at = "answered",
                              ![s].status = IF Of(s, "raised") = {} /\ Of(s, "false") = {} THEN 200 ELSE 503,
                              ![s].errors = IF Detail(s) = "full" THEN Of(s, "raised") ELSE {}]
    /\ UNCHANGED avars

(* _readiness, when _gather_checks has all outcomes.                       *)
ProbeAnswers(s) ==
    /\ Probed(s) /\ Running(s) = {}
    /\ probe' = [probe EXCEPT ![s].at = "answered",
                              ![s].status = IF Of(s, "raised") = {} /\ Of(s, "false") = {} THEN 200 ELSE 503,
                              ![s].errors = IF Detail(s) = "full" THEN Of(s, "raised") ELSE {}]
    /\ UNCHANGED avars

(* The prober hangs up: the checks are cancelled with the request.         *)
ProbeCancelled(s) == /\ Probed(s) /\ Blocking(s) = {}
                     /\ probe' = [probe EXCEPT ![s] = [NoProbe EXCEPT !.count = probe[s].count]]
                     /\ UNCHANGED avars

ProbeTick(s) == /\ Probed(s) /\ Running(s) # {} /\ probe[s].age < CheckTimeoutS
                /\ probe' = [probe EXCEPT ![s].age = @ + 1]
                /\ UNCHANGED avars

(* What the event loop and its clock do by themselves.                     *)
ProbeLoop == \E s \in Servers :
    ProbeAnswers(s) \/ ProbeTick(s) \/ \E c \in DOMAIN probe[s].checks : CheckTimesOut(s, c)

Next == \/ StartupStep /\ UNCHANGED <<app, probe>>
        \/ AssemblyStep /\ UNCHANGED probe
        \/ ProbeLoop
        \/ \E s \in Servers :
              \/ RegisterHealth(s) \/ RegisterTransfer(s) \/ Serve(s) \/ ProbeStarts(s) \/ ProbeCancelled(s)
              \/ \E c \in DOMAIN probe[s].checks, v \in Verdicts : CheckEnds(s, c, v)

Spec     == Init /\ [][Next]_vars
FairSpec == Spec /\ WF_vars(ProbeLoop)
------------------------------------------------------------------------------
(* A probe answers when every check has, says ready only if each of them   *)
(* did, pvl-core's own write included, and gives reasons only for checks   *)
(* that raised, to an operator who asked for them (_gather_checks).        *)
ReadinessIsTheChecks ==
    \A s \in Servers : probe[s].at = "answered" =>
        /\ Running(s) = {}
        /\ probe[s].status = 200 => \A c \in Deployment(s).checks \cup {Kv} : probe[s].checks[c] = "true"
        /\ probe[s].errors \subseteq Of(s, "raised")
        /\ probe[s].errors # {} => Detail(s) = "full" /\ probe[s].status = 503

(* No backend that hangs keeps a probe open: a probe that never ends waits *)
(* for a synchronous check, which _invoke's docstring puts beyond its      *)
(* reach.  One that returns, however late, does not keep the others from   *)
(* their limits (_invoke, _gather_checks).                                 *)
ProbesEnd == \A s \in Servers : Probed(s) ~> (~Probed(s) \/ [](Probed(s) /\ Blocking(s) # {}))
==============================================================================
