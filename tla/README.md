# TLA+ models of fastmcp-pvl-core

This directory holds TLA+ modules that model `fastmcp-pvl-core` component by
component, TLC configurations that check them on small instances, and proofs,
checked by TLAPS, of what matters most for every instance. Paths below are
relative to `src/fastmcp_pvl_core/` unless they name another directory of the
repository.

## 1. The system

`fastmcp-pvl-core` is a library of composable parts for MCP servers. Everything
runs in one process on one asyncio event loop; between two `await`s a step is
atomic, and every `await` is a place where other work runs, time passes, a
backend fails or the request is cancelled. Around that concurrent core stands a
sequential part that decides, from environment variables, what a server is.

| Component | State it keeps | Operations | What is hard about it |
|---|---|---|---|
| Key-value facade (`_kv_store.py`, py-key-value) | entries with a lifetime | get, put with ttl, ttl; build_kv_store | no compare-and-set; a lifetime is counted from the put; which backend a URL means |
| Transfer token store (`_transfer/store.py`) | token records, one lock | mint, claim, release, complete, burn | read-modify-write over awaits, leases that lapse, fences, lifetimes that must not grow |
| Transfer route and minter (`_transfer/routes.py`, `register.py`) | one claim per request | GET, POST/PUT, mint links | each way out must settle the claim exactly as intended |
| Transfer fetch (`_transfer/fetch.py`) | one connection at a time | resolve, check, pin, follow redirects | what was checked must be what is used, on every hop; each read is bounded, their number is not |
| Job record store (`_jobs/store.py`) | records, an index per subject, one lock | create, finish/fail/cancel, get | two collections without a transaction, a cap, expiry of both |
| Job manager (`_jobs/manager.py`) | background tasks | run_with_deadline, start, defer, get/poll | promotion racing completion, rejection, cancellation; outcome written by a task nobody awaits |
| Job tools (`_jobs/register.py`) | none | the long-running wrapper, the polling tool | a failure must end the same way on every path |
| Tool boundary and request log (`_tool_boundary.py`, `_logging_middleware.py`) | none | classify an exception, log a call | layers that each classify, log and rethrow |
| Subject and authorization (`_subject.py`, `_authorization.py`) | recorded mode, tables | who calls, may they | claims come from the client; checks are combined |
| Authentication (`_auth.py`) | none after start | choose a mode, build a provider | many partial configurations, `None` means "open" |
| Configuration, environment (`_config.py`, `_env.py`, the config classes) | set once | parse, bound, refuse | strict and lenient readings side by side |
| Tasks backend (`_tasks.py`) | none after start | choose a URL | five variables, two of them legacy |
| Console logging (`_logging.py`) | the process's handlers and levels | configure, again | repeated, after others have changed it |
| Instructions, visibility (`_instructions.py`, `_visibility.py`) | collected snippets, a frozen flag | add, finalize, hide | order of registration; a failed finalize |
| Health (`_health.py`) | none | concurrent checks under a timeout | a timeout racing an answer, and no timeout for a synchronous check |
| Assembly, serving (`_factory.py`, `_serve.py`, `_middleware.py`, `_debug.py`) | one-shot flags | wire, run | a second server in the process |
| Log rendering, info, icons, command line | none | format | pure |

Interaction: a tool call passes the request log, the authorization middleware,
FastMCP's dispatch and a boundary to the job manager or the link minter; both
keep their records in namespaces of one key-value backend through their own
store. The HTTP route shares the token store with the minter. The job manager's
done-callbacks and writers share the job store with the requests that create and
poll. A native task (Docket) replaces the job manager's machinery where the
client negotiated it. The builders of a server share the process: its logging,
its one-shot warnings, its debugger and, unless each server is built in a
context of its own, the recorded auth mode.

What makes each component correct:

* tokens: at most one holder within its lease; a superseded holder changes
  nothing; a burned or expired token never comes back; a lifetime grows by the
  delay of a write at most;
* route: every failure gives the link back, only a delivery shortens its life,
  every request is answered;
* fetch: an address is dialled only after that address was checked; one name per
  hop; the cap is exact; neither a chain of redirects nor a silent server keeps a
  fetch for ever;
* job store: the cap on live records, an index that misses nothing live,
  retention pinned at creation but for the delay of a write;
* job manager: work is watched or stopped, never dropped; an outcome reaches
  the caller once, by answer or by record, and it is the work's own;
* calls: one failure has one account; claims open nothing the operator did not
  write; a job is shown to its caller only;
* startup: no server is open by accident; its stores agree; the console shows a
  record once; what is shown and said is what the operator allows; readiness is
  the checks.

## 2. Modules

    KVStore               the backend as the library uses it (external)
      TransferStore       mint, claim, release, complete, burn
        TransferRoutes    the HTTP handler and the link minter over the store
      JobStore            create, settle, get
        JobManager        the Jobs object over the store
    TransferTokens        what the token store promises, each operation atomic
    UrlFetch              fetch_url and the guarded transport
    ToolBoundary          exceptions, log lines, classification (operators)
    Authorization         subjects, tables, checks (operators)
      ToolCalls           a call through all layers, jobs beside it
    Environment           variables to configurations (operators)
      AuthModes           configuration to provider (operators)
      Backends            configuration to state and task URLs (operators)
      Console             the process's logging (operators)
        Startup           building servers one after another
          Assembly        tools, visibility, instructions
            Serving       run_http and the readiness probe
    MC*                   instances for TLC
    TransferStoreProofs, TransferRoutesProofs, JobStoreProofs,
    JobManagerProofs, UrlFetchProofs, ToolCallsProofs, ServingProofs,
    StartupProofs         (over ServingProofs)

**KVStore** has operators only. A store maps every key ever written to a value
and the instant it expires; nothing is swept, an expired entry is simply not
returned. `Put` counts a lifetime from the instant it is executed.

**TransferStore** keeps the clock `now`, the collection `kv`, the owner of the
asyncio lock, the call `op[c]` each client has under way and the reservations
`claims` clients believe they hold. A call goes through the phases of the code:
`wait` for the lock, `read` (`kv.ttl` and the decision), `write` (`kv.put`),
`done`. `minted`, `firstSettle` and, in a call that is about to write, `since`,
when it read the lifetime it puts, are history used by properties only. `mint`
ends at once with a ValueError when the kind is empty or the lifetime is not
positive (`Mintable`). An await may raise before it had any effect (`Raise`), or after the put took effect
(`WriteUnanswered`): the caller cannot tell the two apart. A cancellation while
waiting for the lock is `Raise` with `why = "cancelled"`. `Restart` loses calls,
claims and lock, and the records as well when the backend is volatile. Fences
are numbers: the code draws eight random bytes for each, which are new as a
number larger than all before is; a fence is stamped when its put executes.
`sink_handle` and `caps` pass through unread and are left out.

**TransferTokens** is the atomic life cycle
`unminted -> available <-> in_flight -> consumed`, with an end `gone` that is
final. `TransferStore` refines it: the status of a token is its record's while
the entry is returned, or while a call that has read it is about to write it.

**TransferRoutes** extends the store's clients to handlers. `req[c].at` is the
handler's place between its awaits: `claim`, `body`, `sink`, then `release` or
`complete`, `answered`. Sinks and body streams end by delivering, by the sink's
own signal, by an exception or by cancellation (`SinkFaults`). A link is minted
under the default lifetime or the one asked for (`AskedTTLs`) after `ClampTTL`
(`LinkTTLs`), which `mint` may yet refuse; `MintAssumption` says that these
lifetimes are among those of the store.

**JobStore** keeps `records` and `index` as two collections. A create goes
through `wait`, `read` (the index), `prune` (one lookup per await), `record`,
`index`; a settle through `wait`, `read`, `settle`, where `since` is when it
read the lifetime, history as in `TransferStore`. The id lists are sets: ids
are unique, and only membership and length matter. A record's value is its
status. The key of a record is the job id alone: ids are never shared between
subjects, and the quoting of subjects into keys is left out.

**JobManager** adds, for each call, where its request stands (`call`), what
became of its coroutine (`work`), whether its task was sent `cancel()`
(`stop`), whether it is watched (`tracked`), and what polling said last
(`told`). A native task, the fallback and version skew are the three answers
of the native-task check, chosen per call. The soft deadline may pass at any
moment. Work ends as it likes, also after `cancel()`.

**UrlFetch** is one download. `at` is the place between awaits: `send` (httpx
hands the hop to `_GuardedTransport.handle_async_request`), `resolve`, `connect`,
`status`, `drain` (httpx reads the body of a redirect before it takes the next
hop, all of it, and `max_bytes` does not apply), `body`. The limit is on each
read: `idle` counts the silence, and `Trickle` is whatever a server sends that
neither ends an operation nor counts towards the cap. `url.host` and the `Host` header are kept apart, as the guard
replaces the first by the pinned address: `Redirect` follows httpx in joining a
Location to the URL that was *sent* and in keeping the header when the origin
seems unchanged. Lookups answer differently each time. If the host of the URL
were still a name at `Connect`, any address could be dialled.

**ToolBoundary** and **Authorization** are operators: an exception is a record
of its class, cause, text and level, and every layer maps it and adds its log
lines; a check maps a token and a component's meta to a verdict. **ToolCalls**
follows one call through `authorize`, `body`, `returned` or `request` (an
exception on its way out), `answered`, while jobs end beside it. Here a job is
created, ends and is recorded in one step each; the protocol below it is
`JobManager`'s. `job[j].owner` is history for the properties.

**Environment**, **AuthModes**, **Backends** and **Console** translate the pure
parts: what each variable is read as, which provider a configuration gives,
which backend it selects, what a call of `configure_logging_from_env` makes of
the handlers it finds. **Startup** makes steps of them: a server goes through
`logged`, `read`, `assembling`, `serving` or ends as `failed`, and what the
servers of a process share is in `process` and `console`. **Assembly** adds what
domain code does in any order, register tools, call enable and disable,
contribute snippets, apply the lists and finalize. **Serving** adds `run_http`
and readiness probes with their concurrent checks. `wait_for` bounds a check
that returned an awaitable; the synchronous ones of a deployment (`sync`) hold
the event loop, so that meanwhile no other check ends, no limit fires and no
cancellation arrives (`Blocking`). A `plan`, chosen at the
start, says what the operator has set and how much the domain does.

Some data is kept in the form the code's promises need and no more. The
handlers of the root logger are a set: what a record shows is how many of them
let it pass, whatever their order, and a foreign handler has a number so that
two that are alike count as two. A handler on a stderr that is closed or gone
shows nothing. Whether a record of FastMCP's reaches the root logger depends on
its own logger's level too (`FastmcpLevel`), which FastMCP sets and
`_neutralise_fastmcp` resets. Instructions are ordered as `list.sort` orders
them, by role and then by place (`Sorted`), each place being taken once. A
number in a variable is one of `Numerals`, read within the bounds of its
variable. A configuration built by hand passes no such bound, so what the types
say of numbers, and of having one tool list at most, they say of configurations
read from the environment. `PlansAssumption` and `SnippetsAssumption` name what
a plan and a snippet are: an environment of well-formed variables for each
server that is built, and snippets of which the identity and the documentation
require no tool, as their methods of the builder give them.

The constants whose names begin with `Max` (`MaxTime`, `MaxFence`,
`MaxRestarts`) and `plan.foreign`, `plan.domain`, `plan.probes` are
bounds of the instances; they stand in the guards of `Tick`, `StartClaim`, the
restarts, `Interferes`, `Domain` and `ProbeStarts`. `SlowBackend = FALSE` keeps
the clock still between a read and the write that depends on it; it isolates
the places where the code relies on that. By how much a lifetime grows without
it is checked with `SlowBackend = TRUE`.

## 3. Runs

| Run | Instance | Shows |
|---|---|---|
| `transfer_safety` | 3 clients, 1 token, lease 2, time 3, 3 claims, cancellations, a restart, slow backend | types, `ReadModifyWriteExclusive`, `AtMostOneLiveHolder`, `SupersededHolderIsHarmless`, `ExpirySlidesByTheDelay`, the store implements `TransferTokens` |
| `routes_release` | 2 requests, 1 link, failing and cancelled sinks, a sound prompt store, a restart of a volatile backend | types, `NoReservationLeftBehind`, `SettledLinkExpires` |
| `routes_serve` | 2 requests, failing slow store, cancelled requests, fair | `SinkSharedOnlyAfterLapse`, `FailureKeepsTheLink`, `RequestsAnswered` |
| `fetch_redirects` | 7 URLs, 9 Locations, 6 answers, 2 redirects, a cap of 3, fair | types, `DialsCheckedAddress`, `OneNamePerHop`, `CapExact`, `FetchesEnd` |
| `jobstore_cap` | 3 jobs of one subject, cap 2, a restart of a volatile backend | types, `CapRespected`, `LiveRecordsAreIndexed`, `ExpiredJobsFreeTheCap` |
| `jobstore_bypass` | 2 jobs, cap 1, cancellations | violation of `CapRespected` |
| `jobs_promote` | 2 calls, cap 1, a sound prompt store, fair | `NoUntrackedWork`, `RejectionStopsTheWork`, `PollsMoveForward`, `HandlesSettle` |
| `jobs_faults` | 2 calls, all verbs, modes and faults, slow, a restart | types, `NoCoroutineDropped`, `OutcomesAreTheWorks`, `RetentionSlidesByTheDelay` |
| `jobs_untracked` | 1 call, failing store | violation of `NoUntrackedWork` |
| `tools_calls` | 7 callers, 5 kinds of tools, 4 policies, 8 tables, 1 job | types, `OneAccountOfAFailure`, `StarInClaimMeansNothing`, `JobsStayWithTheirCaller` |
| `serving_startup` | processes of one or two servers, six families of plans, fair | types, `NeverOpenByAccident`, `StoresAgree`, `ConsoleOnce`, `SurfaceIsTheOperators`, `ReadinessIsTheChecks`, `ProbesEnd` |
| `serving_scopes` | the same | violation of `RequiredIsAdvertised` |

Why the bounds are enough.

*Stores.* Three clients are a holder, one that takes over, and one that still
comes late; two suffice where a property relates two calls. With a lease of 2
and time 3 a reservation lapses and is taken over within a link's life; in
`routes_release` a lease of 1 and time 4 let it lapse twice, a grace of 2 is
both shorter and longer than what a link has left, a caller that asks for 5
is clamped to 4 and one that asks for 0 is refused. With a retention of 2 and time 3 a record expires before,
during and after each settle. Three claims let a superseded holder meet a
successor and the successor's successor. A cap of two needs three jobs to be
overrun, and a cap of one needs two. One restart is enough, as nothing counts
them. Symmetry is used for clients and jobs where the run checks no liveness
property.

*Fetch.* What a hop leaves behind for the next is the URL, the header and the
count, so two redirects, each of any kind, show a hop after a hop after the
pin, and a third is refused. There is an address of each kind `_ip_is_blocked`
tells apart, and answers with one, several, mixed and none. Chunks of one and
two reach a cap of three exactly and straddle it. A timeout of 2 lets a server
send within it, again and again, or stay silent beyond it.

*Calls.* A call carries no state to the next but through the job records, and
one slot is full for one caller and free for another. The causes of failures and
the layers are all there. The callers are two subjects of one client, that
client itself, and none; one has `*` among its claims. Three more have names that
collide: a client without a subject whose id is another's `sub`, one whose id is
`anonymous`, and a token that names neither.

*Startup.* The decisions of the parts read disjoint variables, so each family
of plans varies those of one concern in full and leaves the others unset:
authentication, numbers, stores, logging, surface, probes. Two acts of others on
the console meet two configurations of it; three of the domain are a tool, a
snippet and what hides or shows the tool. Two servers are a first and one that
finds what it has left.

Deadlock is checked in every run but those of the fetch and of startup: a fetch
ends, and so does a process that has built its servers.

Fairness. The event loop runs every ready task, so each started step of a
call and of a handler is weakly fair, with the backend answering or failing
every call. `asyncio.Lock` wakes waiters in the order they came, so a waiting
call is not overtaken for ever: acquiring is strongly fair. In `RFairSpec` the
sink and the body stream end, because the handler puts no timeout on either. In
`FFairSpec` a lookup ends, by the resolver's own limits, time passes and httpx's
timers fire; nothing is asked of the servers. So `FetchesEnd` says that a fetch
ends unless it stays with one response, or the body of one redirect, of which
the server sends on for ever. In `FairSpec` (Serving) only the event loop and
its clock are fair, and not the checks: it is `wait_for` that ends a probe, and
`ProbesEnd` names the one wait it does not reach, a synchronous check that never
returns. No fairness is put on new calls, on the clock of
the stores, on faults, on the end of a job's work or on polling.

### What the violations say

* `jobstore_bypass`: `create` writes the record before the index; an end between
  the two leaves a live record the cap does not see.
* `jobs_untracked`: `run_with_deadline` guards its started task against
  `JobLimitExceededError` only; any other end of `create` leaves it running
  unwatched.
* `serving_scopes`: an OIDC proxy without required scopes of its own requires
  `openid` of a token; `_resolve_advertised_scopes` adds only what the operator
  required to what the operator advertises, so with advertised scopes alone the
  requirement is not advertised, against its docstring.

### Met while modelling, and not a run of their own

* `_finish` tests the status before the fence. A handler whose lease lapsed and
  whose successor has settled finds the record available, and `complete` raises:
  a delivered transfer is answered 500, where ADR 0001 (lines 272-274) lets the
  late `complete` be a no-op. The model follows the code (`ReadFinish`).
* A settle re-puts a record under the lifetime it measured before the put.
  `docs/jobs.md` (150-151) says that settling never extends retention and an
  expired id is simply unknown; the expiry moves by the time between the two
  calls, and a job whose settle straddles it is unknown to one poll and
  completed to the next. The token store settles in the same way. What holds of
  either on any backend is checked and proved: a write moves an expiry later by
  its own delay at most (`RetentionSlidesByTheDelay`, `ExpirySlidesByTheDelay`).
  The delays of several writes add up, so `SettledLinkExpires` needs a backend
  that answers at once. `SlowBackend = TRUE` in `jobs_promote` makes
  `PollsMoveForward` fail; what is left of it on any backend is proved as
  `OutcomesStand`.
* The record of a cancelled task is settled as `cancelled`, where
  `_jobs/records.py` says the fallback does not emit that status.
* The comment at `_jobs/manager.py` 548-550 says that a poll carries the text the
  call would have produced inline. It does for classified failures. A -32021
  leaves a call as a protocol error but a job as an internal fault, and work
  handed to `start` has no boundary, so a 429 or a timeout in it is told and
  logged as a fault too. `OneAccountOfAFailure` leaves out exactly these two.
* `fetch_url` documents `timeout_s` as the overall timeout (`_transfer/fetch.py`
  309); httpx applies it to each operation, and a lookup is none of them. Of a
  redirect it follows, httpx first reads the whole body, under neither
  `max_bytes` nor a limit as a whole: a server that keeps sending one holds the
  fetch, and the memory its body takes, for as long as it likes. So does one that
  keeps sending what does not count as a byte of the body. `FetchesEnd` leaves
  out exactly these.
* The limit on a readiness check is one on an awaitable. A synchronous check that
  blocks stops the event loop, the limits of the other checks included, as the
  docstring of `_invoke` says.
* `get_subject` falls back from `sub` to the client's id, and from either to a
  constant, so callers of different names can be one subject. The polling tool
  then shows them each other's jobs; `JobsStayWithTheirCaller` says so
  (`TakenFor`), and that nobody else is shown them.
* With a configuration built by hand, `kv_store_url=""` means the default to
  `build_kv_store` and `event_store_url` to `configure_task_backend`.
  `StoresAgree` is about configurations read from the environment, where a blank
  variable is not set.

## 4. Proofs

Every theorem holds for all values of the constants under the named assumptions
of its module. Invariants are conjunctions of named parts; TLC has checked them
before they were proved.

`TransferStoreProofs`: for any clients, tokens, durations, faults, backend and
bounds,

* `TypeCorrect`, one step per action, on lemmas about what a read, a put and an
  end of a call leave behind;
* `Exclusive`: a call is between its read and its write exactly when it owns
  the lock, an equivalence that is inductive with the types;
* `Inductive`: `Spec => []IInv`. Neither leases nor fences are safe by
  themselves: a claim can only be told apart from a later one if its fence
  was fresh (`FencesFresh`), the record it reserved still carries that fence or
  was changed since (`ClaimsBacked`), a settling call settles its own claim
  (`SettlesOwnClaim`), and what a call will write was computed from what is
  still stored (`WritesGrounded`), which holds because of exclusion;
* `OneLiveHolder`: two live claims on a token carry the fence of one record;
* `SupersededHarmless`, an action property, and
* `Refinement`: a put maps to the abstract operation it writes for, everything
  else to an expiry or a stutter.

`TransferRoutesProofs`: every step of a handler is a step of the store or none
(`RoutesSteps`), so what is proved of the store holds of the routes. `Handling`
ties a handler's place to the call it has under way and the claim it holds, and
is inductive with `IInv` (`RoutesSafe`). From it `RoutesTypeCorrect`,
`SharedAfterLapse`, and `FailuresKeepTheLink`, where a locked call is shown to
write at least the lifetime it found unless it completes (`LifetimesKept`).
`SlidesByTheDelay` has no assumption: what a call writes was read under the lock
or is a grace window opened anew, so its put moves the expiry by the time since
`since` at most. Delays add up, so `SettledExpire` needs `~SlowBackend`, as its
run does.
`NothingLeftBehind` needs what `routes_release` has: no await of the store fails
and a restart takes the records along; then a live reservation always has a
claim with its fence (`Reserved`), because a settle that ends without a write
had none of its own.

`JobStoreProofs`: `StoreTypeCorrect` and `ExpiredFreeTheCap` whatever fails or
restarts; the latter rests on `IndexBounded`: no index ever lists more than
`Cap` ids, so a prune that ends at the cap found every single id live, the last
of them in the very step that rejects. `RetentionSlides` has no assumption
either: a record read under the lock is what the put replaces (`Fresh`,
`Anchored`), even if it expires in between. `CapInductive`, and from it
`CapCorrect` and `IndexCoversLive`, under `Quiet`: no await fails or is
cancelled, a settle's put follows its read at once, and only a volatile backend
restarts. Without `Quiet` they are false, as `jobstore_bypass` shows. The cap is
not inductive. `CapInv` adds that the lock excludes (`LockHeld`), that no record
outlives a window opened now (`Pinned`), so that an index put now outlives all
it lists, that every live record is in its index (`Covered`), and that what a
create has read since misses none (`Snapshot`).

`JobManagerProofs`: `JobsTypeCorrect`, `NothingDropped`, `RejectionsStop` and
`OutcomesTrue` whatever fails or restarts. `JobsSafe` is their invariant, job by
job: where a request stands in the manager agrees with the call it has in the
store and with what became of its coroutine, and a settle that is about to be
put has the outcome of its work. `AllWorkIsWatched` needs `Faults = {}`;
`jobs_untracked` is the counterexample without it.

What polls say is proved there too. `PollsForward` is `PollsMoveForward` under
`~SlowBackend`. It is not inductive: `PollInv` adds that only a caller with a
handle has polled, that an outcome it has heard is what the work came to and
what the record says while there is one, that a record it was told is gone has
gone (`Hearing`), and that a writer about to settle a record still finds it
there (`Settleable`), which is where the assumption is used. `RecordStep` shows
that a record with a handle only goes on, is settled with what its work came to,
or ends. `OutcomesStand` drops the assumption and keeps what does not need it:
whoever has heard an outcome hears that outcome or unknown, and never another
or working again.

`UrlFetchProofs`: `FetchSafe` is the invariant, that what was pinned is among
what was checked (`Pinned`), that a hop under way always carries a `Host` header
(`HeaderSet`) and that until the fetch ends what is kept is what was sent
(`Counted`). From
it `FetchTypeCorrect`, `DialledIsChecked`, `NamesAgree` and `CapIsExact`, for
all hosts, addresses, answers, Locations and caps.

`ToolCallsProofs`: `CallsSafe`, that every job is in the scope of the caller it
was started for and a call is shown jobs of its own scope only. From it
`CallsTypeCorrect`; `StarMeansNothing`, as no accepted table has the key `*`;
and `JobsStay`, which takes `get_subject` as it is: two callers whose jobs are
shown to each other are the same one or are taken for each other, in one of the
ways it allows. `OneAccount` follows a failure through the layers. While an
exception is on its way out, one that is classified has its level in every line
so far, and a traceback exactly if it is a fault, and of any other nothing has
been told yet (`Told`); each boundary and the dispatch keep that
(`BoundaryTells`, `DispatchTells`), whatever passes through them. `CallAccount`
ties it to where the call stands, and `JobAccount` says that the lines and the
error of a failed job are those of what its work raised.

`ServingProofs`: `NeverOpen`, for every environment and any number of servers.
Each server was built with the provider its configuration gives and keeps it
(`AuthInv`), and lemmas on the decision tables say that a configuration that
asks for authentication gets a provider or fails. `OpenidIsTheException` bounds
what `serving_scopes` finds: the one scope that can be required and not
advertised is the `openid` of a proxy whose operator names none to require.
`ReadyIsTheChecks` rests on `ProbeInv`: a probe is about the checks of its
deployment and the library's own, each running or with a verdict; one that has
answered has none running, and its answer is what the verdicts say.

`StartupProofs`, for every plan that `PlansAssumption` allows:

* `StartupTypes`: whatever is read is typed (`AnyConfig`), and `StartInv` carries
  it through the life of a server;
* `OneHome`: a server's configuration does not change after it was read, and the
  URL of a store and of the tasks are functions of it, so all stores have one and
  the tasks the same unless the operator says otherwise (`StartInv`); a warning
  is in the process's list at most once, and not while its flag is down
  (`WarnInv`);
* `OneLine`: `ConsoleInv` says what the console is as long as nobody has touched
  it since it was configured, whatever it was before: exactly the handlers of
  that call and those elsewhere, which are told apart by numbers that only grow;
* `OperatorsSurface`: `SurfaceInv` says, list by list, that what FastMCP shows is
  what the operator's list leaves of what the domain registers and shows
  (`ListsAt`, `Listed`), and that text once rendered is the retained candidates
  (`Rendering`). That `Sorted` lists each candidate once and in order is proved
  by cardinalities (`SortedLists`): the candidates have different ranks, and the
  number of those before one is its place.

Out of the provers' reach, and with TLC only: liveness under fairness and
`ENABLED` (`RequestsAnswered`, `FetchesEnd`, `HandlesSettle`, `ProbesEnd`);
induction over data, as the induction theorems of the library take an operator
as a parameter. No module uses a RECURSIVE operator. Every invariant and every
action property of the passing runs has its theorem, and so has the refinement
of `TransferTokens`; the four liveness properties are model-checked only.

## 5. What is not modelled

`PROJECT.json` lists every component with its status. Whole files: `_log_render`,
`_log_grammar` and `_log_conformance` (formatting of one record, and a static
check of log calls), `_icons` and `_server_info` (static payloads), `_cli`,
`_apps` and `_connection` (pure lookups), `_transfer/sink.py` (a protocol the
downstream implements) and `_transfer/base64.py`. Parts of files:

* `_config.py` from `server_config_surface` on, which reads source text to
  document variables;
* the text budgets of instructions and their warnings; the queue name derived
  for Docket; path prefixes, the 405 answer, headers and wording;
* ports, paths and queries of URLs; fractions of a second;
* a put that is cancelled on this side and reaches the backend after the lock
  was let go (it depends on the driver);
* several stores, and so several locks, over one namespace, which the code
  excludes by convention;
* the quoting of subjects into keys (`ScopeKey`): the model of the job store
  keys records by job id.

## 6. Plan

1. `ScopeKey`: the quoting of subjects into keys as sequences over a small
   alphabet, injective, and `JobStore` keyed by it.
2. An abstract specification of a job, `unknown -> working -> settled ->
   unknown`, with what its caller holds and hears, that `JobManager` refines when
   the backend is not slow; `RecordStep`, `HandleStays` and `PollHears` are the
   steps of that proof for the record, the caller and the poll.
3. A second lock over one namespace, as an instance of `TransferStore` whose
   clients are split between two stores, to say precisely what the convention
   of one store per process protects.
