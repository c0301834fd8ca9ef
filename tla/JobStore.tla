------------------------------- MODULE JobStore -------------------------------
(***************************************************************************)
(* The background-job record store of _jobs/store.py.  A record is written *)
(* twice: create registers it as working, and settle gives it its outcome  *)
(* under what is left of its lifetime.  Beside the records every subject   *)
(* has an index of its live ids, read and pruned by create to hold the     *)
(* subject to its cap.  One asyncio.Lock covers all subjects; every get    *)
(* and put in between is an await of its own, where time passes, the       *)
(* backend fails, the caller is cancelled or the process restarts.         *)
(*                                                                         *)
(* A job's create has returned before anyone can settle it, so one slot    *)
(* per job holds the call under way.                                       *)
(***************************************************************************)
EXTENDS KVStore, FiniteSets

CONSTANTS Jobs,          \* the job ids create may draw
          NoJob,         \* the lock's owner when it is free
          Scopes,        \* calling subjects
          Subject,       \* job -> the subject it is created for
          Cap,           \* JobStore(max_per_subject=...)
          ResultTTL,     \* JobStore(result_ttl_s=...)
          Faults,        \* ways an await may end badly here, see FaultNames
          Durable,       \* whether the backend survives a restart
          SlowBackend,   \* whether time passes between a settle's read and its write
          MaxTime,       \* bound on the clock
          MaxRestarts    \* bound on restarts of the process

FaultNames == {"kv_error", "cancelled"}

ASSUME JobsAssumption == NoJob \notin Jobs /\ Subject \in [Jobs -> Scopes]
(* JobsConfig refuses a cap below one and a lifetime that is not positive. *)
ASSUME LimitsAssumption == Cap \in Nat \ {0} /\ ResultTTL \in Nat \ {0}
ASSUME FaultsAssumption == Faults \subseteq FaultNames
ASSUME BackendAssumption == Durable \in BOOLEAN /\ SlowBackend \in BOOLEAN
ASSUME BoundsAssumption == MaxTime \in Nat /\ MaxRestarts \in Nat

VARIABLES now,      \* the wall clock
          records,  \* the record collection: job -> status
          index,    \* the index collection: subject -> ids
          lock,     \* the job whose call holds the store's asyncio.Lock
          op,       \* job -> the call under way for it
          restarts  \* restarts so far

storeVars == <<now, records, index, lock, op, restarts>>
collections == <<records, index>>

Outcomes == {"completed", "failed", "cancelled"}
Statuses == {"working"} \cup Outcomes

(* "prune" holds the ids of the index still to look up and those found;    *)
(* since is when a settle read its ttl, a history no action looks at.      *)
Idle  == [phase |-> "idle"]
Calls == {Idle}
           \cup [phase : {"wait", "read"}, name : {"create"}]
           \cup [phase : {"prune"}, unchecked : SUBSET Jobs, live : SUBSET Jobs]
           \cup [phase : {"record", "index"}, ids : SUBSET Jobs]
           \cup [phase : {"wait", "read"}, name : {"settle"}, status : Outcomes]
           \cup [phase : {"settle"}, status : Outcomes, ttl : Nat \ {0}, since : Nat]
           \cup [phase : {"done"}, outcome : {"ok", "limit"} \cup FaultNames]

StoreTypeOK ==
    /\ now \in Nat /\ restarts \in Nat
    /\ DOMAIN records \subseteq Jobs
    /\ \A j \in DOMAIN records : records[j] \in [value : Statuses, expires : Nat]
    /\ DOMAIN index \subseteq Scopes
    /\ \A s \in DOMAIN index : index[s] \in [value : SUBSET Jobs, expires : Nat]
    /\ lock \in Jobs \cup {NoJob}
    /\ op \in [Jobs -> Calls]

StoreInit ==
    /\ now = 0 /\ restarts = 0
    /\ records = EmptyStore /\ index = EmptyStore
    /\ lock = NoJob
    /\ op = [j \in Jobs |-> Idle]

------------------------------------------------------------------------------
(* How a call moves on and ends. *)

InPhase(j, phases) == op[j].phase \in phases
MoveTo(j, call) == op' = [op EXCEPT ![j] = call]

(* `async with self._lock` is left on every way out. *)
End(j, outcome) ==
    /\ MoveTo(j, [phase |-> "done", outcome |-> outcome])
    /\ lock' = IF lock = j THEN NoJob ELSE lock

(* Mutant of Acquire: a read-modify-write that does not take the lock.     *)
AcquireUnlocked(j) ==
    /\ InPhase(j, {"wait"})
    /\ op' = [op EXCEPT ![j].phase = "read"]
    /\ UNCHANGED <<now, collections, lock, restarts>>

Acquire(j) ==
    /\ InPhase(j, {"wait"})
    /\ lock = NoJob
    /\ lock' = j
    /\ op' = [op EXCEPT ![j].phase = "read"]
    /\ UNCHANGED <<now, collections, restarts>>

------------------------------------------------------------------------------
(* create. *)

(* token_urlsafe draws an id that is in use nowhere. *)
StartCreate(j) == /\ op[j] = Idle
                  /\ j \notin DOMAIN records
                  /\ MoveTo(j, [phase |-> "wait", name |-> "create"])

IndexedIds(s) == IF Present(index, s, now) THEN Value(index, s) ELSE {}

Full(ids) == Cardinality(ids) >= Cap

(* Below the cap create goes on to write; at the cap it looks at each id.  *)
ReadIndex(j) ==
    LET ids == IndexedIds(Subject[j])
    IN /\ InPhase(j, {"read"}) /\ op[j].name = "create"
       /\ \/ ~Full(ids) /\ MoveTo(j, [phase |-> "record", ids |-> ids])
          \/ Full(ids) /\ MoveTo(j, [phase |-> "prune", unchecked |-> ids, live |-> {}])
       /\ UNCHANGED <<now, collections, lock, restarts>>

(* Mutant of Found: an expired record still counts.                        *)
FoundExpired(i) == i \in DOMAIN records

(* kv.get of a record answers with it. *)
Found(i) == Present(records, i, now)

(* _prune, one lookup; the last one decides. *)
Prune(j) ==
    /\ InPhase(j, {"prune"})
    /\ \E i \in op[j].unchecked :
          LET live == op[j].live \cup {x \in {i} : Found(x)}
              rest == op[j].unchecked \ {i}
          IN \/ /\ rest # {}
                /\ MoveTo(j, [phase |-> "prune", unchecked |-> rest, live |-> live])
                /\ UNCHANGED lock
             \/ /\ rest = {} /\ ~Full(live)
                /\ MoveTo(j, [phase |-> "record", ids |-> live])
                /\ UNCHANGED lock
             \/ rest = {} /\ Full(live) /\ End(j, "limit")
    /\ UNCHANGED <<now, collections, restarts>>

PutRecord(j) == /\ records' = Put(records, j, "working", ResultTTL, now)
                /\ UNCHANGED <<now, index, restarts>>

(* Mutant of PutIndex: the id is not appended to the list written back.    *)
PutIndexUnchanged(j) == /\ index' = Put(index, Subject[j], op[j].ids, ResultTTL, now)
                        /\ UNCHANGED <<now, records, restarts>>

PutIndex(j) == /\ index' = Put(index, Subject[j], op[j].ids \cup {j}, ResultTTL, now)
               /\ UNCHANGED <<now, records, restarts>>

------------------------------------------------------------------------------
(* finish, fail and cancel: _settle with one outcome or another. *)

StartSettle(j, status) ==
    op[j] = Idle /\ MoveTo(j, [phase |-> "wait", name |-> "settle", status |-> status])

(* Mutants of SettleTTL: a new retention window, less than what is left,   *)
(* and a new window for a record that is gone.                             *)
SettleTTLAnew(j) == IF Present(records, j, now) THEN {ResultTTL} ELSE {}
SettleTTLTruncated(j) == IF Present(records, j, now) THEN {Remaining(records, j, now) - 1} ELSE {}
SettleTTLAlways(j) == IF Present(records, j, now) THEN {Remaining(records, j, now)} ELSE {ResultTTL}

(* The lifetime to settle a record under: what is left of it, and none for *)
(* a record that is gone.                                                  *)
SettleTTL(j) == IF Present(records, j, now) THEN {Remaining(records, j, now)} ELSE {}

(* A record that expired mid-run is nothing to settle. *)
ReadRecord(j) ==
    /\ InPhase(j, {"read"}) /\ op[j].name = "settle"
    /\ \/ SettleTTL(j) = {} /\ End(j, "ok")
       \/ \E ttl \in SettleTTL(j) :
             /\ MoveTo(j, [phase |-> "settle", status |-> op[j].status,
                           ttl |-> ttl, since |-> now])
             /\ UNCHANGED lock
    /\ UNCHANGED <<now, collections, restarts>>

PutSettled(j) == /\ records' = Put(records, j, op[j].status, op[j].ttl, now)
                 /\ UNCHANGED <<now, index, restarts>>

------------------------------------------------------------------------------
(* The writes, the faults, and the world around. *)

Put1(j) == \/ InPhase(j, {"record"}) /\ PutRecord(j)
           \/ InPhase(j, {"index"}) /\ PutIndex(j)
           \/ InPhase(j, {"settle"}) /\ PutSettled(j)

(* The put is answered: create goes on to the index, or the call is over.  *)
Write(j) == /\ Put1(j)
            /\ \/ /\ InPhase(j, {"record"})
                  /\ MoveTo(j, [phase |-> "index", ids |-> op[j].ids])
                  /\ UNCHANGED lock
               \/ InPhase(j, {"index", "settle"}) /\ End(j, "ok")

(* The put took effect, yet the caller sees an error or is cancelled.      *)
WriteUnanswered(j, why) == Put1(j) /\ End(j, why)

(* An await raises with nothing done; on the lock only cancellation can.   *)
Raise(j, why) ==
    /\ \/ InPhase(j, {"read", "prune", "record", "index", "settle"})
       \/ InPhase(j, {"wait"}) /\ why = "cancelled"
    /\ End(j, why)
    /\ UNCHANGED <<now, collections, restarts>>

(* A step of the call under way. *)
StoreStep(j) == Acquire(j) \/ ReadIndex(j) \/ Prune(j) \/ ReadRecord(j) \/ Write(j)
StoreFault(j, why) == Raise(j, why) \/ WriteUnanswered(j, why)

(* The caller takes the outcome. *)
Collect(j) == InPhase(j, {"done"}) /\ MoveTo(j, Idle)

Tick == /\ now < MaxTime
        /\ SlowBackend \/ \A j \in Jobs : ~InPhase(j, {"settle"})
        /\ now' = now + 1
        /\ UNCHANGED <<collections, lock, op, restarts>>

(* The process dies and comes back with a new lock: calls under way are    *)
(* lost, and with a memory:// backend the collections too.                 *)
StoreRestart ==
    /\ restarts < MaxRestarts
    /\ restarts' = restarts + 1
    /\ lock' = NoJob
    /\ op' = [j \in Jobs |-> Idle]
    /\ records' = IF Durable THEN records ELSE EmptyStore
    /\ index' = IF Durable THEN index ELSE EmptyStore
    /\ UNCHANGED now

------------------------------------------------------------------------------
(* The store on its own, under callers that settle whatever they like. *)

Begin(j) == /\ \/ StartCreate(j)
               \/ j \in DOMAIN records /\ \E status \in Outcomes : StartSettle(j, status)
            /\ UNCHANGED <<now, collections, lock, restarts>>

TakeOutcome(j) == Collect(j) /\ UNCHANGED <<now, collections, lock, restarts>>

Rest == (\A j \in Jobs : op[j] = Idle) /\ UNCHANGED storeVars

StoreNext == \/ \E j \in Jobs : \/ Begin(j) \/ StoreStep(j) \/ TakeOutcome(j)
                                \/ \E why \in Faults : StoreFault(j, why)
             \/ Tick \/ StoreRestart \/ Rest

StoreSpec == StoreInit /\ [][StoreNext]_storeVars

------------------------------------------------------------------------------
(* Properties. *)

LiveRecords(s) == {j \in LiveKeys(records, now) : Subject[j] = s}

(* The cap: a subject never has more live records than max_per_subject,    *)
(* though the index is read, pruned and written in separate awaits, counts *)
(* expired ids until it is full, and expires on its own.                   *)
CapRespected == \A s \in Scopes : Cardinality(LiveRecords(s)) <= Cap

(* What the cap rests on: once a job's create has returned, its id is in   *)
(* its subject's index for as long as its record lives; no update of the   *)
(* index is lost, and the index outlives every record it lists.            *)
LiveRecordsAreIndexed ==
    \A j \in LiveKeys(records, now) :
       ~InPhase(j, {"index"}) => j \in IndexedIds(Subject[j])

(* create rejects only after pruning: a subject none of whose records is   *)
(* live is never turned away, whatever its index still lists.              *)
ExpiredJobsFreeTheCap ==
    [][\A j \in Jobs : op[j].phase = "prune" /\ op'[j] = [phase |-> "done", outcome |-> "limit"]
          => LiveRecords(Subject[j]) # {}]_storeVars

(* The retention window is pinned at creation, as far as it goes: only a   *)
(* settle moves a record's expiry, and by exactly the time that passes     *)
(* between its kv.ttl and its kv.put, whatever fails and however often a   *)
(* job is settled, even for a record that expires in between.              *)
RetentionSlidesByTheDelay ==
    [][\A j \in DOMAIN records \cap DOMAIN records' :
          \/ records'[j].expires = records[j].expires
          \/ /\ InPhase(j, {"settle"})
             /\ records'[j].expires = records[j].expires + (now - op[j].since)]_storeVars
==============================================================================
