---------------------------- MODULE TransferStore ----------------------------
(***************************************************************************)
(* The capability-link token store of _transfer/store.py over a KV backend *)
(* without compare-and-set.  An operation is not atomic: it waits for the  *)
(* store's asyncio.Lock, reads a record with its remaining lifetime        *)
(* (kv.ttl), decides, writes the new record back (kv.put) and lets go of   *)
(* the lock.  Time passes, requests are cancelled, the backend fails and   *)
(* the process restarts between any two of these steps.  mint alone writes *)
(* without the lock.                                                       *)
(*                                                                         *)
(* A client is a request handler: it mints, or it claims and then settles  *)
(* its claim once, by release, complete or burn.                           *)
(***************************************************************************)
EXTENDS KVStore, Integers, FiniteSets

CONSTANTS Clients,        \* request handlers
          NoClient,       \* the lock's owner when it is free
          Tokens,         \* the secrets mint may draw
          Kinds,          \* link kinds, "download" and "upload" in the routes
          TTLs,           \* lifetimes mint may be called with, sound or not
          LeaseSeconds,   \* TransferStore(lease_seconds=...)
          GraceSeconds,   \* TransferStore(grace_seconds=...)
          Faults,         \* ways an await may end badly here, see FaultNames
          Durable,        \* whether the backend survives a restart
          SlowBackend,    \* whether time passes between a read and its write
          MaxTime,        \* bound on the clock
          MaxFence,       \* bound on the claims started
          MaxRestarts     \* bound on restarts of the process

(* An await may raise because the backend fails or because the client's    *)
(* request is cancelled.                                                   *)
FaultNames == {"kv_error", "cancelled"}

ASSUME ClientsAssumption == NoClient \notin Clients
(* The constructor refuses a window that is not positive.                  *)
ASSUME TimingAssumption == /\ LeaseSeconds \in Nat \ {0}
                           /\ GraceSeconds \in Nat \ {0}
                           /\ TTLs \subseteq Int
ASSUME FaultsAssumption == Faults \subseteq FaultNames
ASSUME BackendAssumption == Durable \in BOOLEAN /\ SlowBackend \in BOOLEAN
ASSUME BoundsAssumption == /\ MaxTime \in Nat
                           /\ MaxFence \in Nat
                           /\ MaxRestarts \in Nat

VARIABLES now,        \* the wall clock, for leases and for lifetimes
          kv,         \* the token collection
          minted,     \* the secrets that have named a record (history)
          firstSettle,\* token -> when it was first completed (history)
          lastFence,  \* the fence stamped last
          lock,       \* who holds the store's asyncio.Lock
          op,         \* client -> the call it has under way
          claims,     \* the reservations clients believe they hold
          restarts    \* restarts so far

vars == <<now, kv, minted, firstSettle, lastFence, lock, op, claims, restarts>>
backend == <<kv, minted, firstSettle, lastFence>>

NoFence == 0                                 \* record["fence"] is None
NoLease == 0                                 \* record["lease_expires_at"] is None
NoKind  == ""                                \* the kind mint refuses

Statuses == {"available", "in_flight", "consumed"}
Settles  == {"release", "complete", "burn"}  \* operations that end a claim
Locked   == Settles \cup {"claim"}           \* operations under the lock
Errors   == {"not_found", "kind_mismatch", "already_consumed", "not_claimed",
             "token_in_flight"}              \* the TransferTokenError family

(* _TokenRecord; sink_handle and caps are passed through unread.           *)
Records == [status : Statuses, kind : Kinds, lease : Nat, fence : Nat]

(* A TransferToken a claim returned; lease is what the store granted it.   *)
Claims == [client : Clients, token : Tokens, fence : Nat, lease : Nat]

(* A call waits for the lock, then reads, then writes a record under a ttl, *)
(* then is done; mint starts with its write.  since is when the ttl was    *)
(* determined, a history no action looks at; "invalid" is a ValueError.    *)
Idle    == [phase |-> "idle"]
Entered == [phase : {"wait", "read"}, name : {"claim"}, token : Tokens, kind : Kinds]
             \cup [phase : {"wait", "read"}, name : Settles, token : Tokens, fence : Nat]
Writing == [phase : {"write"}, name : Locked \cup {"mint"}, token : Tokens,
            record : Records, fence : Nat, ttl : Nat \ {0}, since : Nat]
Done    == [phase : {"done"}, name : Locked \cup {"mint"},
            outcome : {"ok", "invalid"} \cup Errors \cup FaultNames]
Ops     == {Idle} \cup Entered \cup Writing \cup Done

TypeOK == /\ now \in Nat /\ restarts \in Nat /\ lastFence \in Nat
          /\ minted \subseteq Tokens
          /\ DOMAIN kv \subseteq minted
          /\ \A t \in DOMAIN kv : kv[t] \in [value : Records, expires : Nat]
          /\ firstSettle \in [DOMAIN firstSettle -> Nat]
          /\ DOMAIN firstSettle \subseteq minted
          /\ lock \in Clients \cup {NoClient}
          /\ op \in [Clients -> Ops]
          /\ claims \subseteq Claims

Init == /\ now = 0 /\ restarts = 0 /\ lastFence = NoFence
        /\ kv = EmptyStore /\ minted = {} /\ firstSettle = EmptyStore
        /\ lock = NoClient
        /\ op = [c \in Clients |-> Idle]
        /\ claims = {}

------------------------------------------------------------------------------
(* How a call is entered, moves on and ends. *)

(* The record of a token just minted. *)
FreshRecord(k) == [status |-> "available", kind |-> k, lease |-> NoLease, fence |-> NoFence]

InWrite(c, names) == op[c].phase = "write" /\ op[c].name \in names

(* The read said what to write: the record goes back with this ttl.        *)
WriteBack(c, record, fence, ttl) ==
    /\ op' = [op EXCEPT ![c] = [phase |-> "write", name |-> op[c].name,
                                token |-> op[c].token, record |-> record,
                                fence |-> fence, ttl |-> ttl, since |-> now]]
    /\ UNCHANGED <<lock, claims>>

(* Mutant of End: the lock is not let go of when an await raised.          *)
EndLeakingLock(c, outcome) ==
    /\ op' = [op EXCEPT ![c] = [phase |-> "done", name |-> op[c].name, outcome |-> outcome]]
    /\ lock' = IF lock = c /\ outcome \notin FaultNames THEN NoClient ELSE lock

(* `async with self._lock` is left on every way out; a settled claim is    *)
(* never used again, whatever came of settling it.                         *)
End(c, outcome) ==
    /\ op' = [op EXCEPT ![c] = [phase |-> "done", name |-> op[c].name, outcome |-> outcome]]
    /\ lock' = IF lock = c THEN NoClient ELSE lock

Kept(c) == {m \in claims : op[c].name \in Settles => m.client # c}

(* The call ends without having written. *)
Answer(c, outcome) == End(c, outcome) /\ claims' = Kept(c)

------------------------------------------------------------------------------
(* The operations, up to the write. *)

(* Mutant of Mintable: only the kind is looked at. *)
MintableWhateverTTL(k, ttl) == k # NoKind

(* mint raises ValueError on an empty kind or a ttl that is not positive.  *)
Mintable(k, ttl) == k # NoKind /\ ttl > 0

(* A fresh 32-byte secret collides with none in use, so no lock is taken.  *)
Mint(c, t, k, ttl) ==
    /\ op[c] = Idle
    /\ t \notin minted
    /\ \A d \in Clients : InWrite(d, {"mint"}) => op[d].token # t
    /\ \/ /\ Mintable(k, ttl)
          /\ op' = [op EXCEPT ![c] = [phase |-> "write", name |-> "mint", token |-> t,
                                      record |-> FreshRecord(k), fence |-> NoFence,
                                      ttl |-> ttl, since |-> now]]
       \/ /\ ~Mintable(k, ttl)
          /\ op' = [op EXCEPT ![c] = [phase |-> "done", name |-> "mint", outcome |-> "invalid"]]
    /\ UNCHANGED <<now, backend, lock, claims, restarts>>

StartClaim(c, t, k) ==
    /\ op[c] = Idle
    /\ \A m \in claims : m.client # c
    /\ lastFence < MaxFence
    /\ op' = [op EXCEPT ![c] = [phase |-> "wait", name |-> "claim", token |-> t, kind |-> k]]
    /\ UNCHANGED <<now, backend, lock, claims, restarts>>

StartSettle(c, name) ==
    /\ op[c] = Idle
    /\ \E m \in claims :
          /\ m.client = c
          /\ op' = [op EXCEPT ![c] = [phase |-> "wait", name |-> name,
                                      token |-> m.token, fence |-> m.fence]]
    /\ UNCHANGED <<now, backend, lock, claims, restarts>>

(* Mutant of Acquire: a read-modify-write that does not take the lock.     *)
AcquireUnlocked(c) ==
    /\ op[c].phase = "wait"
    /\ op' = [op EXCEPT ![c].phase = "read"]
    /\ UNCHANGED <<now, backend, lock, claims, restarts>>

Acquire(c) ==
    /\ op[c].phase = "wait"
    /\ lock = NoClient
    /\ lock' = c
    /\ op' = [op EXCEPT ![c].phase = "read"]
    /\ UNCHANGED <<now, backend, claims, restarts>>

(* Mutant of LeaseLive: every reservation may be taken over at once.       *)
LeaseIgnored(r) == FALSE

(* A reservation whose lease is over may be taken over by the next claim.  *)
LeaseLive(r) == now < r.lease

(* claim, from the read to the decision. *)
ReadClaim(c) ==
    LET t == op[c].token
        r == Value(kv, t)
    IN /\ op[c].phase = "read" /\ op[c].name = "claim"
       /\ \/ ~Present(kv, t, now) /\ Answer(c, "not_found")
          \/ /\ Present(kv, t, now)
             /\ \/ r.kind # op[c].kind /\ Answer(c, "kind_mismatch")
                \/ /\ r.kind = op[c].kind
                   /\ \/ r.status = "consumed" /\ Answer(c, "already_consumed")
                      \/ /\ r.status = "in_flight" /\ LeaseLive(r)
                         /\ Answer(c, "token_in_flight")
                      \/ /\ r.status = "available" \/ (r.status = "in_flight" /\ ~LeaseLive(r))
                         /\ WriteBack(c, [r EXCEPT !.status = "in_flight",
                                                   !.lease = now + LeaseSeconds,
                                                   !.fence = lastFence + 1],
                                      lastFence + 1, Remaining(kv, t, now))
       /\ UNCHANGED <<now, backend, restarts>>

(* Mutant of OwnReservation: any holder may settle any reservation.        *)
AnyReservation(r, f) == r.status = "in_flight"

(* The record is still the reservation this fence was given out for. *)
OwnReservation(r, f) == r.status = "in_flight" /\ r.fence = f

(* Mutant of Settled: a misspelt status.                                   *)
SettledMisspelt(r, status) == [r EXCEPT !.status = "in-flight", !.lease = NoLease, !.fence = NoFence]

Settled(r, status) == [r EXCEPT !.status = status, !.lease = NoLease, !.fence = NoFence]

(* release: whatever is not its own reservation it leaves alone. *)
ReadRelease(c) ==
    LET t == op[c].token
        r == Value(kv, t)
        own == Present(kv, t, now) /\ OwnReservation(r, op[c].fence)
    IN /\ op[c].phase = "read" /\ op[c].name = "release"
       /\ \/ ~own /\ Answer(c, "ok")
          \/ own /\ WriteBack(c, Settled(r, "available"), op[c].fence, Remaining(kv, t, now))
       /\ UNCHANGED <<now, backend, restarts>>

(* Mutants of SettledTTL: without the min, and without the grace window.   *)
SettledAnew(name, remaining) == IF name = "complete" THEN GraceSeconds ELSE remaining
SettledInFull(name, remaining) == remaining

(* complete shrinks what is left of the lifetime to the grace window. *)
SettledTTL(name, remaining) ==
    IF name = "complete" /\ GraceSeconds < remaining THEN GraceSeconds ELSE remaining

(* _finish, shared by complete and burn. *)
ReadFinish(c) ==
    LET t == op[c].token
        r == Value(kv, t)
    IN /\ op[c].phase = "read" /\ op[c].name \in {"complete", "burn"}
       /\ \/ ~Present(kv, t, now) /\ Answer(c, "ok")
          \/ /\ Present(kv, t, now)
             /\ \/ r.status = "consumed" /\ Answer(c, "ok")
                \/ r.status = "available" /\ Answer(c, "not_claimed")
                \/ r.status = "in_flight" /\ r.fence # op[c].fence /\ Answer(c, "ok")
                \/ /\ OwnReservation(r, op[c].fence)
                   /\ WriteBack(c, Settled(r, IF op[c].name = "burn" THEN "consumed" ELSE "available"),
                                op[c].fence, SettledTTL(op[c].name, Remaining(kv, t, now)))
       /\ UNCHANGED <<now, backend, restarts>>

Read(c) == ReadClaim(c) \/ ReadRelease(c) \/ ReadFinish(c)

------------------------------------------------------------------------------
(* The write, the faults, and the world around. *)

(* kv.put reaches the backend. *)
Apply(c) ==
    LET t == op[c].token
    IN /\ op[c].phase = "write"
       /\ kv' = Put(kv, t, op[c].record, op[c].ttl, now)
       /\ minted' = minted \cup {t}
       /\ lastFence' = IF op[c].name = "claim" THEN op[c].fence ELSE lastFence
       /\ firstSettle' = [x \in DOMAIN firstSettle \cup
                                 (IF op[c].name = "complete" THEN {t} ELSE {}) |->
                              IF x \in DOMAIN firstSettle THEN firstSettle[x] ELSE now]
       /\ UNCHANGED <<now, restarts>>

(* A claim that returns hands its caller the fence. *)
Granted(c) ==
    IF op[c].name = "claim"
    THEN {[client |-> c, token |-> op[c].token, fence |-> op[c].fence,
           lease |-> op[c].record.lease]}
    ELSE {}

Write(c) == Apply(c) /\ End(c, "ok") /\ claims' = Kept(c) \cup Granted(c)

(* The put took effect, yet the caller sees an error or is cancelled: the  *)
(* record has changed and nobody was told.                                 *)
WriteUnanswered(c, why) == Apply(c) /\ Answer(c, why)

(* An await raises before anything was written; on the lock itself only    *)
(* cancellation can.                                                       *)
Raise(c, why) ==
    /\ \/ op[c].phase \in {"read", "write"}
       \/ op[c].phase = "wait" /\ why = "cancelled"
    /\ Answer(c, why)
    /\ UNCHANGED <<now, backend, restarts>>

(* The caller takes the outcome. *)
Collect(c) ==
    /\ op[c].phase = "done"
    /\ op' = [op EXCEPT ![c] = Idle]
    /\ UNCHANGED <<now, backend, lock, claims, restarts>>

Tick == /\ now < MaxTime
        /\ SlowBackend \/ \A c \in Clients : ~InWrite(c, Locked)
        /\ now' = now + 1
        /\ UNCHANGED <<backend, lock, op, claims, restarts>>

(* The process dies and comes back with a new lock: every call and every   *)
(* claim is lost, and with a memory:// backend the records too.            *)
Restart ==
    /\ restarts < MaxRestarts
    /\ restarts' = restarts + 1
    /\ op' = [c \in Clients |-> Idle]
    /\ lock' = NoClient
    /\ claims' = {}
    /\ kv' = IF Durable THEN kv ELSE EmptyStore
    /\ UNCHANGED <<now, minted, firstSettle, lastFence>>

(* Between requests the store does nothing. *)
Rest == (\A c \in Clients : op[c] = Idle) /\ UNCHANGED vars

Next ==
    \/ \E c \in Clients :
          \/ \E t \in Tokens, k \in Kinds, ttl \in TTLs : Mint(c, t, k, ttl)
          \/ \E t \in Tokens, k \in Kinds : StartClaim(c, t, k)
          \/ \E name \in Settles : StartSettle(c, name)
          \/ Acquire(c) \/ Read(c) \/ Write(c) \/ Collect(c)
          \/ \E why \in Faults : Raise(c, why) \/ WriteUnanswered(c, why)
    \/ Tick \/ Restart \/ Rest

Spec == Init /\ [][Next]_vars

------------------------------------------------------------------------------
(* Properties. *)

(* Where a call stands between its read and its write. *)
InCritical(c) == op[c].phase = "read" \/ InWrite(c, Locked)

(* One asyncio.Lock serialises every read-modify-write: two clients are    *)
(* never both between their kv.ttl and their kv.put, and who is there owns *)
(* the lock, whatever was cancelled, failed or restarted before.           *)
ReadModifyWriteExclusive == \A c \in Clients : InCritical(c) <=> lock = c

(* claim's promise: two handlers are never both within the lease they were *)
(* granted on one token, although a record is read and written in separate *)
(* steps, leases lapse under slow handlers, and releases and completes     *)
(* arrive late or not at all.                                              *)
AtMostOneLiveHolder ==
    \A m, n \in claims : m.token = n.token /\ now < m.lease /\ now < n.lease => m = n

(* The fence's promise: a reservation in flight is changed only by a call  *)
(* that carries its fence, or taken over by a claim once its lease is over.*)
(* A superseded holder's late release, complete or burn changes nothing.   *)
SupersededHolderIsHarmless ==
    [][\A t \in DOMAIN kv \cap DOMAIN kv' :
          LET r == kv[t].value IN
          r.status = "in_flight" /\ kv'[t].value # r =>
            \/ kv'[t].value.status = "in_flight" /\ ~LeaseLive(r)
            \/ \E c \in Clients : InWrite(c, Settles) /\ op[c].token = t /\ op[c].fence = r.fence
      ]_vars

(* complete's promise that the min never extends a lifetime and does not   *)
(* slide across retries, as far as it goes: kv.ttl is read before the put  *)
(* that applies it, so an operation that dawdles in between moves a link's *)
(* expiry later, but never by more than it dawdled, whatever fails.        *)
ExpirySlidesByTheDelay ==
    [][\A t \in DOMAIN kv \cap DOMAIN kv' :
          \/ kv'[t].expires <= kv[t].expires
          \/ \E c \in Clients : /\ InWrite(c, Locked) /\ op[c].token = t
                               /\ kv'[t].expires <= kv[t].expires + (now - op[c].since)]_vars

(* The security bound of a link that has delivered once: it is gone a      *)
(* grace window after its first settle, however often it is claimed again, *)
(* released or completed in that window.                                   *)
SettledLinkExpires ==
    \A t \in DOMAIN firstSettle \cap DOMAIN kv :
       kv[t].expires <= firstSettle[t] + GraceSeconds

(* A record that expired while a call is between its read and its write is *)
(* still alive for that call; the token ends when the call does not write. *)
Alive(t) == \/ Present(kv, t, now)
            \/ t \in DOMAIN kv /\ \E c \in Clients : InWrite(c, Locked) /\ op[c].token = t

TokenStatus(t) == IF t \notin minted THEN "unminted"
                  ELSE IF Alive(t) THEN kv[t].value.status ELSE "gone"

TokenHolder(t) == IF t \in minted /\ Alive(t) THEN kv[t].value.fence ELSE NoFence

Abstract == INSTANCE TransferTokens WITH
    status <- [t \in Tokens |-> TokenStatus(t)],
    holder <- [t \in Tokens |-> TokenHolder(t)]

(* The store implements TransferTokens: in particular a consumed or an     *)
(* expired token never comes back, and a fence is never valid twice.       *)
ImplementsTransferTokens == Abstract!Spec
==============================================================================
