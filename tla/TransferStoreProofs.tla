-------------------------- MODULE TransferStoreProofs --------------------------
(***************************************************************************)
(* Theorems about TransferStore, for any number of clients and tokens, any *)
(* lifetimes, lease and grace window, any faults and any bounds.  The      *)
(* argument: the lock makes the record a locked call has read the record   *)
(* it overwrites (WritesGrounded), so a live claim always finds its own    *)
(* fence and lease in the record (ClaimsBacked), and fences are handed out *)
(* once (FencesFresh); two live claims on one token then share a fence and *)
(* are the same claim.                                                     *)
(***************************************************************************)
EXTENDS TransferStore, TLAPS

(* No two claims share a fence, and none is ahead of the store's counter.  *)
FencesFresh == /\ \A m \in claims : m.fence \in 1..lastFence
               /\ \A m, n \in claims : m.fence = n.fence => m = n

Backed(m) == /\ m.token \in DOMAIN kv
             /\ OwnReservation(kv[m.token].value, m.fence)
             /\ kv[m.token].value.lease = m.lease

ClaimsBacked == \A m \in claims : m.lease <= now \/ Backed(m)

(* A settling call carries the fence of a claim its client still holds.    *)
SettlesOwnClaim ==
    \A c \in Clients :
       op[c].phase \in {"wait", "read", "write"} /\ op[c].name \in Settles =>
          \E m \in claims : m.client = c /\ m.token = op[c].token /\ m.fence = op[c].fence

(* What a locked call decided to write still fits the record it will       *)
(* overwrite, and what mint writes overwrites nothing.                     *)
SettleGrounded(c) == /\ op[c].token \in DOMAIN kv
                     /\ OwnReservation(kv[op[c].token].value, op[c].fence)
                     /\ op[c].record.status # "in_flight"
                     /\ op[c].record.fence = NoFence

ClaimGrounded(c) == /\ op[c].token \in DOMAIN kv
                    /\ \/ kv[op[c].token].value.status = "available"
                       \/ /\ kv[op[c].token].value.status = "in_flight"
                          /\ kv[op[c].token].value.lease <= now
                    /\ op[c].fence = lastFence + 1
                    /\ OwnReservation(op[c].record, op[c].fence)

MintGrounded(c) == /\ op[c].token \notin minted
                   /\ op[c].record.status = "available"
                   /\ op[c].record.fence = NoFence
                   /\ \A d \in Clients \ {c} : InWrite(d, {"mint"}) => op[d].token # op[c].token

WritesGrounded == \A c \in Clients : /\ InWrite(c, Settles) => SettleGrounded(c)
                                     /\ InWrite(c, {"claim"}) => ClaimGrounded(c)
                                     /\ InWrite(c, {"mint"}) => MintGrounded(c)

IInv == /\ TypeOK
        /\ ReadModifyWriteExclusive
        /\ FencesFresh
        /\ ClaimsBacked
        /\ SettlesOwnClaim
        /\ WritesGrounded
------------------------------------------------------------------------------
(* Types. *)

USE TimingAssumption, ClientsAssumption, FaultsAssumption

(* The phase of a call tells which kind of record it is. *)
LEMMA OpShape ==
    ASSUME TypeOK, NEW c \in Clients
    PROVE  /\ op[c].phase \in {"wait", "read"} => op[c] \in Entered
           /\ op[c].phase = "write" => op[c] \in Writing
           /\ op[c].phase = "done" => op[c] \in Done
           /\ op[c].phase \in {"idle", "wait", "read", "write", "done"}
  BY DEF TypeOK, Ops, Idle, Entered, Writing, Done

(* A call that ends leaves a well-formed answer and a well-formed lock. *)
LEMMA EndType ==
    ASSUME TypeOK, NEW c \in Clients, NEW outcome \in {"ok"} \cup Errors \cup FaultNames,
           op[c].phase \in {"wait", "read", "write"}, End(c, outcome)
    PROVE  op' \in [Clients -> Ops] /\ lock' \in Clients \cup {NoClient}
<1>1. op[c].name \in Locked \cup {"mint"}
  BY OpShape DEF Entered, Writing, Locked, Settles
<1>2. [phase |-> "done", name |-> op[c].name, outcome |-> outcome] \in Done
  BY <1>1 DEF Done
<1>. QED
  BY <1>2 DEF End, TypeOK, Ops

(* A record written back is a record the store may hold. *)
LEMMA WriteBackType ==
    ASSUME TypeOK, NEW c \in Clients, op[c].phase = "read",
           NEW r \in Records, NEW f \in Nat, NEW ttl \in Nat \ {0},
           WriteBack(c, r, f, ttl)
    PROVE  op' \in [Clients -> Ops]
<1>1. op[c].name \in Locked \cup {"mint"} /\ op[c].token \in Tokens
  BY OpShape DEF Entered, Locked, Settles
<1>2. [phase |-> "write", name |-> op[c].name, token |-> op[c].token, record |-> r,
       fence |-> f, ttl |-> ttl, since |-> now] \in Writing
  BY <1>1 DEF Writing, TypeOK
<1>. QED
  BY <1>2 DEF WriteBack, TypeOK, Ops

(* A record that is still there, and what is left of its lifetime. *)
LEMMA FoundType ==
    ASSUME TypeOK, NEW t \in Tokens, Present(kv, t, now)
    PROVE  /\ t \in DOMAIN kv
           /\ Value(kv, t) \in Records
           /\ Remaining(kv, t, now) \in Nat \ {0}
           /\ \A name \in Settles : SettledTTL(name, Remaining(kv, t, now)) \in Nat \ {0}
  BY DEF TypeOK, Present, Value, Remaining, SettledTTL

(* Ending a call without a write keeps every type. *)
LEMMA AnswerType ==
    ASSUME TypeOK, NEW c \in Clients, NEW outcome \in {"ok"} \cup Errors \cup FaultNames,
           op[c].phase \in {"wait", "read", "write"}, Answer(c, outcome),
           UNCHANGED <<now, backend, restarts>>
    PROVE  TypeOK'
<1>1. op' \in [Clients -> Ops] /\ lock' \in Clients \cup {NoClient}
  BY EndType DEF Answer
<1>2. claims' \subseteq Claims
  BY DEF Answer, Kept, TypeOK
<1>. QED
  BY <1>1, <1>2 DEF TypeOK, backend

(* What a read comes to: an answer, or a write that fits the record read.  *)
ReadDecides(c, r, f, ttl) ==
    /\ WriteBack(c, r, f, ttl)
    /\ Present(kv, op[c].token, now)
    /\ op[c].name \in Settles =>
          /\ f = op[c].fence
          /\ OwnReservation(Value(kv, op[c].token), f)
          /\ r.status # "in_flight" /\ r.fence = NoFence
    /\ op[c].name = "claim" =>
          /\ f = lastFence + 1
          /\ OwnReservation(r, f)
          /\ LET read == Value(kv, op[c].token) IN
             read.status = "available" \/ (read.status = "in_flight" /\ ~LeaseLive(read))

ReadOutcome(c) ==
    /\ op[c].phase = "read"
    /\ UNCHANGED <<now, backend, restarts>>
    /\ \/ \E outcome \in {"ok"} \cup Errors : Answer(c, outcome)
       \/ \E r \in Records, f \in Nat, ttl \in Nat \ {0} : ReadDecides(c, r, f, ttl)

(* A claim's read ends the call, or sets down what it will write back.     *)
LEMMA ReadClaimCases ==
    ASSUME TypeOK, NEW c \in Clients, ReadClaim(c)
    PROVE  ReadOutcome(c)
<1> DEFINE t == op[c].token
           r == Value(kv, t)
           r2 == [r EXCEPT !.status = "in_flight", !.lease = now + LeaseSeconds,
                           !.fence = lastFence + 1]
<1>0. t \in Tokens
  BY OpShape DEF ReadClaim, Entered
<1>1. ASSUME Present(kv, t, now), WriteBack(c, r2, lastFence + 1, Remaining(kv, t, now)),
             r.status = "available" \/ (r.status = "in_flight" /\ ~LeaseLive(r))
      PROVE  ReadOutcome(c)
  <2>1. r \in Records /\ Remaining(kv, t, now) \in Nat \ {0}
    BY <1>0, <1>1, FoundType
  <2>2. lastFence + 1 \in Nat /\ now + LeaseSeconds \in Nat
    BY DEF TypeOK
  <2>3. r2 \in Records /\ OwnReservation(r2, lastFence + 1)
    BY <2>1, <2>2 DEF Records, Statuses, OwnReservation
  <2>4. op[c].name = "claim" /\ op[c].name \notin Settles
    BY DEF ReadClaim, Settles
  <2>5. ReadDecides(c, r2, lastFence + 1, Remaining(kv, t, now))
    BY <1>1, <2>3, <2>4 DEF ReadDecides
  <2>. QED
    BY <2>1, <2>2, <2>3, <2>5 DEF ReadOutcome, ReadClaim
<1>. QED
  BY <1>1 DEF ReadClaim, ReadOutcome, Errors

(* The same for the read of a release.                                     *)
LEMMA ReadReleaseCases ==
    ASSUME TypeOK, NEW c \in Clients, ReadRelease(c)
    PROVE  ReadOutcome(c)
<1> DEFINE t == op[c].token
           r == Value(kv, t)
<1>0. op[c] \in Entered /\ t \in Tokens
  BY OpShape DEF ReadRelease, Entered
<1>1. ASSUME Present(kv, t, now), OwnReservation(r, op[c].fence),
             WriteBack(c, Settled(r, "available"), op[c].fence, Remaining(kv, t, now))
      PROVE  ReadOutcome(c)
  <2>1. r \in Records /\ Remaining(kv, t, now) \in Nat \ {0}
    BY <1>0, <1>1, FoundType
  <2>2. /\ Settled(r, "available") \in Records
        /\ Settled(r, "available").status # "in_flight" /\ Settled(r, "available").fence = NoFence
    BY <2>1 DEF Settled, Records, Statuses, NoLease, NoFence
  <2>3. op[c].fence \in Nat
    BY <2>1, <1>1 DEF OwnReservation, Records
  <2>4. ReadDecides(c, Settled(r, "available"), op[c].fence, Remaining(kv, t, now))
    BY <1>1, <2>2 DEF ReadDecides, ReadRelease
  <2>. QED
    BY <2>1, <2>2, <2>3, <2>4 DEF ReadOutcome, ReadRelease
<1>. QED
  BY <1>1 DEF ReadRelease, ReadOutcome

(* The same for the read of complete and burn.                             *)
LEMMA ReadFinishCases ==
    ASSUME TypeOK, NEW c \in Clients, ReadFinish(c)
    PROVE  ReadOutcome(c)
<1> DEFINE t == op[c].token
           r == Value(kv, t)
           status == IF op[c].name = "burn" THEN "consumed" ELSE "available"
           ttl == SettledTTL(op[c].name, Remaining(kv, t, now))
<1>0. t \in Tokens /\ op[c].name \in Settles /\ op[c].name # "claim"
  BY OpShape DEF ReadFinish, Entered, Settles
<1>1. ASSUME Present(kv, t, now), OwnReservation(r, op[c].fence),
             WriteBack(c, Settled(r, status), op[c].fence, ttl)
      PROVE  ReadOutcome(c)
  <2>1. r \in Records /\ ttl \in Nat \ {0}
    BY <1>0, <1>1, FoundType
  <2>2. /\ Settled(r, status) \in Records
        /\ Settled(r, status).status # "in_flight" /\ Settled(r, status).fence = NoFence
    BY <2>1 DEF Settled, Records, Statuses, NoLease, NoFence
  <2>3. op[c].fence \in Nat
    BY <2>1, <1>1 DEF OwnReservation, Records
  <2>4. ReadDecides(c, Settled(r, status), op[c].fence, ttl)
    BY <1>0, <1>1, <2>2 DEF ReadDecides
  <2>. QED
    BY <2>1, <2>2, <2>3, <2>4 DEF ReadOutcome, ReadFinish
<1>. QED
  BY <1>1 DEF ReadFinish, ReadOutcome, Errors

(* Every read ends the call or goes on to a well-formed write.             *)
LEMMA ReadCases ==
    ASSUME TypeOK, NEW c \in Clients, Read(c)
    PROVE  ReadOutcome(c)
  BY ReadClaimCases, ReadReleaseCases, ReadFinishCases DEF Read

(* The put leaves a well-formed backend. *)
LEMMA ApplyType ==
    ASSUME TypeOK, NEW c \in Clients, Apply(c)
    PROVE  /\ minted' \subseteq Tokens /\ lastFence' \in Nat
           /\ DOMAIN kv' = DOMAIN kv \cup {op[c].token}
           /\ DOMAIN kv' \subseteq minted'
           /\ \A t \in DOMAIN kv' : kv'[t] \in [value : Records, expires : Nat]
           /\ firstSettle' \in [DOMAIN firstSettle' -> Nat]
           /\ DOMAIN firstSettle' \subseteq minted'
<1>1. op[c] \in Writing
  BY OpShape DEF Apply
<1>2. /\ op[c].token \in Tokens /\ op[c].record \in Records
      /\ op[c].fence \in Nat /\ op[c].ttl \in Nat
  BY <1>1 DEF Writing
<1>3. /\ DOMAIN kv' = DOMAIN kv \cup {op[c].token}
      /\ \A t \in DOMAIN kv' : kv'[t] \in [value : Records, expires : Nat]
  BY <1>2 DEF Apply, Put, TypeOK
<1>4. firstSettle' \in [DOMAIN firstSettle' -> Nat] /\ DOMAIN firstSettle' \subseteq minted'
  BY <1>2 DEF Apply, TypeOK
<1>. QED
  BY <1>2, <1>3, <1>4 DEF Apply, TypeOK

(* Types are kept by every action: one step per action of Next. *)
LEMMA TypeStep == TypeOK /\ [Next]_vars => TypeOK'
<1> SUFFICES ASSUME TypeOK, [Next]_vars PROVE TypeOK'
  OBVIOUS
<1>1. ASSUME NEW c \in Clients, NEW t \in Tokens, NEW k \in Kinds, NEW ttl \in TTLs,
             Mint(c, t, k, ttl)
      PROVE  TypeOK'
  <2>1. FreshRecord(k) \in Records
    BY DEF FreshRecord, Records, Statuses, NoLease, NoFence
  <2>2. Mintable(k, ttl) =>
          [phase |-> "write", name |-> "mint", token |-> t, record |-> FreshRecord(k),
           fence |-> NoFence, ttl |-> ttl, since |-> now] \in Ops
    BY <2>1 DEF Ops, Writing, NoFence, Mintable, TypeOK
  <2>3. [phase |-> "done", name |-> "mint", outcome |-> "invalid"] \in Ops
    BY DEF Ops, Done
  <2>. QED
    BY <1>1, <2>2, <2>3 DEF Mint, TypeOK, backend
<1>2. ASSUME NEW c \in Clients, NEW t \in Tokens, NEW k \in Kinds, StartClaim(c, t, k)
      PROVE  TypeOK'
  <2>1. [phase |-> "wait", name |-> "claim", token |-> t, kind |-> k] \in Ops
    BY DEF Ops, Entered
  <2>. QED
    BY <1>2, <2>1 DEF StartClaim, TypeOK, backend
<1>3. ASSUME NEW c \in Clients, NEW name \in Settles, StartSettle(c, name)
      PROVE  TypeOK'
  <2>1. PICK m \in claims :
            op' = [op EXCEPT ![c] = [phase |-> "wait", name |-> name,
                                     token |-> m.token, fence |-> m.fence]]
    BY <1>3 DEF StartSettle
  <2>2. [phase |-> "wait", name |-> name, token |-> m.token, fence |-> m.fence] \in Ops
    BY DEF Ops, Entered, TypeOK, Claims
  <2>. QED
    BY <1>3, <2>1, <2>2 DEF StartSettle, TypeOK, backend
<1>4. ASSUME NEW c \in Clients, Acquire(c)
      PROVE  TypeOK'
  <2>1. op[c] \in Entered
    BY <1>4, OpShape DEF Acquire
  <2>2. [op[c] EXCEPT !.phase = "read"] \in Entered
    BY <2>1 DEF Entered
  <2>. QED
    BY <1>4, <2>2 DEF Acquire, TypeOK, backend, Ops
<1>5. ASSUME NEW c \in Clients, Read(c)
      PROVE  TypeOK'
  <2>1. CASE \E outcome \in {"ok"} \cup Errors : Answer(c, outcome)
    BY <1>5, <2>1, ReadCases, AnswerType DEF ReadOutcome
  <2>2. ASSUME NEW r \in Records, NEW f \in Nat, NEW ttl \in Nat \ {0}, WriteBack(c, r, f, ttl)
        PROVE  TypeOK'
    <3>1. op' \in [Clients -> Ops]
      BY <1>5, <2>2, ReadCases, WriteBackType DEF ReadOutcome
    <3>. QED
      BY <1>5, <2>2, <3>1, ReadCases DEF ReadOutcome, WriteBack, TypeOK, backend
  <2>. QED
    BY <1>5, <2>1, <2>2, ReadCases DEF ReadOutcome, ReadDecides
<1>6. ASSUME NEW c \in Clients, NEW outcome \in {"ok"} \cup FaultNames, Apply(c),
             End(c, outcome), claims' \subseteq Kept(c) \cup Granted(c)
      PROVE  TypeOK'
  <2>1. op[c] \in Writing
    BY <1>6, OpShape DEF Apply
  <2>2. Granted(c) \subseteq Claims
    BY <2>1 DEF Granted, Claims, Writing, Records
  <2>3. claims' \subseteq Claims
    BY <1>6, <2>2 DEF Kept, TypeOK
  <2>4. op' \in [Clients -> Ops] /\ lock' \in Clients \cup {NoClient}
    BY <1>6, EndType DEF Apply
  <2>. QED
    BY <1>6, <2>3, <2>4, ApplyType DEF TypeOK, Apply
<1>7. ASSUME NEW c \in Clients, NEW why \in Faults, Raise(c, why)
      PROVE  TypeOK'
  BY <1>7, AnswerType DEF Raise
<1>8. ASSUME NEW c \in Clients, Collect(c)
      PROVE  TypeOK'
  BY <1>8 DEF Collect, TypeOK, backend, Ops
<1>9. CASE Tick
  BY <1>9 DEF Tick, TypeOK, backend
<1>10. CASE Restart
  <2>1. op' \in [Clients -> Ops]
    BY <1>10 DEF Restart, Ops
  <2>. QED
    BY <1>10, <2>1 DEF Restart, TypeOK, EmptyStore
<1>11. CASE UNCHANGED vars
  BY <1>11 DEF vars, TypeOK
<1>. QED
  BY <1>1, <1>2, <1>3, <1>4, <1>5, <1>6, <1>7, <1>8, <1>9, <1>10, <1>11
     DEF Next, Write, WriteUnanswered, Answer, Rest

(* The store's state is well formed: every record has the shape            *)
(* _TokenRecord gives it and a status the code knows, and every record was *)
(* minted here.                                                            *)
THEOREM TypeCorrect == Spec => []TypeOK
<1>1. Init => TypeOK
  BY DEF Init, TypeOK, EmptyStore, Ops, Idle, NoFence
<1>. QED
  BY <1>1, TypeStep, PTL DEF Spec

------------------------------------------------------------------------------
(* The lock. *)

(* Every step keeps the lock with the one call between its read and write. *)
LEMMA ExclusiveStep ==
    TypeOK /\ ReadModifyWriteExclusive /\ [Next]_vars => ReadModifyWriteExclusive'
<1> SUFFICES ASSUME TypeOK, ReadModifyWriteExclusive, [Next]_vars
             PROVE  ReadModifyWriteExclusive'
  OBVIOUS
<1> USE DEF ReadModifyWriteExclusive, InCritical, InWrite
<1>1. ASSUME NEW c \in Clients, NEW t \in Tokens, NEW k \in Kinds, NEW ttl \in TTLs,
             Mint(c, t, k, ttl)
      PROVE  ReadModifyWriteExclusive'
  BY <1>1 DEF Mint, TypeOK, Idle, Locked, Settles
<1>2. ASSUME NEW c \in Clients, NEW t \in Tokens, NEW k \in Kinds, StartClaim(c, t, k)
      PROVE  ReadModifyWriteExclusive'
  BY <1>2 DEF StartClaim, TypeOK, Idle
<1>3. ASSUME NEW c \in Clients, NEW name \in Settles, StartSettle(c, name)
      PROVE  ReadModifyWriteExclusive'
  BY <1>3 DEF StartSettle, TypeOK, Idle
<1>4. ASSUME NEW c \in Clients, Acquire(c)
      PROVE  ReadModifyWriteExclusive'
  BY <1>4 DEF Acquire, TypeOK
<1>5. ASSUME NEW c \in Clients, NEW outcome, End(c, outcome)
      PROVE  ReadModifyWriteExclusive'
  BY <1>5 DEF End, TypeOK
<1>6. ASSUME NEW c \in Clients, Read(c)
      PROVE  ReadModifyWriteExclusive'
  <2>1. op[c].phase = "read" /\ op[c].name \in Locked
    BY <1>6 DEF Read, ReadClaim, ReadRelease, ReadFinish, Locked, Settles
  <2>2. ASSUME NEW r, NEW f, NEW ttl, WriteBack(c, r, f, ttl)
        PROVE  ReadModifyWriteExclusive'
    BY <2>1, <2>2 DEF WriteBack, TypeOK
  <2>. QED
    BY <1>5, <1>6, <2>2, ReadCases DEF ReadOutcome, ReadDecides, Answer
<1>7. ASSUME NEW c \in Clients, Collect(c)
      PROVE  ReadModifyWriteExclusive'
  BY <1>7 DEF Collect, TypeOK, Idle
<1>8. CASE Restart
  BY <1>8 DEF Restart, Idle
<1>9. CASE UNCHANGED <<op, lock>>
  BY <1>9
<1>. QED
  BY <1>1, <1>2, <1>3, <1>4, <1>5, <1>6, <1>7, <1>8, <1>9
     DEF Next, Write, WriteUnanswered, Raise, Answer, Tick, Rest, vars

(* Between a kv.ttl and its kv.put nobody else is: the lock is taken by    *)
(* one call at a time and let go of on every way out.                      *)
THEOREM Exclusive == Spec => []ReadModifyWriteExclusive
<1>1. Init => ReadModifyWriteExclusive
  BY DEF Init, ReadModifyWriteExclusive, InCritical, InWrite, Idle
<1>. QED
  BY <1>1, ExclusiveStep, TypeCorrect, PTL DEF Spec

------------------------------------------------------------------------------
(* The inductive invariant. *)

(* Every step but a write leaves the backend's records and fences alone,   *)
(* or empties the backend together with the claims.                        *)
LEMMA WriteOrNot ==
    ASSUME TypeOK, [Next]_vars
    PROVE  \/ \E c \in Clients : /\ Apply(c) /\ End(c, "ok")
                                 /\ claims' = Kept(c) \cup Granted(c)
           \/ \E c \in Clients, why \in Faults : Apply(c) /\ Answer(c, why)
           \/ UNCHANGED backend /\ claims' \subseteq claims /\ now' \in Nat /\ now' >= now
           \/ Restart
<1>1. ASSUME NEW c \in Clients, Read(c)
      PROVE  UNCHANGED backend /\ claims' \subseteq claims /\ now' = now
  BY <1>1, ReadCases DEF ReadOutcome, ReadDecides, Answer, WriteBack, Kept
<1>. QED
  BY <1>1 DEF Next, vars, backend, Mint, StartClaim, StartSettle, Acquire, Write,
              WriteUnanswered, Raise, Collect, Answer, Kept, Tick, Rest, TypeOK

(* The write of a locked call, as WritesGrounded describes it. *)
LEMMA ApplyGrounded ==
    ASSUME TypeOK, WritesGrounded, NEW c \in Clients, Apply(c)
    PROVE  /\ op[c] \in Writing
           /\ op[c].name \in Settles => SettleGrounded(c) /\ lastFence' = lastFence
           /\ op[c].name = "claim" => ClaimGrounded(c) /\ lastFence' = lastFence + 1
           /\ op[c].name = "mint" => MintGrounded(c) /\ lastFence' = lastFence
           /\ op[c].name \in Settles \/ op[c].name = "claim" \/ op[c].name = "mint"
           /\ kv'[op[c].token].value = op[c].record
           /\ op[c].token \in DOMAIN kv'
           /\ \A t \in DOMAIN kv : t \in DOMAIN kv' /\ (t # op[c].token => kv'[t] = kv[t])
<1>1. op[c] \in Writing /\ op[c].phase = "write"
  BY OpShape DEF Apply
<1>2. op[c].name \in Settles \/ op[c].name = "claim" \/ op[c].name = "mint"
  BY <1>1 DEF Writing, Locked
<1>3. /\ kv'[op[c].token].value = op[c].record
      /\ op[c].token \in DOMAIN kv'
      /\ \A t \in DOMAIN kv : t \in DOMAIN kv' /\ (t # op[c].token => kv'[t] = kv[t])
  BY DEF Apply, Put
<1>. QED
  BY <1>1, <1>2, <1>3 DEF Apply, WritesGrounded, InWrite, ClaimGrounded, Settles

(* Every step keeps the fences in use below the one stamped last.          *)
LEMMA FencesStep == IInv /\ [Next]_vars => FencesFresh'
<1> SUFFICES ASSUME IInv, [Next]_vars PROVE FencesFresh'
  OBVIOUS
<1> USE DEF IInv
<1>0. lastFence \in Nat
  BY DEF TypeOK
<1>1. ASSUME NEW c \in Clients, Apply(c), claims' \subseteq claims
      PROVE  FencesFresh'
  BY <1>0, <1>1, ApplyGrounded DEF FencesFresh
<1>2. ASSUME NEW c \in Clients, Apply(c), claims' = Kept(c) \cup Granted(c)
      PROVE  FencesFresh'
  <2>1. CASE op[c].name = "claim"
    <3>1. PICK n : claims' \subseteq claims \cup {n} /\ n.fence = lastFence + 1
      BY <1>2, <2>1, ApplyGrounded DEF Kept, Granted, ClaimGrounded
    <3>2. lastFence' = lastFence + 1
      BY <1>2, <2>1, ApplyGrounded
    <3>. QED
      BY <1>0, <3>1, <3>2 DEF FencesFresh
  <2>2. CASE op[c].name # "claim"
    BY <1>1, <1>2, <2>2 DEF Kept, Granted
  <2>. QED
    BY <2>1, <2>2
<1>3. CASE UNCHANGED backend /\ claims' \subseteq claims
  BY <1>3 DEF FencesFresh, backend
<1>4. CASE Restart
  BY <1>4 DEF Restart, FencesFresh
<1>. QED
  BY <1>1, <1>2, <1>3, <1>4, WriteOrNot DEF Answer, Kept

(* Every step keeps each claim backed by a record or superseded in it.     *)
LEMMA BackedStep == IInv /\ [Next]_vars => ClaimsBacked'
<1> SUFFICES ASSUME IInv, [Next]_vars PROVE ClaimsBacked'
  OBVIOUS
<1> USE DEF IInv
<1>0. now \in Nat /\ \A m \in claims : m.lease \in Nat /\ m.token \in Tokens
  BY DEF TypeOK, Claims
(* A claim that is not the writer's own is untouched by the write, or its  *)
(* lease is over.                                                          *)
<1>1. ASSUME NEW c \in Clients, Apply(c), NEW m \in Kept(c)
      PROVE  m.lease <= now \/ Backed(m)'
  <2> SUFFICES ASSUME Backed(m) PROVE m.lease <= now \/ Backed(m)'
    BY <1>1 DEF ClaimsBacked, Kept
  <2>0. m \in claims
    BY DEF Kept
  <2>1. CASE m.token # op[c].token
    BY <1>1, <2>1, ApplyGrounded DEF Backed
  <2>2. CASE m.token = op[c].token /\ op[c].name \in Settles
    <3>1. PICK n \in claims : n.client = c /\ n.token = op[c].token /\ n.fence = op[c].fence
      BY <1>1, <2>2 DEF SettlesOwnClaim, Apply
    <3>2. m.fence = n.fence
      BY <1>1, <2>2, <3>1, ApplyGrounded DEF Backed, SettleGrounded, OwnReservation
    <3>. QED
      BY <2>0, <2>2, <3>1, <3>2 DEF FencesFresh, Kept
  <2>3. CASE m.token = op[c].token /\ op[c].name = "claim"
    BY <1>1, <2>3, ApplyGrounded DEF Backed, ClaimGrounded, OwnReservation
  <2>4. CASE m.token = op[c].token /\ op[c].name = "mint"
    BY <1>1, <2>4, ApplyGrounded DEF Backed, MintGrounded, TypeOK
  <2>. QED
    BY <1>1, <2>1, <2>2, <2>3, <2>4, ApplyGrounded
<1>2. ASSUME NEW c \in Clients, Apply(c), NEW m \in Granted(c)
      PROVE  Backed(m)'
  <2>1. op[c].name = "claim" /\ m.token = op[c].token /\ m.fence = op[c].fence
        /\ m.lease = op[c].record.lease
    BY <1>2 DEF Granted
  <2>. QED
    BY <1>2, <2>1, ApplyGrounded DEF Backed, ClaimGrounded, OwnReservation
<1>3. CASE UNCHANGED backend /\ claims' \subseteq claims /\ now' \in Nat /\ now' >= now
  BY <1>0, <1>3 DEF ClaimsBacked, Backed, backend, OwnReservation
<1>4. CASE Restart
  BY <1>4 DEF Restart, ClaimsBacked
<1>. QED
  BY <1>1, <1>2, <1>3, <1>4, WriteOrNot DEF Answer, ClaimsBacked, Apply

(* A settling call keeps the claim it settles until it ends.               *)
LEMMA OwnClaimStep == IInv /\ [Next]_vars => SettlesOwnClaim'
<1> SUFFICES ASSUME IInv, [Next]_vars PROVE SettlesOwnClaim'
  OBVIOUS
<1> USE DEF IInv
(* A call that ends takes only its own client's claims with it. *)
<1>1. ASSUME NEW c \in Clients, NEW outcome, End(c, outcome), Kept(c) \subseteq claims'
      PROVE  SettlesOwnClaim'
  BY <1>1 DEF End, Kept, SettlesOwnClaim, TypeOK
<1>2. ASSUME NEW c \in Clients, NEW r, NEW f, NEW ttl, ReadDecides(c, r, f, ttl),
             op[c].phase = "read"
      PROVE  SettlesOwnClaim'
  BY <1>2 DEF ReadDecides, WriteBack, SettlesOwnClaim, TypeOK
<1>3. ASSUME NEW c \in Clients, NEW t \in Tokens, NEW k \in Kinds,
             StartClaim(c, t, k) \/ \E ttl \in TTLs : Mint(c, t, k, ttl)
      PROVE  SettlesOwnClaim'
  BY <1>3 DEF Mint, StartClaim, SettlesOwnClaim, TypeOK, Settles
<1>4. ASSUME NEW c \in Clients, NEW name \in Settles, StartSettle(c, name)
      PROVE  SettlesOwnClaim'
  BY <1>4 DEF StartSettle, SettlesOwnClaim, TypeOK
<1>5. ASSUME NEW c \in Clients, Acquire(c)
      PROVE  SettlesOwnClaim'
  <2>1. op' = [op EXCEPT ![c] = [op[c] EXCEPT !.phase = "read"]] /\ claims' = claims
    BY <1>5 DEF Acquire
  <2>2. op[c] \in Entered /\ op[c].phase = "wait"
    BY <1>5, OpShape DEF Acquire
  <2>3. op[c].name \in Settles => op'[c].name = op[c].name /\ op'[c].token = op[c].token
                                   /\ op'[c].fence = op[c].fence
    BY <2>1, <2>2 DEF TypeOK, Entered, Settles
  <2>4. op'[c].name = op[c].name
    BY <2>1, <2>2 DEF TypeOK, Entered
  <2>. QED
    BY <2>1, <2>2, <2>3, <2>4 DEF SettlesOwnClaim, TypeOK
<1>6. ASSUME NEW c \in Clients, Collect(c)
      PROVE  SettlesOwnClaim'
  BY <1>6 DEF Collect, SettlesOwnClaim, TypeOK, Idle
<1>7. CASE Restart
  BY <1>7 DEF Restart, SettlesOwnClaim, Idle
<1>8. CASE UNCHANGED <<op, claims>>
  BY <1>8 DEF SettlesOwnClaim
<1>9. ASSUME NEW c \in Clients, Read(c)
      PROVE  SettlesOwnClaim'
  BY <1>1, <1>2, <1>9, ReadCases DEF ReadOutcome, Answer
<1>10. ASSUME NEW c \in Clients,
              Write(c) \/ \E why \in Faults : Raise(c, why) \/ WriteUnanswered(c, why)
       PROVE  SettlesOwnClaim'
  BY <1>1, <1>10 DEF Write, WriteUnanswered, Raise, Answer
<1>11. CASE Tick \/ Rest \/ UNCHANGED vars
  BY <1>8, <1>11 DEF Tick, Rest, vars
<1>. QED
  BY <1>3, <1>4, <1>5, <1>6, <1>7, <1>9, <1>10, <1>11 DEF Next

(* What one client is about to write is not disturbed by another's step.   *)
LEMMA GroundedStep == IInv /\ [Next]_vars => WritesGrounded'
<1> SUFFICES ASSUME IInv, [Next]_vars PROVE WritesGrounded'
  OBVIOUS
<1> USE DEF IInv
<1>0. now \in Nat /\ lastFence \in Nat /\ \A t \in DOMAIN kv : kv[t].value.lease \in Nat
  BY DEF TypeOK, Records
(* The backend stays and time may pass: who was writing writes the same,   *)
(* and who starts to write is c.                                           *)
<1>1. ASSUME NEW c \in Clients, UNCHANGED backend, now' \in Nat, now' >= now,
             \A d \in Clients \ {c} : op'[d] = op[d],
             op'[c] = op[c] \/ op'[c].phase # "write"
      PROVE  WritesGrounded'
  BY <1>0, <1>1
     DEF WritesGrounded, InWrite, SettleGrounded, ClaimGrounded, MintGrounded, OwnReservation, backend
<1>2. ASSUME NEW c \in Clients, NEW outcome, Apply(c), End(c, outcome)
      PROVE  WritesGrounded'
  <2>0. now' = now /\ minted' = minted \cup {op[c].token} /\ op[c].phase = "write"
    BY <1>2 DEF Apply
  <2>1. op'[c].phase = "done" /\ \A d \in Clients \ {c} : op'[d] = op[d]
    BY <1>2 DEF End, TypeOK
  (* Another locked write cannot be pending unless c is minting. *)
  <2>2. ASSUME NEW d \in Clients \ {c}, InWrite(d, Locked)
        PROVE  /\ op[c].name = "mint" /\ op[d].token # op[c].token
               /\ op[d].token \in DOMAIN kv'
               /\ kv'[op[d].token] = kv[op[d].token] /\ lastFence' = lastFence
    <3>1. lock = d
      BY <2>2 DEF ReadModifyWriteExclusive, InCritical
    <3>2. op[c].name = "mint"
      BY <2>0, <3>1, <1>2, ApplyGrounded DEF ReadModifyWriteExclusive, InCritical, InWrite, Locked
    <3>3. op[d].token \in DOMAIN kv
      BY <2>2 DEF WritesGrounded, InWrite, Locked, SettleGrounded, ClaimGrounded
    <3>4. op[c].token \notin DOMAIN kv
      BY <1>2, <3>2, ApplyGrounded DEF MintGrounded, TypeOK
    <3>. QED
      BY <1>2, <3>2, <3>3, <3>4, ApplyGrounded
  <2>3. ASSUME NEW d \in Clients, InWrite(d, Settles)'
        PROVE  SettleGrounded(d)'
    BY <2>1, <2>2, <2>3 DEF InWrite, Locked, WritesGrounded, SettleGrounded, OwnReservation
  <2>4. ASSUME NEW d \in Clients, InWrite(d, {"claim"})'
        PROVE  ClaimGrounded(d)'
    BY <2>0, <2>1, <2>2, <2>4 DEF InWrite, Locked, WritesGrounded, ClaimGrounded, OwnReservation
  <2>5. ASSUME NEW d \in Clients, InWrite(d, {"mint"})'
        PROVE  MintGrounded(d)'
    <3>1. d # c /\ InWrite(d, {"mint"}) /\ op'[d] = op[d] /\ MintGrounded(d)
      BY <2>1, <2>5 DEF InWrite, WritesGrounded
    <3>2. op[d].token # op[c].token
      <4>1. CASE op[c].name = "mint"
        BY <2>0, <3>1, <4>1 DEF MintGrounded, InWrite
      <4>2. CASE op[c].name # "mint"
        BY <1>2, <3>1, <4>2, ApplyGrounded DEF SettleGrounded, ClaimGrounded, MintGrounded, TypeOK
      <4>. QED
        BY <4>1, <4>2
    <3>. QED
      BY <2>0, <2>1, <3>1, <3>2 DEF MintGrounded, InWrite
  <2>. QED
    BY <2>3, <2>4, <2>5 DEF WritesGrounded
<1>3. ASSUME NEW c \in Clients, NEW r \in Records, NEW f \in Nat, NEW ttl \in Nat \ {0},
             ReadDecides(c, r, f, ttl), op[c].phase = "read", UNCHANGED <<now, backend, restarts>>
      PROVE  WritesGrounded'
  <2>1. \A d \in Clients \ {c} : op'[d] = op[d]
    BY <1>3 DEF ReadDecides, WriteBack, TypeOK
  <2>2. op'[c] = [phase |-> "write", name |-> op[c].name, token |-> op[c].token,
                  record |-> r, fence |-> f, ttl |-> ttl, since |-> now]
    BY <1>3 DEF ReadDecides, WriteBack, TypeOK
  <2>3. op[c].name \in Locked
    BY <1>3, OpShape DEF Entered, Locked
  <2>4. op[c].token \in DOMAIN kv /\ op[c].name # "mint"
    BY <1>3, <2>3 DEF ReadDecides, Present, Locked, Settles
  <2>5. InWrite(c, Settles)' => SettleGrounded(c)'
    BY <1>3, <2>2, <2>4 DEF ReadDecides, InWrite, SettleGrounded, OwnReservation, Value, backend
  <2>6. InWrite(c, {"claim"})' => ClaimGrounded(c)'
    <3> SUFFICES ASSUME op[c].name = "claim" PROVE ClaimGrounded(c)'
      BY <2>2 DEF InWrite
    <3>1. /\ f = lastFence + 1 /\ OwnReservation(r, f)
          /\ \/ kv[op[c].token].value.status = "available"
             \/ /\ kv[op[c].token].value.status = "in_flight"
                /\ ~(now < kv[op[c].token].value.lease)
      BY <1>3 DEF ReadDecides, Value, LeaseLive
    <3>. QED
      BY <1>0, <1>3, <2>2, <2>4, <3>1 DEF ClaimGrounded, OwnReservation, backend
  <2>7. ASSUME NEW d \in Clients, d # c
        PROVE  /\ InWrite(d, Settles)' => SettleGrounded(d)'
               /\ InWrite(d, {"claim"})' => ClaimGrounded(d)'
               /\ InWrite(d, {"mint"})' => MintGrounded(d)'
    BY <1>3, <2>1, <2>2, <2>4, <2>7
       DEF WritesGrounded, InWrite, SettleGrounded, ClaimGrounded, MintGrounded, OwnReservation, backend
  <2>8. ~InWrite(c, {"mint"})'
    BY <2>2, <2>4 DEF InWrite
  <2>. QED
    BY <2>5, <2>6, <2>7, <2>8 DEF WritesGrounded
<1>4. ASSUME NEW c \in Clients, NEW t \in Tokens, NEW k \in Kinds, NEW ttl \in TTLs, Mint(c, t, k, ttl)
      PROVE  WritesGrounded'
  <2>1. \A d \in Clients \ {c} : op'[d] = op[d]
    BY <1>4 DEF Mint, TypeOK
  <2>2. CASE ~Mintable(k, ttl)
    BY <1>0, <1>1, <1>4, <2>2 DEF Mint, TypeOK
  <2>3. CASE Mintable(k, ttl)
    <3>1. op'[c] = [phase |-> "write", name |-> "mint", token |-> t, record |-> FreshRecord(k),
                    fence |-> NoFence, ttl |-> ttl, since |-> now]
      BY <1>4, <2>3 DEF Mint, TypeOK
    <3>. QED
      BY <1>4, <2>1, <3>1
         DEF Mint, FreshRecord, WritesGrounded, InWrite, SettleGrounded, ClaimGrounded, MintGrounded,
             OwnReservation, backend, Settles
  <2>. QED
    BY <2>2, <2>3
<1>5. CASE Restart
  BY <1>5 DEF Restart, WritesGrounded, InWrite, Idle
<1>6. CASE UNCHANGED <<op, backend>> /\ now' \in Nat /\ now' >= now
  BY <1>0, <1>6 DEF WritesGrounded, InWrite, SettleGrounded, ClaimGrounded, MintGrounded,
                    OwnReservation, backend
<1>7. ASSUME NEW c \in Clients, Read(c)
      PROVE  WritesGrounded'
  <2>1. ASSUME NEW outcome, Answer(c, outcome), UNCHANGED <<now, backend>>
        PROVE  WritesGrounded'
    BY <1>0, <1>1, <2>1 DEF Answer, End, TypeOK
  <2>. QED
    BY <1>3, <1>7, <2>1, ReadCases DEF ReadOutcome
<1>8. ASSUME NEW c \in Clients, NEW t \in Tokens, NEW k \in Kinds, StartClaim(c, t, k)
      PROVE  WritesGrounded'
  BY <1>0, <1>1, <1>8 DEF StartClaim, TypeOK
<1>9. ASSUME NEW c \in Clients, NEW name \in Settles, StartSettle(c, name)
      PROVE  WritesGrounded'
  BY <1>0, <1>1, <1>9 DEF StartSettle, TypeOK
<1>10. ASSUME NEW c \in Clients, Acquire(c)
       PROVE  WritesGrounded'
  <2>1. op[c] \in Entered
    BY <1>10, OpShape DEF Acquire
  <2>2. op'[c].phase = "read" /\ \A d \in Clients \ {c} : op'[d] = op[d]
    BY <1>10, <2>1 DEF Acquire, TypeOK, Entered
  <2>. QED
    BY <1>0, <1>1, <1>10, <2>2 DEF Acquire
<1>11. ASSUME NEW c \in Clients, Collect(c)
       PROVE  WritesGrounded'
  BY <1>0, <1>1, <1>11 DEF Collect, TypeOK, Idle
<1>12. ASSUME NEW c \in Clients, NEW why \in Faults, Raise(c, why)
       PROVE  WritesGrounded'
  BY <1>0, <1>1, <1>12 DEF Raise, Answer, End, TypeOK
<1>. QED
  BY <1>0, <1>2, <1>4, <1>5, <1>6, <1>7, <1>8, <1>9, <1>10, <1>11, <1>12
     DEF Next, Write, WriteUnanswered, Answer, Tick, Rest, vars, backend

(* The store's inductive invariant: types, exclusion of calls between      *)
(* kv.ttl and kv.put, fresh fences, claims backed by records and writes    *)
(* grounded in what was read hold in every reachable state.                *)
THEOREM Inductive == Spec => []IInv
<1>1. Init => IInv
  BY DEF Init, IInv, TypeOK, EmptyStore, Ops, Idle, NoFence, ReadModifyWriteExclusive,
         InCritical, InWrite, FencesFresh, ClaimsBacked, SettlesOwnClaim, WritesGrounded
<1>2. IInv /\ [Next]_vars => IInv'
  BY TypeStep, ExclusiveStep, FencesStep, BackedStep, OwnClaimStep, GroundedStep DEF IInv
<1>. QED
  BY <1>1, <1>2, PTL DEF Spec

(* Two handlers are never both within the lease they were granted on one   *)
(* token: whatever the interleaving, the faults and the restarts, claim is *)
(* mutual exclusion for the duration of a lease.                           *)
THEOREM OneLiveHolder == Spec => []AtMostOneLiveHolder
<1>1. IInv => AtMostOneLiveHolder
  <2> SUFFICES ASSUME IInv, NEW m \in claims, NEW n \in claims,
                      m.token = n.token, now < m.lease, now < n.lease
               PROVE  m = n
    BY DEF AtMostOneLiveHolder
  <2>1. now \in Nat /\ m.lease \in Nat /\ n.lease \in Nat
    BY DEF IInv, TypeOK, Claims
  <2>2. Backed(m) /\ Backed(n)
    BY <2>1 DEF IInv, ClaimsBacked
  <2>. QED
    BY <2>2 DEF Backed, OwnReservation, IInv, FencesFresh
<1>. QED
  BY <1>1, Inductive, PTL

(* A superseded holder's late release, complete or burn changes nothing:   *)
(* a reservation in flight is changed under its own fence, or taken over   *)
(* by a claim after its lease.                                             *)
THEOREM SupersededHarmless == Spec => SupersededHolderIsHarmless
<1>1. ASSUME IInv, [Next]_vars, NEW t \in DOMAIN kv, t \in DOMAIN kv',
             kv[t].value.status = "in_flight", kv'[t].value # kv[t].value
      PROVE  \/ kv'[t].value.status = "in_flight" /\ ~LeaseLive(kv[t].value)
             \/ \E c \in Clients : /\ InWrite(c, Settles) /\ op[c].token = t
                                   /\ op[c].fence = kv[t].value.fence
  <2> USE <1>1 DEF IInv
  <2>1. PICK c \in Clients : Apply(c)
    BY WriteOrNot DEF Restart, backend, EmptyStore
  <2>2. op[c].token = t /\ kv'[t].value = op[c].record /\ op[c].phase = "write"
    BY <2>1, ApplyGrounded DEF Apply
  <2>3. CASE op[c].name \in Settles
    BY <2>1, <2>2, <2>3, ApplyGrounded DEF SettleGrounded, OwnReservation, InWrite
  <2>4. CASE op[c].name = "claim"
    <3>1. kv[t].value.lease \in Nat /\ now \in Nat /\ kv[t].value.lease <= now
      BY <2>1, <2>2, <2>4, ApplyGrounded DEF ClaimGrounded, TypeOK, Records
    <3>. QED
      BY <2>1, <2>2, <2>4, <3>1, ApplyGrounded DEF ClaimGrounded, OwnReservation, LeaseLive
  <2>5. op[c].name # "mint"
    BY <2>1, <2>2, ApplyGrounded DEF MintGrounded, TypeOK
  <2>. QED
    BY <2>1, <2>3, <2>4, <2>5, ApplyGrounded
<1>2. IInv /\ [Next]_vars =>
        [\A t \in DOMAIN kv \cap DOMAIN kv' :
            LET r == kv[t].value IN
            r.status = "in_flight" /\ kv'[t].value # r =>
              \/ kv'[t].value.status = "in_flight" /\ ~LeaseLive(r)
              \/ \E c \in Clients : InWrite(c, Settles) /\ op[c].token = t /\ op[c].fence = r.fence
        ]_vars
  BY <1>1
<1>. QED
  BY <1>2, Inductive, PTL DEF Spec, SupersededHolderIsHarmless

------------------------------------------------------------------------------
(* The refinement. *)

(* A record that is not in flight carries no fence. *)
FencesOnlyInFlight ==
    \A t \in DOMAIN kv : kv[t].value.status # "in_flight" => kv[t].value.fence = NoFence

(* Every step keeps a fence only on records in flight.                     *)
LEMMA FencesInFlightStep == IInv /\ FencesOnlyInFlight /\ [Next]_vars => FencesOnlyInFlight'
<1> SUFFICES ASSUME IInv, FencesOnlyInFlight, [Next]_vars PROVE FencesOnlyInFlight'
  OBVIOUS
<1> USE DEF IInv, FencesOnlyInFlight
<1>1. ASSUME NEW c \in Clients, Apply(c)
      PROVE  FencesOnlyInFlight'
  <2>1. DOMAIN kv' = DOMAIN kv \cup {op[c].token}
    BY <1>1, ApplyType
  <2>2. op[c].record.status # "in_flight" => op[c].record.fence = NoFence
    BY <1>1, ApplyGrounded DEF SettleGrounded, ClaimGrounded, MintGrounded, OwnReservation
  <2>. QED
    BY <1>1, <2>1, <2>2, ApplyGrounded
<1>2. CASE UNCHANGED backend
  BY <1>2 DEF backend
<1>3. CASE Restart
  BY <1>3 DEF Restart, EmptyStore
<1>. QED
  BY <1>1, <1>2, <1>3, WriteOrNot

(* A put is the abstract operation it writes for. *)
LEMMA WriteRefines ==
    ASSUME IInv, FencesOnlyInFlight, NEW c \in Clients, NEW outcome, Apply(c), End(c, outcome)
    PROVE  Abstract!Next
<1> USE DEF IInv
<1> SUFFICES ASSUME NEW t, t = op[c].token PROVE Abstract!Next
  OBVIOUS
<1> DEFINE statusBar == [x \in Tokens |-> TokenStatus(x)]
           holderBar == [x \in Tokens |-> TokenHolder(x)]
<1>1. /\ t \in Tokens /\ minted' = minted \cup {t} /\ now' = now
      /\ op[c].phase = "write" /\ op[c].record \in Records
  BY ApplyGrounded DEF Apply, Writing
<1>2. op'[c].phase = "done" /\ \A d \in Clients \ {c} : op'[d] = op[d]
  BY DEF End, TypeOK
<1>3. DOMAIN kv' = DOMAIN kv \cup {t}
  BY ApplyType
(* Every other token is where it was. *)
<1>4. \A x \in Tokens \ {t} : TokenStatus(x)' = TokenStatus(x) /\ TokenHolder(x)' = TokenHolder(x)
  <2> SUFFICES ASSUME NEW x \in Tokens \ {t}
               PROVE  TokenStatus(x)' = TokenStatus(x) /\ TokenHolder(x)' = TokenHolder(x)
    OBVIOUS
  <2>1. x \in DOMAIN kv' <=> x \in DOMAIN kv
    BY <1>3
  <2>2. x \in DOMAIN kv => kv'[x] = kv[x]
    BY ApplyGrounded
  <2>3. Alive(x)' <=> Alive(x)
    BY <1>1, <1>2, <2>1, <2>2 DEF Alive, Present, InWrite
  <2>4. x \in minted' <=> x \in minted
    BY <1>1
  <2>5. Alive(x) => x \in DOMAIN kv
    BY DEF Alive, Present
  <2>. QED
    BY <2>2, <2>3, <2>4, <2>5 DEF TokenStatus, TokenHolder
(* The token written is alive with the record written. *)
<1>5. Alive(t)'
  <2>1. kv'[t].expires = now + op[c].ttl /\ t \in DOMAIN kv'
    BY <1>3 DEF Apply, Put
  <2>2. op[c].ttl \in Nat \ {0} /\ now \in Nat
    BY ApplyGrounded DEF Writing, TypeOK
  <2>. QED
    BY <1>1, <2>1, <2>2 DEF Alive, Present
<1>6. TokenStatus(t)' = op[c].record.status /\ TokenHolder(t)' = op[c].record.fence
  BY <1>1, <1>5, ApplyGrounded DEF TokenStatus, TokenHolder
<1>7. /\ statusBar' = [statusBar EXCEPT ![t] = op[c].record.status]
      /\ holderBar' = [holderBar EXCEPT ![t] = op[c].record.fence]
  BY <1>1, <1>4, <1>6
<1>8. CASE op[c].name = "mint"
  <2>1. MintGrounded(c) /\ lastFence' = lastFence
    BY <1>8, ApplyGrounded
  <2>2. statusBar[t] = "unminted" /\ holderBar[t] = NoFence
    BY <1>1, <2>1 DEF MintGrounded, TokenStatus, TokenHolder
  <2>3. statusBar' = [statusBar EXCEPT ![t] = "available"] /\ holderBar' = holderBar
    BY <1>7, <2>1, <2>2 DEF MintGrounded
  <2>4. Abstract!Mint(t)
    BY <1>1, <2>1, <2>2, <2>3 DEF Abstract!Mint
  <2>. QED
    BY <1>1, <2>4 DEF Abstract!Next
<1>9. CASE op[c].name \in Locked
  <2>1. t \in DOMAIN kv /\ Alive(t) /\ t \in minted
    <3>1. t \in DOMAIN kv
      BY <1>9, ApplyGrounded DEF SettleGrounded, ClaimGrounded, Locked
    <3>. QED
      BY <1>1, <1>9, <3>1 DEF Alive, InWrite, TypeOK
  <2>2. statusBar[t] = kv[t].value.status
    BY <1>1, <2>1 DEF TokenStatus
  <2>3. CASE op[c].name = "claim"
    <3>1. ClaimGrounded(c) /\ lastFence' = lastFence + 1
      BY <2>3, ApplyGrounded
    <3>2. /\ op[c].record.status = "in_flight" /\ op[c].record.fence = lastFence'
          /\ statusBar[t] \in {"available", "in_flight"}
      BY <2>2, <3>1 DEF ClaimGrounded, OwnReservation
    <3>3. Abstract!Claim(t)
      BY <1>1, <1>7, <3>1, <3>2 DEF Abstract!Claim
    <3>. QED
      BY <1>1, <3>3 DEF Abstract!Next
  <2>4. CASE op[c].name \in Settles
    <3>1. SettleGrounded(c) /\ lastFence' = lastFence
      BY <2>4, ApplyGrounded
    <3>2. /\ op[c].record.status \in {"available", "consumed"} /\ op[c].record.fence = NoFence
          /\ statusBar[t] = "in_flight"
      BY <1>1, <2>2, <3>1 DEF SettleGrounded, OwnReservation, Records, Statuses
    <3>3. Abstract!Settle(t)
      BY <1>1, <1>7, <3>1, <3>2 DEF Abstract!Settle, NoFence, Abstract!NoFence
    <3>. QED
      BY <1>1, <3>3 DEF Abstract!Next
  <2>. QED
    BY <1>9, <2>3, <2>4 DEF Locked
<1>. QED
  BY <1>8, <1>9, ApplyGrounded DEF Locked

(* Whatever else happens, tokens only come to their end.                   *)
LEMMA OtherwiseExpires ==
    ASSUME IInv, minted' = minted, lastFence' = lastFence,
           \A t \in Tokens : Alive(t)' => Alive(t) /\ kv'[t].value = kv[t].value
    PROVE  Abstract!Next
<1> DEFINE T == {t \in Tokens : t \in minted /\ Alive(t) /\ ~Alive(t)'}
<1>1. \A t \in Tokens : Alive(t) => t \in DOMAIN kv
  BY DEF Alive, Present
<1>2. \A t \in T : TokenStatus(t) \in {"available", "in_flight", "consumed"}
  BY <1>1 DEF TokenStatus, IInv, TypeOK, Records, Statuses
<1>3. \A t \in Tokens : /\ TokenStatus(t)' = IF t \in T THEN "gone" ELSE TokenStatus(t)
                        /\ TokenHolder(t)' = IF t \in T THEN NoFence ELSE TokenHolder(t)
  BY DEF TokenStatus, TokenHolder
<1>4. Abstract!Expire
  BY <1>2, <1>3, Zenon DEF Abstract!Expire, NoFence, Abstract!NoFence
<1>. QED
  BY <1>4 DEF Abstract!Next

(* Every step of the store is a step of the abstract tokens or a stutter.  *)
LEMMA StepRefines ==
    ASSUME IInv, FencesOnlyInFlight, [Next]_vars
    PROVE  Abstract!Next
<1> USE DEF IInv
<1>1. ASSUME NEW c \in Clients, NEW outcome, Apply(c), End(c, outcome)
      PROVE  Abstract!Next
  BY <1>1, WriteRefines
(* A locked write is entered only by a read that found its record present. *)
<1>2. ASSUME UNCHANGED backend, now' \in Nat, now' >= now,
             \A d \in Clients : InWrite(d, Locked)' =>
                \/ InWrite(d, Locked) /\ op'[d].token = op[d].token
                \/ Present(kv, op'[d].token, now)
      PROVE  Abstract!Next
  <2>1. now \in Nat /\ \A t \in DOMAIN kv : kv[t].expires \in Nat
    BY DEF TypeOK
  <2>2. \A t \in Tokens : Present(kv, t, now)' => Present(kv, t, now)
    BY <1>2, <2>1 DEF Present, backend
  <2>3. \A t \in Tokens : Alive(t)' => Alive(t)
    BY <1>2, <2>2 DEF Alive, backend
  <2>. QED
    BY <1>2, <2>3, OtherwiseExpires DEF backend
<1>3. CASE Restart
  <2>1. \A t \in Tokens : Alive(t)' => kv' = kv /\ Present(kv, t, now)
    BY <1>3 DEF Restart, Alive, InWrite, Idle, EmptyStore, Present
  <2>. QED
    BY <1>3, <2>1, OtherwiseExpires DEF Restart, Alive
<1>4. ASSUME NEW c \in Clients, UNCHANGED backend, now' = now,
             \A d \in Clients \ {c} : op'[d] = op[d],
             ~InWrite(c, Locked)' \/ Present(kv, op'[c].token, now)
      PROVE  Abstract!Next
  BY <1>2, <1>4 DEF InWrite, TypeOK
<1>5. ASSUME NEW c \in Clients, Read(c)
      PROVE  Abstract!Next
  <2>1. ASSUME NEW outcome, Answer(c, outcome), UNCHANGED <<now, backend>>
        PROVE  Abstract!Next
    BY <1>4, <2>1 DEF Answer, End, TypeOK, InWrite
  <2>2. ASSUME NEW r, NEW f, NEW ttl, ReadDecides(c, r, f, ttl), UNCHANGED <<now, backend>>
        PROVE  Abstract!Next
    BY <1>4, <2>2 DEF ReadDecides, WriteBack, TypeOK
  <2>. QED
    BY <1>5, <2>1, <2>2, ReadCases DEF ReadOutcome
<1>6. ASSUME NEW c \in Clients, NEW t \in Tokens, NEW k \in Kinds,
             StartClaim(c, t, k) \/ \E ttl \in TTLs : Mint(c, t, k, ttl)
      PROVE  Abstract!Next
  BY <1>4, <1>6 DEF StartClaim, Mint, TypeOK, InWrite, Locked, Settles
<1>7. ASSUME NEW c \in Clients, NEW name \in Settles, StartSettle(c, name)
      PROVE  Abstract!Next
  BY <1>4, <1>7 DEF StartSettle, TypeOK, InWrite
<1>8. ASSUME NEW c \in Clients, Acquire(c)
      PROVE  Abstract!Next
  <2>1. op[c] \in Entered
    BY <1>8, OpShape DEF Acquire
  <2>2. op'[c].phase = "read" /\ \A d \in Clients \ {c} : op'[d] = op[d]
    BY <1>8, <2>1 DEF Acquire, TypeOK, Entered
  <2>. QED
    BY <1>4, <1>8, <2>2 DEF Acquire, InWrite
<1>9. ASSUME NEW c \in Clients, Collect(c)
      PROVE  Abstract!Next
  BY <1>4, <1>9 DEF Collect, TypeOK, InWrite, Idle
<1>10. ASSUME NEW c \in Clients, NEW why \in Faults, Raise(c, why)
       PROVE  Abstract!Next
  BY <1>4, <1>10 DEF Raise, Answer, End, TypeOK, InWrite
<1>11. CASE Tick \/ Rest \/ UNCHANGED vars
  BY <1>2, <1>11 DEF Tick, Rest, vars, backend, InWrite, TypeOK
<1>. QED
  BY <1>1, <1>3, <1>5, <1>6, <1>7, <1>8, <1>9, <1>10, <1>11
     DEF Next, Write, WriteUnanswered, Answer

(* The store implements the abstract token life cycle: read-modify-writes  *)
(* in two steps, faults, cancellation, expiry and restarts included, each  *)
(* operation takes effect as one atomic step at its put, fences are fresh, *)
(* and a consumed or expired token never comes back.                       *)
THEOREM Refinement == Spec => ImplementsTransferTokens
<1>1. Init => FencesOnlyInFlight /\ Abstract!Init
  BY DEF Init, FencesOnlyInFlight, EmptyStore, Abstract!Init, TokenStatus, TokenHolder,
         NoFence, Abstract!NoFence
<1>2. IInv /\ FencesOnlyInFlight /\ [Next]_vars => FencesOnlyInFlight' /\ [Abstract!Next]_(Abstract!vars)
  BY FencesInFlightStep, StepRefines
<1>. QED
  BY <1>1, <1>2, Inductive, PTL DEF Spec, ImplementsTransferTokens, Abstract!Spec
==============================================================================
