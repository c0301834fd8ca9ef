---------------------------- MODULE TransferRoutes ----------------------------
(***************************************************************************)
(* The /transfer/{token} handler of _transfer/routes.py and the link       *)
(* minter of _transfer/register.py, composed with the token store: a       *)
(* client of the store is here one HTTP request (or one mint).  A handler  *)
(* claims the token, for an upload reads the body under the size cap,      *)
(* calls the sink, and completes the claim on success or releases it on    *)
(* failure.  Every await in it may fail or be cancelled by a disconnect.   *)
(***************************************************************************)
EXTENDS TransferStore

CONSTANTS TTLDefault,     \* TransferConfig.ttl_default_s
          TTLMax,         \* TransferConfig.ttl_max_s
          AskedTTLs,      \* lifetimes a caller may ask for
          SinkFaults      \* ways the sink or the body stream may raise

ASSUME RoutesAssumption == /\ Kinds = {"download", "upload"}
                           /\ TTLDefault \in Nat \ {0} /\ TTLMax \in Nat \ {0}
                           /\ TTLDefault <= TTLMax /\ AskedTTLs \subseteq Int
                           /\ SinkFaults \subseteq {"error", "cancelled"}

VARIABLE req              \* client -> the request it is handling

rvars == <<vars, req>>

(* TransferLinks._clamp_ttl bounds a lifetime from above only.             *)
ClampTTL(ttl) == IF ttl < TTLMax THEN ttl ELSE TTLMax

(* The lifetimes the store is asked for: the default when a caller names   *)
(* none, else what it names after clamping, which mint may yet refuse.     *)
LinkTTLs == {TTLDefault} \cup {ClampTTL(ttl) : ttl \in AskedTTLs}

ASSUME MintAssumption == LinkTTLs \subseteq TTLs

Stages  == {"claim", "body", "sink", "release", "complete", "answered"}
Replies == {"none", "200", "404", "409", "413", "sink_status", "500", "cancelled"}

(* delivered: the sink has done its part.                                  *)
NoRequest == [at |-> "none"]
Requests  == [at : Stages, method : Kinds, token : Tokens, reply : Replies,
              delivered : BOOLEAN]

RoutesTypeOK == /\ TypeOK
                /\ req \in [Clients -> {NoRequest, [at |-> "mint"]} \cup Requests]

RInit == Init /\ req = [c \in Clients |-> NoRequest]

At(c, stage) == req[c].at = stage

(* The handler moves on to a stage, and settles on a reply once it knows.  *)
Goto(c, stage, reply) ==
    req' = [req EXCEPT ![c].at = stage, ![c].reply = reply]

------------------------------------------------------------------------------
(* Minting links: create_*_link and TransferLinks._mint. *)

MintLink(c, t, k, ttl) ==
    /\ At(c, "none")
    /\ Mint(c, t, k, ttl)
    /\ req' = [req EXCEPT ![c] = [at |-> "mint"]]

LinkMinted(c) == /\ At(c, "mint")
                 /\ Collect(c)
                 /\ req' = [req EXCEPT ![c] = NoRequest]

------------------------------------------------------------------------------
(* The handler. *)

Receive(c, t, m) ==
    /\ At(c, "none")
    /\ StartClaim(c, t, m)
    /\ req' = [req EXCEPT ![c] = [at |-> "claim", method |-> m, token |-> t, reply |-> "none",
                                  delivered |-> FALSE]]

(* _claim_error_status: a live reservation is a conflict, everything else  *)
(* the store refuses reads as no such link.                                *)
ClaimErrorStatus(outcome) == IF outcome = "token_in_flight" THEN "409" ELSE "404"

(* Mutant of Propagated: the exception itself is the reply.                *)
PropagatedBare(why) == why

(* An exception leaves the handler as a 500, a cancellation as no reply.   *)
Propagated(why) == IF why = "cancelled" THEN "cancelled" ELSE "500"

(* Mutant of Claimed: a reservation of another request is not a refusal.   *)
ClaimedRegardless(c) ==
    /\ At(c, "claim")
    /\ Collect(c)
    /\ Goto(c, IF req[c].method = "upload" THEN "body" ELSE "sink", "none")

Claimed(c) ==
    /\ At(c, "claim")
    /\ Collect(c)
    /\ LET outcome == op[c].outcome IN
       \/ /\ outcome = "ok"
          /\ Goto(c, IF req[c].method = "upload" THEN "body" ELSE "sink", "none")
       \/ outcome \in Errors /\ Goto(c, "answered", ClaimErrorStatus(outcome))
       \/ outcome \in FaultNames /\ Goto(c, "answered", Propagated(outcome))

(* Mutant of ReleaseFor: a failed transfer settles like a good one.        *)
CompleteFor(c, reply) == StartSettle(c, "complete") /\ Goto(c, "release", reply)

(* _release_quietly on the way to a reply. *)
ReleaseFor(c, reply) == StartSettle(c, "release") /\ Goto(c, "release", reply)

(* _read_capped: the whole body, too much of it, or a broken stream.       *)
BodyRead(c) == /\ At(c, "body")
               /\ Goto(c, "sink", "none")
               /\ UNCHANGED vars

BodyTooLarge(c) == At(c, "body") /\ ReleaseFor(c, "413")

BodyFails(c, why) == At(c, "body") /\ ReleaseFor(c, Propagated(why))

(* sink.read or sink.write has done its work. *)
SinkDelivers(c) ==
    /\ At(c, "sink")
    /\ StartSettle(c, "complete")
    /\ req' = [req EXCEPT ![c].at = "complete", ![c].delivered = TRUE]

(* TransferSinkError: the sink's own status, and the link is released.     *)
SinkSignals(c) == At(c, "sink") /\ ReleaseFor(c, "sink_status")

(* Mutant of SinkFails: a cancelled handler does not release, as with      *)
(* `except Exception`.                                                     *)
SinkFailsUnreleased(c, why) ==
    /\ At(c, "sink")
    /\ \/ why # "cancelled" /\ ReleaseFor(c, Propagated(why))
       \/ why = "cancelled" /\ Goto(c, "answered", "cancelled") /\ UNCHANGED vars

SinkFails(c, why) == At(c, "sink") /\ ReleaseFor(c, Propagated(why))

(* A failing release is swallowed, a cancelled one is not. *)
Released(c) ==
    /\ At(c, "release")
    /\ Collect(c)
    /\ Goto(c, "answered", IF op[c].outcome = "cancelled" THEN "cancelled" ELSE req[c].reply)

(* Nothing catches what complete raises. *)
Completed(c) ==
    /\ At(c, "complete")
    /\ Collect(c)
    /\ Goto(c, "answered", CASE op[c].outcome = "ok" -> "200"
                             [] op[c].outcome = "cancelled" -> "cancelled"
                             [] OTHER -> "500")

Leave(c) == /\ At(c, "answered")
            /\ req' = [req EXCEPT ![c] = NoRequest]
            /\ UNCHANGED vars

(* What the store and the world do meanwhile. *)
StoreStep(c) == \/ Acquire(c) \/ Read(c) \/ Write(c)
                \/ \E why \in Faults : Raise(c, why) \/ WriteUnanswered(c, why)

RRestart == Restart /\ req' = [c \in Clients |-> NoRequest]

RRest == (\A c \in Clients : At(c, "none")) /\ UNCHANGED rvars

SinkStep(c) == \/ BodyRead(c) \/ BodyTooLarge(c) \/ SinkDelivers(c) \/ SinkSignals(c)
               \/ \E why \in SinkFaults : BodyFails(c, why) \/ SinkFails(c, why)

HandlerStep(c) == LinkMinted(c) \/ Claimed(c) \/ Released(c) \/ Completed(c) \/ Leave(c)

RNext ==
    \/ \E c \in Clients :
          \/ \E t \in Tokens, k \in Kinds, ttl \in LinkTTLs : MintLink(c, t, k, ttl)
          \/ \E t \in Tokens, m \in Kinds : Receive(c, t, m)
          \/ StoreStep(c) /\ UNCHANGED req
          \/ SinkStep(c)
          \/ HandlerStep(c)
    \/ Tick /\ UNCHANGED req
    \/ RRestart
    \/ RRest

RSpec == RInit /\ [][RNext]_rvars

(* The event loop runs every ready task, the backend answers or fails      *)
(* every call, and asyncio.Lock wakes its waiters first come first served, *)
(* so none of them is passed over for ever.  The sink and the client's     *)
(* body stream come to an end: the handler puts no timeout on either.      *)
RFairSpec == RSpec /\ \A c \in Clients :
    /\ WF_rvars((Read(c) \/ Write(c)) /\ UNCHANGED req)
    /\ SF_rvars(Acquire(c) /\ UNCHANGED req)
    /\ WF_rvars(SinkStep(c))
    /\ WF_rvars(HandlerStep(c))

------------------------------------------------------------------------------
(* Properties. *)

(* Released on any failure, settled on success: while the store itself     *)
(* does not fail and the process lives, a reservation in flight belongs to *)
(* a handler that is still at work on it.  No exit of a handler (a refused *)
(* or broken body, a sink that signals, raises or is cancelled) leaves the *)
(* link locked behind it.                                                  *)
NoReservationLeftBehind ==
    \A t \in LiveKeys(kv, now) : kv[t].value.status = "in_flight" =>
       \E m \in claims : /\ m.token = t /\ m.fence = kv[t].value.fence
                         /\ req[m.client].at \in Stages \ {"answered"}

(* Two handlers are inside the sink for one link only after the first      *)
(* one's lease is over: until then the second is told 409.                 *)
SinkSharedOnlyAfterLapse ==
    \A c, d \in Clients :
       c # d /\ At(c, "sink") /\ At(d, "sink") /\ req[c].token = req[d].token =>
          \E m \in claims : m.client \in {c, d} /\ now >= m.lease

(* A transient failure must not spend the link: its lifetime is cut short  *)
(* only on behalf of a request whose sink delivered.                       *)
FailureKeepsTheLink ==
    [][\A t \in DOMAIN kv \cap DOMAIN kv' :
          kv'[t].expires < kv[t].expires =>
             \E c \in Clients : At(c, "complete") /\ req[c].delivered /\ req[c].token = t]_rvars

(* Every request is answered, whatever fails on the way: the lock is never *)
(* lost to a call that was cancelled, failed or answered early.            *)
RequestsAnswered == \A c \in Clients : At(c, "claim") ~> (At(c, "answered") \/ At(c, "none"))
==============================================================================
