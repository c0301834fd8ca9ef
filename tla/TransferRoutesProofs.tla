------------------------- MODULE TransferRoutesProofs -------------------------
(***************************************************************************)
(* Theorems about the HTTP handler over the token store, for any number of *)
(* requests and links, and about the lifetimes of links.                   *)
(*                                                                         *)
(* The argument: every step of a handler is a step of the store or none    *)
(* (RoutesSteps), so the store's invariant holds here too.  Where a        *)
(* handler stands then tells which call it has under way and whether it    *)
(* holds a claim (Handling), and what a call is about to write gives the   *)
(* record neither more nor less time than it had (LifetimesKept).          *)
(***************************************************************************)
EXTENDS TransferRoutes, TransferStoreProofs

USE RoutesAssumption

Outcomes == {"ok"} \cup Errors \cup FaultNames

(* The handler c is in a call of the store, or may collect its outcome.    *)
InStore(c, name) == /\ op[c].phase \in {"wait", "read", "write", "done"} /\ op[c].name = name
                    /\ op[c].phase # "done" => op[c].token = req[c].token
                    /\ op[c].phase = "done" => op[c].outcome \in Outcomes

Holds(c) == \E m \in claims : m.client = c

Shape(c) == req[c] \in {NoRequest, [at |-> "mint"]} \cup Requests

(* Where a handler stands, and what it has under way and in hand.          *)
Handling(c) ==
    /\ Shape(c)
    /\ \A m \in claims : m.client = c => /\ req[c].at \in Stages \ {"answered"}
                                         /\ m.token = req[c].token
    /\ \A m, n \in claims : m.client = c /\ n.client = c => m = n
    /\ req[c].at \in {"none", "body", "sink", "answered"} => op[c] = Idle
    /\ req[c].at = "mint" => op[c].phase \in {"write", "done"} /\ op[c].name = "mint"
    /\ req[c].at = "claim" => /\ InStore(c, "claim")
                              /\ Holds(c) <=> op[c].phase = "done" /\ op[c].outcome = "ok"
    /\ req[c].at \in {"body", "sink"} => Holds(c)
    /\ req[c].at \in {"release", "complete"} => /\ InStore(c, req[c].at)
                                                /\ op[c].phase = "done" => ~Holds(c)
    /\ req[c].at = "complete" => req[c].delivered

HInv == req = [c \in Clients |-> req[c]] /\ \A c \in Clients : Handling(c)

------------------------------------------------------------------------------
(* The handler as a client of the store. *)

(* Every step of handlers and minters is a step of the store, or none.     *)
LEMMA RoutesSteps == [RNext]_rvars => [Next]_vars
<1>. SUFFICES ASSUME [RNext]_rvars PROVE [Next]_vars
  OBVIOUS
<1>1. ASSUME NEW c \in Clients, NEW t \in Tokens, NEW k \in Kinds, NEW ttl \in LinkTTLs,
             MintLink(c, t, k, ttl)
      PROVE  Next
  BY <1>1, MintAssumption DEF MintLink, Next
<1>2. ASSUME NEW c \in Clients, NEW t \in Tokens, NEW m \in Kinds, Receive(c, t, m)
      PROVE  Next
  BY <1>2 DEF Receive, Next
<1>3. ASSUME NEW c \in Clients, StoreStep(c)
      PROVE  Next
  BY <1>3 DEF StoreStep, Next
<1>4. ASSUME NEW c \in Clients, SinkStep(c)
      PROVE  Next \/ UNCHANGED vars
  BY <1>4 DEF SinkStep, BodyRead, BodyTooLarge, SinkDelivers, SinkSignals, BodyFails, SinkFails,
              ReleaseFor, Settles, Next
<1>5. ASSUME NEW c \in Clients, HandlerStep(c)
      PROVE  Next \/ UNCHANGED vars
  BY <1>5 DEF HandlerStep, LinkMinted, Claimed, Released, Completed, Leave, Next
<1>6. Tick \/ RRestart \/ RRest \/ UNCHANGED rvars => Next \/ UNCHANGED vars
  BY DEF RRestart, RRest, rvars, Next
<1>. QED
  BY <1>1, <1>2, <1>3, <1>4, <1>5, <1>6 DEF RNext

(* The handlers are clients of the store. *)
LEMMA RoutesUseStore == RSpec => Spec
<1>1. RInit => Init
  BY DEF RInit
<1>. QED
  BY <1>1, RoutesSteps, PTL DEF RSpec, Spec

------------------------------------------------------------------------------
(* What a call of the store does for its handler, and to others. *)

(* Nothing of another handler's. *)
Apart(c) == \A d \in Clients \ {c} : /\ op'[d] = op[d]
                                     /\ \A m : m.client = d => (m \in claims' <=> m \in claims)

GoesOn(c) == /\ op[c].phase \in {"wait", "read"} /\ op'[c].phase \in {"read", "write"}
             /\ op'[c].name = op[c].name /\ op'[c].token = op[c].token
             /\ claims' = claims

EndsUngranted(c) ==
    /\ op[c].phase \in {"wait", "read", "write"}
    /\ \E outcome \in Outcomes :
          /\ op'[c] = [phase |-> "done", name |-> op[c].name, outcome |-> outcome]
          /\ op[c].name = "claim" => outcome # "ok"
    /\ claims' = Kept(c)

EndsGranted(c) ==
    /\ op[c].phase = "write"
    /\ op'[c] = [phase |-> "done", name |-> op[c].name, outcome |-> "ok"]
    /\ claims' = Kept(c) \cup Granted(c)

(* A call that is answered without a write grants its handler nothing.     *)
LEMMA AnswerUngranted ==
    ASSUME TypeOK, NEW c \in Clients, NEW outcome \in Outcomes, Answer(c, outcome),
           op[c].phase \in {"wait", "read", "write"}, op[c].name = "claim" => outcome # "ok"
    PROVE  Apart(c) /\ EndsUngranted(c)
<1>1. op' = [op EXCEPT ![c] = [phase |-> "done", name |-> op[c].name, outcome |-> outcome]]
      /\ claims' = Kept(c)
  BY DEF Answer, End
<1>2. Apart(c)
  BY <1>1 DEF Apart, Kept, TypeOK
<1>. QED
  BY <1>1, <1>2 DEF EndsUngranted, TypeOK

(* A call that is about to write goes on for the same handler.             *)
LEMMA WriteBackGoesOn ==
    ASSUME TypeOK, NEW c \in Clients, NEW r, NEW f, NEW ttl, WriteBack(c, r, f, ttl), op[c].phase = "read"
    PROVE  Apart(c) /\ GoesOn(c)
  BY DEF WriteBack, Apart, GoesOn, TypeOK

(* A read does one of the two.                                             *)
LEMMA ReadForHandler ==
    ASSUME TypeOK, NEW c \in Clients, Read(c)
    PROVE  Apart(c) /\ (GoesOn(c) \/ EndsUngranted(c))
<1>1. op[c].phase = "read"
  BY DEF Read, ReadClaim, ReadRelease, ReadFinish
<1>2. CASE ReadClaim(c)
  <2>1. \/ \E outcome \in Errors : Answer(c, outcome)
        \/ \E r, f, ttl : WriteBack(c, r, f, ttl)
    BY <1>2 DEF ReadClaim, Errors
  <2>2. Errors \subseteq Outcomes /\ "ok" \notin Errors
    BY DEF Outcomes, Errors
  <2>. QED
    BY <1>1, <2>1, <2>2, AnswerUngranted, WriteBackGoesOn
<1>3. CASE ReadRelease(c) \/ ReadFinish(c)
  <2>1. \/ \E outcome \in Outcomes : Answer(c, outcome)
        \/ \E r, f, ttl : WriteBack(c, r, f, ttl)
    BY <1>3 DEF ReadRelease, ReadFinish, Outcomes, Errors
  <2>2. op[c].name # "claim"
    BY <1>3 DEF ReadRelease, ReadFinish
  <2>. QED
    BY <1>1, <2>1, <2>2, AnswerUngranted, WriteBackGoesOn
<1>. QED
  BY <1>2, <1>3 DEF Read

(* Every step of a call goes on, ends without a grant, or ends with it.    *)
LEMMA StoreForHandler ==
    ASSUME TypeOK, NEW c \in Clients, StoreStep(c)
    PROVE  Apart(c) /\ (GoesOn(c) \/ EndsUngranted(c) \/ EndsGranted(c))
<1>1. CASE Acquire(c)
  <2>1. op[c] \in Entered
    BY <1>1, OpShape DEF Acquire
  <2>2. op' = [op EXCEPT ![c] = [op[c] EXCEPT !.phase = "read"]] /\ claims' = claims
    BY <1>1 DEF Acquire
  <2>3. /\ op'[c].phase = "read" /\ op'[c].name = op[c].name /\ op'[c].token = op[c].token
        /\ op[c].phase = "wait" /\ \A d \in Clients \ {c} : op'[d] = op[d]
    BY <1>1, <2>1, <2>2 DEF Acquire, Entered, TypeOK
  <2>. QED
    BY <2>2, <2>3 DEF Apart, GoesOn
<1>2. CASE Read(c)
  BY <1>2, ReadForHandler
<1>3. CASE Write(c)
  <2>1. /\ op' = [op EXCEPT ![c] = [phase |-> "done", name |-> op[c].name, outcome |-> "ok"]]
        /\ claims' = Kept(c) \cup Granted(c) /\ op[c].phase = "write"
    BY <1>3 DEF Write, End, Apply
  <2>2. Apart(c)
    BY <2>1 DEF Apart, Kept, Granted, TypeOK
  <2>. QED
    BY <2>1, <2>2 DEF EndsGranted, TypeOK
<1>4. ASSUME NEW why \in Faults, Raise(c, why) \/ WriteUnanswered(c, why)
      PROVE  Apart(c) /\ EndsUngranted(c)
  <2>1. Answer(c, why) /\ op[c].phase \in {"wait", "read", "write"}
    BY <1>4 DEF Raise, WriteUnanswered, Apply
  <2>2. why \in Outcomes /\ why # "ok"
    BY FaultsAssumption DEF Outcomes, FaultNames
  <2>. QED
    BY <2>1, <2>2, AnswerUngranted
<1>. QED
  BY <1>1, <1>2, <1>3, <1>4 DEF StoreStep

------------------------------------------------------------------------------
(* Every step keeps each handler where its calls and claims are. *)

(* What others do leaves a handler as it stands. *)
LEMMA Frame ==
    ASSUME NEW d \in Clients, Handling(d), op'[d] = op[d], req'[d] = req[d],
           \A m : m.client = d => (m \in claims' <=> m \in claims)
    PROVE  Handling(d)'
  BY DEF Handling, Shape, InStore, Holds

(* A step for one handler keeps the invariant of all.                      *)
LEMMA OthersStay ==
    ASSUME HInv, NEW c \in Clients, Apart(c), Handling(c)', NEW r,
           req' = req \/ req' = [req EXCEPT ![c] = r]
    PROVE  HInv'
<1>1. req' = [d \in Clients |-> req'[d]] /\ \A d \in Clients \ {c} : req'[d] = req[d]
  BY DEF HInv
<1>2. ASSUME NEW d \in Clients \ {c} PROVE Handling(d)'
  BY <1>1, <1>2, Frame DEF HInv, Apart
<1>. QED
  BY <1>1, <1>2 DEF HInv

(* A step of the store for a handler that waits for it. *)
LEMMA StoreKeeps ==
    ASSUME IInv, HInv, NEW c \in Clients, StoreStep(c), UNCHANGED req
    PROVE  HInv'
<1>0. TypeOK /\ Handling(c) /\ Apart(c)
  BY StoreForHandler DEF IInv, HInv
<1>1. op[c].phase \in {"wait", "read", "write"}
  BY <1>0, StoreForHandler DEF GoesOn, EndsUngranted, EndsGranted
<1>2. req[c].at \in {"mint", "claim", "release", "complete"}
  BY <1>0, <1>1 DEF Handling, Shape, Requests, Stages, NoRequest, Idle
<1>3. ASSUME GoesOn(c) PROVE Handling(c)'
  BY <1>0, <1>1, <1>2, <1>3, OpShape
     DEF GoesOn, Handling, Shape, InStore, Holds, Entered
<1>4. ASSUME EndsUngranted(c) PROVE Handling(c)'
  <2>1. \A m \in claims' : m \in claims
    BY <1>4 DEF EndsUngranted, Kept
  <2>2. /\ op'[c].phase = "done" /\ op'[c].name = op[c].name /\ op'[c].outcome \in Outcomes
        /\ op[c].name = "claim" => op'[c].outcome # "ok"
    BY <1>4 DEF EndsUngranted
  <2>3. op[c].name \in {"release", "complete"} => ~Holds(c)'
    BY <1>4 DEF EndsUngranted, Kept, Holds, Settles
  <2>. QED
    BY <1>0, <1>1, <1>2, <2>1, <2>2, <2>3 DEF Handling, Shape, InStore, Holds
<1>5. ASSUME EndsGranted(c) PROVE Handling(c)'
  <2>1. op'[c].phase = "done" /\ op'[c].name = op[c].name /\ op'[c].outcome = "ok"
    BY <1>5 DEF EndsGranted
  <2>2. CASE req[c].at = "claim"
    <3>1. op[c].name = "claim" /\ op[c].token = req[c].token /\ ~Holds(c)
      BY <1>0, <1>5, <2>2 DEF Handling, InStore, EndsGranted
    <3>2. PICK n : n.client = c /\ n.token = req[c].token /\ claims' = claims \cup {n}
      BY <1>5, <3>1 DEF EndsGranted, Kept, Granted, Settles
    <3>3. \A m \in claims' : m.client = c => m = n
      BY <3>1, <3>2 DEF Holds
    <3>4. Holds(c)'
      BY <3>2 DEF Holds
    <3>5. InStore(c, "claim")' /\ Shape(c)'
      BY <1>0, <2>1, <3>1 DEF Handling, Shape, InStore, Outcomes
    <3>. QED
      BY <2>1, <2>2, <3>2, <3>3, <3>4, <3>5 DEF Handling, Stages
  <2>3. CASE req[c].at # "claim"
    <3>1. op[c].name # "claim" /\ op[c].name \in {"mint", "release", "complete"}
      BY <1>0, <1>2, <2>3 DEF Handling, InStore
    <3>2. claims' = Kept(c)
      BY <1>5, <3>1 DEF EndsGranted, Granted
    <3>3. op[c].name \in {"release", "complete"} => ~Holds(c)'
      BY <3>2 DEF Kept, Holds, Settles
    <3>. QED
      BY <1>0, <1>2, <2>1, <2>3, <3>1, <3>2, <3>3
         DEF Handling, Shape, InStore, Holds, Kept, Outcomes
  <2>. QED
    BY <2>2, <2>3
<1>6. Handling(c)'
  BY <1>0, <1>3, <1>4, <1>5, StoreForHandler
<1>. QED
  BY <1>0, <1>6, OthersStay

(* A call begins. *)
LEMMA StartKeeps ==
    ASSUME IInv, HInv, NEW c \in Clients,
           \/ \E t \in Tokens, k \in Kinds, ttl \in LinkTTLs : MintLink(c, t, k, ttl)
           \/ \E t \in Tokens, m \in Kinds : Receive(c, t, m)
    PROVE  HInv'
<1>0. Handling(c) /\ op \in [Clients -> Ops]
  BY DEF HInv, IInv, TypeOK
<1>1. ASSUME NEW t \in Tokens, NEW k \in Kinds, NEW ttl \in LinkTTLs, MintLink(c, t, k, ttl)
      PROVE  HInv'
  <2>1. /\ op'[c].phase \in {"write", "done"} /\ op'[c].name = "mint" /\ claims' = claims
        /\ req' = [req EXCEPT ![c] = [at |-> "mint"]] /\ req[c].at = "none" /\ Apart(c)
    BY <1>0, <1>1 DEF MintLink, Mint, At, Apart
  <2>2. req'[c] = [at |-> "mint"]
    BY <2>1 DEF HInv
  <2>3. Handling(c)'
    BY <1>0, <2>1, <2>2 DEF Handling, Shape, Stages
  <2>. QED
    BY <2>1, <2>3, OthersStay
<1>2. ASSUME NEW t \in Tokens, NEW m \in Kinds, Receive(c, t, m)
      PROVE  HInv'
  <2>. DEFINE r == [at |-> "claim", method |-> m, token |-> t, reply |-> "none", delivered |-> FALSE]
  <2>1. /\ op'[c] = [phase |-> "wait", name |-> "claim", token |-> t, kind |-> m] /\ claims' = claims
        /\ req' = [req EXCEPT ![c] = r] /\ ~Holds(c) /\ Apart(c)
    BY <1>0, <1>2 DEF Receive, StartClaim, Holds, Apart
  <2>2. req'[c] = r /\ r \in Requests
    BY <2>1 DEF HInv, Requests, Stages, Replies
  <2>3. Handling(c)'
    BY <1>0, <2>1, <2>2 DEF Handling, Shape, InStore, Holds
  <2>. QED
    BY <2>1, <2>3, OthersStay
<1>. QED
  BY <1>1, <1>2

(* A settle begins, for whichever reason. *)
LEMMA SettleKeeps ==
    ASSUME IInv, HInv, NEW c \in Clients, NEW name \in {"release", "complete"},
           req[c].at \in {"body", "sink"}, StartSettle(c, name), NEW reply \in Replies, NEW b \in BOOLEAN,
           req' = [req EXCEPT ![c] = [req[c] EXCEPT !.at = name, !.reply = reply, !.delivered = b]],
           name = "complete" => b
    PROVE  HInv'
<1>0. Handling(c) /\ op \in [Clients -> Ops] /\ req[c] \in Requests
  BY DEF HInv, IInv, TypeOK, Handling, Shape, NoRequest
<1>1. PICK m \in claims : /\ m.client = c
                          /\ op' = [op EXCEPT ![c] = [phase |-> "wait", name |-> name,
                                                      token |-> m.token, fence |-> m.fence]]
  BY DEF StartSettle
<1>2. m.token = req[c].token
  BY <1>0, <1>1 DEF Handling
<1>3. /\ op'[c].phase = "wait" /\ op'[c].name = name /\ op'[c].token = req[c].token
      /\ claims' = claims /\ Apart(c)
  BY <1>0, <1>1, <1>2 DEF StartSettle, Apart
<1>4. /\ req'[c] \in Requests /\ req'[c].at = name /\ req'[c].token = req[c].token
      /\ req'[c].delivered = b
  BY <1>0 DEF HInv, Requests, Stages
<1>5. Handling(c)'
  BY <1>0, <1>3, <1>4 DEF Handling, Shape, InStore, Holds, Stages
<1>. QED
  BY <1>3, <1>5, OthersStay

(* The body, the sink and what they end in. *)
LEMMA SinkKeeps ==
    ASSUME IInv, HInv, NEW c \in Clients, SinkStep(c)
    PROVE  HInv'
<1>0. Handling(c) /\ req[c].at \in {"body", "sink"}
  BY DEF HInv, SinkStep, BodyRead, BodyTooLarge, SinkDelivers, SinkSignals, BodyFails, SinkFails, At
<1>1. req[c] \in Requests
  BY <1>0 DEF Handling, Shape, NoRequest
<1>2. CASE BodyRead(c)
  <2>1. req' = [req EXCEPT ![c] = [req[c] EXCEPT !.at = "sink", !.reply = "none"]]
    BY <1>2 DEF BodyRead, Goto, HInv
  <2>2. req'[c] \in Requests /\ req'[c].at = "sink" /\ req'[c].token = req[c].token
    BY <1>1, <2>1 DEF HInv, Requests, Stages, Replies
  <2>3. op' = op /\ claims' = claims /\ Apart(c)
    BY <1>2 DEF BodyRead, vars, Apart
  <2>4. Handling(c)'
    BY <1>0, <2>2, <2>3 DEF Handling, Shape, Holds, Stages
  <2>. QED
    BY <2>1, <2>3, <2>4, OthersStay
<1>3. ASSUME NEW reply \in Replies, ReleaseFor(c, reply)
      PROVE  HInv'
  <2>1. req' = [req EXCEPT ![c] = [req[c] EXCEPT !.at = "release", !.reply = reply,
                                                 !.delivered = req[c].delivered]]
    BY <1>1, <1>3 DEF ReleaseFor, Goto, HInv, Requests
  <2>2. req[c].delivered \in BOOLEAN
    BY <1>1 DEF Requests
  <2>. QED
    BY <1>0, <1>3, <2>1, <2>2, SettleKeeps DEF ReleaseFor
<1>4. CASE SinkDelivers(c)
  <2>1. req' = [req EXCEPT ![c] = [req[c] EXCEPT !.at = "complete", !.reply = req[c].reply,
                                                 !.delivered = TRUE]]
    BY <1>1, <1>4 DEF SinkDelivers, HInv, Requests
  <2>2. req[c].reply \in Replies
    BY <1>1 DEF Requests
  <2>. QED
    BY <1>0, <1>4, <2>1, <2>2, SettleKeeps DEF SinkDelivers
<1>5. \A why \in SinkFaults : Propagated(why) \in Replies
  BY DEF Propagated, Replies
<1>6. "413" \in Replies /\ "sink_status" \in Replies
  BY DEF Replies
<1>. QED
  BY <1>2, <1>3, <1>4, <1>5, <1>6 DEF SinkStep, BodyTooLarge, SinkSignals, BodyFails, SinkFails

(* The handler takes what the store has answered, or leaves. *)
LEMMA HandlerKeeps ==
    ASSUME IInv, HInv, NEW c \in Clients, HandlerStep(c)
    PROVE  HInv'
<1>0. Handling(c) /\ op \in [Clients -> Ops]
  BY DEF HInv, IInv, TypeOK
<1>1. ASSUME Collect(c)
      PROVE  op'[c] = Idle /\ claims' = claims /\ Apart(c) /\ op[c].phase = "done"
  BY <1>0, <1>1 DEF Collect, Apart
<1>2. ASSUME req' = [req EXCEPT ![c] = NoRequest], op'[c] = Idle, claims' = claims, Apart(c), ~Holds(c)
      PROVE  HInv'
  <2>1. req'[c] = NoRequest
    BY <1>2 DEF HInv
  <2>2. Handling(c)'
    BY <1>0, <1>2, <2>1 DEF Handling, Shape, Holds, NoRequest
  <2>. QED
    BY <1>2, <2>2, OthersStay
<1>3. ASSUME NEW stage \in {"body", "sink", "answered"}, NEW reply \in Replies, Goto(c, stage, reply),
             op'[c] = Idle, claims' = claims, Apart(c), req[c] \in Requests,
             stage = "answered" <=> ~Holds(c)
      PROVE  HInv'
  <2>1. req' = [req EXCEPT ![c] = [req[c] EXCEPT !.at = stage, !.reply = reply]]
    BY <1>3 DEF Goto, HInv
  <2>2. req'[c] \in Requests /\ req'[c].at = stage /\ req'[c].token = req[c].token
    BY <1>3, <2>1 DEF HInv, Requests, Stages
  <2>3. Handling(c)'
    BY <1>0, <1>3, <2>2 DEF Handling, Shape, Holds, Stages
  <2>. QED
    BY <1>3, <2>1, <2>3, OthersStay
<1>4. CASE LinkMinted(c)
  BY <1>0, <1>1, <1>2, <1>4 DEF LinkMinted, At, Handling, Holds, Stages
<1>5. CASE Claimed(c)
  <2>1. req[c] \in Requests /\ InStore(c, "claim") /\ op[c].phase = "done"
    BY <1>0, <1>1, <1>5 DEF Claimed, At, Handling, Shape, NoRequest
  <2>2. Holds(c) <=> op[c].outcome = "ok"
    BY <1>0, <1>5, <2>1 DEF Claimed, At, Handling
  <2>3. "ok" \notin Errors \cup FaultNames
    BY DEF Errors, FaultNames
  <2>4. \A outcome \in Errors : ClaimErrorStatus(outcome) \in Replies
    BY DEF ClaimErrorStatus, Replies
  <2>5. \A outcome \in FaultNames : Propagated(outcome) \in Replies
    BY DEF Propagated, Replies
  <2>6. "none" \in Replies
    BY DEF Replies
  <2>. QED
    BY <1>1, <1>3, <1>5, <2>1, <2>2, <2>3, <2>4, <2>5, <2>6 DEF Claimed
<1>6. CASE Released(c) \/ Completed(c)
  <2>1. req[c] \in Requests /\ op[c].phase = "done" /\ ~Holds(c)
    BY <1>0, <1>1, <1>6 DEF Released, Completed, At, Handling, Shape, NoRequest
  <2>2. \E reply \in Replies : Goto(c, "answered", reply)
    BY <1>6, <2>1 DEF Released, Completed, Requests, Replies
  <2>. QED
    BY <1>1, <1>3, <1>6, <2>1, <2>2 DEF Released, Completed
<1>7. CASE Leave(c)
  <2>1. op' = op /\ claims' = claims /\ Apart(c)
    BY <1>7 DEF Leave, vars, Apart
  <2>2. op[c] = Idle /\ ~Holds(c)
    BY <1>0, <1>7 DEF Leave, At, Handling, Holds
  <2>. QED
    BY <1>2, <1>7, <2>1, <2>2 DEF Leave
<1>. QED
  BY <1>4, <1>5, <1>6, <1>7 DEF HandlerStep

(* No request is under way at the start.                                   *)
LEMMA HandlersInit == RInit => HInv
  BY DEF RInit, Init, HInv, Handling, Shape, Holds, NoRequest

(* Every step keeps each handler where its call and its claim are.         *)
LEMMA HandlersStep == IInv /\ HInv /\ [RNext]_rvars => HInv'
<1>. SUFFICES ASSUME IInv, HInv, [RNext]_rvars PROVE HInv'
  OBVIOUS
<1>1. CASE UNCHANGED <<op, claims, req>>
  BY <1>1, Frame DEF HInv
<1>2. CASE RRestart
  <2>1. req' = [c \in Clients |-> NoRequest] /\ op' = [c \in Clients |-> Idle] /\ claims' = {}
    BY <1>2 DEF RRestart, Restart
  <2>. QED
    BY <2>1 DEF HInv, Handling, Shape, Holds, NoRequest
<1>3. (Tick /\ UNCHANGED req) \/ RRest \/ UNCHANGED rvars => UNCHANGED <<op, claims, req>>
  BY DEF Tick, RRest, rvars, vars
<1>. QED
  BY <1>1, <1>2, <1>3, StoreKeeps, StartKeeps, SinkKeeps, HandlerKeeps DEF RNext

(* Where every handler stands: the invariant of the store and of the       *)
(* handlers over it.                                                       *)
THEOREM RoutesSafe == RSpec => [](IInv /\ HInv)
<1>1. RSpec => []IInv
  BY RoutesUseStore, Inductive, PTL
<1>. QED
  BY <1>1, HandlersInit, HandlersStep, PTL DEF RSpec

(* Every reachable state of handlers and store has its type.               *)
THEOREM RoutesTypeCorrect == RSpec => []RoutesTypeOK
<1>1. IInv /\ HInv => RoutesTypeOK
  BY DEF IInv, HInv, Handling, Shape, RoutesTypeOK
<1>. QED
  BY <1>1, RoutesSafe, PTL

(* Two handlers are inside the sink for one link only after the lease of   *)
(* one of them is over, whatever fails, is cancelled or restarts (claim,   *)
(* the 409 of the route).                                                  *)
THEOREM SharedAfterLapse == RSpec => []SinkSharedOnlyAfterLapse
<1>1. HInv /\ IInv /\ AtMostOneLiveHolder => SinkSharedOnlyAfterLapse
  <2>. SUFFICES ASSUME HInv, IInv, AtMostOneLiveHolder, NEW c \in Clients, NEW d \in Clients, c # d,
                       At(c, "sink"), At(d, "sink"), req[c].token = req[d].token
                PROVE  \E m \in claims : m.client \in {c, d} /\ now >= m.lease
    BY DEF SinkSharedOnlyAfterLapse
  <2>1. PICK m \in claims : m.client = c /\ m.token = req[c].token
    BY DEF HInv, Handling, Holds, At
  <2>2. PICK n \in claims : n.client = d /\ n.token = req[d].token
    BY DEF HInv, Handling, Holds, At
  <2>3. m.lease \in Nat /\ n.lease \in Nat /\ now \in Nat
    BY DEF IInv, TypeOK, Claims
  <2>. QED
    BY <2>1, <2>2, <2>3 DEF AtMostOneLiveHolder
<1>2. RSpec => []AtMostOneLiveHolder
  BY RoutesUseStore, OneLiveHolder, PTL
<1>. QED
  BY <1>1, <1>2, RoutesSafe, PTL

------------------------------------------------------------------------------
(* Lifetimes. *)

(* What a locked call is about to write was, when it read the record, at   *)
(* most the time the record had left, and all of it unless it completes;   *)
(* with a backend that is not slow that was just now.                      *)
LifetimesKept ==
    \A c \in Clients : InWrite(c, Locked) =>
       /\ op[c].token \in DOMAIN kv
       /\ op[c].since + op[c].ttl <= kv[op[c].token].expires
       /\ op[c].name # "complete" => now + op[c].ttl >= kv[op[c].token].expires
       /\ ~SlowBackend => op[c].since = now
       /\ op[c].name = "complete" => op[c].ttl <= GraceSeconds

(* What a read decides to write gives the record the time it has left.     *)
LEMMA ReadKeepsLifetime ==
    ASSUME IInv, NEW c \in Clients, Read(c), InWrite(c, Locked)'
    PROVE  LET t == op'[c].token IN
           /\ op[c].phase = "read" /\ now' = now /\ kv' = kv /\ \A d \in Clients \ {c} : op'[d] = op[d]
           /\ t \in DOMAIN kv
           /\ op'[c].since = now /\ op'[c].since + op'[c].ttl <= kv[t].expires
           /\ op'[c].name # "complete" => now + op'[c].ttl >= kv[t].expires
           /\ op'[c].name = "complete" => op'[c].ttl <= GraceSeconds
<1>. DEFINE t == op[c].token
<1>1. TypeOK
  BY DEF IInv
<1>2. ASSUME NEW outcome, Answer(c, outcome) PROVE FALSE
  BY <1>1, <1>2 DEF Answer, End, InWrite, TypeOK
<1>3. ASSUME NEW r, NEW f, NEW ttl, WriteBack(c, r, f, ttl), Present(kv, t, now), op[c].phase = "read",
             now' = now, kv' = kv, ttl = Remaining(kv, t, now) \/ ttl = SettledTTL(op[c].name, Remaining(kv, t, now)),
             op[c].name # "complete" => ttl = Remaining(kv, t, now),
             op[c].name = "complete" => ttl = SettledTTL("complete", Remaining(kv, t, now))
      PROVE  /\ op[c].phase = "read" /\ now' = now /\ kv' = kv /\ \A d \in Clients \ {c} : op'[d] = op[d]
             /\ op'[c].token \in DOMAIN kv
             /\ op'[c].since = now /\ op'[c].since + op'[c].ttl <= kv[op'[c].token].expires
             /\ op'[c].name # "complete" => now + op'[c].ttl >= kv[op'[c].token].expires
             /\ op'[c].name = "complete" => op'[c].ttl <= GraceSeconds
  <2>1. /\ op'[c].token = t /\ op'[c].name = op[c].name /\ op'[c].ttl = ttl /\ op'[c].since = now
        /\ \A d \in Clients \ {c} : op'[d] = op[d]
    BY <1>1, <1>3 DEF WriteBack, TypeOK
  <2>2. t \in DOMAIN kv /\ kv[t].expires \in Nat /\ now \in Nat
    BY <1>1, <1>3 DEF Present, TypeOK
  <2>3. ttl \in Nat /\ now + ttl <= kv[t].expires
        /\ (op[c].name # "complete" => now + ttl >= kv[t].expires)
        /\ (op[c].name = "complete" => ttl <= GraceSeconds)
    BY <1>3, <2>2, TimingAssumption DEF Present, Remaining, SettledTTL
  <2>. QED
    BY <1>3, <2>1, <2>2, <2>3
<1>4. CASE ReadClaim(c)
  BY <1>2, <1>3, <1>4 DEF ReadClaim, backend
<1>5. CASE ReadRelease(c)
  BY <1>2, <1>3, <1>5 DEF ReadRelease, backend
<1>6. CASE ReadFinish(c)
  BY <1>2, <1>3, <1>6 DEF ReadFinish, SettledTTL, backend
<1>. QED
  BY <1>4, <1>5, <1>6 DEF Read

(* A put leaves a record what LifetimesKept says, or makes a new one.      *)
LEMMA PutKeepsLifetime ==
    ASSUME IInv, LifetimesKept, NEW c \in Clients, Apply(c), NEW t \in DOMAIN kv, t \in DOMAIN kv'
    PROVE  \/ kv'[t] = kv[t]
           \/ /\ InWrite(c, Locked) /\ op[c].token = t /\ kv'[t].expires = now + op[c].ttl
              /\ kv'[t].expires <= kv[t].expires + (now - op[c].since)
              /\ op[c].name # "complete" => kv'[t].expires >= kv[t].expires
              /\ ~SlowBackend => kv'[t].expires <= kv[t].expires
<1>1. CASE t # op[c].token
  BY <1>1, ApplyGrounded DEF IInv
<1>2. CASE t = op[c].token
  <2>1. op[c].name # "mint"
    BY <1>2, ApplyGrounded DEF IInv, MintGrounded, TypeOK
  <2>2. InWrite(c, Locked)
    BY <2>1, ApplyGrounded DEF IInv, Apply, InWrite, Locked
  <2>3. kv'[t].expires = now + op[c].ttl
    BY <1>2 DEF Apply, Put
  <2>4. now \in Nat /\ kv[t].expires \in Nat /\ op[c].ttl \in Nat /\ op[c].since \in Nat
    BY <2>2, OpShape DEF IInv, TypeOK, InWrite, Writing
  <2>. QED
    BY <1>2, <2>2, <2>3, <2>4 DEF LifetimesKept
<1>. QED
  BY <1>1, <1>2

(* Every step of the store keeps what is about to be written in bounds.    *)
LEMMA LifetimesStep == IInv /\ LifetimesKept /\ [Next]_vars => LifetimesKept'
<1>. SUFFICES ASSUME IInv, LifetimesKept, [Next]_vars, NEW c \in Clients, InWrite(c, Locked)'
              PROVE  /\ op'[c].token \in DOMAIN kv'
                     /\ op'[c].since + op'[c].ttl <= kv'[op'[c].token].expires
                     /\ op'[c].name # "complete" => now' + op'[c].ttl >= kv'[op'[c].token].expires
                     /\ ~SlowBackend => op'[c].since = now'
                     /\ op'[c].name = "complete" => op'[c].ttl <= GraceSeconds
  BY DEF LifetimesKept
<1>. DEFINE Goal == /\ op'[c].token \in DOMAIN kv'
                    /\ op'[c].since + op'[c].ttl <= kv'[op'[c].token].expires
                    /\ op'[c].name # "complete" => now' + op'[c].ttl >= kv'[op'[c].token].expires
                    /\ ~SlowBackend => op'[c].since = now'
                    /\ op'[c].name = "complete" => op'[c].ttl <= GraceSeconds
<1>0. TypeOK /\ now \in Nat /\ op \in [Clients -> Ops]
  BY DEF IInv, TypeOK
(* Nothing that matters to c has changed. *)
<1>1. ASSUME op'[c] = op[c], now' = now, op[c].token \in DOMAIN kv => /\ op[c].token \in DOMAIN kv'
                                                                   /\ kv'[op[c].token] = kv[op[c].token]
      PROVE  Goal
  BY <1>1 DEF LifetimesKept, InWrite
<1>2. ASSUME NEW d \in Clients, d # c, Apply(d), op'[c] = op[c]
      PROVE  Goal
  <2>1. lock = c
    BY <1>2 DEF IInv, ReadModifyWriteExclusive, InCritical, InWrite
  <2>2. op[d].name = "mint"
    BY <1>2, <2>1, ApplyGrounded DEF IInv, ReadModifyWriteExclusive, InCritical, InWrite, Locked, Apply
  <2>3. op[d].token \notin DOMAIN kv
    BY <1>2, <2>2, ApplyGrounded DEF IInv, MintGrounded, TypeOK
  <2>4. op[c].token \in DOMAIN kv => op[c].token \in DOMAIN kv' /\ kv'[op[c].token] = kv[op[c].token]
    BY <1>2, <2>3, ApplyGrounded DEF IInv
  <2>5. now' = now
    BY <1>2 DEF Apply
  <2>. QED
    BY <1>1, <1>2, <2>4, <2>5
<1>3. ASSUME NEW d \in Clients, Read(d)
      PROVE  Goal
  <2>1. CASE d = c
    BY <1>3, <2>1, ReadKeepsLifetime
  <2>2. CASE d # c
    BY <1>0, <1>1, <1>3, <2>2, ReadForHandler, ReadCases DEF Apart, ReadOutcome, backend
  <2>. QED
    BY <2>1, <2>2
<1>4. ASSUME NEW d \in Clients, NEW outcome, End(d, outcome)
      PROVE  d # c /\ op'[c] = op[c]
  BY <1>0, <1>4 DEF End, InWrite
<1>5. ASSUME NEW d \in Clients, Write(d) \/ \E why \in Faults : Raise(d, why) \/ WriteUnanswered(d, why)
      PROVE  Goal
  <2>1. d # c /\ op'[c] = op[c]
    BY <1>4, <1>5 DEF Write, Raise, WriteUnanswered, Answer
  <2>2. Apply(d) \/ UNCHANGED <<now, backend>>
    BY <1>5 DEF Write, Raise, WriteUnanswered
  <2>. QED
    BY <1>1, <1>2, <2>1, <2>2 DEF backend
<1>6. ASSUME NEW d \in Clients,
             \/ Collect(d)
             \/ \E t \in Tokens, k \in Kinds : StartClaim(d, t, k)
             \/ \E t \in Tokens, k \in Kinds, ttl \in TTLs : Mint(d, t, k, ttl)
             \/ \E name \in Settles : StartSettle(d, name)
      PROVE  Goal
  <2>1. op'[d].phase # "write" \/ op'[d].name \notin Locked
    BY <1>0, <1>6 DEF Collect, StartClaim, Mint, StartSettle, Idle, Locked, Settles
  <2>2. \A e \in Clients \ {d} : op'[e] = op[e]
    BY <1>0, <1>6 DEF Collect, StartClaim, Mint, StartSettle
  <2>3. UNCHANGED <<now, backend>>
    BY <1>6 DEF Collect, StartClaim, Mint, StartSettle
  <2>. QED
    BY <1>1, <2>1, <2>2, <2>3 DEF InWrite, backend
<1>7. ASSUME NEW d \in Clients, Acquire(d)
      PROVE  Goal
  <2>1. op[d] \in Entered
    BY <1>0, <1>7, OpShape DEF Acquire
  <2>2. op'[d].phase = "read" /\ \A e \in Clients \ {d} : op'[e] = op[e]
    BY <1>7, <1>0, <2>1 DEF Acquire, Entered
  <2>. QED
    BY <1>1, <1>7, <2>2 DEF Acquire, InWrite, backend
<1>8. CASE Tick
  <2>1. op'[c] = op[c] /\ kv' = kv /\ now' = now + 1 /\ SlowBackend
    BY <1>8 DEF Tick, InWrite, backend
  <2>2. /\ op[c].token \in DOMAIN kv /\ op[c].ttl \in Nat /\ kv[op[c].token].expires \in Nat
        /\ op[c].since + op[c].ttl <= kv[op[c].token].expires
        /\ op[c].name # "complete" => now + op[c].ttl >= kv[op[c].token].expires
        /\ op[c].name = "complete" => op[c].ttl <= GraceSeconds
    BY <1>0, <2>1, OpShape DEF LifetimesKept, InWrite, TypeOK, Writing
  <2>. QED
    BY <1>0, <2>1, <2>2
<1>9. CASE Restart
  BY <1>9 DEF Restart, InWrite, Idle
<1>10. CASE Rest \/ UNCHANGED vars
  BY <1>1, <1>10 DEF Rest, vars
<1>. QED
  BY <1>3, <1>5, <1>6, <1>7, <1>8, <1>9, <1>10 DEF Next

(* So a write never gives a link a lifetime it did not have, but for time  *)
(* that passed under a slow backend.                                       *)
LEMMA LifetimesSafe == Spec => [](IInv /\ LifetimesKept)
<1>1. Init => LifetimesKept
  BY DEF Init, LifetimesKept, InWrite, Idle
<1>. QED
  BY <1>1, LifetimesStep, Inductive, PTL DEF Spec

(* No step of the store moves a link's expiry later by more than the time  *)
(* its call let pass between its read and its put, whatever fails, is      *)
(* cancelled or restarts: neither a claim nor a release adds anything of   *)
(* its own, and complete only takes.                                       *)
THEOREM SlidesByTheDelay == Spec => ExpirySlidesByTheDelay
<1>. DEFINE Bounded(t) ==
          \/ kv'[t].expires <= kv[t].expires
          \/ \E c \in Clients : /\ InWrite(c, Locked) /\ op[c].token = t
                               /\ kv'[t].expires <= kv[t].expires + (now - op[c].since)
<1>1. IInv /\ LifetimesKept /\ [Next]_vars =>
         [\A t \in DOMAIN kv \cap DOMAIN kv' : Bounded(t)]_vars
  <2>. SUFFICES ASSUME IInv, LifetimesKept, [Next]_vars, NEW t \in DOMAIN kv, t \in DOMAIN kv'
                PROVE  Bounded(t)
    OBVIOUS
  <2>1. kv[t].expires \in Nat
    BY DEF IInv, TypeOK
  <2>2. ASSUME NEW c \in Clients, Apply(c) PROVE Bounded(t)
    BY <2>1, <2>2, PutKeepsLifetime
  <2>3. CASE UNCHANGED backend \/ Restart
    BY <2>1, <2>3 DEF backend, Restart, EmptyStore
  <2>. QED
    BY <2>2, <2>3, WriteOrNot DEF IInv
<1>. QED
  BY <1>1, LifetimesSafe, PTL DEF Spec, ExpirySlidesByTheDelay

(* With a backend that answers at once, then, a link that was completed is *)
(* gone a grace window after that, whatever is done with it in between     *)
(* (complete's docstring).                                                 *)
THEOREM SettledExpire == ASSUME ~SlowBackend PROVE Spec => []SettledLinkExpires
<1>1. Init => SettledLinkExpires
  BY DEF Init, SettledLinkExpires, EmptyStore
<1>2. IInv /\ LifetimesKept /\ SettledLinkExpires /\ [Next]_vars => SettledLinkExpires'
  <2>. SUFFICES ASSUME IInv, LifetimesKept, SettledLinkExpires, [Next]_vars,
                       NEW t \in DOMAIN firstSettle', t \in DOMAIN kv'
                PROVE  kv'[t].expires <= firstSettle'[t] + GraceSeconds
    BY DEF SettledLinkExpires
  <2>0. /\ now \in Nat /\ \A x \in DOMAIN kv : kv[x].expires \in Nat
        /\ \A x \in DOMAIN firstSettle : firstSettle[x] \in Nat /\ x \in minted
    BY DEF IInv, TypeOK
  <2>1. ASSUME NEW c \in Clients, Apply(c)
        PROVE  kv'[t].expires <= firstSettle'[t] + GraceSeconds
    <3>1. CASE t \in DOMAIN kv /\ t \in DOMAIN firstSettle
      <4>1. firstSettle'[t] = firstSettle[t]
        BY <2>1, <3>1 DEF Apply
      <4>2. kv'[t].expires <= kv[t].expires
        BY <2>0, <2>1, <3>1, PutKeepsLifetime
      <4>3. kv[t].expires <= firstSettle[t] + GraceSeconds
        BY <3>1 DEF SettledLinkExpires
      <4>4. kv'[t].expires \in Nat
        BY <2>1, ApplyType DEF IInv
      <4>. QED
        BY <2>0, <3>1, <4>1, <4>2, <4>3, <4>4, TimingAssumption
    <3>2. CASE t \notin DOMAIN firstSettle
      <4>1. op[c].name = "complete" /\ op[c].token = t /\ firstSettle'[t] = now
        BY <2>1, <3>2 DEF Apply
      <4>2. InWrite(c, Locked) /\ op[c].ttl <= GraceSeconds /\ op[c].ttl \in Nat
        BY <2>1, <4>1, OpShape DEF IInv, Apply, InWrite, Locked, Settles, LifetimesKept, Writing
      <4>3. kv'[t].expires = now + op[c].ttl
        BY <2>1, <4>1 DEF Apply, Put
      <4>. QED
        BY <2>0, <4>1, <4>2, <4>3, TimingAssumption
    <3>3. CASE t \notin DOMAIN kv /\ t \in DOMAIN firstSettle
      <4>1. t = op[c].token
        BY <2>1, <3>3 DEF Apply, Put
      <4>2. op[c].name = "mint"
        BY <2>1, <3>3, <4>1, ApplyGrounded DEF IInv, SettleGrounded, ClaimGrounded
      <4>3. t \notin minted
        BY <2>1, <4>1, <4>2, ApplyGrounded DEF IInv, MintGrounded
      <4>. QED
        BY <2>0, <3>3, <4>3
    <3>. QED
      BY <3>1, <3>2, <3>3
  <2>2. CASE UNCHANGED backend \/ Restart
    BY <2>2 DEF backend, Restart, EmptyStore, SettledLinkExpires
  <2>. QED
    BY <2>1, <2>2, WriteOrNot DEF IInv
<1>. QED
  BY <1>1, <1>2, LifetimesSafe, PTL DEF Spec

(* A transient failure does not spend a link: its lifetime is cut short    *)
(* only for a request whose sink has delivered (the handler's docstring:   *)
(* settle on success, release on failure), however slow the backend is.    *)
THEOREM FailuresKeepTheLink == RSpec => FailureKeepsTheLink
<1>1. IInv /\ HInv /\ LifetimesKept /\ [RNext]_rvars =>
         [\A t \in DOMAIN kv \cap DOMAIN kv' :
             kv'[t].expires < kv[t].expires =>
                \E c \in Clients : At(c, "complete") /\ req[c].delivered /\ req[c].token = t]_rvars
  <2>. SUFFICES ASSUME IInv, HInv, LifetimesKept, [RNext]_rvars,
                       NEW t \in DOMAIN kv, t \in DOMAIN kv', kv'[t].expires < kv[t].expires
                PROVE  \E c \in Clients : At(c, "complete") /\ req[c].delivered /\ req[c].token = t
    OBVIOUS
  <2>1. [Next]_vars /\ TypeOK /\ kv[t].expires \in Nat
    BY RoutesSteps DEF IInv, TypeOK
  <2>2. ASSUME NEW c \in Clients, Apply(c)
        PROVE  At(c, "complete") /\ req[c].delivered /\ req[c].token = t
    <3>1. kv'[t].expires \in Nat
      BY <2>1, <2>2, ApplyType
    <3>2. op[c].name = "complete" /\ op[c].phase = "write" /\ op[c].token = t
      BY <2>1, <2>2, <3>1, PutKeepsLifetime DEF InWrite
    <3>3. Handling(c) /\ op[c] # Idle
      BY <3>2 DEF HInv, Idle
    <3>. QED
      BY <3>2, <3>3 DEF Handling, InStore, At, Shape, Requests, Stages, NoRequest
  <2>3. ~(UNCHANGED backend)
    BY <2>1 DEF backend
  <2>4. ~Restart
    BY <2>1 DEF Restart, EmptyStore
  <2>. QED
    BY <2>1, <2>2, <2>3, <2>4, WriteOrNot
<1>2. RSpec => []LifetimesKept
  BY RoutesUseStore, LifetimesSafe, PTL
<1>. QED
  BY <1>1, <1>2, RoutesSafe, PTL DEF RSpec, FailureKeepsTheLink

------------------------------------------------------------------------------
(* No reservation is left behind. *)

(* A live reservation is one a handler knows of.                           *)
Reserved == \A t \in LiveKeys(kv, now) : kv[t].value.status = "in_flight" =>
               \E m \in claims : m.token = t /\ m.fence = kv[t].value.fence

(* A settle that ends without a write had no live reservation of its own.  *)
LEMMA AnswerHadNone ==
    ASSUME IInv, HInv, NEW c \in Clients, Read(c), NEW outcome, Answer(c, outcome),
           NEW m \in claims, m.client = c, op[c].name \in Settles, Present(kv, m.token, now),
           kv[m.token].value.status = "in_flight"
    PROVE  kv[m.token].value.fence # m.fence
<1>1. op[c].phase = "read" /\ op[c] \in Ops
  BY DEF Read, ReadClaim, ReadRelease, ReadFinish, IInv, TypeOK
<1>2. m.token = op[c].token /\ m.fence = op[c].fence
  BY <1>1 DEF IInv, SettlesOwnClaim, HInv, Handling
<1>3. ASSUME NEW r, NEW f, NEW ttl, WriteBack(c, r, f, ttl) PROVE FALSE
  BY <1>3 DEF WriteBack, Answer, End, IInv, TypeOK
<1>4. CASE ReadRelease(c)
  BY <1>2, <1>3, <1>4 DEF ReadRelease, OwnReservation, Value
<1>5. CASE ReadFinish(c)
  BY <1>2, <1>3, <1>5 DEF ReadFinish, OwnReservation, Value
<1>6. ~ReadClaim(c)
  BY DEF ReadClaim, Settles
<1>. QED
  BY <1>4, <1>5, <1>6 DEF Read

(* Every step of the store keeps a live reservation in its owner's hand.   *)
LEMMA ReservedStep ==
    ASSUME Faults = {}, ~Durable \/ MaxRestarts = 0
    PROVE  IInv /\ HInv /\ Reserved /\ [Next]_vars => Reserved'
<1>. SUFFICES ASSUME IInv, HInv, Reserved, [Next]_vars,
                     NEW t \in LiveKeys(kv, now)', kv'[t].value.status = "in_flight"
              PROVE  \E m \in claims' : m.token = t /\ m.fence = kv'[t].value.fence
  BY DEF Reserved
<1>0. TypeOK /\ now \in Nat /\ \A x \in DOMAIN kv : kv[x].expires \in Nat
  BY DEF IInv, TypeOK
<1>1. ASSUME kv' = kv, now' \in Nat, now' >= now
      PROVE  /\ t \in LiveKeys(kv, now)
             /\ \E m \in claims : m.token = t /\ m.fence = kv'[t].value.fence
  BY <1>0, <1>1 DEF Reserved, LiveKeys, Present
<1>2. ASSUME NEW c \in Clients, Write(c)
      PROVE  \E m \in claims' : m.token = t /\ m.fence = kv'[t].value.fence
  <2>1. Apply(c) /\ claims' = Kept(c) \cup Granted(c) /\ now' = now /\ TypeOK /\ WritesGrounded
    BY <1>2 DEF Write, Apply, IInv
  <2>2. CASE op[c].name = "claim" /\ op[c].token = t
    <3>1. kv'[t].value = op[c].record /\ op[c].record.fence = op[c].fence
      BY <2>1, <2>2, ApplyGrounded DEF ClaimGrounded, OwnReservation
    <3>2. [client |-> c, token |-> t, fence |-> op[c].fence, lease |-> op[c].record.lease] \in claims'
      BY <2>1, <2>2 DEF Granted
    <3>. QED
      BY <3>1, <3>2
  <2>3. op[c].token = t => op[c].name = "claim"
    BY <2>1, ApplyGrounded DEF SettleGrounded, MintGrounded
  <2>4. CASE op[c].token # t
    <3>1. t \in DOMAIN kv /\ kv'[t] = kv[t]
      <4>1. t \in DOMAIN kv
        BY <2>1, <2>4, ApplyType DEF LiveKeys
      <4>. QED
        BY <2>1, <2>4, <4>1, ApplyGrounded
    <3>2. PICK m \in claims : m.token = t /\ m.fence = kv'[t].value.fence
      BY <2>1, <3>1 DEF Reserved, LiveKeys, Present
    <3>3. op[c].name \in Settles => m.client # c
      BY <2>1, <2>4, <3>2 DEF Apply, IInv, SettlesOwnClaim, HInv, Handling
    <3>. QED
      BY <2>1, <3>2, <3>3 DEF Kept
  <2>. QED
    BY <2>2, <2>3, <2>4
<1>3. ASSUME NEW c \in Clients, Read(c)
      PROVE  \E m \in claims' : m.token = t /\ m.fence = kv'[t].value.fence
  <2>1. ReadOutcome(c) /\ kv' = kv /\ now' = now
    BY <1>0, <1>3, ReadCases DEF ReadOutcome, backend
  <2>2. PICK m \in claims : m.token = t /\ m.fence = kv'[t].value.fence
    BY <1>0, <1>1, <2>1
  <2>3. ASSUME NEW outcome, Answer(c, outcome)
        PROVE  m \in claims'
    <3>0. Present(kv, m.token, now) /\ kv[m.token].value.status = "in_flight"
      BY <2>1, <2>2 DEF LiveKeys, Present
    <3>1. op[c].name \in Settles => m.client # c
      BY <1>3, <2>1, <2>2, <2>3, <3>0, AnswerHadNone
    <3>. QED
      BY <2>2, <2>3, <3>1 DEF Answer, Kept
  <2>. QED
    BY <2>1, <2>2, <2>3 DEF ReadOutcome, ReadDecides, WriteBack
<1>4. ASSUME NEW c \in Clients,
             \/ \E k \in Tokens, j \in Kinds, ttl \in TTLs : Mint(c, k, j, ttl)
             \/ \E k \in Tokens, j \in Kinds : StartClaim(c, k, j)
             \/ \E name \in Settles : StartSettle(c, name)
             \/ Acquire(c) \/ Collect(c)
      PROVE  \E m \in claims' : m.token = t /\ m.fence = kv'[t].value.fence
  <2>1. kv' = kv /\ now' = now /\ claims' = claims
    BY <1>4 DEF Mint, StartClaim, StartSettle, Acquire, Collect, backend
  <2>. QED
    BY <1>0, <1>1, <2>1
<1>5. CASE Tick \/ Rest \/ UNCHANGED vars
  <2>1. kv' = kv /\ now' \in Nat /\ now' >= now /\ claims' = claims
    BY <1>0, <1>5 DEF Tick, Rest, vars, backend
  <2>. QED
    BY <1>1, <2>1
<1>6. CASE Restart
  <2>1. kv' = EmptyStore
    BY <1>6 DEF Restart, IInv, TypeOK
  <2>. QED
    BY <2>1 DEF LiveKeys, EmptyStore
<1>. QED
  BY <1>2, <1>3, <1>4, <1>5, <1>6 DEF Next

(* No way out of a handler, from a refused body to a cancelled sink, leaves *)
(* a link locked: while the store itself does not fail and a restart takes *)
(* the records along, who reserved a link is at work on it                 *)
(* (_release_quietly and the handler's except clauses).                    *)
THEOREM NothingLeftBehind ==
    ASSUME Faults = {}, ~Durable \/ MaxRestarts = 0
    PROVE  RSpec => []NoReservationLeftBehind
<1>1. RInit => Reserved
  BY DEF RInit, Init, Reserved, LiveKeys, EmptyStore
<1>2. RSpec => []Reserved
  BY <1>1, RoutesSteps, ReservedStep, RoutesSafe, PTL DEF RSpec
<1>3. IInv /\ HInv /\ Reserved => NoReservationLeftBehind
  <2>1. \A m : m \in claims /\ IInv => m.client \in Clients
    BY DEF IInv, TypeOK, Claims
  <2>. QED
    BY <2>1 DEF Reserved, HInv, Handling, NoReservationLeftBehind
<1>. QED
  BY <1>2, <1>3, RoutesSafe, PTL
=============================================================================
