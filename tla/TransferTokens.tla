---------------------------- MODULE TransferTokens ----------------------------
(***************************************************************************)
(* What the transfer store promises of a capability-link token, with every *)
(* operation one atomic step: available <-> in_flight, an explicit burn    *)
(* into consumed, and an end of life ("gone") that nothing undoes.  Each   *)
(* claim is stamped with a fence never used before; a claim may take over  *)
(* a reservation (its lease is the detailed module's concern), and then    *)
(* the former fence is void for good.                                      *)
(***************************************************************************)
EXTENDS Naturals

CONSTANT Tokens          \* the tokens that may be minted

NoFence == 0             \* the fence of a token that is not in flight

VARIABLES status,        \* token -> where it is in its life
          holder,        \* token -> fence of the current reservation
          lastFence      \* the fence stamped last

vars == <<status, holder, lastFence>>

Init == /\ status = [t \in Tokens |-> "unminted"]
        /\ holder = [t \in Tokens |-> NoFence]
        /\ lastFence = NoFence

Mint(t) == /\ status[t] = "unminted"
           /\ status' = [status EXCEPT ![t] = "available"]
           /\ UNCHANGED <<holder, lastFence>>

(* A first claim, or one that takes over a reservation: the fence is new.  *)
Claim(t) == /\ status[t] \in {"available", "in_flight"}
            /\ status' = [status EXCEPT ![t] = "in_flight"]
            /\ lastFence' = lastFence + 1
            /\ holder' = [holder EXCEPT ![t] = lastFence']

(* release and complete give the reservation back; burn spends the token.  *)
Settle(t) == /\ status[t] = "in_flight"
             /\ \E s \in {"available", "consumed"} : status' = [status EXCEPT ![t] = s]
             /\ holder' = [holder EXCEPT ![t] = NoFence]
             /\ UNCHANGED lastFence

(* Several tokens may expire at one instant, or be lost with a volatile    *)
(* backend.                                                                *)
Expire == \E T \in SUBSET Tokens :
             /\ \A t \in T : status[t] \in {"available", "in_flight", "consumed"}
             /\ status' = [t \in Tokens |-> IF t \in T THEN "gone" ELSE status[t]]
             /\ holder' = [t \in Tokens |-> IF t \in T THEN NoFence ELSE holder[t]]
             /\ UNCHANGED lastFence

Next == \/ \E t \in Tokens : Mint(t) \/ Claim(t) \/ Settle(t)
        \/ Expire

Spec == Init /\ [][Next]_vars
==============================================================================
