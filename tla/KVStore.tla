------------------------------- MODULE KVStore -------------------------------
(***************************************************************************)
(* The AsyncKeyValue facade (py-key-value), as the library uses it: get,   *)
(* put with a ttl, and ttl, which returns a value together with its        *)
(* remaining lifetime.  There is no compare-and-set and no sweep: an entry *)
(* whose lifetime is over is simply not returned any more.                 *)
(*                                                                         *)
(* A store is a function from the keys ever written to entries; an entry   *)
(* keeps the instant at which it expires.  A collection is a store of its  *)
(* own.  The facade is external code: the operators say what its callers   *)
(* in src/ rely on.                                                        *)
(***************************************************************************)
EXTENDS Naturals

EmptyStore == [k \in {} |-> {}]

(* An entry is returned until the instant it expires. *)
Present(store, k, now) == k \in DOMAIN store /\ now < store[k].expires

(* kv.get for a present key. *)
Value(store, k) == store[k].value

(* The second half of kv.ttl's answer for a present key. *)
Remaining(store, k, now) == store[k].expires - now

(* kv.put(k, v, ttl=ttl) executed at the instant now. *)
Put(store, k, v, ttl, now) ==
    [x \in DOMAIN store \cup {k} |->
        IF x = k THEN [value |-> v, expires |-> now + ttl] ELSE store[x]]

(* The keys whose entries are still returned at the instant now. *)
LiveKeys(store, now) == {k \in DOMAIN store : now < store[k].expires}
==============================================================================
