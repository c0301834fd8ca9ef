---------------------------- MODULE JobStoreProofs ----------------------------
(***************************************************************************)
(* Theorems about the job record store, for every set of jobs and subjects,*)
(* every cap, retention and backend.                                       *)
(*                                                                         *)
(* What holds whatever fails: the types, that expired jobs free the cap,   *)
(* and that retention slides by a settle's own delay and nothing else.     *)
(* What holds while no await fails, no restart cuts a create in two and a  *)
(* settle's put follows its read at once (Quiet): the cap itself, and the  *)
(* index that covers every live record.                                    *)
(***************************************************************************)
EXTENDS JobStore, FiniteSetTheorems, TLAPS

USE DEF InPhase, MoveTo, collections

------------------------------------------------------------------------------
(* Types. *)

(* The phase of a call tells what it carries. *)
LEMMA CallShape ==
    ASSUME StoreTypeOK, NEW j \in Jobs
    PROVE  /\ op[j].phase = "prune" => op[j].unchecked \subseteq Jobs /\ op[j].live \subseteq Jobs
           /\ op[j].phase \in {"record", "index"} => op[j].ids \subseteq Jobs
           /\ op[j].phase = "settle" => op[j].status \in Outcomes /\ op[j].ttl \in Nat \ {0} /\ op[j].since \in Nat
           /\ op[j].phase \in {"wait", "read"} /\ op[j].name = "settle" => op[j].status \in Outcomes
           /\ op[j].phase \in {"wait", "read"} => [op[j] EXCEPT !.phase = "read"] \in Calls
<1>1. op[j] \in Calls
  BY DEF StoreTypeOK
<1>2. op[j].phase = "prune" => op[j] \in [phase : {"prune"}, unchecked : SUBSET Jobs, live : SUBSET Jobs]
  BY <1>1 DEF Calls, Idle
<1>3. op[j].phase \in {"record", "index"} => op[j] \in [phase : {"record", "index"}, ids : SUBSET Jobs]
  BY <1>1 DEF Calls, Idle
<1>4. op[j].phase = "settle" => op[j] \in [phase : {"settle"}, status : Outcomes, ttl : Nat \ {0}, since : Nat]
  BY <1>1 DEF Calls, Idle
<1>5. op[j].phase \in {"wait", "read"} =>
         \/ op[j] \in [phase : {"wait", "read"}, name : {"create"}]
         \/ op[j] \in [phase : {"wait", "read"}, name : {"settle"}, status : Outcomes]
  BY <1>1 DEF Calls, Idle
<1>6. op[j].phase \in {"wait", "read"} => [op[j] EXCEPT !.phase = "read"] \in Calls
  BY <1>5 DEF Calls
<1>. QED
  BY <1>2, <1>3, <1>4, <1>5, <1>6

(* A call that ends leaves a well-formed answer and a well-formed lock. *)
LEMMA EndType ==
    ASSUME StoreTypeOK, NEW j \in Jobs, NEW outcome \in {"ok", "limit"} \cup FaultNames,
           End(j, outcome)
    PROVE  op' \in [Jobs -> Calls] /\ lock' \in Jobs \cup {NoJob}
  BY DEF End, StoreTypeOK, Calls

(* A put leaves both collections well formed. *)
LEMMA PutType ==
    ASSUME StoreTypeOK, NEW j \in Jobs, Put1(j)
    PROVE  /\ DOMAIN records' \subseteq Jobs
           /\ \A i \in DOMAIN records' : records'[i] \in [value : Statuses, expires : Nat]
           /\ DOMAIN index' \subseteq Scopes
           /\ \A s \in DOMAIN index' : index'[s] \in [value : SUBSET Jobs, expires : Nat]
           /\ now' = now /\ restarts' = restarts
<1>. ResultTTL \in Nat /\ Subject[j] \in Scopes
  BY JobsAssumption, LimitsAssumption
<1>1. CASE op[j].phase = "record" /\ PutRecord(j)
  BY <1>1 DEF PutRecord, Put, StoreTypeOK, Statuses
<1>2. CASE op[j].phase = "index" /\ PutIndex(j)
  <2>1. op[j].ids \cup {j} \subseteq Jobs
    BY <1>2, CallShape
  <2>. QED
    BY <1>2, <2>1 DEF PutIndex, Put, StoreTypeOK
<1>3. CASE op[j].phase = "settle" /\ PutSettled(j)
  <2>1. op[j].status \in Statuses /\ op[j].ttl \in Nat
    BY <1>3, CallShape DEF Statuses
  <2>. QED
    BY <1>3, <2>1 DEF PutSettled, Put, StoreTypeOK
<1>. QED
  BY <1>1, <1>2, <1>3 DEF Put1

(* What a subject's index lists are jobs. *)
LEMMA IndexedType ==
    ASSUME StoreTypeOK, NEW s
    PROVE  IndexedIds(s) \subseteq Jobs
  BY DEF IndexedIds, Present, Value, StoreTypeOK

(* Types are kept by every action. *)
LEMMA StoreTypeStep == StoreTypeOK /\ [StoreNext]_storeVars => StoreTypeOK'
<1>. SUFFICES ASSUME StoreTypeOK, [StoreNext]_storeVars PROVE StoreTypeOK'
  OBVIOUS
<1>1. ASSUME NEW j \in Jobs, Begin(j) PROVE StoreTypeOK'
  <2>1. op' \in [Jobs -> Calls]
    BY <1>1 DEF Begin, StartCreate, StartSettle, StoreTypeOK, Calls
  <2>. QED
    BY <1>1, <2>1 DEF Begin, StoreTypeOK
<1>2. ASSUME NEW j \in Jobs, Acquire(j) PROVE StoreTypeOK'
  BY <1>2, CallShape DEF Acquire, StoreTypeOK
<1>3. ASSUME NEW j \in Jobs, ReadIndex(j) PROVE StoreTypeOK'
  <2>1. op' \in [Jobs -> Calls]
    BY <1>3, IndexedType DEF ReadIndex, StoreTypeOK, Calls
  <2>. QED
    BY <1>3, <2>1 DEF ReadIndex, StoreTypeOK
<1>4. ASSUME NEW j \in Jobs, Prune(j) PROVE StoreTypeOK'
  <2>1. op[j].unchecked \subseteq Jobs /\ op[j].live \subseteq Jobs
    BY <1>4, CallShape DEF Prune
  <2>2. op' \in [Jobs -> Calls] /\ lock' \in Jobs \cup {NoJob}
    <3>. PICK i \in op[j].unchecked :
            LET live == op[j].live \cup {x \in {i} : Found(x)}
                rest == op[j].unchecked \ {i}
            IN \/ op' = [op EXCEPT ![j] = [phase |-> "prune", unchecked |-> rest, live |-> live]]
                     /\ UNCHANGED lock
               \/ op' = [op EXCEPT ![j] = [phase |-> "record", ids |-> live]] /\ UNCHANGED lock
               \/ End(j, "limit")
      BY <1>4 DEF Prune
    <3>1. op[j].live \cup {x \in {i} : Found(x)} \subseteq Jobs /\ op[j].unchecked \ {i} \subseteq Jobs
      BY <2>1
    <3>. QED
      BY <3>1, EndType DEF StoreTypeOK, Calls
  <2>. QED
    BY <1>4, <2>2 DEF Prune, StoreTypeOK
<1>5. ASSUME NEW j \in Jobs, ReadRecord(j) PROVE StoreTypeOK'
  <2>1. ASSUME NEW ttl \in SettleTTL(j) PROVE ttl \in Nat \ {0}
    BY <2>1 DEF SettleTTL, Present, Remaining, StoreTypeOK
  <2>2. op[j].status \in Outcomes
    BY <1>5, CallShape DEF ReadRecord
  <2>3. op' \in [Jobs -> Calls] /\ lock' \in Jobs \cup {NoJob}
    BY <1>5, <2>1, <2>2, EndType DEF ReadRecord, StoreTypeOK, Calls
  <2>. QED
    BY <1>5, <2>3 DEF ReadRecord, StoreTypeOK
<1>6. ASSUME NEW j \in Jobs, Write(j) PROVE StoreTypeOK'
  <2>1. op' \in [Jobs -> Calls] /\ lock' \in Jobs \cup {NoJob}
    <3>1. CASE op[j].phase = "record" /\ MoveTo(j, [phase |-> "index", ids |-> op[j].ids])
               /\ UNCHANGED lock
      BY <3>1, CallShape DEF StoreTypeOK, Calls
    <3>. QED
      BY <1>6, <3>1, EndType DEF Write
  <2>. QED
    BY <1>6, <2>1, PutType DEF Write, StoreTypeOK
<1>7. ASSUME NEW j \in Jobs, NEW why \in Faults, StoreFault(j, why) PROVE StoreTypeOK'
  <2>1. op' \in [Jobs -> Calls] /\ lock' \in Jobs \cup {NoJob}
    BY <1>7, EndType, FaultsAssumption DEF StoreFault, Raise, WriteUnanswered
  <2>. QED
    BY <1>7, <2>1, PutType DEF StoreFault, Raise, WriteUnanswered, StoreTypeOK
<1>8. ASSUME NEW j \in Jobs, TakeOutcome(j) PROVE StoreTypeOK'
  BY <1>8 DEF TakeOutcome, Collect, StoreTypeOK, Calls
<1>9. CASE Tick
  BY <1>9 DEF Tick, StoreTypeOK
<1>10. CASE StoreRestart
  <2>1. op' \in [Jobs -> Calls]
    BY <1>10 DEF StoreRestart, Calls
  <2>. QED
    BY <1>10, <2>1 DEF StoreRestart, StoreTypeOK, EmptyStore
<1>11. CASE UNCHANGED storeVars
  BY <1>11 DEF storeVars, StoreTypeOK
<1>. QED
  BY <1>1, <1>2, <1>3, <1>4, <1>5, <1>6, <1>7, <1>8, <1>9, <1>10, <1>11
     DEF StoreNext, StoreStep, Rest

(* The store's state is well formed: a job's record and a subject's index  *)
(* have the shape the code gives them, whatever fails or restarts.         *)
THEOREM StoreTypeCorrect == StoreSpec => []StoreTypeOK
<1>1. StoreInit => StoreTypeOK
  BY DEF StoreInit, StoreTypeOK, EmptyStore, Calls
<1>. QED
  BY <1>1, StoreTypeStep, PTL DEF StoreSpec

------------------------------------------------------------------------------
(* Expired jobs free the cap, whatever fails. *)

(* At most n ids, all of jobs of subject s. *)
Lists(ids, s, n) ==
    /\ IsFiniteSet(ids) /\ Cardinality(ids) <= n
    /\ \A i \in ids : Subject[i] = s

(* What an index lists, and what a create has read of it, fits the cap.    *)
IndexBounded ==
    /\ \A s \in DOMAIN index : Lists(index[s].value, s, Cap)
    /\ \A j \in Jobs :
          /\ op[j].phase \in {"record", "index"} => Lists(op[j].ids, Subject[j], Cap - 1)
          /\ op[j].phase = "prune" => /\ Lists(op[j].unchecked \cup op[j].live, Subject[j], Cap)
                                      /\ op[j].unchecked \cap op[j].live = {}

(* A part of a list is a list. *)
LEMMA ListsSubset ==
    ASSUME NEW s, NEW n \in Nat, NEW ids, Lists(ids, s, n), NEW part \in SUBSET ids
    PROVE  Lists(part, s, n)
  BY FS_Subset, FS_CardinalityType DEF Lists

(* What a subject's index lists fits the cap, an absent index too. *)
LEMMA IndexedLists ==
    ASSUME IndexBounded, NEW s
    PROVE  Lists(IndexedIds(s), s, Cap)
  BY FS_EmptySet, LimitsAssumption DEF IndexBounded, IndexedIds, Present, Value, Lists

(* Ids that do not fill the cap leave room for one more. *)
LEMMA NotFullLists ==
    ASSUME NEW s, NEW ids, Lists(ids, s, Cap), ~Full(ids)
    PROVE  Lists(ids, s, Cap - 1)
  BY FS_CardinalityType, LimitsAssumption DEF Lists, Full

(* Adding the new job's id to what its create read still fits the cap. *)
LEMMA AddedLists ==
    ASSUME NEW j \in Jobs, NEW ids, Lists(ids, Subject[j], Cap - 1)
    PROVE  Lists(ids \cup {j}, Subject[j], Cap)
<1>1. IsFiniteSet(ids) /\ Cardinality(ids) \in Nat /\ Cardinality(ids) <= Cap - 1
  BY FS_CardinalityType DEF Lists
<1>2. /\ IsFiniteSet(ids \cup {j})
      /\ Cardinality(ids \cup {j}) = Cardinality(ids) \/ Cardinality(ids \cup {j}) = Cardinality(ids) + 1
  BY <1>1, FS_AddElement
<1>3. Cardinality(ids \cup {j}) <= Cap
  BY <1>1, <1>2, LimitsAssumption
<1>. QED
  BY <1>2, <1>3 DEF Lists

(* The put of the index is the only one that changes what is listed. *)
LEMMA PutBounded ==
    ASSUME StoreTypeOK, IndexBounded, NEW j \in Jobs, Put1(j)
    PROVE  \A s \in DOMAIN index' : Lists(index'[s].value, s, Cap)
<1>1. CASE UNCHANGED index
  BY <1>1 DEF IndexBounded
<1>2. CASE op[j].phase = "index" /\ PutIndex(j)
  <2>1. Lists(op[j].ids \cup {j}, Subject[j], Cap)
    BY <1>2, AddedLists DEF IndexBounded
  <2>. QED
    BY <1>2, <2>1 DEF PutIndex, Put, IndexBounded
<1>. QED
  BY <1>1, <1>2 DEF Put1, PutRecord, PutSettled

(* A call that ends keeps what the others have read. *)
LEMMA EndBounded ==
    ASSUME StoreTypeOK, NEW j \in Jobs, NEW outcome, End(j, outcome),
           IndexBounded, \A s \in DOMAIN index' : Lists(index'[s].value, s, Cap)
    PROVE  IndexBounded'
  BY DEF End, IndexBounded, StoreTypeOK

(* Every action keeps the lists within the cap. *)
LEMMA IndexBoundedStep ==
    StoreTypeOK /\ IndexBounded /\ [StoreNext]_storeVars => IndexBounded'
<1>. SUFFICES ASSUME StoreTypeOK, IndexBounded, [StoreNext]_storeVars PROVE IndexBounded'
  OBVIOUS
<1>1. ASSUME NEW j \in Jobs, Begin(j) PROVE IndexBounded'
  <2>1. op'[j].phase = "wait" /\ \A i \in Jobs \ {j} : op'[i] = op[i]
    BY <1>1 DEF Begin, StartCreate, StartSettle, StoreTypeOK
  <2>. QED
    BY <1>1, <2>1 DEF Begin, IndexBounded
<1>2. ASSUME NEW j \in Jobs, Acquire(j) PROVE IndexBounded'
  <2>1. op'[j].phase = "read" /\ \A i \in Jobs \ {j} : op'[i] = op[i]
    BY <1>2, CallShape DEF Acquire, StoreTypeOK
  <2>. QED
    BY <1>2, <2>1 DEF Acquire, IndexBounded
<1>3. ASSUME NEW j \in Jobs, ReadIndex(j) PROVE IndexBounded'
  <2>. DEFINE ids == IndexedIds(Subject[j])
  <2>1. Lists(ids, Subject[j], Cap)
    BY IndexedLists
  <2>2. ~Full(ids) => Lists(ids, Subject[j], Cap - 1)
    BY <2>1, NotFullLists
  <2>. HIDE DEF ids
  <2>3. \/ ~Full(ids) /\ op' = [op EXCEPT ![j] = [phase |-> "record", ids |-> ids]]
        \/ op' = [op EXCEPT ![j] = [phase |-> "prune", unchecked |-> ids, live |-> {}]]
    BY <1>3 DEF ReadIndex, ids
  <2>4. index' = index /\ \A i \in Jobs \ {j} : op'[i] = op[i]
    BY <1>3, <2>3 DEF ReadIndex, StoreTypeOK
  <2>5. CASE ~Full(ids) /\ op' = [op EXCEPT ![j] = [phase |-> "record", ids |-> ids]]
    <3>1. op'[j].phase = "record" /\ op'[j].ids = ids
      BY <2>5 DEF StoreTypeOK
    <3>. QED
      BY <2>2, <2>4, <2>5, <3>1 DEF IndexBounded
  <2>6. CASE op' = [op EXCEPT ![j] = [phase |-> "prune", unchecked |-> ids, live |-> {}]]
    <3>1. op'[j].phase = "prune" /\ op'[j].unchecked = ids /\ op'[j].live = {}
      BY <2>6 DEF StoreTypeOK
    <3>2. op'[j].unchecked \cup op'[j].live = ids /\ op'[j].unchecked \cap op'[j].live = {}
      BY <3>1
    <3>. QED
      BY <2>1, <2>4, <3>1, <3>2 DEF IndexBounded
  <2>. QED
    BY <2>3, <2>5, <2>6
<1>4. ASSUME NEW j \in Jobs, Prune(j) PROVE IndexBounded'
  <2>. PICK i \in op[j].unchecked :
          LET live == op[j].live \cup {x \in {i} : Found(x)}
              rest == op[j].unchecked \ {i}
          IN \/ op' = [op EXCEPT ![j] = [phase |-> "prune", unchecked |-> rest, live |-> live]]
             \/ ~Full(live) /\ op' = [op EXCEPT ![j] = [phase |-> "record", ids |-> live]]
             \/ End(j, "limit")
    BY <1>4 DEF Prune
  <2>. DEFINE live == op[j].live \cup {x \in {i} : Found(x)}
              rest == op[j].unchecked \ {i}
  <2>1. /\ Lists(op[j].unchecked \cup op[j].live, Subject[j], Cap)
        /\ op[j].unchecked \cap op[j].live = {}
    BY <1>4 DEF Prune, IndexBounded
  <2>2. Lists(rest \cup live, Subject[j], Cap) /\ Lists(live, Subject[j], Cap)
    BY <2>1, ListsSubset, LimitsAssumption
  <2>3. rest \cap live = {}
    BY <2>1
  <2>4. ~Full(live) => Lists(live, Subject[j], Cap - 1)
    BY <2>2, NotFullLists
  <2>5. index' = index
    BY <1>4 DEF Prune
  <2>6. CASE op' = [op EXCEPT ![j] = [phase |-> "prune", unchecked |-> rest, live |-> live]]
    BY <2>2, <2>3, <2>5, <2>6 DEF IndexBounded, StoreTypeOK
  <2>7. CASE ~Full(live) /\ op' = [op EXCEPT ![j] = [phase |-> "record", ids |-> live]]
    BY <2>4, <2>5, <2>7 DEF IndexBounded, StoreTypeOK
  <2>8. CASE End(j, "limit")
    BY <2>5, <2>8, EndBounded DEF IndexBounded
  <2>. QED
    BY <2>6, <2>7, <2>8
<1>5. ASSUME NEW j \in Jobs, ReadRecord(j) PROVE IndexBounded'
  <2>1. index' = index /\ \A s \in DOMAIN index : Lists(index[s].value, s, Cap)
    BY <1>5 DEF ReadRecord, IndexBounded
  <2>2. ASSUME NEW ttl \in SettleTTL(j),
               op' = [op EXCEPT ![j] = [phase |-> "settle", status |-> op[j].status,
                                      ttl |-> ttl, since |-> now]]
        PROVE  IndexBounded'
    BY <2>1, <2>2 DEF IndexBounded, StoreTypeOK
  <2>. QED
    BY <1>5, <2>1, <2>2, EndBounded DEF ReadRecord
<1>6. ASSUME NEW j \in Jobs, Write(j) PROVE IndexBounded'
  <2>1. \A s \in DOMAIN index' : Lists(index'[s].value, s, Cap)
    BY <1>6, PutBounded DEF Write
  <2>2. CASE op[j].phase = "record" /\ op' = [op EXCEPT ![j] = [phase |-> "index", ids |-> op[j].ids]]
    BY <2>1, <2>2 DEF IndexBounded, StoreTypeOK
  <2>. QED
    BY <1>6, <2>1, <2>2, EndBounded DEF Write
<1>7. ASSUME NEW j \in Jobs, NEW why \in Faults, StoreFault(j, why) PROVE IndexBounded'
  <2>1. \A s \in DOMAIN index' : Lists(index'[s].value, s, Cap)
    BY <1>7, PutBounded DEF StoreFault, Raise, WriteUnanswered, IndexBounded
  <2>. QED
    BY <1>7, <2>1, EndBounded DEF StoreFault, Raise, WriteUnanswered
<1>8. ASSUME NEW j \in Jobs, TakeOutcome(j) PROVE IndexBounded'
  BY <1>8 DEF TakeOutcome, Collect, Idle, IndexBounded, StoreTypeOK
<1>9. CASE Tick
  BY <1>9 DEF Tick, IndexBounded
<1>10. CASE StoreRestart
  BY <1>10 DEF StoreRestart, Idle, EmptyStore, IndexBounded
<1>11. CASE UNCHANGED storeVars
  BY <1>11 DEF storeVars, IndexBounded
<1>. QED
  BY <1>1, <1>2, <1>3, <1>4, <1>5, <1>6, <1>7, <1>8, <1>9, <1>10, <1>11
     DEF StoreNext, StoreStep, Rest

(* Only the last lookup of a prune rejects. *)
LEMMA OnlyPruneRejects ==
    ASSUME StoreTypeOK, [StoreNext]_storeVars, NEW j \in Jobs, op[j].phase = "prune",
           op'[j] = [phase |-> "done", outcome |-> "limit"]
    PROVE  \E i \in op[j].unchecked :
              /\ op[j].unchecked \ {i} = {}
              /\ Full(op[j].live \cup {x \in {i} : Found(x)})
<1>1. op'[j].phase = "done" /\ op'[j].outcome = "limit" /\ op'[j] # op[j]
  OBVIOUS
<1>2. Prune(j)
  <2>1. \A k \in Jobs : Begin(k) \/ Acquire(k) \/ ReadIndex(k) \/ ReadRecord(k) \/ Write(k)
                           \/ TakeOutcome(k) => op'[j] = op[j]
    BY DEF Begin, StartCreate, StartSettle, Acquire, ReadIndex, ReadRecord, Write, Put1, End,
           TakeOutcome, Collect, Idle, StoreTypeOK
  <2>2. \A k \in Jobs : Prune(k) => k = j \/ op'[j] = op[j]
    BY DEF Prune, End, StoreTypeOK
  <2>3. \A k \in Jobs, why \in Faults : StoreFault(k, why) => op'[j] = op[j] \/ op'[j].outcome = why
    BY DEF StoreFault, Raise, WriteUnanswered, End, StoreTypeOK
  <2>4. \A why \in Faults : why # "limit"
    BY FaultsAssumption DEF FaultNames
  <2>5. Tick \/ UNCHANGED storeVars => op'[j] = op[j]
    BY DEF Tick, storeVars
  <2>6. StoreRestart => op'[j].phase = "idle"
    BY DEF StoreRestart, Idle
  <2>. QED
    BY <1>1, <2>1, <2>2, <2>3, <2>4, <2>5, <2>6 DEF StoreNext, StoreStep, Rest
<1>. PICK i \in op[j].unchecked :
        LET live == op[j].live \cup {x \in {i} : Found(x)}
            rest == op[j].unchecked \ {i}
        IN \/ op' = [op EXCEPT ![j] = [phase |-> "prune", unchecked |-> rest, live |-> live]]
           \/ op' = [op EXCEPT ![j] = [phase |-> "record", ids |-> live]]
           \/ rest = {} /\ Full(live)
  BY <1>2 DEF Prune
<1>. DEFINE live == op[j].live \cup {x \in {i} : Found(x)}
            rest == op[j].unchecked \ {i}
<1>3. op' # [op EXCEPT ![j] = [phase |-> "prune", unchecked |-> rest, live |-> live]]
  BY <1>1 DEF StoreTypeOK
<1>4. op' # [op EXCEPT ![j] = [phase |-> "record", ids |-> live]]
  BY <1>1 DEF StoreTypeOK
<1>5. rest = {} /\ Full(live)
  BY <1>3, <1>4
<1>. QED
  BY <1>5

(* A rejecting create has just found one of its subject's records live. *)
LEMMA RejectionFoundLive ==
    ASSUME StoreTypeOK, IndexBounded, [StoreNext]_storeVars,
           NEW j \in Jobs, op[j].phase = "prune",
           op'[j] = [phase |-> "done", outcome |-> "limit"]
    PROVE  LiveRecords(Subject[j]) # {}
<1>. PICK i \in op[j].unchecked : /\ op[j].unchecked \ {i} = {}
                                  /\ Full(op[j].live \cup {x \in {i} : Found(x)})
  BY OnlyPruneRejects
<1>1. Lists(op[j].unchecked \cup op[j].live, Subject[j], Cap) /\ i \notin op[j].live
  BY DEF IndexBounded
<1>2. Found(i)
  <2>. SUFFICES ASSUME ~Found(i) PROVE FALSE
    OBVIOUS
  <2>1. op[j].live \cup {x \in {i} : Found(x)} = op[j].live
    OBVIOUS
  <2>2. op[j].unchecked \cup op[j].live = op[j].live \cup {i}
    OBVIOUS
  <2>3. IsFiniteSet(op[j].live)
    BY <1>1, FS_Subset DEF Lists
  <2>4. Cardinality(op[j].live \cup {i}) = Cardinality(op[j].live) + 1
    BY <1>1, <2>3, FS_AddElement
  <2>5. Cardinality(op[j].live) >= Cap
    BY <2>1 DEF Full
  <2>6. Cardinality(op[j].live \cup {i}) <= Cap
    BY <1>1, <2>2 DEF Lists
  <2>7. Cardinality(op[j].live) \in Nat
    BY <2>3, FS_CardinalityType
  <2>. QED
    BY <2>4, <2>5, <2>6, <2>7, LimitsAssumption
<1>3. Subject[i] = Subject[j]
  BY <1>1 DEF Lists
<1>4. i \in LiveRecords(Subject[j])
  BY <1>2, <1>3 DEF Found, Present, LiveRecords, LiveKeys
<1>. QED
  BY <1>4

(* A subject none of whose records is live is never turned away, whatever  *)
(* its index still lists and whatever failed before.                       *)
THEOREM ExpiredFreeTheCap == StoreSpec => ExpiredJobsFreeTheCap
<1>1. StoreInit => IndexBounded
  BY DEF StoreInit, EmptyStore, Idle, IndexBounded
<1>2. StoreSpec => [](StoreTypeOK /\ IndexBounded)
  BY <1>1, IndexBoundedStep, StoreTypeCorrect, PTL DEF StoreSpec
<1>3. StoreTypeOK /\ IndexBounded /\ [StoreNext]_storeVars =>
         [\A j \in Jobs : op[j].phase = "prune" /\ op'[j] = [phase |-> "done", outcome |-> "limit"]
             => LiveRecords(Subject[j]) # {}]_storeVars
  BY RejectionFoundLive
<1>. QED
  BY <1>2, <1>3, PTL DEF StoreSpec, ExpiredJobsFreeTheCap

------------------------------------------------------------------------------
(* The cap and the index that covers every live record, while no await     *)
(* fails, a settle's put follows its read at once and a restart that       *)
(* spares the collections does not happen.                                 *)

Quiet == Faults = {} /\ ~SlowBackend /\ (Durable => MaxRestarts = 0)

(* The phases from `async with self._lock` on. *)
Critical(j) == op[j].phase \in {"read", "prune", "record", "index", "settle"}

(* Between the phases of create before its put. *)
Unwritten(j) == \/ op[j].phase \in {"wait", "read"} /\ op[j].name = "create"
                \/ op[j].phase \in {"prune", "record"}

LockHeld == \A j \in Jobs : Critical(j) => lock = j

(* No record outlives a retention window opened now. *)
Pinned == \A j \in DOMAIN records : records[j].expires <= now + ResultTTL

(* A job has no record before its own create writes one. *)
Fresh == \A j \in Jobs : Unwritten(j) => j \notin DOMAIN records

(* A settle writes back what is left of a record that is still there. *)
Settling == \A j \in Jobs : op[j].phase = "settle" =>
               Present(records, j, now) /\ op[j].ttl = Remaining(records, j, now)

(* A live record is in its subject's index, which lives at least as long.  *)
Covered == \A i \in LiveKeys(records, now) : op[i].phase # "index" =>
              /\ Subject[i] \in DOMAIN index
              /\ i \in index[Subject[i]].value
              /\ records[i].expires <= index[Subject[i]].expires

(* What a create has read of its subject misses no live record. *)
Snapshot == \A j \in Jobs : \A i \in LiveRecords(Subject[j]) :
               /\ op[j].phase = "prune" => i \in op[j].unchecked \cup op[j].live
               /\ op[j].phase = "record" => i \in op[j].ids
               /\ op[j].phase = "index" => i \in op[j].ids \cup {j}

CapInv == LockHeld /\ Pinned /\ Fresh /\ Settling /\ Covered /\ Snapshot

USE DEF Critical, Unwritten

(* While j holds the lock no other call is in its critical section. *)
LEMMA OthersOutside ==
    ASSUME LockHeld, NEW j \in Jobs, Critical(j), NEW i \in Jobs, i # j
    PROVE  ~Critical(i)
  BY DEF LockHeld

(* A step of j's call that writes nothing and keeps the other calls only   *)
(* has to answer for what j is at now.                                     *)
LEMMA CallMoves ==
    ASSUME StoreTypeOK, CapInv, NEW j \in Jobs, UNCHANGED <<now, records, index>>,
           \A i \in Jobs \ {j} : op'[i] = op[i],
           op[j].phase # "index", op'[j].phase \notin {"index"},
           \A i \in Jobs : Critical(i)' => lock' = i,
           Unwritten(j)' => j \notin DOMAIN records,
           op'[j].phase = "settle" => Present(records, j, now) /\ op'[j].ttl = Remaining(records, j, now),
           \A i \in LiveRecords(Subject[j]) :
              /\ op'[j].phase = "prune" => i \in op'[j].unchecked \cup op'[j].live
              /\ op'[j].phase = "record" => i \in op'[j].ids
    PROVE  CapInv'
<1>1. \A s : LiveRecords(s)' = LiveRecords(s)
  BY DEF LiveRecords, LiveKeys
<1>2. LockHeld'
  BY DEF LockHeld
<1>3. Pinned'
  BY DEF CapInv, Pinned
<1>4. Fresh'
  BY DEF CapInv, Fresh
<1>5. Settling'
  BY DEF CapInv, Settling, Present, Remaining
<1>6. Covered'
  BY DEF CapInv, Covered, LiveKeys, StoreTypeOK
<1>7. Snapshot'
  BY <1>1 DEF CapInv, Snapshot
<1>. QED
  BY <1>2, <1>3, <1>4, <1>5, <1>6, <1>7 DEF CapInv

(* The lock passes from a call that ends to nobody. *)
LEMMA EndMoves ==
    ASSUME StoreTypeOK, LockHeld, NEW j \in Jobs, NEW outcome, End(j, outcome), Critical(j)
    PROVE  /\ op'[j].phase = "done" /\ \A i \in Jobs \ {j} : op'[i] = op[i]
           /\ \A i \in Jobs : Critical(i)' => lock' = i
  BY DEF LockHeld, End, StoreTypeOK

(* create's read of the index sees every live record of its subject: no    *)
(* other create is between its two puts.                                   *)
LEMMA IndexReadComplete ==
    ASSUME StoreTypeOK, CapInv, NEW j \in Jobs, op[j].phase = "read",
           NEW i \in LiveRecords(Subject[j])
    PROVE  i \in IndexedIds(Subject[j])
<1>1. i \in Jobs /\ i \in LiveKeys(records, now) /\ Subject[i] = Subject[j]
  BY DEF LiveRecords, LiveKeys, StoreTypeOK
<1>2. op[i].phase # "index"
  BY <1>1, OthersOutside DEF CapInv
<1>3. now < records[i].expires /\ records[i].expires \in Nat
  BY <1>1 DEF LiveKeys, StoreTypeOK
<1>4. /\ Subject[i] \in DOMAIN index /\ i \in index[Subject[i]].value
      /\ records[i].expires <= index[Subject[i]].expires
  BY <1>1, <1>2 DEF CapInv, Covered
<1>5. now \in Nat /\ index[Subject[i]].expires \in Nat
  BY <1>4 DEF StoreTypeOK
<1>6. Present(index, Subject[j], now)
  BY <1>1, <1>3, <1>4, <1>5 DEF Present
<1>. QED
  BY <1>1, <1>4, <1>6 DEF IndexedIds, Value

(* The put of a record opens its window, and leaves its create between its *)
(* two puts with every other live record still in sight.                   *)
LEMMA RecordPutKeeps ==
    ASSUME StoreTypeOK, CapInv, NEW j \in Jobs, op[j].phase = "record", PutRecord(j),
           op' = [op EXCEPT ![j] = [phase |-> "index", ids |-> op[j].ids]], UNCHANGED lock
    PROVE  CapInv'
<1>1. /\ op'[j].phase = "index" /\ op'[j].ids = op[j].ids
      /\ \A i \in Jobs \ {j} : op'[i] = op[i]
  BY DEF StoreTypeOK
<1>2. /\ DOMAIN records' = DOMAIN records \cup {j}
      /\ records'[j].expires = now + ResultTTL
      /\ \A i \in DOMAIN records : i # j => records'[i] = records[i]
      /\ UNCHANGED <<now, index>>
  BY DEF PutRecord, Put
<1>3. \A i \in LiveKeys(records, now)' : i # j => i \in LiveKeys(records, now)
  BY <1>2 DEF LiveKeys
<1>4. \A i \in Jobs : i # j => ~Critical(i) /\ ~Critical(i)'
  BY <1>1, OthersOutside DEF CapInv
<1>5. LockHeld'
  BY <1>1, <1>4 DEF CapInv, LockHeld
<1>6. Pinned'
  <2>1. now + ResultTTL <= now + ResultTTL
    BY LimitsAssumption DEF StoreTypeOK
  <2>. QED
    BY <1>2, <2>1 DEF CapInv, Pinned
<1>7. Fresh'
  BY <1>1, <1>2 DEF CapInv, Fresh
<1>8. Settling'
  BY <1>1, <1>4 DEF Settling
<1>9. Covered'
  BY <1>1, <1>2, <1>3 DEF CapInv, Covered, StoreTypeOK, LiveKeys
<1>10. Snapshot'
  <2>1. \A i \in LiveRecords(Subject[j])' : i # j => i \in LiveRecords(Subject[j])
    BY <1>3 DEF LiveRecords
  <2>2. \A i \in LiveRecords(Subject[j])' : i \in op'[j].ids \cup {j}
    BY <1>1, <2>1 DEF CapInv, Snapshot
  <2>. QED
    BY <1>1, <1>4, <2>2 DEF Snapshot
<1>. QED
  BY <1>5, <1>6, <1>7, <1>8, <1>9, <1>10 DEF CapInv

(* The put of the index takes the new id in and outlives every record.     *)
LEMMA IndexPutKeeps ==
    ASSUME StoreTypeOK, CapInv, NEW j \in Jobs, op[j].phase = "index", PutIndex(j),
           NEW outcome, End(j, outcome)
    PROVE  CapInv'
<1>1. /\ op'[j].phase = "done" /\ \A i \in Jobs \ {j} : op'[i] = op[i]
      /\ \A i \in Jobs : Critical(i)' => lock' = i
  BY EndMoves DEF CapInv
<1>2. /\ DOMAIN index' = DOMAIN index \cup {Subject[j]}
      /\ index'[Subject[j]].value = op[j].ids \cup {j}
      /\ index'[Subject[j]].expires = now + ResultTTL
      /\ \A s \in DOMAIN index : s # Subject[j] => index'[s] = index[s]
      /\ UNCHANGED <<now, records>>
  BY DEF PutIndex, Put
<1>3. LiveKeys(records, now)' = LiveKeys(records, now) /\ \A s : LiveRecords(s)' = LiveRecords(s)
  BY <1>2 DEF LiveKeys, LiveRecords
<1>4. LockHeld'
  BY <1>1 DEF LockHeld
<1>5. Pinned' /\ Settling'
  BY <1>1, <1>2 DEF CapInv, Pinned, Settling, Present, Remaining
<1>6. Fresh'
  BY <1>1, <1>2 DEF CapInv, Fresh
<1>7. Covered'
  <2>. SUFFICES ASSUME NEW i \in LiveKeys(records, now), op'[i].phase # "index"
                PROVE  /\ Subject[i] \in DOMAIN index' /\ i \in index'[Subject[i]].value
                       /\ records[i].expires <= index'[Subject[i]].expires
    BY <1>2, <1>3 DEF Covered
  <2>1. i \in Jobs /\ i \in DOMAIN records
    BY DEF LiveKeys, StoreTypeOK
  <2>2. CASE Subject[i] = Subject[j]
    <3>1. i \in LiveRecords(Subject[j])
      BY <2>2 DEF LiveRecords
    <3>2. i \in op[j].ids \cup {j}
      BY <3>1 DEF CapInv, Snapshot
    <3>3. records[i].expires <= now + ResultTTL
      BY <2>1 DEF CapInv, Pinned
    <3>. QED
      BY <1>2, <2>2, <3>2, <3>3
  <2>3. CASE Subject[i] # Subject[j]
    <3>1. op[i].phase # "index"
      BY <1>1, <2>1, <2>3
    <3>2. /\ Subject[i] \in DOMAIN index /\ i \in index[Subject[i]].value
          /\ records[i].expires <= index[Subject[i]].expires
      BY <3>1 DEF CapInv, Covered
    <3>. QED
      BY <1>2, <2>3, <3>2
  <2>. QED
    BY <2>2, <2>3
<1>8. Snapshot'
  BY <1>1, <1>3 DEF CapInv, Snapshot
<1>. QED
  BY <1>4, <1>5, <1>6, <1>7, <1>8 DEF CapInv

(* A settle's put leaves a record's expiry where it was. *)
LEMMA SettleExpiry ==
    ASSUME StoreTypeOK, CapInv, NEW j \in Jobs, op[j].phase = "settle", PutSettled(j)
    PROVE  /\ DOMAIN records' = DOMAIN records /\ UNCHANGED <<now, index>>
           /\ \A i \in DOMAIN records : records'[i].expires = records[i].expires
<1>1. j \in DOMAIN records /\ op[j].ttl = records[j].expires - now
  BY DEF CapInv, Settling, Present, Remaining
<1>2. now \in Nat /\ records[j].expires \in Nat
  BY <1>1 DEF StoreTypeOK
<1>3. now + op[j].ttl = records[j].expires
  BY <1>1, <1>2
<1>. QED
  BY <1>1, <1>3 DEF PutSettled, Put

(* So a settle disturbs neither the index's cover nor a create's snapshot. *)
LEMMA SettlePutKeeps ==
    ASSUME StoreTypeOK, CapInv, NEW j \in Jobs, op[j].phase = "settle", PutSettled(j),
           NEW outcome, End(j, outcome)
    PROVE  CapInv'
<1>1. /\ op'[j].phase = "done" /\ \A i \in Jobs \ {j} : op'[i] = op[i]
      /\ \A i \in Jobs : Critical(i)' => lock' = i
  BY EndMoves DEF CapInv
<1>2. /\ DOMAIN records' = DOMAIN records /\ UNCHANGED <<now, index>>
      /\ \A i \in DOMAIN records : records'[i].expires = records[i].expires
  BY SettleExpiry
<1>3. LiveKeys(records, now)' = LiveKeys(records, now) /\ \A s : LiveRecords(s)' = LiveRecords(s)
  BY <1>2 DEF LiveKeys, LiveRecords
<1>4. LockHeld'
  BY <1>1 DEF LockHeld
<1>5. Pinned' /\ Settling'
  BY <1>1, <1>2 DEF CapInv, Pinned, Settling, Present, Remaining
<1>6. Fresh'
  BY <1>1, <1>2 DEF CapInv, Fresh
<1>7. Covered'
  BY <1>1, <1>2, <1>3 DEF CapInv, Covered, LiveKeys, StoreTypeOK
<1>8. Snapshot'
  BY <1>1, <1>3 DEF CapInv, Snapshot
<1>. QED
  BY <1>4, <1>5, <1>6, <1>7, <1>8 DEF CapInv

(* Time only takes live records away, and spares a settle's window. *)
LEMMA TickKeeps ==
    ASSUME StoreTypeOK, CapInv, Quiet, Tick
    PROVE  CapInv'
<1>1. now' = now + 1 /\ UNCHANGED <<records, index, lock, op>> /\ now \in Nat
  BY DEF Tick, StoreTypeOK
<1>2. LiveKeys(records, now)' \subseteq LiveKeys(records, now)
  BY <1>1 DEF LiveKeys, StoreTypeOK
<1>3. \A s : LiveRecords(s)' \subseteq LiveRecords(s)
  BY <1>1, <1>2 DEF LiveRecords
<1>4. LockHeld' /\ Fresh'
  BY <1>1 DEF CapInv, LockHeld, Fresh
<1>5. Pinned'
  <2>. SUFFICES ASSUME NEW i \in DOMAIN records PROVE records[i].expires <= (now + 1) + ResultTTL
    BY <1>1 DEF Pinned
  <2>1. records[i].expires \in Nat /\ records[i].expires <= now + ResultTTL
    BY DEF CapInv, Pinned, StoreTypeOK
  <2>. QED
    BY <1>1, <2>1, LimitsAssumption
<1>6. Settling'
  BY <1>1 DEF Quiet, Tick, Settling
<1>7. Covered'
  BY <1>1, <1>2 DEF CapInv, Covered
<1>8. Snapshot'
  BY <1>1, <1>3 DEF CapInv, Snapshot
<1>. QED
  BY <1>4, <1>5, <1>6, <1>7, <1>8 DEF CapInv

(* A restart that empties the collections leaves nothing to account for.   *)
LEMMA RestartKeeps ==
    ASSUME StoreTypeOK, Quiet, StoreRestart
    PROVE  CapInv'
<1>1. ~Durable
  BY BoundsAssumption DEF StoreTypeOK, Quiet, StoreRestart
<1>2. DOMAIN records' = {} /\ \A j \in Jobs : op'[j].phase = "idle"
  BY <1>1 DEF StoreRestart, EmptyStore, Idle
<1>3. LiveKeys(records, now)' = {} /\ \A s : LiveRecords(s)' = {}
  BY <1>2 DEF LiveKeys, LiveRecords
<1>. QED
  BY <1>2, <1>3 DEF CapInv, LockHeld, Pinned, Fresh, Settling, Covered, Snapshot

(* Every action keeps the invariant. *)
LEMMA CapInvStep ==
    Quiet /\ StoreTypeOK /\ CapInv /\ [StoreNext]_storeVars => CapInv'
<1>. SUFFICES ASSUME Quiet, StoreTypeOK, CapInv, [StoreNext]_storeVars PROVE CapInv'
  OBVIOUS
<1>1. ASSUME NEW j \in Jobs, Begin(j) PROVE CapInv'
  <2>1. /\ op[j].phase = "idle" /\ op'[j].phase = "wait" /\ \A i \in Jobs \ {j} : op'[i] = op[i]
        /\ Unwritten(j)' => j \notin DOMAIN records
        /\ UNCHANGED <<now, records, index, lock>>
    BY <1>1 DEF Begin, StartCreate, StartSettle, Idle, StoreTypeOK
  <2>2. \A i \in Jobs : Critical(i)' => lock' = i
    BY <2>1 DEF CapInv, LockHeld
  <2>. QED
    BY <2>1, <2>2, CallMoves
<1>2. ASSUME NEW j \in Jobs, Acquire(j) PROVE CapInv'
  <2>1. /\ op[j].phase = "wait" /\ op'[j].phase = "read" /\ \A i \in Jobs \ {j} : op'[i] = op[i]
        /\ op'[j].name = "create" => op[j].name = "create"
        /\ UNCHANGED <<now, records, index>> /\ lock = NoJob /\ lock' = j
    BY <1>2, CallShape DEF Acquire, StoreTypeOK, Calls, Idle
  <2>2. \A i \in Jobs : ~Critical(i)
    BY <2>1, JobsAssumption DEF CapInv, LockHeld
  <2>3. \A i \in Jobs : Critical(i)' => lock' = i
    BY <2>1, <2>2
  <2>4. Unwritten(j)' => j \notin DOMAIN records
    BY <2>1 DEF CapInv, Fresh
  <2>. QED
    BY <2>1, <2>3, <2>4, CallMoves
<1>3. ASSUME NEW j \in Jobs, ReadIndex(j) PROVE CapInv'
  <2>. DEFINE ids == IndexedIds(Subject[j])
  <2>1. \A i \in LiveRecords(Subject[j]) : i \in ids
    BY <1>3, IndexReadComplete DEF ReadIndex
  <2>. HIDE DEF ids
  <2>2. /\ op[j].phase = "read" /\ op[j].name = "create"
        /\ UNCHANGED <<now, records, index, lock>>
        /\ \/ op' = [op EXCEPT ![j] = [phase |-> "record", ids |-> ids]]
           \/ op' = [op EXCEPT ![j] = [phase |-> "prune", unchecked |-> ids, live |-> {}]]
    BY <1>3 DEF ReadIndex, ids
  <2>3. /\ \/ op'[j].phase = "record" /\ op'[j].ids = ids
           \/ op'[j].phase = "prune" /\ op'[j].unchecked = ids
        /\ \A i \in Jobs \ {j} : op'[i] = op[i]
    BY <2>2 DEF StoreTypeOK
  <2>4. \A i \in Jobs : Critical(i)' => lock' = i
    BY <2>2, <2>3 DEF CapInv, LockHeld
  <2>5. j \notin DOMAIN records
    BY <2>2 DEF CapInv, Fresh
  <2>. QED
    BY <2>1, <2>2, <2>3, <2>4, <2>5, CallMoves
<1>4. ASSUME NEW j \in Jobs, Prune(j) PROVE CapInv'
  <2>. PICK i \in op[j].unchecked :
          LET live == op[j].live \cup {x \in {i} : Found(x)}
              rest == op[j].unchecked \ {i}
          IN \/ op' = [op EXCEPT ![j] = [phase |-> "prune", unchecked |-> rest, live |-> live]]
                   /\ UNCHANGED lock
             \/ rest = {} /\ op' = [op EXCEPT ![j] = [phase |-> "record", ids |-> live]]
                   /\ UNCHANGED lock
             \/ End(j, "limit")
    BY <1>4 DEF Prune
  <2>. DEFINE live == op[j].live \cup {x \in {i} : Found(x)}
              rest == op[j].unchecked \ {i}
  <2>1. op[j].phase = "prune" /\ UNCHANGED <<now, records, index>>
    BY <1>4 DEF Prune
  <2>2. j \notin DOMAIN records
    BY <2>1 DEF CapInv, Fresh
  <2>3. \A x \in LiveRecords(Subject[j]) : Found(x)
    BY DEF LiveRecords, LiveKeys, Found, Present
  <2>4. \A x \in LiveRecords(Subject[j]) : x \in rest \cup live
    BY <2>1, <2>3 DEF CapInv, Snapshot
  <2>5. rest = {} => \A x \in LiveRecords(Subject[j]) : x \in live
    BY <2>4
  <2>6. CASE End(j, "limit")
    BY <2>1, <2>6, EndMoves, CallMoves DEF CapInv
  <2>7. CASE /\ op' = [op EXCEPT ![j] = [phase |-> "prune", unchecked |-> rest, live |-> live]]
             /\ UNCHANGED lock
    <3>. HIDE DEF rest, live
    <3>1. /\ op'[j].phase = "prune" /\ op'[j].unchecked = rest /\ op'[j].live = live
          /\ \A x \in Jobs \ {j} : op'[x] = op[x]
      BY <2>7 DEF StoreTypeOK
    <3>2. \A x \in Jobs : Critical(x)' => lock' = x
      BY <2>1, <2>7, <3>1 DEF CapInv, LockHeld
    <3>. QED
      BY <2>1, <2>2, <2>4, <3>1, <3>2, CallMoves
  <2>8. CASE /\ rest = {} /\ op' = [op EXCEPT ![j] = [phase |-> "record", ids |-> live]]
             /\ UNCHANGED lock
    <3>. HIDE DEF rest, live
    <3>1. /\ op'[j].phase = "record" /\ op'[j].ids = live
          /\ \A x \in Jobs \ {j} : op'[x] = op[x]
      BY <2>8 DEF StoreTypeOK
    <3>2. \A x \in Jobs : Critical(x)' => lock' = x
      BY <2>1, <2>8, <3>1 DEF CapInv, LockHeld
    <3>. QED
      BY <2>1, <2>2, <2>5, <2>8, <3>1, <3>2, CallMoves
  <2>. QED
    BY <2>6, <2>7, <2>8
<1>5. ASSUME NEW j \in Jobs, ReadRecord(j) PROVE CapInv'
  <2>1. op[j].phase = "read" /\ op[j].name = "settle" /\ UNCHANGED <<now, records, index>>
    BY <1>5 DEF ReadRecord
  <2>2. CASE End(j, "ok")
    BY <2>1, <2>2, EndMoves, CallMoves DEF CapInv
  <2>3. ASSUME NEW ttl \in SettleTTL(j), UNCHANGED lock,
               op' = [op EXCEPT ![j] = [phase |-> "settle", status |-> op[j].status,
                                      ttl |-> ttl, since |-> now]]
        PROVE  CapInv'
    <3>1. /\ op'[j].phase = "settle" /\ op'[j].ttl = ttl
          /\ \A i \in Jobs \ {j} : op'[i] = op[i]
      BY <2>3 DEF StoreTypeOK
    <3>2. Present(records, j, now) /\ ttl = Remaining(records, j, now)
      BY <2>3 DEF SettleTTL
    <3>3. \A i \in Jobs : Critical(i)' => lock' = i
      BY <2>1, <2>3, <3>1 DEF CapInv, LockHeld
    <3>. QED
      BY <2>1, <3>1, <3>2, <3>3, CallMoves
  <2>. QED
    BY <1>5, <2>2, <2>3 DEF ReadRecord
<1>6. ASSUME NEW j \in Jobs, Write(j) PROVE CapInv'
  BY <1>6, RecordPutKeeps, IndexPutKeeps, SettlePutKeeps DEF Write, Put1
<1>7. ASSUME NEW j \in Jobs, TakeOutcome(j) PROVE CapInv'
  <2>1. /\ op[j].phase = "done" /\ op'[j].phase = "idle" /\ \A i \in Jobs \ {j} : op'[i] = op[i]
        /\ UNCHANGED <<now, records, index, lock>>
    BY <1>7 DEF TakeOutcome, Collect, Idle, StoreTypeOK
  <2>2. \A i \in Jobs : Critical(i)' => lock' = i
    BY <2>1 DEF CapInv, LockHeld
  <2>. QED
    BY <2>1, <2>2, CallMoves
<1>8. CASE Tick
  BY <1>8, TickKeeps
<1>9. CASE StoreRestart
  BY <1>9, RestartKeeps
<1>10. CASE UNCHANGED storeVars
  BY <1>10 DEF storeVars, CapInv, LockHeld, Pinned, Fresh, Settling, Covered, Snapshot,
               LiveRecords, LiveKeys, Present, Remaining
<1>. QED
  BY <1>1, <1>2, <1>3, <1>4, <1>5, <1>6, <1>7, <1>8, <1>9, <1>10
     DEF StoreNext, StoreStep, Rest, Quiet

(* The initial state satisfies it. *)
LEMMA CapInvInit == StoreInit => CapInv
  BY DEF StoreInit, EmptyStore, Idle, CapInv, LockHeld, Pinned, Fresh, Settling, Covered,
         Snapshot, LiveRecords, LiveKeys

(* The invariant the two theorems below rest on. *)
THEOREM CapInductive == Quiet /\ StoreSpec => [](StoreTypeOK /\ IndexBounded /\ CapInv)
<1>1. StoreInit => StoreTypeOK /\ IndexBounded /\ CapInv
  BY CapInvInit DEF StoreInit, StoreTypeOK, EmptyStore, Calls, Idle, IndexBounded
<1>. DEFINE Inv == Quiet /\ StoreTypeOK /\ IndexBounded /\ CapInv
<1>2. Inv /\ [StoreNext]_storeVars => Inv'
  <2>1. Quiet => Quiet'
    BY DEF Quiet
  <2>. QED
    BY <2>1, StoreTypeStep, IndexBoundedStep, CapInvStep
<1>3. Quiet /\ StoreSpec => []Inv
  BY <1>1, <1>2, PTL DEF StoreSpec
<1>. QED
  BY <1>3, PTL

(* A live record of s is listed by its index or by the create under way.   *)
LEMMA LiveFitCap ==
    ASSUME StoreTypeOK, IndexBounded, CapInv, NEW s \in Scopes
    PROVE  Cardinality(LiveRecords(s)) <= Cap
<1>1. ASSUME NEW j \in Jobs, Subject[j] = s, op[j].phase = "index"
      PROVE  Cardinality(LiveRecords(s)) <= Cap
  <2>1. Lists(op[j].ids \cup {j}, s, Cap)
    BY <1>1, AddedLists DEF IndexBounded
  <2>2. LiveRecords(s) \subseteq op[j].ids \cup {j}
    BY <1>1 DEF CapInv, Snapshot
  <2>. QED
    BY <2>1, <2>2, ListsSubset, LimitsAssumption DEF Lists
<1>2. ASSUME \A j \in Jobs : Subject[j] = s => op[j].phase # "index"
      PROVE  Cardinality(LiveRecords(s)) <= Cap
  <2>1. LiveRecords(s) \subseteq Jobs
    BY DEF LiveRecords, LiveKeys, StoreTypeOK
  <2>2. CASE LiveRecords(s) = {}
    BY <2>2, FS_EmptySet, LimitsAssumption
  <2>3. CASE LiveRecords(s) # {}
    <3>1. s \in DOMAIN index /\ LiveRecords(s) \subseteq index[s].value
      BY <1>2, <2>1, <2>3 DEF CapInv, Covered, LiveRecords
    <3>2. Lists(index[s].value, s, Cap)
      BY <3>1 DEF IndexBounded
    <3>. QED
      BY <3>1, <3>2, ListsSubset, LimitsAssumption DEF Lists
  <2>. QED
    BY <2>2, <2>3
<1>. QED
  BY <1>1, <1>2

(* A subject never has more live records than the cap allows. *)
THEOREM CapCorrect == Quiet /\ StoreSpec => []CapRespected
<1>1. StoreTypeOK /\ IndexBounded /\ CapInv => CapRespected
  BY LiveFitCap DEF CapRespected
<1>. QED
  BY <1>1, CapInductive, PTL

(* Once its create has returned, a live record is in its subject's index.  *)
THEOREM IndexCoversLive == Quiet /\ StoreSpec => []LiveRecordsAreIndexed
<1>1. ASSUME StoreTypeOK, CapInv, NEW j \in LiveKeys(records, now), ~InPhase(j, {"index"})
      PROVE  j \in IndexedIds(Subject[j])
  <2>1. /\ Subject[j] \in DOMAIN index /\ j \in index[Subject[j]].value
        /\ records[j].expires <= index[Subject[j]].expires
    BY <1>1 DEF CapInv, Covered
  <2>2. now < records[j].expires /\ records[j].expires \in Nat
    BY <1>1 DEF LiveKeys, StoreTypeOK
  <2>3. now \in Nat /\ index[Subject[j]].expires \in Nat
    BY <1>1, <2>1 DEF StoreTypeOK
  <2>. QED
    BY <2>1, <2>2, <2>3 DEF IndexedIds, Present, Value
<1>2. StoreTypeOK /\ CapInv => LiveRecordsAreIndexed
  BY <1>1 DEF LiveRecordsAreIndexed
<1>. QED
  BY <1>2, CapInductive, PTL

------------------------------------------------------------------------------
(* Retention, whatever fails, is slow or restarts. *)

(* A settle's write would have left the expiry alone at its read.          *)
Anchored == \A j \in Jobs : op[j].phase = "settle" =>
               j \in DOMAIN records /\ op[j].since + op[j].ttl = records[j].expires

Windows == Fresh /\ Anchored

(* A call's step that leaves the records alone answers for its own phase.  *)
LEMMA WindowsMove ==
    ASSUME Windows, NEW j \in Jobs, UNCHANGED records, \A i \in Jobs \ {j} : op'[i] = op[i],
           Unwritten(j)' => j \notin DOMAIN records,
           op'[j].phase = "settle" =>
              j \in DOMAIN records /\ op'[j].since + op'[j].ttl = records[j].expires
    PROVE  Windows'
  BY DEF Windows, Fresh, Anchored

(* A put concerns its own record only, and a settle's is never late by     *)
(* more than its delay.                                                    *)
LEMMA PutMoves ==
    ASSUME StoreTypeOK, Windows, NEW j \in Jobs, Put1(j)
    PROVE  /\ now' = now
           /\ DOMAIN records \subseteq DOMAIN records' /\ DOMAIN records' \subseteq DOMAIN records \cup {j}
           /\ \A i \in DOMAIN records : i # j => records'[i] = records[i]
           /\ j \in DOMAIN records =>
                 \/ records'[j].expires = records[j].expires
                 \/ /\ op[j].phase = "settle"
                    /\ records'[j].expires = records[j].expires + (now - op[j].since)
<1>1. CASE op[j].phase = "record" /\ PutRecord(j)
  <2>1. j \notin DOMAIN records
    BY <1>1 DEF Windows, Fresh
  <2>. QED
    BY <1>1, <2>1, PutType DEF PutRecord, Put
<1>2. CASE op[j].phase = "index" /\ PutIndex(j)
  BY <1>2, PutType DEF PutIndex
<1>3. CASE op[j].phase = "settle" /\ PutSettled(j)
  <2>1. j \in DOMAIN records /\ op[j].since + op[j].ttl = records[j].expires
    BY <1>3 DEF Windows, Anchored
  <2>2. now \in Nat /\ op[j].ttl \in Nat /\ op[j].since \in Nat
    BY <1>3, CallShape DEF StoreTypeOK
  <2>3. /\ DOMAIN records' = DOMAIN records \cup {j} /\ records'[j].expires = now + op[j].ttl
        /\ \A i \in DOMAIN records : i # j => records'[i] = records[i]
    BY <1>3 DEF PutSettled, Put
  <2>. QED
    BY <1>3, <2>1, <2>2, <2>3, PutType
<1>. QED
  BY <1>1, <1>2, <1>3 DEF Put1

(* A call that puts is past its own windows then.                          *)
LEMMA WindowsPut ==
    ASSUME StoreTypeOK, Windows, NEW j \in Jobs, Put1(j), \A i \in Jobs \ {j} : op'[i] = op[i],
           op'[j].phase \in {"index", "done"}
    PROVE  Windows'
<1>1. \A i \in Jobs : i # j => (i \in DOMAIN records' <=> i \in DOMAIN records)
                              /\ (i \in DOMAIN records => records'[i] = records[i])
  BY PutMoves
<1>. QED
  BY <1>1 DEF Windows, Fresh, Anchored

(* Every action keeps the windows. *)
LEMMA WindowsStep == StoreTypeOK /\ Windows /\ [StoreNext]_storeVars => Windows'
<1>. SUFFICES ASSUME StoreTypeOK, Windows, [StoreNext]_storeVars PROVE Windows'
  OBVIOUS
<1>1. ASSUME NEW j \in Jobs, Begin(j) PROVE Windows'
  <2>1. /\ op'[j].phase = "wait" /\ \A i \in Jobs \ {j} : op'[i] = op[i]
        /\ Unwritten(j)' => j \notin DOMAIN records
        /\ UNCHANGED records
    BY <1>1 DEF Begin, StartCreate, StartSettle, StoreTypeOK
  <2>. QED
    BY <2>1, WindowsMove
<1>2. ASSUME NEW j \in Jobs, Acquire(j) PROVE Windows'
  <2>1. /\ op[j].phase = "wait" /\ op'[j].phase = "read" /\ \A i \in Jobs \ {j} : op'[i] = op[i]
        /\ op'[j].name = "create" => op[j].name = "create"
        /\ UNCHANGED records
    BY <1>2, CallShape DEF Acquire, StoreTypeOK, Calls, Idle
  <2>2. Unwritten(j)' => j \notin DOMAIN records
    BY <2>1 DEF Windows, Fresh
  <2>. QED
    BY <2>1, <2>2, WindowsMove
<1>3. ASSUME NEW j \in Jobs, ReadIndex(j) PROVE Windows'
  <2>1. /\ op'[j].phase \in {"record", "prune"} /\ \A i \in Jobs \ {j} : op'[i] = op[i]
        /\ UNCHANGED records
    BY <1>3 DEF ReadIndex, StoreTypeOK
  <2>2. j \notin DOMAIN records
    BY <1>3 DEF ReadIndex, Windows, Fresh
  <2>. QED
    BY <2>1, <2>2, WindowsMove
<1>4. ASSUME NEW j \in Jobs, Prune(j) PROVE Windows'
  <2>1. /\ op'[j].phase \in {"record", "prune", "done"} /\ \A i \in Jobs \ {j} : op'[i] = op[i]
        /\ UNCHANGED records
    BY <1>4 DEF Prune, End, StoreTypeOK
  <2>2. j \notin DOMAIN records
    BY <1>4 DEF Prune, Windows, Fresh
  <2>. QED
    BY <2>1, <2>2, WindowsMove
<1>5. ASSUME NEW j \in Jobs, ReadRecord(j) PROVE Windows'
  <2>1. UNCHANGED records /\ now \in Nat
    BY <1>5 DEF ReadRecord, StoreTypeOK
  <2>2. CASE End(j, "ok")
    <3>1. op'[j].phase = "done" /\ \A i \in Jobs \ {j} : op'[i] = op[i]
      BY <2>2 DEF End, StoreTypeOK
    <3>. QED
      BY <2>1, <3>1, WindowsMove
  <2>3. ASSUME NEW ttl \in SettleTTL(j),
               op' = [op EXCEPT ![j] = [phase |-> "settle", status |-> op[j].status,
                                      ttl |-> ttl, since |-> now]]
        PROVE  Windows'
    <3>1. /\ op'[j].phase = "settle" /\ op'[j].ttl = ttl /\ op'[j].since = now
          /\ \A i \in Jobs \ {j} : op'[i] = op[i]
      BY <2>3 DEF StoreTypeOK
    <3>2. j \in DOMAIN records /\ ttl = records[j].expires - now
      BY <2>3 DEF SettleTTL, Present, Remaining
    <3>3. now + ttl = records[j].expires
      BY <2>1, <3>2 DEF StoreTypeOK
    <3>. QED
      BY <2>1, <3>1, <3>2, <3>3, WindowsMove
  <2>. QED
    BY <1>5, <2>2, <2>3 DEF ReadRecord
<1>6. ASSUME NEW j \in Jobs, Write(j) \/ \E why \in Faults : WriteUnanswered(j, why)
      PROVE  Windows'
  <2>1. op'[j].phase \in {"index", "done"} /\ \A i \in Jobs \ {j} : op'[i] = op[i]
    BY <1>6 DEF Write, WriteUnanswered, End, StoreTypeOK
  <2>. QED
    BY <1>6, <2>1, WindowsPut DEF Write, WriteUnanswered
<1>7. ASSUME NEW j \in Jobs, NEW why \in Faults, Raise(j, why) PROVE Windows'
  <2>1. op'[j].phase = "done" /\ (\A i \in Jobs \ {j} : op'[i] = op[i]) /\ UNCHANGED records
    BY <1>7 DEF Raise, End, StoreTypeOK
  <2>. QED
    BY <2>1, WindowsMove
<1>8. ASSUME NEW j \in Jobs, TakeOutcome(j) PROVE Windows'
  <2>1. op'[j].phase = "idle" /\ (\A i \in Jobs \ {j} : op'[i] = op[i]) /\ UNCHANGED records
    BY <1>8 DEF TakeOutcome, Collect, Idle, StoreTypeOK
  <2>. QED
    BY <2>1, WindowsMove
<1>9. CASE StoreRestart
  BY <1>9 DEF StoreRestart, Idle, Windows, Fresh, Anchored
<1>10. CASE Tick \/ UNCHANGED storeVars
  BY <1>10 DEF Tick, storeVars, Windows, Fresh, Anchored
<1>. QED
  BY <1>1, <1>2, <1>3, <1>4, <1>5, <1>6, <1>7, <1>8, <1>9, <1>10
     DEF StoreNext, StoreStep, StoreFault, Rest

(* Only a put and a restart touch the records. *)
LEMMA RecordsMove ==
    ASSUME [StoreNext]_storeVars
    PROVE  UNCHANGED records \/ StoreRestart \/ \E j \in Jobs : Put1(j)
  BY DEF StoreNext, StoreStep, StoreFault, Begin, Acquire, ReadIndex, Prune, ReadRecord, Write,
         WriteUnanswered, Raise, TakeOutcome, Tick, Rest, storeVars

(* The retention window opened at creation slides by the delay of a settle *)
(* between its read and its put, exactly, and by nothing else: no fault,   *)
(* cancellation, restart or second settle adds to it.                      *)
THEOREM RetentionSlides == StoreSpec => RetentionSlidesByTheDelay
<1>. DEFINE Bounded(j) ==
          \/ records'[j].expires = records[j].expires
          \/ /\ InPhase(j, {"settle"})
             /\ records'[j].expires = records[j].expires + (now - op[j].since)
<1>1. StoreInit => Windows
  BY DEF StoreInit, EmptyStore, Idle, Windows, Fresh, Anchored
<1>2. StoreSpec => [](StoreTypeOK /\ Windows)
  BY <1>1, WindowsStep, StoreTypeCorrect, PTL DEF StoreSpec
<1>3. StoreTypeOK /\ Windows /\ [StoreNext]_storeVars =>
         [\A j \in DOMAIN records \cap DOMAIN records' : Bounded(j)]_storeVars
  <2>. SUFFICES ASSUME StoreTypeOK, Windows, [StoreNext]_storeVars,
                       NEW j \in DOMAIN records, j \in DOMAIN records'
                PROVE  Bounded(j)
    OBVIOUS
  <2>1. ASSUME NEW i \in Jobs, Put1(i) PROVE Bounded(j)
    BY <2>1, PutMoves
  <2>2. CASE StoreRestart
    BY <2>2 DEF StoreRestart, EmptyStore
  <2>. QED
    BY <2>1, <2>2, RecordsMove
<1>. QED
  BY <1>2, <1>3, PTL DEF StoreSpec, RetentionSlidesByTheDelay
==============================================================================
