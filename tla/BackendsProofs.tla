---------------------------- MODULE BackendsProofs ----------------------------
(***************************************************************************)
(* Proofs about the backends (Backends): type correctness, in particular  *)
(* that no stream is created without a shard, and the action property   *)
(* of tsdb Create, for every set of attribute                             *)
(* values, table names, items, filters and every session path.          *)
(***************************************************************************)
EXTENDS Backends, TLAPS

(* What the stream attribute checks let through: a positive shard count *)
(* and an int retention.                                                 *)
LEMMA StreamAttrsChecked ==
    ASSUME NEW s \in AttrVals, NEW r \in AttrVals, StreamAttrError(s, r) = "none"
    PROVE  Shards(s) \in Nat \ {0} /\ Retention(r) \in Int
  <1>1. ASSUME NEW a \in AttrVals, IsInt(a) PROVE a.n \in Int
    BY BackendsAssumption DEF AttrVals, IsInt, Absent
  <1>2. s # Absent => IsInt(s)
    BY DEF StreamAttrError
  <1>3. Shards(s) \in Int
    BY <1>1, <1>2 DEF Shards
  <1>4. s # Absent => Shards(s) >= 1
    BY <1>3 DEF StreamAttrError
  <1>5. Shards(s) \in Nat \ {0}
    BY <1>3, <1>4 DEF Shards
  <1>6. r # Absent => IsInt(r)
    BY <1>4 DEF StreamAttrError
  <1>7. Retention(r) \in Int
    BY <1>1, <1>6 DEF Retention
  <1>8. QED
    BY <1>5, <1>7

(* The attribute and storage errors are errors.                          *)
LEMMA ResultsTyped ==
    ASSUME NEW s \in AttrVals, NEW r \in AttrVals, NEW g \in AttrVals,
           NEW a \in AttrVals, NEW b1 \in BOOLEAN, NEW b2 \in BOOLEAN
    PROVE  /\ StreamAttrError(s, r) \in (Results \ {"nil"}) \cup {"none"}
           /\ TsdbAttrError(r, g, a) \in (Results \ {"nil"}) \cup {"none"}
           /\ TsdbStoreResult(b1, b2) \in Results
           /\ TsdbStoreResult(b1, b2) = "nil" <=> b1 /\ b2
  BY DEF StreamAttrError, TsdbAttrError, TsdbStoreResult, Results

-----------------------------------------------------------------------------
(* The initial state is well typed.                                      *)
LEMMA InitTypeOK == Init => TypeOK
  BY BackendsAssumption DEF Init, TypeOK, Results, Backs

(* Every action keeps the types; one step per action.                    *)
LEMMA NextTypeOK == TypeOK /\ [Next]_vars => TypeOK'
  <1> SUFFICES ASSUME TypeOK, [Next]_vars PROVE TypeOK'
    OBVIOUS
  <1> USE BackendsAssumption DEF TypeOK, Call, Backs
  <1>1. CASE KVNewBackend \/ StreamNewBackend \/ TsdbNewBackend
    BY <1>1 DEF KVNewBackend, StreamNewBackend, TsdbNewBackend, storage
  <1>2. CASE KVCreate
    BY <1>2 DEF KVCreate, storage, Results
  <1>3. CASE KVDelete
    BY <1>3 DEF KVDelete, DeleteTable, Results
  <1>4. CASE StreamCreate
    <2>1. PICK t \in Names, s \in AttrVals, r \in AttrVals, ok \in BOOLEAN :
              /\ request' = [op |-> "create", backend |-> "stream", table |-> t]
              /\ IF StreamAttrError(s, r) # "none"
                    THEN result' = StreamAttrError(s, r) /\ UNCHANGED streams
                    ELSE /\ streams' = IF ok
                                       THEN [streams EXCEPT ![StreamPath(t)] =
                                               [kind |-> "stream", shards |-> Shards(s),
                                                retention |-> Retention(r)]]
                                       ELSE streams
                         /\ result' = "nil"
      BY <1>4 DEF StreamCreate
    <2>2. StreamPath(t) \in Names
      BY DEF StreamPath, Names
    <2>3. CASE StreamAttrError(s, r) # "none"
      BY <1>4, <2>1, <2>3, ResultsTyped DEF StreamCreate
    <2>4. CASE StreamAttrError(s, r) = "none"
      <3>1. Shards(s) \in Nat \ {0} /\ Retention(r) \in Int
        BY <2>4, StreamAttrsChecked
      <3>2. [kind |-> "stream", shards |-> Shards(s), retention |-> Retention(r)]
              \in StreamTables
        BY <3>1 DEF StreamTables
      <3>3. QED
        BY <1>4, <2>1, <2>2, <2>4, <3>2 DEF StreamCreate, Results
    <2>5. QED
      BY <2>3, <2>4
  <1>5. CASE StreamDelete
    BY <1>5 DEF StreamDelete, storage, Results
  <1>6. CASE TsdbCreate
    <2>1. PICK t \in Names, rate \in AttrVals, gran \in AttrVals, aggr \in AttrVals,
               schemaOK \in BOOLEAN, storeOK \in BOOLEAN :
              /\ request' = [op |-> "create", backend |-> "tsdb", table |-> t, rate |-> rate]
              /\ IF TsdbAttrError(rate, gran, aggr) # "none"
                    THEN result' = TsdbAttrError(rate, gran, aggr) /\ UNCHANGED tsdb
                    ELSE /\ tsdb' = IF schemaOK /\ storeOK
                                    THEN [tsdb EXCEPT ![t] = [kind |-> "tsdb", rate |-> rate]]
                                    ELSE tsdb
                         /\ result' = TsdbStoreResult(schemaOK, storeOK)
      BY <1>6 DEF TsdbCreate
    <2>2. [kind |-> "tsdb", rate |-> rate] \in TsdbTables
      BY DEF TsdbTables
    <2>3. QED
      BY <1>6, <2>1, <2>2, ResultsTyped DEF TsdbCreate
  <1>7. CASE TsdbDelete
    <2>1. \A t \in Names : AdapterPath(t) \in Names
      BY DEF AdapterPath
    <2>2. QED
      BY <1>7, <2>1 DEF TsdbDelete, Results
  <1>8. CASE UNCHANGED vars
    BY <1>8 DEF vars
  <1>9. QED
    BY <1>1, <1>2, <1>3, <1>4, <1>5, <1>6, <1>7, <1>8 DEF Next, NewBackend

(* Every Create and Delete of every backend keeps the storage well      *)
(* typed: in particular stream Backend.Create never creates a stream    *)
(* with no shard, whatever attributes the request carried.              *)
THEOREM TypeCorrect == Spec => []TypeOK
  BY InitTypeOK, NextTypeOK, PTL DEF Spec

-----------------------------------------------------------------------------
(* tsdb Backend.Create returns nil exactly when CreateTSDB stored the    *)
(* table at the request's path with its rate, and a Create that returns *)
(* an error leaves every tsdb table as it was.                          *)
THEOREM TsdbCreateHonest == Spec => TsdbCreateReported
  <1> DEFINE P == calls' # calls /\ request'.op = "create" /\ request'.backend = "tsdb" =>
                    IF result' = "nil"
                    THEN tsdb' = [tsdb EXCEPT ![request'.table] =
                                    [kind |-> "tsdb", rate |-> request'.rate]]
                    ELSE tsdb' = tsdb
  <1>1. [Next]_vars => [P]_vars
    <2> SUFFICES ASSUME [Next]_vars PROVE P
      OBVIOUS
    <2>1. CASE TsdbCreate
      <3>1. PICK t \in Names, rate \in AttrVals, gran \in AttrVals, aggr \in AttrVals,
                 schemaOK \in BOOLEAN, storeOK \in BOOLEAN :
                /\ request' = [op |-> "create", backend |-> "tsdb", table |-> t, rate |-> rate]
                /\ IF TsdbAttrError(rate, gran, aggr) # "none"
                      THEN result' = TsdbAttrError(rate, gran, aggr) /\ UNCHANGED tsdb
                      ELSE /\ tsdb' = IF schemaOK /\ storeOK
                                      THEN [tsdb EXCEPT ![t] = [kind |-> "tsdb", rate |-> rate]]
                                      ELSE tsdb
                           /\ result' = TsdbStoreResult(schemaOK, storeOK)
        BY <2>1 DEF TsdbCreate
      <3>2. TsdbAttrError(rate, gran, aggr) # "nil"
        BY ResultsTyped DEF Results
      <3>3. TsdbStoreResult(schemaOK, storeOK) = "nil" <=> schemaOK /\ storeOK
        BY ResultsTyped
      <3>4. QED
        BY <3>1, <3>2, <3>3
    <2>2. CASE Next /\ ~TsdbCreate
      <3>1. calls' # calls => request'.backend # "tsdb" \/ request'.op # "create"
        BY <2>2 DEF Next, NewBackend, KVNewBackend, StreamNewBackend, TsdbNewBackend,
                    KVCreate, KVDelete, StreamCreate, StreamDelete, TsdbDelete, Call
      <3>2. QED
        BY <3>1
    <2>3. CASE UNCHANGED vars
      BY <2>3 DEF vars
    <2>4. QED
      BY <2>1, <2>2, <2>3
  <1>2. QED
    BY <1>1, PTL DEF Spec, TsdbCreateReported

=============================================================================
