------------------------------- MODULE Backends -------------------------------
(***************************************************************************)
(* The three data backends as the API drives them (src/backends/kv,       *)
(* tsdb and stream, backend.go): NewBackend, then Create and Delete of a  *)
(* table, one call at a time, over a storage that keeps the tables       *)
(* between calls.                                                         *)
(*                                                                         *)
(*   kv:     NewBackend opens the container; Create always fails (tables *)
(*           are created on first write); Delete is v3ioutils.DeleteTable *)
(*           over the items the filter selects.                           *)
(*   tsdb:   NewBackend opens nothing; Create checks the attributes, then *)
(*           NewSchema and CreateTSDB at the request's table path; Delete *)
(*           parses start and end, opens an adapter (newAdapter: config,  *)
(*           container, NewV3ioAdapter) at the table path or, for an     *)
(*           empty table, the session's path, then DeleteDB.             *)
(*   stream: NewBackend opens the container; Create checks and defaults  *)
(*           the attributes, appends "/" to the table and calls          *)
(*           CreateStream, whose error is only logged; Delete fails.     *)
(*                                                                         *)
(* A table name is its base and whether it ends in "/".  An attribute     *)
(* value is its Go type and, for an int, its value.  The container and   *)
(* storage calls fail nondeterministically.                              *)
(***************************************************************************)
EXTENDS Integers

CONSTANTS
    IntVals,        \* the int values a request attribute may carry
    Bases,          \* table names, without a trailing "/"
    Items,          \* the items a kv table may hold
    Filters,        \* kv Delete filters: the items each one selects
    SessionPath,    \* the session's default table path
    MaxCalls        \* bound on the Create and Delete calls

Names == [base : Bases, slash : BOOLEAN]

(* The empty table name of a request that gives none.                     *)
EmptyName == [base |-> "", slash |-> FALSE]

ASSUME BackendsAssumption ==
    /\ IntVals \subseteq Int
    /\ Filters \subseteq SUBSET Items
    /\ SessionPath \in Names
    /\ MaxCalls \in Nat

Backs == {"kv", "tsdb", "stream"}

Absent == [type |-> "absent", n |-> 0]

(* Attribute values: absent, ints, a string, a float.                     *)
AttrVals ==
    {Absent, [type |-> "string", n |-> 0], [type |-> "float", n |-> 0]}
        \cup {[type |-> "int", n |-> k] : k \in IntVals}

NoTable == [kind |-> "none"]

IsInt(a) == a.type = "int"

IsString(a) == a.type = "string"

(* The start and end of a tsdb Delete: none, a duration, or a string     *)
(* Str2duration rejects.                                                 *)
Durations == {"", "1h", "bad"}

VARIABLES
    status,     \* for each backend, what NewBackend did: "none", "ready", "failed"
    kv,         \* the items of each kv table
    tsdb,       \* the tsdb table at each path, or NoTable
    streams,    \* the stream at each path, or NoTable
    request,    \* the last call: operation, backend, table, and the rate or filter
    result,     \* what that call returned: "nil" or an error
    calls       \* Create and Delete calls so far

vars == <<status, kv, tsdb, streams, request, result, calls>>

storage == <<kv, tsdb, streams>>

Init ==
    /\ status = [b \in Backs |-> "none"]
    /\ kv = [p \in Names |-> Items]
    /\ tsdb = [p \in Names |-> NoTable]
    /\ streams = [p \in Names |-> NoTable]
    /\ request = [op |-> "none", backend |-> "none"]
    /\ result = "none"
    /\ calls = 0

(* A Create or Delete call on backend b: NewBackend succeeded, and the    *)
(* call is counted.                                                      *)
Call(b) ==
    /\ status[b] = "ready"
    /\ calls < MaxCalls
    /\ calls' = calls + 1
    /\ UNCHANGED status

-----------------------------------------------------------------------------
(* NewBackend of kv and of stream: CreateContainer, which may fail.       *)
KVNewBackend ==
    /\ status["kv"] = "none"
    /\ \E ok \in BOOLEAN : status' = [status EXCEPT !["kv"] = IF ok THEN "ready" ELSE "failed"]
    /\ UNCHANGED <<storage, request, result, calls>>

StreamNewBackend ==
    /\ status["stream"] = "none"
    /\ \E ok \in BOOLEAN :
          status' = [status EXCEPT !["stream"] = IF ok THEN "ready" ELSE "failed"]
    /\ UNCHANGED <<storage, request, result, calls>>

(* NewBackend of tsdb only records the configuration: it cannot fail.    *)
TsdbNewBackend ==
    /\ status["tsdb"] = "none"
    /\ status' = [status EXCEPT !["tsdb"] = "ready"]
    /\ UNCHANGED <<storage, request, result, calls>>

-----------------------------------------------------------------------------
(* kv Create: an error whatever the request.                             *)
KVCreate ==
    /\ Call("kv")
    /\ \E t \in Names : request' = [op |-> "create", backend |-> "kv", table |-> t]
    /\ result' = "errNotRequired"
    /\ UNCHANGED storage

(* v3ioutils.DeleteTable: the items of the table that the filter selects. *)
DeleteTable(items, filter) == items \cap filter

(* kv Delete: DeleteTable's workers delete the selected items; an error  *)
(* stops them with any part of them deleted.  The table itself stays.   *)
KVDelete ==
    /\ Call("kv")
    /\ \E t \in Names, filter \in Filters, ok \in BOOLEAN :
          /\ request' = [op |-> "delete", backend |-> "kv", table |-> t, filter |-> filter]
          /\ \/ /\ ok
                /\ kv' = [kv EXCEPT ![t] = @ \ DeleteTable(@, filter)]
                /\ result' = "nil"
             \/ /\ ~ok
                /\ \E gone \in SUBSET DeleteTable(kv[t], filter) :
                      kv' = [kv EXCEPT ![t] = @ \ gone]
                /\ result' = "errDelete"
    /\ UNCHANGED <<tsdb, streams>>

-----------------------------------------------------------------------------
(* The stream backend's defaults: 1 shard, 24 hours.                      *)
Shards(s) == IF s = Absent THEN 1 ELSE s.n

Retention(r) == IF r = Absent THEN 24 ELSE r.n

(* Mutant: "shards" accepted without its lower bound.                     *)
StreamAttrErrorUnbounded(s, r) ==
    CASE s # Absent /\ ~IsInt(s)          -> "errShards"
      [] r # Absent /\ ~IsInt(r)          -> "errRetention"
      [] OTHER                            -> "none"

(* The attribute checks of stream Backend.Create, in order: "shards" must *)
(* be a positive int; "retention_hours" must be an int, and its bound is  *)
(* tested on shards, which is positive by then.                           *)
StreamAttrError(s, r) ==
    CASE s # Absent /\ (~IsInt(s) \/ Shards(s) < 1) -> "errShards"
      [] r # Absent /\ (~IsInt(r) \/ Shards(s) < 1) -> "errRetention"
      [] OTHER                                      -> "none"

(* The stream's path: the table with "/" appended unless it ends in one. *)
StreamPath(t) == [t EXCEPT !.slash = TRUE]

(* stream Backend.Create: the checks, then CreateStream at the path,     *)
(* whose error is only logged: nil is returned whatever it did.          *)
StreamCreate ==
    /\ Call("stream")
    /\ \E t \in Names, s, r \in AttrVals, ok \in BOOLEAN :
          /\ request' = [op |-> "create", backend |-> "stream", table |-> t]
          /\ IF StreamAttrError(s, r) # "none"
                THEN result' = StreamAttrError(s, r) /\ UNCHANGED streams
                ELSE /\ streams' = IF ok
                                   THEN [streams EXCEPT ![StreamPath(t)] =
                                           [kind |-> "stream", shards |-> Shards(s),
                                            retention |-> Retention(r)]]
                                   ELSE streams
                     /\ result' = "nil"
    /\ UNCHANGED <<kv, tsdb>>

(* stream Delete: not implemented.                                       *)
StreamDelete ==
    /\ Call("stream")
    /\ \E t \in Names : request' = [op |-> "delete", backend |-> "stream", table |-> t]
    /\ result' = "errNotImplemented"
    /\ UNCHANGED storage

-----------------------------------------------------------------------------
(* The attribute checks of tsdb Backend.Create: "rate" is required and a  *)
(* string; "aggregation-granularity" and "aggregates", when given, are    *)
(* strings.                                                               *)
TsdbAttrError(rate, gran, aggr) ==
    CASE rate = Absent                     -> "errNoRate"
      [] ~IsString(rate)                   -> "errRate"
      [] gran # Absent /\ ~IsString(gran)  -> "errGranularity"
      [] aggr # Absent /\ ~IsString(aggr)  -> "errAggregates"
      [] OTHER                             -> "none"

(* Mutant: CreateTSDB's error not returned.                               *)
TsdbStoreResultDropped(schemaOK, storeOK) ==
    IF schemaOK THEN "nil" ELSE "errSchema"

(* What Create returns after the checks: NewSchema's error, else          *)
(* CreateTSDB's.                                                          *)
TsdbStoreResult(schemaOK, storeOK) ==
    CASE ~schemaOK -> "errSchema" [] ~storeOK -> "errStore" [] OTHER -> "nil"

(* tsdb Backend.Create: the checks, schema.NewSchema, then tsdb.CreateTSDB *)
(* at cfg.TablePath, which is the request's table as it is.              *)
TsdbCreate ==
    /\ Call("tsdb")
    /\ \E t \in Names, rate, gran, aggr \in AttrVals, schemaOK, storeOK \in BOOLEAN :
          /\ request' = [op |-> "create", backend |-> "tsdb", table |-> t, rate |-> rate]
          /\ IF TsdbAttrError(rate, gran, aggr) # "none"
                THEN result' = TsdbAttrError(rate, gran, aggr) /\ UNCHANGED tsdb
                ELSE /\ tsdb' = IF schemaOK /\ storeOK
                                THEN [tsdb EXCEPT ![t] = [kind |-> "tsdb", rate |-> rate]]
                                ELSE tsdb
                     /\ result' = TsdbStoreResult(schemaOK, storeOK)
    /\ UNCHANGED <<kv, streams>>

(* tsdbutils.Str2duration: "" is 0, a malformed duration an error.        *)
Str2durationFails(d) == d = "bad"

(* delAll: neither start nor end given.                                  *)
DeleteAll(start, end) == start = "" /\ end = ""

(* newAdapter's path: the table, or the session's path for an empty one. *)
AdapterPath(t) == IF t = EmptyName THEN SessionPath ELSE t

(* tsdb Backend.Delete: start, then end, are parsed; the whole table is  *)
(* deleted when neither is given; GetAdapter (config load, container,    *)
(* NewV3ioAdapter, each may fail) at AdapterPath; then DeleteDB, which   *)
(* removes the table, or only the samples in range.                     *)
TsdbDelete ==
    /\ Call("tsdb")
    /\ \E t \in Names, start, end \in Durations, force, adapterOK, deleteOK \in BOOLEAN :
          /\ request' = [op |-> "delete", backend |-> "tsdb", table |-> t]
          /\ CASE Str2durationFails(start) -> result' = "errStart" /\ UNCHANGED tsdb
               [] Str2durationFails(end)   -> result' = "errEnd" /\ UNCHANGED tsdb
               [] ~adapterOK               -> result' = "errAdapter" /\ UNCHANGED tsdb
               [] ~deleteOK                -> result' = "errDeleteDB" /\ UNCHANGED tsdb
               [] OTHER ->
                    /\ result' = "nil"
                    /\ tsdb' = IF DeleteAll(start, end)
                               THEN [tsdb EXCEPT ![AdapterPath(t)] = NoTable]
                               ELSE tsdb
    /\ UNCHANGED <<kv, streams>>

NewBackend == KVNewBackend \/ StreamNewBackend \/ TsdbNewBackend

Next ==
    \/ NewBackend
    \/ KVCreate \/ KVDelete
    \/ StreamCreate \/ StreamDelete
    \/ TsdbCreate \/ TsdbDelete

Spec == Init /\ [][Next]_vars

-----------------------------------------------------------------------------
StreamTables == [kind : {"stream"}, shards : Nat \ {0}, retention : Int]

TsdbTables == [kind : {"tsdb"}, rate : AttrVals]

Results ==
    {"none", "nil", "errNotRequired", "errDelete", "errNotImplemented", "errShards",
     "errRetention", "errNoRate", "errRate", "errGranularity", "errAggregates",
     "errSchema", "errStore", "errStart", "errEnd", "errAdapter", "errDeleteDB"}

(* Every variable has its type; in particular a stream always has at    *)
(* least one shard, whatever attributes its Create carried.             *)
TypeOK ==
    /\ status \in [Backs -> {"none", "ready", "failed"}]
    /\ kv \in [Names -> SUBSET Items]
    /\ tsdb \in [Names -> {NoTable} \cup TsdbTables]
    /\ streams \in [Names -> {NoTable} \cup StreamTables]
    /\ request.op \in {"none", "create", "delete"}
    /\ result \in Results
    /\ calls \in 0..MaxCalls

(* A tsdb Create step returns nil exactly when it stored the table at the *)
(* request's path with the request's rate; a Create that returns an      *)
(* error (an attribute, NewSchema or CreateTSDB) leaves every tsdb table *)
(* as it was.                                                            *)
TsdbCreateReported ==
    [][calls' # calls /\ request'.op = "create" /\ request'.backend = "tsdb" =>
         IF result' = "nil"
         THEN tsdb' = [tsdb EXCEPT ![request'.table] =
                         [kind |-> "tsdb", rate |-> request'.rate]]
         ELSE tsdb' = tsdb]_vars

=============================================================================
