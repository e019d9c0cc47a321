------------------------------- MODULE Grafana --------------------------------
(***************************************************************************)
(* The Grafana SimpleJSON adapter (src/http/grafana.go).  A "query" or    *)
(* "search" request is parsed (SimpleJSONRequestFactory, ParseRequest,    *)
(* parseQueryLine, setField), turned into a read request (GetReadRequest), *)
(* and the frames the read sends on ch are formatted by CreateResponse:   *)
(* formatKV builds one table per frame, formatTSDB accumulates one series *)
(* per metric and label set over all frames, and the search formatKV      *)
(* lists the requested fields' values.                                   *)
(*                                                                         *)
(* A query line is the sequence of its key=value items, as the regexp of  *)
(* parseQueryLine splits it (an item it does not match has key "other"); *)
(* the "fields" value is already split at commas.  A frame is a record of *)
(* its data column names in order, its data and index columns, its labels *)
(* and its row count; a value is a record of its Go type and a payload.   *)
(* A series target is the metric name and the labels in the order the map *)
(* iteration of getBaseTargetTSDB gave them; the string formatting is     *)
(* left out.                                                              *)
(***************************************************************************)
EXTENDS Integers, Sequences, SequencesExt

CONSTANTS
    Frames,         \* the frames a read may send on ch
    TargetLines,    \* query lines, each a sequence of [key, val] items
    NameOrder,      \* every column name, in the order sort.Strings gives
    MaxFrames,      \* bound on the frames of one read
    MaxTargets      \* bound on the targets of one request

ASSUME GrafanaAssumption == MaxFrames \in Nat /\ MaxTargets \in Nat

VARIABLES
    req,        \* the parsed request
    readReq,    \* the frames.ReadRequest GetReadRequest built from it
    src,        \* the frames the read sends on ch
    k,          \* frames CreateResponse has taken from ch
    tables,     \* formatKV of a query: one table per frame
    data,       \* formatTSDB: the datapoints of each target
    values,     \* formatKV of a search: the values listed
    pc,         \* "start", "read" (request parsed), "range" (in for frame := range ch), "done"
    result      \* "none", "ok" or the error returned

vars == <<req, readReq, src, k, tables, data, values, pc, result>>

defaultBackend == "tsdb"

Nil == [t |-> "nil"]

(* A session passed to GetReadRequest: none, one without a container, one *)
(* with its own.                                                         *)
Sessions == {"nil", "noContainer", "withContainer"}

-----------------------------------------------------------------------------
(* The value a request field has after parseQueryLine ran over items in  *)
(* order: setField of the last item with that key, else the default.     *)
LastSet(items, key, dflt) ==
    LET is == {i \in DOMAIN items : items[i].key = key}
    IN IF is = {} THEN dflt ELSE items[Max(is)].val

(* ParseRequest: every target's line is parsed into the same request, so *)
(* a field keeps the value of the last line that set it.  (The search     *)
(* request's single target, split at ";", gives the same item sequence.)  *)
ParseRequest(method, lines) ==
    LET items == FlattenSeq(lines)
    IN [method    |-> method,
        backend   |-> LastSet(items, "backend", defaultBackend),
        fields    |-> LastSet(items, "fields", <<>>),
        table     |-> LastSet(items, "table_name", ""),
        container |-> LastSet(items, "container", "")]

(* GetReadRequest: a session's own container is kept; otherwise the      *)
(* request's is used.                                                    *)
GetReadRequest(r, session) ==
    [backend   |-> r.backend,
     table     |-> r.table,
     columns   |-> r.fields,
     container |-> IF session = "withContainer" THEN "session" ELSE r.container]

-----------------------------------------------------------------------------
(* Row r of frame f as IterRows(true) gives it: data and index columns.   *)
Row(f, r) ==
    [c \in DOMAIN f.cols \cup DOMAIN f.index |->
        IF c \in DOMAIN f.cols THEN f.cols[c].vals[r] ELSE f.index[c].vals[r]]

(* rowData[field]: a missing key gives the map's zero value, nil.        *)
RowGet(row, name) == IF name \in DOMAIN row THEN row[name] ELSE Nil

isValidData(x) == ~(x.t = "float" /\ x.v = "NaN")

getMetricNames(f) == SelectSeq(f.names, LAMBDA n : n \notin DOMAIN f.labels)

(* getFieldNames: no fields, or "*" first, means every metric, sorted.    *)
getFieldNames(f, fields) ==
    IF fields = <<>> \/ fields[1] = "*"
        THEN SelectSeq(NameOrder, LAMBDA n : n \in ToSet(getMetricNames(f)))
        ELSE fields

prepareKVColumnFormat(col, field) ==
    [text |-> field,
     type |-> CASE col.dtype \in {"float", "int"} -> "number"
                [] col.dtype = "time"            -> "time"
                [] col.dtype = "bool"            -> "boolean"
                [] OTHER                         -> "string"]

(* prepareKVColumns fails on the first header that is not a data column. *)
KVColumnMissing(f, headers) == \E j \in 1..Len(headers) : headers[j] \notin DOMAIN f.cols

prepareKVColumns(f, headers) ==
    [j \in 1..Len(headers) |-> prepareKVColumnFormat(f.cols[headers[j]], headers[j])]

(* The table row formatKV builds from row r: the valid values of the      *)
(* fields, in field order; a row with none is left out.                  *)
KVRow(f, fields, r) ==
    SelectSeq([j \in 1..Len(fields) |-> RowGet(Row(f, r), fields[j])], isValidData)

(* Mutant: rows without a valid value kept.                             *)
KVRowsUnfiltered(f, fields) ==
    [r \in 1..f.rows |-> KVRow(f, fields, r)]

KVRows(f, fields) ==
    SelectSeq([r \in 1..f.rows |-> KVRow(f, fields, r)], LAMBDA row : row # <<>>)

(* Go's integer division truncates toward zero.                          *)
TruncDiv(a, b) == IF a >= 0 THEN a \div b ELSE -((-a) \div b)

(* formatTimeTSDB: a time.Time becomes UnixNano() / 1000000 (payload in   *)
(* nanoseconds); anything else is passed through.                       *)
formatTimeTSDB(x) == IF x.t = "time" THEN [t |-> "ms", v |-> TruncDiv(x.v, 1000000)] ELSE x

(* The orders in which ranging over frame.Labels() can yield the labels. *)
getBaseTargetTSDB(f) ==
    {[i \in DOMAIN s |-> <<s[i], f.labels[s[i]]>>] : s \in SetToSeqs(DOMAIN f.labels)}

(* The datapoints formatTSDB appends for metric g: rows in order, and in  *)
(* each row once per occurrence of g among the fields, when valid.       *)
TSDBPoints(f, fields, g) ==
    LET m     == Len(fields)
        pairs == [i \in 1..(f.rows * m) |-> <<((i - 1) \div m) + 1, ((i - 1) % m) + 1>>]
        sel   == SelectSeq(pairs, LAMBDA p : fields[p[2]] = g
                                         /\ isValidData(RowGet(Row(f, p[1]), g)))
    IN [i \in 1..Len(sel) |->
          [value |-> RowGet(Row(f, sel[i][1]), g),
           time  |-> formatTimeTSDB(RowGet(Row(f, sel[i][1]), "time"))]]

-----------------------------------------------------------------------------
Init ==
    /\ req = [method |-> "none"]
    /\ readReq = [backend |-> "none"]
    /\ src \in BoundedSeq(Frames, MaxFrames)
    /\ k = 0
    /\ tables = <<>>
    /\ data = [t \in {} |-> <<>>]
    /\ values = <<>>
    /\ pc = "start"
    /\ result = "none"

(* SimpleJSONRequestFactory with ParseRequest, then GetReadRequest: an    *)
(* unknown method and a body json.Unmarshal rejects are errors.          *)
Parse ==
    /\ pc = "start"
    /\ \E method \in {"query", "search", "other"}, wellFormed \in BOOLEAN,
          lines \in BoundedSeq(TargetLines, MaxTargets), session \in Sessions :
          \/ /\ method = "other"
             /\ result' = "errMethod" /\ pc' = "done"
             /\ UNCHANGED <<req, readReq>>
          \/ /\ method # "other" /\ ~wellFormed
             /\ result' = "errJSON" /\ pc' = "done"
             /\ UNCHANGED <<req, readReq>>
          \/ /\ method # "other" /\ wellFormed
             /\ req' = ParseRequest(method, lines)
             /\ readReq' = GetReadRequest(req', session)
             /\ pc' = "read"
             /\ UNCHANGED result
    /\ UNCHANGED <<src, k, tables, data, values>>

(* CreateResponse: the backend selects the formatter; any other backend, *)
(* and the TSDB formatter of a search, is an error before ch is read.    *)
CreateResponse ==
    /\ pc = "read"
    /\ \/ /\ req.backend \notin {"kv", "tsdb"}
          /\ result' = "errFormat" /\ pc' = "done"
       \/ /\ req.backend = "tsdb" /\ req.method = "search"
          /\ result' = "errSearchTSDB" /\ pc' = "done"
       \/ /\ req.backend = "kv" \/ (req.backend = "tsdb" /\ req.method = "query")
          /\ pc' = "range"
          /\ UNCHANGED result
    /\ UNCHANGED <<req, readReq, src, k, tables, data, values>>

(* One iteration of formatKV's range over ch: the table of the frame, or *)
(* the error of a requested field that is not one of its columns.        *)
FormatKV ==
    /\ pc = "range" /\ req.method = "query" /\ req.backend = "kv"
    /\ k < Len(src)
    /\ k' = k + 1
    /\ LET f      == src[k + 1]
           fields == getFieldNames(f, req.fields)
       IN \/ /\ KVColumnMissing(f, fields)
             /\ result' = "errColumn" /\ pc' = "done"
             /\ UNCHANGED tables
          \/ /\ ~KVColumnMissing(f, fields)
             /\ tables' = Append(tables, [columns |-> prepareKVColumns(f, fields),
                                          rows    |-> KVRows(f, fields)])
             /\ UNCHANGED <<result, pc>>
    /\ UNCHANGED <<req, readReq, src, data, values>>

(* Mutant: the series map made anew for every frame.                     *)
FormatTSDBMapPerFrame ==
    /\ pc = "range" /\ req.method = "query" /\ req.backend = "tsdb"
    /\ k < Len(src)
    /\ k' = k + 1
    /\ LET f      == src[k + 1]
           fields == getFieldNames(f, req.fields)
       IN \E lbls \in getBaseTargetTSDB(f) :
             LET new == IF f.rows = 0 THEN {}
                        ELSE {[field |-> fields[j], labels |-> lbls] : j \in 1..Len(fields)}
             IN data' = [t \in new |-> TSDBPoints(f, fields, t.field)]
    /\ UNCHANGED <<req, readReq, src, tables, values, pc, result>>

(* One iteration of formatTSDB's range over ch: every field's target is  *)
(* created at the frame's first row, and the valid values appended.      *)
FormatTSDB ==
    /\ pc = "range" /\ req.method = "query" /\ req.backend = "tsdb"
    /\ k < Len(src)
    /\ k' = k + 1
    /\ LET f      == src[k + 1]
           fields == getFieldNames(f, req.fields)
       IN \E lbls \in getBaseTargetTSDB(f) :
             LET new == IF f.rows = 0 THEN {}
                        ELSE {[field |-> fields[j], labels |-> lbls] : j \in 1..Len(fields)}
             IN data' = [t \in DOMAIN data \cup new |->
                           (IF t \in DOMAIN data THEN data[t] ELSE <<>>)
                           \o (IF t.labels = lbls THEN TSDBPoints(f, fields, t.field) ELSE <<>>)]
    /\ UNCHANGED <<req, readReq, src, tables, values, pc, result>>

(* One iteration of the search formatKV: rowData[field] of every row for *)
(* every requested field, valid or not.                                  *)
SearchFormatKV ==
    /\ pc = "range" /\ req.method = "search"
    /\ k < Len(src)
    /\ k' = k + 1
    /\ LET f == src[k + 1]
       IN values' = values \o FlattenSeq([r \in 1..f.rows |->
                          [j \in 1..Len(req.fields) |-> RowGet(Row(f, r), req.fields[j])]])
    /\ UNCHANGED <<req, readReq, src, tables, data, pc, result>>

(* ch is closed and drained: the formatter returns its output.           *)
RangeEnd ==
    /\ pc = "range"
    /\ k = Len(src)
    /\ pc' = "done"
    /\ result' = "ok"
    /\ UNCHANGED <<req, readReq, src, k, tables, data, values>>

Next == Parse \/ CreateResponse \/ FormatKV \/ FormatTSDB \/ SearchFormatKV \/ RangeEnd

Spec == Init /\ [][Next]_vars

-----------------------------------------------------------------------------
ColumnTypes == {"number", "time", "boolean", "string"}

(* Every variable has its type; a table row never has more cells than   *)
(* the table has columns.                                                *)
TypeOK ==
    /\ pc \in {"start", "read", "range", "done"}
    /\ result \in {"none", "ok", "errMethod", "errJSON", "errFormat", "errSearchTSDB", "errColumn"}
    /\ src \in Seq(Frames)
    /\ k \in 0..Len(src)
    /\ pc \in {"read", "range"} => /\ req.method \in {"query", "search"}
                                   /\ readReq.columns = req.fields
    /\ \A i \in 1..Len(tables) :
          /\ \A j \in DOMAIN tables[i].columns : tables[i].columns[j].type \in ColumnTypes
          /\ \A r \in DOMAIN tables[i].rows :
                0 < Len(tables[i].rows[r]) /\ Len(tables[i].rows[r]) <= Len(tables[i].columns)
    /\ \A t \in DOMAIN data : \A i \in DOMAIN data[t] : isValidData(data[t][i].value)

(* A datapoint tagged with its metric and its frame's label set.         *)
Tag(field, labels, p) == [field |-> field, labels |-> labels, value |-> p.value, time |-> p.time]

LabelSet(f) == {<<l, f.labels[l]>> : l \in DOMAIN f.labels}

OutTag(t, i) == Tag(t.field, ToSet(t.labels), data[t][i])

OutCount(x) ==
    MapThenSumSet(LAMBDA t : Cardinality({i \in DOMAIN data[t] : OutTag(t, i) = x}), DOMAIN data)

(* The cells of frame i whose datapoint formatTSDB should emit: a row and *)
(* a position among the requested fields, with a valid value.            *)
FrameCells(i) ==
    LET f == src[i]  fs == getFieldNames(src[i], req.fields)
    IN {c \in (1..f.rows) \X (1..Len(fs)) : isValidData(RowGet(Row(f, c[1]), fs[c[2]]))}

ExpTag(i, c) ==
    LET f == src[i]  fs == getFieldNames(src[i], req.fields)  row == Row(f, c[1])
    IN [field |-> fs[c[2]], labels |-> LabelSet(f),
        value |-> RowGet(row, fs[c[2]]), time |-> formatTimeTSDB(RowGet(row, "time"))]

ExpCount(x) ==
    MapThenSumSet(LAMBDA i : Cardinality({c \in FrameCells(i) : ExpTag(i, c) = x}), 1..k)

(* formatTSDB, after every frame it took from ch: every valid value of a *)
(* requested metric in every row of every frame appears in the series of *)
(* that metric and that frame's label set, with the row's timestamp, as *)
(* often as it occurs, and no other datapoint appears, although the      *)
(* series map is shared by all frames and keyed by a label string built  *)
(* in map iteration order.                                               *)
TSDBPointsPreserved ==
    req.method = "query" /\ req.backend = "tsdb" /\ pc \in {"range", "done"} =>
        \A x \in UNION {{OutTag(t, i) : i \in DOMAIN data[t]} : t \in DOMAIN data}
                 \cup UNION {{ExpTag(i, c) : c \in FrameCells(i)} : i \in 1..k} :
            OutCount(x) = ExpCount(x)

=============================================================================
