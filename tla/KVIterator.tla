------------------------------ MODULE KVIterator ------------------------------
(***************************************************************************)
(* The key/value backend's frame iterator (src/backends/kv/reader.go,      *)
(* Iterator.Next) with the column helpers it calls                        *)
(* (src/backends/utils/utils.go: NewColumn, AppendNil), driven by the      *)
(* usual consumer loop   for it.Next() { f := it.At() }; it.Err(),        *)
(* which may also call Next again after it returned false.               *)
(*                                                                         *)
(* The row source (v3ioutils.AsyncItemsCursor) is a sequence src of rows   *)
(* fixed at the start, which may end in a read error (srcFails).  A row is *)
(* a function from field names to values; a value is a record of its Go    *)
(* dynamic type and an opaque payload.  One call of Next is split into its *)
(* start, one step per iteration of its row loop and the code after the   *)
(* loop, so that the page being built is visible between rows.            *)
(***************************************************************************)
EXTENDS Naturals, Sequences, TLC

CONSTANTS
    Rows,       \* the rows the source may hold
    MaxRows,    \* bound on the length of the source
    Limit       \* request.MessageLimit after Read's default (256 for 0)

ASSUME KVAssumption ==
    /\ MaxRows \in Nat
    /\ Limit \in Nat \ {0}

VARIABLES
    src,        \* the rows of the cursor, in order
    srcFails,   \* the cursor ends with an error after its last row
    pos,        \* rows the cursor has returned
    ipc,        \* "idle" between calls, "loop" inside Next
    ret,        \* what the last call of Next returned: "none" before the first
    rowNum,     \* Next's local rowNum
    cols,       \* Next's local byName: field name -> column
    err,        \* ki.err
    pages,      \* the frames the consumer took with At(), in order
    pageRows,   \* (history) the source rows each of those frames was built from
    drawn       \* (history) the data rows the current call has drawn

vars == <<src, srcFails, pos, ipc, ret, rowNum, cols, err, pages, pageRows, drawn>>

indexColKey == "__name"

(* The Go types NewColumn knows and the payloads of its zero values       *)
(* (make([]T, size); NaN for floats) and of AppendNil's missing values.   *)
ColumnTypes == {"int", "float", "string", "time", "bool"}

ZeroOf == [int |-> "0", float |-> "NaN", string |-> "", time |-> "0001-01-01", bool |-> "false"]

NilOf == [int |-> "0", float |-> "NaN", string |-> "", time |-> "1970-01-01", bool |-> "false"]

Cell(t, x) == [dtype |-> t, v |-> x]

SchemaRow(row) == indexColKey \in DOMAIN row /\ row[indexColKey] = Cell("string", ".#schema")

NoCols == [f \in {} |-> Cell("int", "0")]

-----------------------------------------------------------------------------
(* Mutant: a new column starts empty instead of being backfilled.         *)
NewColumnUnfilled(value, size) == [dtype |-> value.dtype, data |-> <<>>]

(* utils.NewColumn(field, rowNum): a column of the value's type holding   *)
(* size zero values (the caller checks the type with NewColumnFails).     *)
NewColumn(value, size) ==
    [dtype |-> value.dtype, data |-> [i \in 1..size |-> Cell(value.dtype, ZeroOf[value.dtype])]]

NewColumnFails(value) == value.dtype \notin ColumnTypes

(* Mutant: AppendNil without its type switch, appending an int zero.     *)
AppendNilUntyped(col) == [col EXCEPT !.data = Append(@, Cell("int", "0"))]

(* utils.AppendNil: the missing value of the column's type.               *)
AppendNil(col) == [col EXCEPT !.data = Append(@, Cell(col.dtype, NilOf[col.dtype]))]

(* utils.AppendColumn: append a value of the column's type.              *)
AppendColumn(col, value) == [col EXCEPT !.data = Append(@, value)]

AppendFails(col, value) == value.dtype # col.dtype

(* The body of the row loop for a data row: a row fails when one of its   *)
(* fields is new and of a type NewColumn refuses, or known and of another *)
(* type than its column.  Go's map order only decides which error is set. *)
RowFails(row) ==
    \E f \in DOMAIN row :
        IF f \in DOMAIN cols THEN AppendFails(cols[f], row[f]) ELSE NewColumnFails(row[f])

AddRow(row) ==
    [f \in DOMAIN cols \cup DOMAIN row |->
        IF f \notin DOMAIN row THEN AppendNil(cols[f])
        ELSE IF f \in DOMAIN cols THEN AppendColumn(cols[f], row[f])
        ELSE AppendColumn(NewColumn(row[f], rowNum), row[f])]

(* frames.NewFrame: every column, index columns included, has one length. *)
NewFrameFails(data, index) ==
    \E c, d \in {data[f] : f \in DOMAIN data} \cup {index[i] : i \in DOMAIN index} :
        Len(c.data) # Len(d.data)

(* Mutant: the index column found but left among the data columns.       *)
ExtractIndexKept ==
    [data  |-> cols,
     index |-> IF indexColKey \in DOMAIN cols THEN <<cols[indexColKey]>> ELSE <<>>]

(* The index column taken out of byName and columns (RemoveColumn).      *)
ExtractIndex ==
    [data  |-> [f \in DOMAIN cols \ {indexColKey} |-> cols[f]],
     index |-> IF indexColKey \in DOMAIN cols THEN <<cols[indexColKey]>> ELSE <<>>]

-----------------------------------------------------------------------------
Init ==
    /\ src \in UNION {[1..n -> Rows] : n \in 0..MaxRows}
    /\ srcFails \in BOOLEAN
    /\ pos = 0
    /\ ipc = "idle"
    /\ ret = "none"
    /\ rowNum = 0
    /\ cols = NoCols
    /\ err = "none"
    /\ pages = <<>>
    /\ pageRows = <<>>
    /\ drawn = <<>>

(* The consumer calls Next: fresh columns, byName and rowNum.            *)
NextStart ==
    /\ ipc = "idle"
    /\ ipc' = "loop"
    /\ rowNum' = 0
    /\ cols' = NoCols
    /\ drawn' = <<>>
    /\ UNCHANGED <<src, srcFails, pos, ret, err, pages, pageRows>>

(* One iteration of the row loop: rowNum < MessageLimit, then the cursor  *)
(* yields a row.  A schema row is skipped but still counted by rowNum++.  *)
NextRow ==
    /\ ipc = "loop"
    /\ rowNum < Limit
    /\ pos < Len(src)
    /\ LET row == src[pos + 1] IN
         \/ /\ SchemaRow(row)
            /\ rowNum' = rowNum + 1
            /\ UNCHANGED <<ipc, ret, cols, err, drawn>>
         \/ /\ ~SchemaRow(row)
            /\ RowFails(row)
            /\ err' = "row"
            /\ ipc' = "idle"
            /\ ret' = "false"
            /\ UNCHANGED <<rowNum, cols, drawn>>
         \/ /\ ~SchemaRow(row)
            /\ ~RowFails(row)
            /\ cols' = AddRow(row)
            /\ drawn' = Append(drawn, row)
            /\ rowNum' = rowNum + 1
            /\ UNCHANGED <<ipc, ret, err>>
    /\ pos' = pos + 1
    /\ UNCHANGED <<src, srcFails, pages, pageRows>>

(* Mutant: an empty page returned as a frame instead of false.          *)
AfterLoopNoEmptyCheck ==
    LET failed == pos = Len(src) /\ srcFails
        frame  == ExtractIndex
    IN  /\ ipc' = "idle"
        /\ \/ /\ failed
              /\ err' = "source" /\ ret' = "false"
              /\ UNCHANGED <<pages, pageRows>>
           \/ /\ ~failed
              /\ NewFrameFails(frame.data, frame.index)
              /\ err' = "frame" /\ ret' = "false"
              /\ UNCHANGED <<pages, pageRows>>
           \/ /\ ~failed
              /\ ~NewFrameFails(frame.data, frame.index)
              /\ pages' = Append(pages, frame)
              /\ pageRows' = Append(pageRows, drawn)
              /\ ret' = "true"
              /\ UNCHANGED err

(* The code after the loop: the cursor's error, then an empty page        *)
(* (rowNum = 0), then the index column extracted and frames.NewFrame.     *)
AfterLoop ==
    LET failed == pos = Len(src) /\ srcFails
        frame  == ExtractIndex
    IN  /\ ipc' = "idle"
        /\ \/ /\ failed
              /\ err' = "source" /\ ret' = "false"
              /\ UNCHANGED <<pages, pageRows>>
           \/ /\ ~failed /\ rowNum = 0
              /\ ret' = "false"
              /\ UNCHANGED <<err, pages, pageRows>>
           \/ /\ ~failed /\ rowNum # 0
              /\ NewFrameFails(frame.data, frame.index)
              /\ err' = "frame" /\ ret' = "false"
              /\ UNCHANGED <<pages, pageRows>>
           \/ /\ ~failed /\ rowNum # 0
              /\ ~NewFrameFails(frame.data, frame.index)
              /\ pages' = Append(pages, frame)
              /\ pageRows' = Append(pageRows, drawn)
              /\ ret' = "true"
              /\ UNCHANGED err

(* Mutant: the loop tests ki.iter.Next() before the limit, so the row    *)
(* drawn when the page is already full is dropped.                       *)
NextEndDropsRow ==
    /\ ipc = "loop"
    /\ rowNum >= Limit \/ pos = Len(src)
    /\ AfterLoop
    /\ pos' = IF pos < Len(src) THEN pos + 1 ELSE pos
    /\ UNCHANGED <<src, srcFails, rowNum, cols, drawn>>

(* The loop ends when the page is full or the cursor has no more rows.   *)
NextEnd ==
    /\ ipc = "loop"
    /\ rowNum >= Limit \/ pos = Len(src)
    /\ AfterLoop
    /\ UNCHANGED <<src, srcFails, pos, rowNum, cols, drawn>>

Next == NextStart \/ NextRow \/ NextEnd

Spec == Init /\ [][Next]_vars

-----------------------------------------------------------------------------
(* Every column of the page being built and of every frame taken holds    *)
(* cells of its own type, whatever mix of rows the source returned.       *)
TypeOK ==
    /\ src \in Seq(Rows) /\ Len(src) <= MaxRows
    /\ srcFails \in BOOLEAN
    /\ pos \in 0..Len(src)
    /\ ipc \in {"idle", "loop"}
    /\ ret \in {"none", "true", "false"}
    /\ rowNum \in 0..Limit
    /\ err \in {"none", "row", "source", "frame"}
    /\ \A c \in {cols[f] : f \in DOMAIN cols}
              \cup UNION {{pages[k].data[f] : f \in DOMAIN pages[k].data} : k \in DOMAIN pages} :
          /\ c.dtype \in ColumnTypes
          /\ \A i \in DOMAIN c.data : c.data[i].dtype = c.dtype
    /\ Len(pageRows) = Len(pages)
    /\ drawn \in Seq(Rows)

(* All the columns of a frame, its index column under its field name.    *)
FrameColumns(p) ==
    LET idx == IF p.index = <<>> THEN {} ELSE {indexColKey}
    IN  [f \in DOMAIN p.data \cup idx |-> IF f \in DOMAIN p.data THEN p.data[f] ELSE p.index[1]]

(* A frame is the table of the rows it was built from: one column per     *)
(* field some row has, one cell per row, the row's value where the row    *)
(* has the field and AppendNil's missing value of the column's type       *)
(* where it does not, and the index field only as the index column.      *)
PageMatches(p, rs) ==
    LET c == FrameColumns(p) IN
    /\ indexColKey \notin DOMAIN p.data
    /\ DOMAIN c = UNION {DOMAIN rs[i] : i \in DOMAIN rs}
    /\ \A f \in DOMAIN c :
          /\ Len(c[f].data) = Len(rs)
          /\ \A i \in DOMAIN rs :
                c[f].data[i] = IF f \in DOMAIN rs[i] THEN rs[i][f]
                               ELSE Cell(c[f].dtype, NilOf[c[f].dtype])

(* Every frame Next yields (the mix of sparse rows, rows of new fields   *)
(* in mid-page and schema rows in the loop of Next) is exactly the table  *)
(* of the data rows drawn for it.                                         *)
PagesMatchSource ==
    \A k \in DOMAIN pages : PageMatches(pages[k], pageRows[k])

(* The source holds no schema row.                                      *)
SchemaFree ==
    \A i \in DOMAIN src : ~SchemaRow(src[i])

(* PagesMatchSource for sources without the table's schema row: a schema *)
(* row still counts in rowNum, which sizes the backfill of the columns   *)
(* created after it (kv_schema_phantom_row shows what it does).          *)
SchemaFreePagesMatch ==
    SchemaFree => PagesMatchSource

(* The last source position of page k: pages of Limit positions, the     *)
(* last one cut at the end of the source.                                 *)
PageEnd(k) == IF k * Limit < Len(src) THEN k * Limit ELSE Len(src)

(* d is the data rows of s[a..b] in order: an increasing map of the       *)
(* positions of d onto the positions of the non-schema rows among a..b.   *)
DataRowsOf(d, s, a, b) ==
    \E idx \in [1..Len(d) -> a..b] :
        /\ \A i, j \in 1..Len(d) : i < j => idx[i] < idx[j]
        /\ {idx[i] : i \in 1..Len(d)} = {j \in a..b : ~SchemaRow(s[j])}
        /\ \A i \in 1..Len(d) : d[i] = s[idx[i]]

(* When the iteration ends cleanly (Next false, Err nil), the frames      *)
(* taken cover the whole source in pages of Limit positions, and each was *)
(* built from exactly the data rows of its page, in order: the loop's     *)
(* limit test and the cursor's end never lose or repeat a row, and a      *)
(* schema row takes a place in its page.                                 *)
CleanEndPagination ==
    ret = "false" /\ err = "none" =>
        /\ Len(src) <= Len(pageRows) * Limit
        /\ \A k \in DOMAIN pageRows :
              /\ (k - 1) * Limit < Len(src)
              /\ DataRowsOf(pageRows[k], src, (k - 1) * Limit + 1, PageEnd(k))

(* A field whose values have two types, or a value of a type NewColumn    *)
(* refuses, somewhere in the source.                                     *)
BadSource ==
    \E i, j \in DOMAIN src : \E f \in DOMAIN src[i] \cap DOMAIN src[j] :
        \/ src[i][f].dtype # src[j][f].dtype
        \/ src[i][f].dtype \notin ColumnTypes

(* Next fails only on a cursor error or on values it cannot store: sparse *)
(* rows and fields that first appear in mid-page never make NewFrame      *)
(* refuse a page for ragged columns.  A schema row between two data rows  *)
(* of a page does (see SchemaFreePagesMatch), so it is excluded here.     *)
NoSpuriousError ==
    err # "none" => (srcFails /\ pos = Len(src)) \/ BadSource \/ ~SchemaFree


(* The design's frame iterator (spec section 4.3) over the same source:  *)
(* the pages are the data rows drawn for the frames taken, and the state *)
(* is Failed once Err is set, Exhausted after a clean false, else Ready.  *)
FI == INSTANCE FrameIterator WITH
        out <- pageRows,
        state <- IF err # "none" THEN "failed" ELSE IF ret = "false" THEN "exhausted" ELSE "ready",
        IsMarker <- SchemaRow

(* Next, as its consumer sees it, is the design's iterator: it yields the *)
(* pages of the source in order, never one past its end, ends cleanly    *)
(* only once they cover it, stays exhausted when called again, and keeps  *)
(* its error once it failed.                                             *)
FrameIteratorSpec == FI!Spec

=============================================================================
