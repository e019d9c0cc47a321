--------------------------- MODULE KVIteratorProofs ---------------------------
(***************************************************************************)
(* Proofs about the kv frame iterator (KVIterator): every column keeps    *)
(* cells of its own type, a frame built from a source without schema     *)
(* rows and without timestamps is the table of the rows drawn for it,    *)
(* and a clean end has paged through the whole source, for every set of  *)
(* rows, bound on the source and page limit.                             *)
(***************************************************************************)
EXTENDS KVIterator, TLAPS

(* The field names and the cells the rows may hold, and the cells that   *)
(* NewColumn and AppendNil put in a column.                               *)
Fields == UNION {DOMAIN r : r \in Rows}

RowCells == UNION {{r[f] : f \in DOMAIN r} : r \in Rows}

CellSet ==
    RowCells \cup {Cell(t, ZeroOf[t]) : t \in ColumnTypes}
             \cup {Cell(t, NilOf[t]) : t \in ColumnTypes}

(* A column of a type NewColumn knows.                                    *)
Columns == [dtype : ColumnTypes, data : Seq(CellSet)]

(* byName: columns under field names of the rows.                        *)
ColMaps == UNION {[D -> Columns] : D \in SUBSET Fields}

(* The frames the consumer took: data columns and at most one index.     *)
Pages == [data : ColMaps, index : Seq(Columns)]

(* Each cell of a column has the column's type.                          *)
Typed(c) == \A i \in DOMAIN c.data : c.data[i].dtype = c.dtype

(* The strengthened type invariant.                                       *)
TypeInv ==
    /\ src \in Seq(Rows) /\ Len(src) <= MaxRows
    /\ srcFails \in BOOLEAN
    /\ pos \in 0..Len(src)
    /\ ipc \in {"idle", "loop"}
    /\ ret \in {"none", "true", "false"}
    /\ rowNum \in 0..Limit
    /\ err \in {"none", "row", "source", "frame"}
    /\ cols \in ColMaps
    /\ \A f \in DOMAIN cols : Typed(cols[f])
    /\ pages \in Seq(Pages)
    /\ \A k \in DOMAIN pages : \A f \in DOMAIN pages[k].data : Typed(pages[k].data[f])
    /\ pageRows \in Seq(Seq(Rows))
    /\ Len(pageRows) = Len(pages)
    /\ drawn \in Seq(Rows)

(* For a source without schema rows, byName has the shape of the table   *)
(* of the rows drawn so far: rowNum counts them, there is a column for    *)
(* each of their fields and only for those, every column has one cell    *)
(* per row, a row's own value where it has the field, and each row drawn *)
(* is a row of the cursor.                                               *)
ShapeInv ==
    SchemaFree =>
      /\ rowNum = Len(drawn)
      /\ DOMAIN cols = UNION {DOMAIN drawn[i] : i \in DOMAIN drawn}
      /\ \A f \in DOMAIN cols : Len(cols[f].data) = Len(drawn)
      /\ \A f \in DOMAIN cols : \A i \in DOMAIN drawn :
            f \in DOMAIN drawn[i] => cols[f].data[i] = drawn[i][f]
      /\ \A i \in DOMAIN drawn : \E j \in 1..pos : drawn[i] = src[j]

(* ... and where a row lacks the field, the column holds AppendNil's     *)
(* missing value; the frames taken so far are the tables of their rows.  *)
ValueInv ==
    SchemaFree =>
      /\ \A f \in DOMAIN cols : \A i \in DOMAIN drawn :
            f \notin DOMAIN drawn[i] => cols[f].data[i] = Cell(cols[f].dtype, NilOf[cols[f].dtype])
      /\ PagesMatchSource

(* No row holds a timestamp: for every other type NewColumn's zero value *)
(* is AppendNil's missing value.                                          *)
NoTimeCells ==
    \A r \in Rows : \A f \in DOMAIN r : r[f].dtype # "time"

-----------------------------------------------------------------------------
(* Lemmas about byName and the column helpers.                          *)

LEMMA ColMapIntro ==
    ASSUME NEW D, D \subseteq Fields, NEW m \in [D -> Columns]
    PROVE  m \in ColMaps
  BY DEF ColMaps

LEMMA ColMapElim ==
    ASSUME NEW m \in ColMaps
    PROVE  /\ DOMAIN m \subseteq Fields
           /\ \A f \in DOMAIN m : m[f] \in Columns
           /\ m = [f \in DOMAIN m |-> m[f]]
  BY DEF ColMaps

(* AppendNil appends the missing value of the column's own type.        *)
LEMMA AppendNilTyped ==
    ASSUME NEW c \in Columns, Typed(c)
    PROVE  AppendNil(c) \in Columns /\ Typed(AppendNil(c))
  <1>1. c.dtype \in ColumnTypes /\ c.data \in Seq(CellSet)
    BY DEF Columns
  <1>2. Cell(c.dtype, NilOf[c.dtype]) \in CellSet
    BY <1>1 DEF CellSet
  <1>0. c = [dtype |-> c.dtype, data |-> c.data]
    BY DEF Columns
  <1>3. AppendNil(c) = [dtype |-> c.dtype, data |-> Append(c.data, Cell(c.dtype, NilOf[c.dtype]))]
    BY <1>0 DEF AppendNil
  <1>4. Append(c.data, Cell(c.dtype, NilOf[c.dtype])) \in Seq(CellSet)
    BY <1>1, <1>2
  <1>5. AppendNil(c) \in Columns
    BY <1>1, <1>3, <1>4 DEF Columns
  <1>6. Typed(AppendNil(c))
    BY <1>3 DEF Typed, Cell
  <1>7. QED
    BY <1>5, <1>6

(* AppendColumn of a value of the column's type keeps it typed.          *)
LEMMA AppendColumnTyped ==
    ASSUME NEW c \in Columns, Typed(c), NEW v \in CellSet, v.dtype = c.dtype
    PROVE  AppendColumn(c, v) \in Columns /\ Typed(AppendColumn(c, v))
  BY DEF AppendColumn, Columns, Typed

(* NewColumn of a known type holds size zero values of that type.       *)
LEMMA NewColumnTyped ==
    ASSUME NEW v, v.dtype \in ColumnTypes, NEW n \in Nat
    PROVE  NewColumn(v, n) \in Columns /\ Typed(NewColumn(v, n))
  <1>1. \A i \in 1..n : Cell(v.dtype, ZeroOf[v.dtype]) \in CellSet
    BY DEF CellSet
  <1>2. [i \in 1..n |-> Cell(v.dtype, ZeroOf[v.dtype])] \in Seq(CellSet)
    BY <1>1
  <1>3. QED
    BY <1>2 DEF NewColumn, Columns, Typed, Cell

(* The cells of a row are cells the columns may hold.                    *)
LEMMA RowCellsIn ==
    ASSUME NEW row \in Rows, NEW f \in DOMAIN row
    PROVE  row[f] \in CellSet /\ f \in Fields
  BY DEF CellSet, RowCells, Fields

(* A data row that passed the type checks of the loop body leaves every  *)
(* column, old or new, typed: a field the row lacks gets AppendNil, a     *)
(* known field a value of its column's type, a new field a column of     *)
(* rowNum zero values and then the row's value.                          *)
LEMMA AddRowTyped ==
    ASSUME cols \in ColMaps, \A f \in DOMAIN cols : Typed(cols[f]),
           NEW row \in Rows, ~RowFails(row), rowNum \in Nat
    PROVE  AddRow(row) \in ColMaps /\ \A f \in DOMAIN AddRow(row) : Typed(AddRow(row)[f])
  <1> DEFINE D == DOMAIN cols \cup DOMAIN row
  <1>1. D \subseteq Fields
    BY ColMapElim, RowCellsIn
  <1>2. ASSUME NEW f \in D
        PROVE  AddRow(row)[f] \in Columns /\ Typed(AddRow(row)[f])
    <2>1. CASE f \notin DOMAIN row
      <3>1. f \in DOMAIN cols /\ cols[f] \in Columns
        BY <2>1, ColMapElim
      <3>2. AddRow(row)[f] = AppendNil(cols[f])
        BY <2>1 DEF AddRow
      <3>3. QED
        BY <3>1, <3>2, AppendNilTyped
    <2>2. CASE f \in DOMAIN row /\ f \in DOMAIN cols
      <3>1. cols[f] \in Columns /\ row[f] \in CellSet
        BY <2>2, ColMapElim, RowCellsIn
      <3>2. ~AppendFails(cols[f], row[f])
        BY <2>2 DEF RowFails
      <3>3. row[f].dtype = cols[f].dtype
        BY <3>2 DEF AppendFails
      <3>4. AddRow(row)[f] = AppendColumn(cols[f], row[f])
        BY <2>2 DEF AddRow
      <3>5. Typed(cols[f])
        BY <2>2
      <3>6. QED
        BY <3>1, <3>3, <3>4, <3>5, AppendColumnTyped
    <2>3. CASE f \in DOMAIN row /\ f \notin DOMAIN cols
      <3>1. row[f] \in CellSet
        BY <2>3, RowCellsIn
      <3>2. row[f].dtype \in ColumnTypes
        BY <2>3 DEF RowFails, NewColumnFails
      <3>3. NewColumn(row[f], rowNum) \in Columns /\ Typed(NewColumn(row[f], rowNum))
        BY <3>2, NewColumnTyped
      <3>4. NewColumn(row[f], rowNum).dtype = row[f].dtype
        BY DEF NewColumn
      <3>5. AddRow(row)[f] = AppendColumn(NewColumn(row[f], rowNum), row[f])
        BY <2>3 DEF AddRow
      <3>6. QED
        BY <3>1, <3>3, <3>4, <3>5, AppendColumnTyped
    <2>4. QED
      BY <2>1, <2>2, <2>3
  <1>3. AddRow(row) \in [D -> Columns]
    BY <1>2 DEF AddRow
  <1>4. QED
    BY <1>1, <1>2, <1>3, ColMapIntro DEF AddRow

(* The frame built after the loop: the data columns without the index   *)
(* field and at most the one index column, all typed.                    *)
LEMMA ExtractIndexTyped ==
    ASSUME cols \in ColMaps, \A f \in DOMAIN cols : Typed(cols[f])
    PROVE  /\ ExtractIndex \in Pages
           /\ \A f \in DOMAIN ExtractIndex.data : Typed(ExtractIndex.data[f])
  <1>1. DOMAIN cols \ {indexColKey} \subseteq Fields
        /\ \A f \in DOMAIN cols : cols[f] \in Columns
    BY ColMapElim
  <1>2. ExtractIndex.data \in ColMaps
    BY <1>1, ColMapIntro DEF ExtractIndex
  <1>3. ExtractIndex.index \in Seq(Columns)
    BY <1>1 DEF ExtractIndex
  <1>4. QED
    BY <1>2, <1>3 DEF ExtractIndex, Pages

(* What AddRow does to one column when every column has rowNum cells:   *)
(* a known column keeps its type and cells and gains one, a new column   *)
(* has rowNum zero values of the row's type; the last cell is the row's  *)
(* value, or AppendNil's missing value where the row lacks the field.    *)
LEMMA AddRowColumn ==
    ASSUME cols \in ColMaps, rowNum \in Nat,
           \A f \in DOMAIN cols : Len(cols[f].data) = rowNum,
           NEW row \in Rows, ~RowFails(row),
           NEW f \in DOMAIN cols \cup DOMAIN row
    PROVE  LET c == AddRow(row)[f] IN
           /\ Len(c.data) = rowNum + 1
           /\ f \in DOMAIN cols => /\ c.dtype = cols[f].dtype
                                  /\ \A i \in 1..rowNum : c.data[i] = cols[f].data[i]
           /\ f \notin DOMAIN cols => /\ c.dtype = row[f].dtype
                                     /\ \A i \in 1..rowNum :
                                           c.data[i] = Cell(row[f].dtype, ZeroOf[row[f].dtype])
           /\ c.data[rowNum + 1] = IF f \in DOMAIN row THEN row[f]
                                   ELSE Cell(c.dtype, NilOf[c.dtype])
  <1>1. CASE f \notin DOMAIN row
    <2>1. f \in DOMAIN cols /\ cols[f] \in Columns
      BY <1>1, ColMapElim
    <2>2. AddRow(row)[f] = AppendNil(cols[f])
      BY <1>1 DEF AddRow
    <2>3. QED
      BY <1>1, <2>1, <2>2 DEF AppendNil, Columns
  <1>2. CASE f \in DOMAIN row /\ f \in DOMAIN cols
    <2>1. cols[f] \in Columns
      BY <1>2, ColMapElim
    <2>2. AddRow(row)[f] = AppendColumn(cols[f], row[f])
      BY <1>2 DEF AddRow
    <2>3. QED
      BY <1>2, <2>1, <2>2 DEF AppendColumn, Columns
  <1>3. CASE f \in DOMAIN row /\ f \notin DOMAIN cols
    <2>1. AddRow(row)[f] = AppendColumn(NewColumn(row[f], rowNum), row[f])
      BY <1>3 DEF AddRow
    <2>2. NewColumn(row[f], rowNum).data \in Seq({Cell(row[f].dtype, ZeroOf[row[f].dtype])})
      BY DEF NewColumn
    <2>3. QED
      BY <1>3, <2>1, <2>2 DEF AppendColumn, NewColumn
  <1>4. QED
    BY <1>1, <1>2, <1>3

-----------------------------------------------------------------------------
(* The initial state satisfies the strengthened type invariant.          *)
LEMMA InitTypeInv == Init => TypeInv
  <1> SUFFICES ASSUME Init PROVE TypeInv
    OBVIOUS
  <1>1. src \in Seq(Rows) /\ Len(src) <= MaxRows
    BY KVAssumption DEF Init
  <1>2. srcFails \in BOOLEAN
    BY DEF Init
  <1>3. cols \in ColMaps /\ \A f \in DOMAIN cols : Typed(cols[f])
    <2>1. cols \in [{} -> Columns]
      BY DEF Init, NoCols
    <2>2. QED
      BY <2>1, ColMapIntro DEF Init, NoCols
  <1>4. QED
    BY <1>1, <1>2, <1>3, KVAssumption DEF Init, TypeInv

(* Every step of the consumer loop keeps the types.                      *)
LEMMA NextTypeInv == TypeInv /\ [Next]_vars => TypeInv'
  <1> SUFFICES ASSUME TypeInv, [Next]_vars PROVE TypeInv'
    OBVIOUS
  <1> USE KVAssumption
  <1>1. CASE NextStart
    <2>1. cols' \in ColMaps /\ \A f \in DOMAIN cols' : Typed(cols'[f])
      <3>1. cols' \in [{} -> Columns]
        BY <1>1 DEF NextStart, NoCols
      <3>2. QED
        BY <1>1, <3>1, ColMapIntro DEF NextStart, NoCols
    <2>2. srcFails' \in BOOLEAN
      BY <1>1 DEF NextStart, TypeInv
    <2>3. QED
      BY <1>1, <2>1, <2>2 DEF NextStart, TypeInv
  <1>2. CASE NextRow
    <2>1. /\ ipc = "loop" /\ rowNum < Limit /\ pos < Len(src) /\ pos' = pos + 1
          /\ UNCHANGED <<src, srcFails, pages, pageRows>>
      BY <1>2 DEF NextRow
    <2> DEFINE row == src[pos + 1]
    <2>2. row \in Rows
      BY <2>1 DEF TypeInv
    <2>3. srcFails' \in BOOLEAN
      BY <2>1 DEF TypeInv
    <2>4. CASE SchemaRow(row) /\ rowNum' = rowNum + 1 /\ UNCHANGED <<ipc, ret, cols, err, drawn>>
      BY <2>1, <2>3, <2>4 DEF TypeInv
    <2>5. CASE /\ ~SchemaRow(row) /\ RowFails(row)
               /\ err' = "row" /\ ipc' = "idle" /\ ret' = "false"
               /\ UNCHANGED <<rowNum, cols, drawn>>
      BY <2>1, <2>3, <2>5 DEF TypeInv
    <2>6. CASE /\ ~SchemaRow(row) /\ ~RowFails(row)
               /\ cols' = AddRow(row) /\ drawn' = Append(drawn, row) /\ rowNum' = rowNum + 1
               /\ UNCHANGED <<ipc, ret, err>>
      <3>1. cols' \in ColMaps /\ \A f \in DOMAIN cols' : Typed(cols'[f])
        BY <2>2, <2>6, AddRowTyped DEF TypeInv
      <3>2. QED
        BY <2>1, <2>2, <2>3, <2>6, <3>1 DEF TypeInv
    <2>7. QED
      BY <1>2, <2>4, <2>5, <2>6 DEF NextRow
  <1>3. CASE NextEnd
    <2>1. /\ ipc' = "idle"
          /\ UNCHANGED <<src, srcFails, pos, rowNum, cols, drawn>>
          /\ \/ UNCHANGED <<pages, pageRows>> /\ err' \in {err, "source", "frame"}
                /\ ret' = "false"
             \/ pages' = Append(pages, ExtractIndex) /\ pageRows' = Append(pageRows, drawn)
                /\ ret' = "true" /\ UNCHANGED err
      BY <1>3 DEF NextEnd, AfterLoop
    <2>2. srcFails' \in BOOLEAN
      BY <2>1 DEF TypeInv
    <2>3. ExtractIndex \in Pages /\ \A f \in DOMAIN ExtractIndex.data : Typed(ExtractIndex.data[f])
      BY ExtractIndexTyped DEF TypeInv
    <2>4. CASE UNCHANGED <<pages, pageRows>> /\ err' \in {err, "source", "frame"} /\ ret' = "false"
      BY <2>1, <2>2, <2>4 DEF TypeInv
    <2>5. CASE /\ pages' = Append(pages, ExtractIndex) /\ pageRows' = Append(pageRows, drawn)
               /\ ret' = "true" /\ UNCHANGED err
      <3>1. pages' \in Seq(Pages) /\ pageRows' \in Seq(Seq(Rows)) /\ Len(pageRows') = Len(pages')
        BY <2>3, <2>5 DEF TypeInv
      <3>2. \A k \in DOMAIN pages' : \A f \in DOMAIN pages'[k].data : Typed(pages'[k].data[f])
        <4> SUFFICES ASSUME NEW k \in DOMAIN pages' PROVE \A f \in DOMAIN pages'[k].data : Typed(pages'[k].data[f])
          OBVIOUS
        <4>1. CASE k \in DOMAIN pages
          <5>1. pages'[k] = pages[k]
            BY <2>5, <4>1 DEF TypeInv
          <5>2. QED
            BY <4>1, <5>1 DEF TypeInv
        <4>2. CASE k \notin DOMAIN pages
          <5>1. pages'[k] = ExtractIndex
            BY <2>5, <4>2 DEF TypeInv
          <5>2. QED
            BY <2>3, <5>1
        <4>3. QED
          BY <4>1, <4>2
      <3>3. QED
        BY <2>1, <2>2, <2>5, <3>1, <3>2 DEF TypeInv
    <2>6. QED
      BY <2>1, <2>4, <2>5
  <1>4. CASE UNCHANGED vars
    <2>1. srcFails' \in BOOLEAN
      BY <1>4 DEF vars, TypeInv
    <2>2. QED
      BY <1>4, <2>1 DEF vars, TypeInv
  <1>5. QED
    BY <1>1, <1>2, <1>3, <1>4 DEF Next

(* The strengthened type invariant holds in every reachable state.        *)
LEMMA AlwaysTypeInv == Spec => []TypeInv
  BY InitTypeInv, NextTypeInv, PTL DEF Spec

(* Every column of the page Next is building and of every frame taken    *)
(* holds cells of its own type, and of a type NewColumn knows, whatever  *)
(* mix of rows the cursor returned: the type checks of the row loop and  *)
(* AppendNil's type switch never let a cell of another type in.          *)
THEOREM TypeCorrect == Spec => []TypeOK
  <1>1. TypeInv => TypeOK
    <2> SUFFICES ASSUME TypeInv PROVE TypeOK
      OBVIOUS
    <2>1. \A f \in DOMAIN cols : cols[f] \in Columns
      BY ColMapElim DEF TypeInv
    <2>2. \A k \in DOMAIN pages : \A f \in DOMAIN pages[k].data : pages[k].data[f] \in Columns
      <3> SUFFICES ASSUME NEW k \in DOMAIN pages PROVE \A f \in DOMAIN pages[k].data : pages[k].data[f] \in Columns
        OBVIOUS
      <3>1. pages[k] \in Pages
        BY DEF TypeInv
      <3>2. QED
        BY <3>1, ColMapElim DEF Pages
    <2>3. QED
      BY <2>1, <2>2 DEF TypeInv, TypeOK, Columns, Typed
  <1>2. QED
    BY <1>1, AlwaysTypeInv, PTL


-----------------------------------------------------------------------------
(* No step changes the cursor's rows.                                    *)
LEMMA SrcConst == [Next]_vars => src' = src
  BY DEF Next, NextStart, NextRow, NextEnd, AfterLoop, vars

LEMMA InitShapeInv == Init => ShapeInv
  BY DEF Init, ShapeInv, NoCols

(* One iteration of the row loop over a data row that passed the type    *)
(* checks keeps byName the table of the rows drawn.                      *)
LEMMA AddRowShape ==
    ASSUME TypeInv, ShapeInv, SchemaFree, NextRow, pos < Len(src),
           ~RowFails(src[pos + 1]),
           cols' = AddRow(src[pos + 1]), drawn' = Append(drawn, src[pos + 1]),
           rowNum' = rowNum + 1, pos' = pos + 1, src' = src
    PROVE  ShapeInv'
  <1> DEFINE row == src[pos + 1]
  <1>1. row \in Rows /\ drawn \in Seq(Rows) /\ pos \in Nat /\ rowNum \in Nat /\ cols \in ColMaps
    BY DEF TypeInv
  <1>2. /\ rowNum = Len(drawn)
        /\ DOMAIN cols = UNION {DOMAIN drawn[i] : i \in DOMAIN drawn}
        /\ \A f \in DOMAIN cols : Len(cols[f].data) = Len(drawn)
        /\ \A f \in DOMAIN cols : \A i \in DOMAIN drawn :
              f \in DOMAIN drawn[i] => cols[f].data[i] = drawn[i][f]
        /\ \A i \in DOMAIN drawn : \E j \in 1..pos : drawn[i] = src[j]
    BY DEF ShapeInv
  <1>3. DOMAIN cols' = DOMAIN cols \cup DOMAIN row
    BY DEF AddRow
  <1>4. rowNum' = Len(drawn')
    BY <1>1, <1>2
  <1>5. DOMAIN cols' = UNION {DOMAIN drawn'[i] : i \in DOMAIN drawn'}
    <2>1. DOMAIN drawn' = DOMAIN drawn \cup {Len(drawn) + 1}
      BY <1>1
    <2>2. drawn'[Len(drawn) + 1] = row /\ \A i \in DOMAIN drawn : drawn'[i] = drawn[i]
      BY <1>1
    <2>3. QED
      BY <1>2, <1>3, <2>1, <2>2
  <1>6. ASSUME NEW f \in DOMAIN cols'
        PROVE  /\ Len(cols'[f].data) = Len(drawn')
               /\ \A i \in DOMAIN drawn' : f \in DOMAIN drawn'[i] => cols'[f].data[i] = drawn'[i][f]
    <2>0. /\ \A g \in DOMAIN cols : Len(cols[g].data) = rowNum
          /\ f \in DOMAIN cols \cup DOMAIN row
          /\ row \in Rows /\ ~RowFails(row)
      BY <1>1, <1>2, <1>3
    <2>1. LET c == AddRow(row)[f] IN
          /\ Len(c.data) = rowNum + 1
          /\ f \in DOMAIN cols => \A i \in 1..rowNum : c.data[i] = cols[f].data[i]
          /\ c.data[rowNum + 1] = IF f \in DOMAIN row THEN row[f]
                                  ELSE Cell(c.dtype, NilOf[c.dtype])
      BY <1>1, <2>0, AddRowColumn
    <2>2. Len(cols'[f].data) = Len(drawn')
      BY <1>1, <1>2, <2>1
    <2>3. ASSUME NEW i \in DOMAIN drawn', f \in DOMAIN drawn'[i]
          PROVE  cols'[f].data[i] = drawn'[i][f]
      <3>1. CASE i \in DOMAIN drawn
        <4>1. f \in DOMAIN drawn[i] /\ drawn'[i] = drawn[i]
          BY <1>1, <2>3, <3>1
        <4>2. f \in DOMAIN cols
          BY <1>2, <4>1, <3>1
        <4>3. i \in 1..rowNum
          BY <1>1, <1>2, <3>1
        <4>4. QED
          BY <1>2, <2>1, <3>1, <4>1, <4>2, <4>3
      <3>2. CASE i \notin DOMAIN drawn
        <4>1. i = rowNum + 1 /\ drawn'[i] = row
          BY <1>1, <1>2, <3>2
        <4>2. QED
          BY <2>1, <2>3, <4>1
      <3>3. QED
        BY <3>1, <3>2
    <2>4. QED
      BY <2>2, <2>3
  <1>7. \A i \in DOMAIN drawn' : \E j \in 1..pos' : drawn'[i] = src'[j]
    <2> SUFFICES ASSUME NEW i \in DOMAIN drawn' PROVE \E j \in 1..pos' : drawn'[i] = src'[j]
      OBVIOUS
    <2>1. CASE i \in DOMAIN drawn
      <3>1. PICK j \in 1..pos : drawn[i] = src[j]
        BY <1>2, <2>1
      <3>2. drawn'[i] = drawn[i]
        BY <1>1, <2>1
      <3>3. QED
        BY <1>1, <3>1, <3>2
    <2>2. CASE i \notin DOMAIN drawn
      BY <1>1, <2>2
    <2>3. QED
      BY <2>1, <2>2
  <1>8. QED
    BY <1>4, <1>5, <1>6, <1>7 DEF ShapeInv


(* Every step keeps byName the table of the rows drawn, for a source     *)
(* without schema rows.                                                   *)
LEMMA ShapeStep == TypeInv /\ ShapeInv /\ [Next]_vars => ShapeInv'
  <1> SUFFICES ASSUME TypeInv, ShapeInv, [Next]_vars, SchemaFree' PROVE ShapeInv'
    BY DEF ShapeInv
  <1>0. src' = src /\ SchemaFree
    BY SrcConst DEF SchemaFree
  <1>1. CASE NextStart
    BY <1>1 DEF NextStart, ShapeInv, NoCols
  <1>2. CASE NextRow
    <2> DEFINE row == src[pos + 1]
    <2>1. /\ pos < Len(src) /\ pos' = pos + 1 /\ ~SchemaRow(row)
          /\ pos \in Nat /\ src \in Seq(Rows)
      BY <1>0, <1>2 DEF NextRow, SchemaFree, TypeInv
    <2>2. CASE RowFails(row)
      <3>1. UNCHANGED <<rowNum, cols, drawn>>
        BY <1>2, <2>1, <2>2 DEF NextRow
      <3>2. \A i \in DOMAIN drawn : \E j \in 1..pos : drawn[i] = src[j]
        BY <1>0 DEF ShapeInv
      <3>3. QED
        BY <1>0, <2>1, <3>1, <3>2 DEF ShapeInv
    <2>3. CASE ~RowFails(row)
      <3>1. cols' = AddRow(row) /\ drawn' = Append(drawn, row) /\ rowNum' = rowNum + 1
        BY <1>2, <2>1, <2>3 DEF NextRow
      <3>2. QED
        BY <1>0, <1>2, <2>1, <2>3, <3>1, AddRowShape
    <2>4. QED
      BY <2>2, <2>3
  <1>3. CASE NextEnd
    BY <1>0, <1>3 DEF NextEnd, ShapeInv, SchemaFree
  <1>4. CASE UNCHANGED vars
    BY <1>0, <1>4 DEF vars, ShapeInv, SchemaFree
  <1>5. QED
    BY <1>1, <1>2, <1>3, <1>4 DEF Next

(* For a source without schema rows every column of the frame has one   *)
(* length, so frames.NewFrame never refuses it.                          *)
LEMMA FrameNotRagged ==
    ASSUME TypeInv, ShapeInv, SchemaFree
    PROVE  ~NewFrameFails(ExtractIndex.data, ExtractIndex.index)
  <1>1. \A f \in DOMAIN cols : Len(cols[f].data) = Len(drawn)
    BY DEF ShapeInv
  <1>2. \A c \in {ExtractIndex.data[f] : f \in DOMAIN ExtractIndex.data}
                 \cup {ExtractIndex.index[i] : i \in DOMAIN ExtractIndex.index} :
           Len(c.data) = Len(drawn)
    BY <1>1 DEF ExtractIndex
  <1>3. QED
    BY <1>2 DEF NewFrameFails

(* A row a known column refuses disagrees in type with an earlier row of *)
(* the cursor; a value NewColumn refuses is of no column type.           *)
LEMMA RowFailsBad ==
    ASSUME TypeInv, ShapeInv, SchemaFree, pos < Len(src), RowFails(src[pos + 1])
    PROVE  BadSource
  <1> DEFINE row == src[pos + 1]
  <1>1. pos + 1 \in DOMAIN src /\ pos \in Nat /\ src \in Seq(Rows)
    BY DEF TypeInv
  <1>2. PICK f \in DOMAIN row :
            IF f \in DOMAIN cols THEN AppendFails(cols[f], row[f]) ELSE NewColumnFails(row[f])
    BY DEF RowFails
  <1>3. CASE f \in DOMAIN cols
    <2>1. row[f].dtype # cols[f].dtype
      BY <1>2, <1>3 DEF AppendFails
    <2>2. PICK i \in DOMAIN drawn : f \in DOMAIN drawn[i]
      BY <1>3 DEF ShapeInv
    <2>3. cols[f].data[i] = drawn[i][f]
      BY <1>3, <2>2 DEF ShapeInv
    <2>4. Typed(cols[f]) /\ Len(cols[f].data) = Len(drawn) /\ drawn \in Seq(Rows)
      BY <1>3 DEF TypeInv, ShapeInv
    <2>5. drawn[i][f].dtype = cols[f].dtype
      BY <2>2, <2>3, <2>4 DEF Typed
    <2>6. PICK j \in 1..pos : drawn[i] = src[j]
      BY <2>2 DEF ShapeInv
    <2>7. j \in DOMAIN src /\ f \in DOMAIN src[j] /\ src[j][f].dtype # row[f].dtype
      BY <1>1, <2>1, <2>2, <2>5, <2>6
    <2>8. QED
      BY <1>1, <2>7 DEF BadSource
  <1>4. CASE f \notin DOMAIN cols
    <2>1. row[f].dtype \notin ColumnTypes
      BY <1>2, <1>4 DEF NewColumnFails
    <2>2. QED
      BY <1>1, <2>1 DEF BadSource
  <1>5. QED
    BY <1>3, <1>4

(* Every step keeps NoSpuriousError.                                    *)
LEMMA ErrStep == TypeInv /\ ShapeInv /\ NoSpuriousError /\ [Next]_vars => NoSpuriousError'
  <1> SUFFICES ASSUME TypeInv, ShapeInv, NoSpuriousError, [Next]_vars, err' # "none"
               PROVE  (srcFails' /\ pos' = Len(src')) \/ BadSource' \/ ~SchemaFree'
    BY DEF NoSpuriousError
  <1>0. src' = src /\ (BadSource' = BadSource) /\ (SchemaFree' = SchemaFree)
    BY SrcConst DEF BadSource, SchemaFree
  <1>1. CASE NextStart
    BY <1>0, <1>1 DEF NextStart, NoSpuriousError
  <1>2. CASE NextRow
    <2>1. pos < Len(src) /\ srcFails' = srcFails
      BY <1>2 DEF NextRow
    <2>2. CASE err # "none"
      BY <1>0, <2>1, <2>2 DEF NoSpuriousError
    <2>3. CASE err = "none" /\ SchemaFree
      <3>1. RowFails(src[pos + 1])
        BY <1>2, <2>3 DEF NextRow
      <3>2. QED
        BY <1>0, <2>1, <2>3, <3>1, RowFailsBad
    <2>4. QED
      BY <1>0, <2>2, <2>3
  <1>3. CASE NextEnd
    <2>1. UNCHANGED <<src, srcFails, pos, rowNum, cols, drawn>>
      BY <1>3 DEF NextEnd
    <2>2. \/ err' = err
          \/ err' = "source" /\ pos = Len(src) /\ srcFails
          \/ err' = "frame" /\ NewFrameFails(ExtractIndex.data, ExtractIndex.index)
      BY <1>3 DEF NextEnd, AfterLoop
    <2>3. SchemaFree => ~NewFrameFails(ExtractIndex.data, ExtractIndex.index)
      BY FrameNotRagged
    <2>4. QED
      BY <1>0, <2>1, <2>2, <2>3 DEF NoSpuriousError
  <1>4. CASE UNCHANGED vars
    BY <1>4 DEF vars, NoSpuriousError, BadSource, SchemaFree
  <1>5. QED
    BY <1>1, <1>2, <1>3, <1>4 DEF Next

LEMMA InitNoSpurious == Init => NoSpuriousError
  BY DEF Init, NoSpuriousError

(* Every behaviour keeps the three invariants together.                  *)
LEMMA AlwaysNoSpurious == Spec => [](TypeInv /\ ShapeInv /\ NoSpuriousError)
  <1>1. Init => TypeInv /\ ShapeInv /\ NoSpuriousError
    BY InitTypeInv, InitShapeInv, InitNoSpurious
  <1>2. TypeInv /\ ShapeInv /\ NoSpuriousError /\ [Next]_vars
          => (TypeInv /\ ShapeInv /\ NoSpuriousError)'
    BY NextTypeInv, ShapeStep, ErrStep
  <1>3. QED
    BY <1>1, <1>2, PTL DEF Spec

(* Next returns an error only when the source really failed, or when     *)
(* its rows disagree on the type of a field or carry a type NewColumn    *)
(* does not know, or when it has a schema row: for a well-typed source   *)
(* without schema rows, the checks of the row loop (AppendFails,         *)
(* NewColumnFails) and of frames.NewFrame never fire, because every      *)
(* column holds exactly the cells of the rows drawn so far.              *)
THEOREM NoSpuriousHonest == Spec => []NoSpuriousError
  BY AlwaysNoSpurious, PTL


-----------------------------------------------------------------------------
(* For every type but timestamps, NewColumn's zero value is AppendNil's  *)
(* missing value (time.Time{} against the Unix epoch for timestamps).    *)
LEMMA ZeroIsNil ==
    ASSUME NEW t \in ColumnTypes, t # "time"
    PROVE  ZeroOf[t] = NilOf[t]
  <1>1. t = "int" \/ t = "float" \/ t = "string" \/ t = "bool"
    BY DEF ColumnTypes
  <1>2. CASE t = "int"
    BY <1>2, Zenon DEF ZeroOf, NilOf
  <1>3. CASE t = "float"
    BY <1>3, Zenon DEF ZeroOf, NilOf
  <1>4. CASE t = "string"
    BY <1>4, Zenon DEF ZeroOf, NilOf
  <1>5. CASE t = "bool"
    BY <1>5, Zenon DEF ZeroOf, NilOf
  <1>6. QED
    BY <1>1, <1>2, <1>3, <1>4, <1>5

(* Taking the index column out of byName and putting it back under its   *)
(* field name gives byName again.                                        *)
LEMMA FrameIsCols ==
    ASSUME cols \in ColMaps
    PROVE  /\ FrameColumns(ExtractIndex) = cols
           /\ indexColKey \notin DOMAIN ExtractIndex.data
  <1>1. cols = [f \in DOMAIN cols |-> cols[f]]
    BY ColMapElim
  <1>2. CASE indexColKey \in DOMAIN cols
    <2>1. ExtractIndex.index = <<cols[indexColKey]>>
      BY <1>2 DEF ExtractIndex
    <2>2. QED
      BY <1>1, <1>2, <2>1 DEF FrameColumns, ExtractIndex
  <1>3. CASE indexColKey \notin DOMAIN cols
    <2>1. ExtractIndex.index = <<>>
      BY <1>3 DEF ExtractIndex
    <2>2. QED
      BY <1>1, <1>3, <2>1 DEF FrameColumns, ExtractIndex
  <1>4. QED
    BY <1>2, <1>3


(* A data row added to byName keeps AppendNil's missing value in every   *)
(* cell of a row that lacks the field: the new row's own missing fields  *)
(* get AppendNil, and a column created in mid-page is backfilled with    *)
(* NewColumn's zero values, which are the missing values unless the      *)
(* column holds timestamps.                                              *)
LEMMA AddRowNil ==
    ASSUME TypeInv, ShapeInv, ValueInv, SchemaFree, NoTimeCells,
           pos < Len(src), ~RowFails(src[pos + 1]),
           cols' = AddRow(src[pos + 1]), drawn' = Append(drawn, src[pos + 1])
    PROVE  \A f \in DOMAIN cols' : \A i \in DOMAIN drawn' :
              f \notin DOMAIN drawn'[i] =>
                 cols'[f].data[i] = Cell(cols'[f].dtype, NilOf[cols'[f].dtype])
  <1> DEFINE row == src[pos + 1]
  <1>1. row \in Rows /\ drawn \in Seq(Rows) /\ cols \in ColMaps /\ pos \in Nat
    BY DEF TypeInv
  <1>2. /\ rowNum = Len(drawn)
        /\ \A g \in DOMAIN cols : Len(cols[g].data) = rowNum
        /\ \A g \in DOMAIN cols : \A i \in DOMAIN drawn :
              g \notin DOMAIN drawn[i] => cols[g].data[i] = Cell(cols[g].dtype, NilOf[cols[g].dtype])
    BY DEF ShapeInv, ValueInv
  <1> SUFFICES ASSUME NEW f \in DOMAIN cols', NEW i \in DOMAIN drawn', f \notin DOMAIN drawn'[i]
               PROVE  cols'[f].data[i] = Cell(cols'[f].dtype, NilOf[cols'[f].dtype])
    OBVIOUS
  <1>3. f \in DOMAIN cols \cup DOMAIN row
    BY DEF AddRow
  <1> DEFINE c == AddRow(row)[f]
  <1>4. /\ Len(c.data) = rowNum + 1
        /\ f \in DOMAIN cols => /\ c.dtype = cols[f].dtype
                               /\ \A k \in 1..rowNum : c.data[k] = cols[f].data[k]
        /\ f \notin DOMAIN cols => /\ c.dtype = row[f].dtype
                                  /\ \A k \in 1..rowNum :
                                        c.data[k] = Cell(row[f].dtype, ZeroOf[row[f].dtype])
        /\ c.data[rowNum + 1] = IF f \in DOMAIN row THEN row[f]
                                ELSE Cell(c.dtype, NilOf[c.dtype])
    BY <1>1, <1>2, <1>3, AddRowColumn
  <1>5. CASE i = Len(drawn) + 1
    BY <1>1, <1>2, <1>4, <1>5
  <1>6. CASE i \in 1..Len(drawn)
    <2>1. drawn'[i] = drawn[i] /\ i \in DOMAIN drawn
      BY <1>1, <1>6
    <2>2. CASE f \in DOMAIN cols
      BY <1>1, <1>2, <1>4, <1>6, <2>1, <2>2
    <2>3. CASE f \notin DOMAIN cols
      <3>1. f \in DOMAIN row
        BY <1>3, <2>3
      <3>2. row[f].dtype \in ColumnTypes
        BY <2>3, <3>1 DEF RowFails, NewColumnFails
      <3>3. row[f].dtype # "time"
        BY <1>1, <3>1 DEF NoTimeCells
      <3>4. ZeroOf[row[f].dtype] = NilOf[row[f].dtype]
        BY <3>2, <3>3, ZeroIsNil
      <3>5. QED
        BY <1>2, <1>4, <1>6, <2>3, <3>4
    <2>4. QED
      BY <2>2, <2>3
  <1>7. QED
    BY <1>1, <1>5, <1>6

(* The frame Next hands out after the loop is the table of the rows it  *)
(* drew.                                                                  *)
LEMMA FramePageMatches ==
    ASSUME TypeInv, ShapeInv, ValueInv, SchemaFree
    PROVE  PageMatches(ExtractIndex, drawn)
  <1>1. FrameColumns(ExtractIndex) = cols /\ indexColKey \notin DOMAIN ExtractIndex.data
    BY FrameIsCols DEF TypeInv
  <1>2. /\ DOMAIN cols = UNION {DOMAIN drawn[i] : i \in DOMAIN drawn}
        /\ \A f \in DOMAIN cols : Len(cols[f].data) = Len(drawn)
        /\ \A f \in DOMAIN cols : \A i \in DOMAIN drawn :
              cols[f].data[i] = IF f \in DOMAIN drawn[i] THEN drawn[i][f]
                                ELSE Cell(cols[f].dtype, NilOf[cols[f].dtype])
    BY DEF ShapeInv, ValueInv
  <1>3. QED
    BY <1>1, <1>2 DEF PageMatches


(* With no timestamps in the rows, every step keeps ValueInv.            *)
LEMMA ValueStep ==
    ASSUME NoTimeCells
    PROVE  TypeInv /\ ShapeInv /\ ValueInv /\ [Next]_vars => ValueInv'
  <1> SUFFICES ASSUME TypeInv, ShapeInv, ValueInv, [Next]_vars, SchemaFree'
               PROVE  ValueInv'
    BY DEF ValueInv
  <1>0. src' = src /\ SchemaFree
    BY SrcConst DEF SchemaFree
  <1>1. PagesMatchSource
    BY <1>0 DEF ValueInv
  <1>2. CASE NextStart
    BY <1>0, <1>1, <1>2 DEF NextStart, ValueInv, NoCols, PagesMatchSource
  <1>3. CASE NextRow
    <2> DEFINE row == src[pos + 1]
    <2>1. /\ pos < Len(src) /\ ~SchemaRow(row)
          /\ UNCHANGED <<pages, pageRows>>
      BY <1>0, <1>3 DEF NextRow, SchemaFree, TypeInv
    <2>2. PagesMatchSource'
      BY <1>1, <2>1 DEF PagesMatchSource
    <2>3. CASE RowFails(row)
      <3>1. UNCHANGED <<cols, drawn>>
        BY <1>3, <2>1, <2>3 DEF NextRow
      <3>2. QED
        BY <1>0, <2>2, <3>1 DEF ValueInv
    <2>4. CASE ~RowFails(row)
      <3>1. cols' = AddRow(row) /\ drawn' = Append(drawn, row)
        BY <1>3, <2>1, <2>4 DEF NextRow
      <3>2. QED
        BY <1>0, <2>1, <2>2, <2>4, <3>1, AddRowNil DEF ValueInv
    <2>5. QED
      BY <2>3, <2>4
  <1>4. CASE NextEnd
    <2>1. UNCHANGED <<cols, drawn>>
      BY <1>4 DEF NextEnd
    <2>2. \/ UNCHANGED <<pages, pageRows>>
          \/ pages' = Append(pages, ExtractIndex) /\ pageRows' = Append(pageRows, drawn)
      BY <1>4 DEF NextEnd, AfterLoop
    <2>3. PageMatches(ExtractIndex, drawn)
      BY <1>0, FramePageMatches
    <2>4. pages \in Seq(Pages) /\ pageRows \in Seq(Seq(Rows)) /\ Len(pageRows) = Len(pages)
      BY DEF TypeInv
    <2>5. ASSUME UNCHANGED <<pages, pageRows>> PROVE PagesMatchSource'
      BY <1>1, <2>5 DEF PagesMatchSource
    <2>6. ASSUME pages' = Append(pages, ExtractIndex), pageRows' = Append(pageRows, drawn)
          PROVE  PagesMatchSource'
      <3> SUFFICES ASSUME NEW k \in DOMAIN pages'
                   PROVE  PageMatches(pages'[k], pageRows'[k])
        BY DEF PagesMatchSource
      <3>1. CASE k \in 1..Len(pages)
        <4>1. pages'[k] = pages[k] /\ pageRows'[k] = pageRows[k] /\ k \in DOMAIN pages
          BY <2>4, <2>6, <3>1
        <4>2. QED
          BY <1>1, <4>1 DEF PagesMatchSource
      <3>2. CASE k = Len(pages) + 1
        <4>1. pages'[k] = ExtractIndex /\ pageRows'[k] = drawn
          BY <2>4, <2>6, <3>2
        <4>2. QED
          BY <2>3, <4>1
      <3>3. QED
        BY <2>4, <2>6, <3>1, <3>2
    <2>7. PagesMatchSource'
      BY <2>2, <2>5, <2>6
    <2>8. QED
      BY <1>0, <2>1, <2>7 DEF ValueInv
  <1>5. CASE UNCHANGED vars
    BY <1>0, <1>5 DEF vars, ValueInv, PagesMatchSource
  <1>6. QED
    BY <1>2, <1>3, <1>4, <1>5 DEF Next

LEMMA InitValueInv == Init => ValueInv
  BY DEF Init, ValueInv, NoCols, PagesMatchSource

(* If no row of the source holds a timestamp, every frame Next yields    *)
(* for a source without schema rows is exactly the table of the rows     *)
(* drawn for it: a column per field, a cell per row, the row's value or  *)
(* AppendNil's missing value, the index field as the index column.  The  *)
(* hypothesis is needed: NewColumn backfills a timestamp column that    *)
(* appears in mid-page with time.Time{}, where AppendNil puts the epoch  *)
(* (the run kv_time_missing).                                            *)
THEOREM PagesHonest ==
    ASSUME NoTimeCells
    PROVE  Spec => []SchemaFreePagesMatch
  <1>1. Init => TypeInv /\ ShapeInv /\ ValueInv
    BY InitTypeInv, InitShapeInv, InitValueInv
  <1>2. TypeInv /\ ShapeInv /\ ValueInv /\ [Next]_vars => (TypeInv /\ ShapeInv /\ ValueInv)'
    BY NextTypeInv, ShapeStep, ValueStep
  <1>3. ValueInv => SchemaFreePagesMatch
    BY DEF ValueInv, SchemaFreePagesMatch
  <1>4. QED
    BY <1>1, <1>2, <1>3, PTL DEF Spec


-----------------------------------------------------------------------------
(* The data rows of an empty range of the source are the empty sequence. *)
LEMMA DataRowsEmpty ==
  ASSUME NEW s, NEW a \in Nat
  PROVE  DataRowsOf(<<>>, s, a + 1, a)
  <1> SUFFICES \E idx \in [1..Len(<<>>) -> (a + 1)..a] :
                 /\ \A i, j \in 1..Len(<<>>) : i < j => idx[i] < idx[j]
                 /\ {idx[i] : i \in 1..Len(<<>>)} = {j \in (a + 1)..a : ~SchemaRow(s[j])}
                 /\ \A i \in 1..Len(<<>>) : <<>>[i] = s[idx[i]]
    BY DEF DataRowsOf
  <1> WITNESS [i \in 1..0 |-> a] \in [1..Len(<<>>) -> (a + 1)..a]
  <1> QED
    OBVIOUS

(* A schema row at the end of a range adds no data row to it.             *)
LEMMA DataRowsSkip ==
  ASSUME NEW d \in Seq(Rows), NEW a \in Nat, NEW b \in Nat, a <= b + 1,
         NEW s \in Seq(Rows), b + 1 \in 1..Len(s), SchemaRow(s[b + 1]),
         DataRowsOf(d, s, a, b)
  PROVE  DataRowsOf(d, s, a, b + 1)
  <1>1. PICK idx \in [1..Len(d) -> a..b] :
             /\ \A i, j \in 1..Len(d) : i < j => idx[i] < idx[j]
             /\ {idx[i] : i \in 1..Len(d)} = {j \in a..b : ~SchemaRow(s[j])}
             /\ \A i \in 1..Len(d) : d[i] = s[idx[i]]
    BY Zenon DEF DataRowsOf
  <1> SUFFICES \E jdx \in [1..Len(d) -> a..(b + 1)] :
                 /\ \A i, j \in 1..Len(d) : i < j => jdx[i] < jdx[j]
                 /\ {jdx[i] : i \in 1..Len(d)} = {j \in a..(b + 1) : ~SchemaRow(s[j])}
                 /\ \A i \in 1..Len(d) : d[i] = s[jdx[i]]
    BY Zenon DEF DataRowsOf
  <1>2. idx \in [1..Len(d) -> a..(b + 1)]
    BY <1>1
  <1>3. {j \in a..(b + 1) : ~SchemaRow(s[j])} = {j \in a..b : ~SchemaRow(s[j])}
    OBVIOUS
  <1> WITNESS idx \in [1..Len(d) -> a..(b + 1)]
  <1>4. QED
    BY <1>1, <1>3, Zenon

(* A data row at the end of a range is appended to its data rows.         *)
LEMMA DataRowsAppend ==
  ASSUME NEW d \in Seq(Rows), NEW a \in Nat, NEW b \in Nat, a <= b + 1,
         NEW s \in Seq(Rows), b + 1 \in 1..Len(s), ~SchemaRow(s[b + 1]),
         DataRowsOf(d, s, a, b)
  PROVE  DataRowsOf(Append(d, s[b + 1]), s, a, b + 1)
  <1>1. PICK idx \in [1..Len(d) -> a..b] :
             /\ \A i, j \in 1..Len(d) : i < j => idx[i] < idx[j]
             /\ {idx[i] : i \in 1..Len(d)} = {j \in a..b : ~SchemaRow(s[j])}
             /\ \A i \in 1..Len(d) : d[i] = s[idx[i]]
    BY Zenon DEF DataRowsOf
  <1> DEFINE n   == Len(d)
             e   == Append(d, s[b + 1])
             jdx == [i \in 1..(n + 1) |-> IF i <= n THEN idx[i] ELSE b + 1]
  <1> SUFFICES \E kdx \in [1..Len(e) -> a..(b + 1)] :
                 /\ \A i, j \in 1..Len(e) : i < j => kdx[i] < kdx[j]
                 /\ {kdx[i] : i \in 1..Len(e)} = {j \in a..(b + 1) : ~SchemaRow(s[j])}
                 /\ \A i \in 1..Len(e) : e[i] = s[kdx[i]]
    BY Zenon DEF DataRowsOf
  <1>2. Len(e) = n + 1 /\ (\A i \in 1..n : e[i] = d[i]) /\ e[n + 1] = s[b + 1]
    OBVIOUS
  <1>3. jdx \in [1..Len(e) -> a..(b + 1)]
    BY <1>1, <1>2
  <1>4. \A i, j \in 1..Len(e) : i < j => jdx[i] < jdx[j]
    BY <1>1, <1>2
  <1>5. {jdx[i] : i \in 1..Len(e)} = {j \in a..(b + 1) : ~SchemaRow(s[j])}
    <2>1. {jdx[i] : i \in 1..Len(e)} = {idx[i] : i \in 1..n} \cup {b + 1}
      BY <1>2
    <2>2. {j \in a..(b + 1) : ~SchemaRow(s[j])} = {j \in a..b : ~SchemaRow(s[j])} \cup {b + 1}
      OBVIOUS
    <2>3. QED
      BY <1>1, <2>1, <2>2, Zenon
  <1>6. \A i \in 1..Len(e) : e[i] = s[jdx[i]]
    BY <1>1, <1>2
  <1> WITNESS jdx \in [1..Len(e) -> a..(b + 1)]
  <1>7. QED
    BY <1>4, <1>5, <1>6


(* A page of r positions after position m ends at m + r when it is full  *)
(* (r = lim) or reaches the end n of the source.                        *)
LEMMA PageArith ==
  ASSUME NEW m \in Nat, NEW r \in Nat, NEW lim \in Nat, NEW n \in Nat,
         r <= lim, m + r <= n, r = lim \/ m + r = n
  PROVE  (IF m + lim < n THEN m + lim ELSE n) = m + r
  OBVIOUS

(* The position where the pages taken so far end.                        *)
Base == PageEnd(Len(pageRows))

(* Each page taken starts inside the source and holds the data rows of   *)
(* its Limit positions.                                                  *)
PagesDone ==
    \A k \in DOMAIN pageRows :
        /\ (k - 1) * Limit < Len(src)
        /\ DataRowsOf(pageRows[k], src, (k - 1) * Limit + 1, PageEnd(k))

(* Inside Next, the cursor is rowNum positions past the pages taken and  *)
(* the rows drawn are the data rows of those positions.                  *)
LoopInv ==
    ipc = "loop" =>
        /\ pos = Base + rowNum
        /\ DataRowsOf(drawn, src, Base + 1, pos)
        /\ rowNum > 0 => Len(pageRows) * Limit < Len(src)

(* After a clean false the cursor is at the end of the source, which the *)
(* pages cover and which ended without error, and a further call of Next *)
(* draws nothing.                                                         *)
EndInv ==
    ret = "false" =>
        /\ pos = Len(src)
        /\ Len(src) <= Len(pageRows) * Limit
        /\ ~srcFails
        /\ ipc = "loop" => rowNum = 0

(* The inductive invariant behind CleanEndPagination: as long as no     *)
(* error was set, the pages and the cursor advance together.             *)
PagInv ==
    err = "none" =>
        /\ PagesDone
        /\ LoopInv
        /\ ipc = "idle" => pos = Base
        /\ EndInv

LEMMA InitPagInv == Init => PagInv
  <1> SUFFICES ASSUME Init PROVE PagInv
    OBVIOUS
  <1>1. Base = 0
    BY KVAssumption DEF Init, Base, PageEnd
  <1>2. QED
    BY <1>1 DEF Init, PagInv, PagesDone, LoopInv, EndInv


(* Every step of the consumer loop keeps the pages and the cursor in    *)
(* step, until an error is set.                                          *)
LEMMA PagStep == TypeInv /\ PagInv /\ [Next]_vars => PagInv'
  <1> SUFFICES ASSUME TypeInv, PagInv, [Next]_vars, err' = "none"
               PROVE  PagesDone' /\ LoopInv' /\ (ipc' = "idle" => pos' = Base') /\ EndInv'
    BY DEF PagInv
  <1> USE KVAssumption
  <1>0. /\ src' = src /\ src \in Seq(Rows) /\ pos \in 0..Len(src) /\ rowNum \in 0..Limit
        /\ pageRows \in Seq(Seq(Rows)) /\ drawn \in Seq(Rows)
    BY SrcConst DEF TypeInv
  <1>1. Base \in Nat
    BY <1>0 DEF Base, PageEnd
  <1>2. CASE NextStart
    <2>1. /\ ipc = "idle" /\ ipc' = "loop" /\ rowNum' = 0 /\ drawn' = <<>>
          /\ UNCHANGED <<pos, ret, err, pageRows, srcFails>>
      BY <1>2 DEF NextStart
    <2>2. pos = Base /\ PagesDone /\ EndInv
      BY <2>1 DEF PagInv
    <2>3. Base' = Base
      BY <1>0, <2>1 DEF Base, PageEnd
    <2>4. DataRowsOf(<<>>, src, Base + 1, Base)
      BY <1>1, DataRowsEmpty
    <2>5. PagesDone'
      BY <1>0, <2>1, <2>2 DEF PagesDone, PageEnd
    <2>6. QED
      BY <1>0, <2>1, <2>2, <2>3, <2>4, <2>5 DEF LoopInv, EndInv
  <1>3. CASE NextRow
    <2> DEFINE row == src[pos + 1]
    <2>1. /\ ipc = "loop" /\ rowNum < Limit /\ pos < Len(src) /\ pos' = pos + 1
          /\ UNCHANGED <<pageRows, srcFails>> /\ row \in Rows
      BY <1>0, <1>3 DEF NextRow
    <2>2. err = "none"
      BY <1>3 DEF NextRow
    <2>3. /\ pos = Base + rowNum /\ DataRowsOf(drawn, src, Base + 1, pos)
          /\ PagesDone /\ EndInv
      BY <2>1, <2>2 DEF PagInv, LoopInv
    <2>4. ret # "false"
      BY <2>1, <2>3 DEF EndInv
    <2>5. Base' = Base
      BY <1>0, <2>1 DEF Base, PageEnd
    <2>6. Len(pageRows) * Limit < Len(src)
      BY <1>0, <2>1, <2>3 DEF Base, PageEnd
    <2>7. PagesDone'
      BY <1>0, <2>1, <2>3 DEF PagesDone, PageEnd
    <2>0. /\ Base + 1 \in Nat /\ pos \in Nat /\ Base + 1 <= pos + 1
          /\ pos + 1 \in 1..Len(src)
      BY <1>0, <1>1, <2>1, <2>3
    <2>8. CASE SchemaRow(row) /\ rowNum' = rowNum + 1 /\ UNCHANGED <<ipc, ret, cols, err, drawn>>
      <3>1. DataRowsOf(drawn, src, Base + 1, pos + 1)
        BY <1>0, <2>0, <2>3, <2>8, DataRowsSkip
      <3>2. pos' = Base' + rowNum' /\ (rowNum' > 0 => Len(pageRows') * Limit < Len(src'))
        BY <1>0, <1>1, <2>1, <2>3, <2>5, <2>6, <2>8
      <3>3. DataRowsOf(drawn', src', Base' + 1, pos')
        BY <1>0, <1>1, <2>1, <2>5, <2>8, <3>1
      <3>4. QED
        BY <2>1, <2>4, <2>7, <2>8, <3>2, <3>3 DEF LoopInv, EndInv
    <2>9. CASE ~SchemaRow(row) /\ RowFails(row) /\ err' = "row"
      BY <2>9
    <2>10. CASE /\ ~SchemaRow(row) /\ ~RowFails(row)
                /\ drawn' = Append(drawn, row) /\ rowNum' = rowNum + 1
                /\ UNCHANGED <<ipc, ret, err>>
      <3>1. DataRowsOf(Append(drawn, src[pos + 1]), src, Base + 1, pos + 1)
        BY <1>0, <2>0, <2>3, <2>10, DataRowsAppend
      <3>2. pos' = Base' + rowNum' /\ (rowNum' > 0 => Len(pageRows') * Limit < Len(src'))
        BY <1>0, <1>1, <2>1, <2>3, <2>5, <2>6, <2>10
      <3>3. DataRowsOf(drawn', src', Base' + 1, pos')
        BY <1>0, <1>1, <2>1, <2>5, <2>10, <3>1
      <3>4. QED
        BY <2>1, <2>4, <2>7, <2>10, <3>2, <3>3 DEF LoopInv, EndInv
    <2>11. QED
      BY <1>3, <2>8, <2>9, <2>10 DEF NextRow
  <1>4. CASE NextEnd
    <2>1. /\ ipc = "loop" /\ (rowNum >= Limit \/ pos = Len(src)) /\ ipc' = "idle"
          /\ UNCHANGED <<src, srcFails, pos, rowNum, drawn>>
          /\ \/ err' \in {"source", "frame"}
             \/ /\ rowNum = 0 /\ ret' = "false" /\ UNCHANGED <<err, pageRows>>
                /\ ~(pos = Len(src) /\ srcFails)
             \/ /\ rowNum # 0 /\ pageRows' = Append(pageRows, drawn)
                /\ ret' = "true" /\ UNCHANGED err
      BY <1>4 DEF NextEnd, AfterLoop
    <2>2. err = "none"
      BY <2>1
    <2>3. /\ pos = Base + rowNum /\ DataRowsOf(drawn, src, Base + 1, pos)
          /\ (rowNum > 0 => Len(pageRows) * Limit < Len(src))
          /\ PagesDone
      BY <2>1, <2>2 DEF PagInv, LoopInv
    <2>4. CASE /\ rowNum = 0 /\ ret' = "false" /\ UNCHANGED <<err, pageRows>>
               /\ ~(pos = Len(src) /\ srcFails)
      <3>0. rowNum < Limit
        BY <2>4
      <3>1. pos = Len(src) /\ Base = Len(src)
        BY <1>0, <1>1, <2>1, <2>3, <2>4, <3>0
      <3>2. Len(src) <= Len(pageRows) * Limit
        BY <1>0, <3>1 DEF Base, PageEnd
      <3>3. Base' = Base
        BY <1>0, <2>4 DEF Base, PageEnd
      <3>4. PagesDone'
        BY <1>0, <2>3, <2>4 DEF PagesDone, PageEnd
      <3>5. QED
        BY <2>1, <2>4, <3>1, <3>2, <3>3, <3>4 DEF LoopInv, EndInv
    <2>5. CASE rowNum # 0 /\ pageRows' = Append(pageRows, drawn) /\ ret' = "true" /\ UNCHANGED err
      <3> DEFINE L == Len(pageRows)
      <3>1. L \in Nat /\ L * Limit < Len(src) /\ Base = L * Limit
        BY <1>0, <2>3, <2>5 DEF Base, PageEnd
      <3>2. PageEnd(L + 1) = pos
        <4>1. rowNum \in 1..Limit /\ L * Limit + rowNum <= Len(src)
          BY <1>0, <2>3, <2>5, <3>1
        <4>2. rowNum = Limit \/ L * Limit + rowNum = Len(src)
          BY <1>0, <2>1, <2>3, <3>1
        <4>3. PICK m \in Nat : m = L * Limit
          BY <3>1
        <4>4. PageEnd(L + 1) = IF m + Limit < Len(src) THEN m + Limit ELSE Len(src)
          BY <3>1, <4>3 DEF PageEnd
        <4>5. /\ Len(src) \in Nat /\ rowNum \in Nat /\ Limit \in Nat /\ rowNum <= Limit
              /\ m + rowNum <= Len(src) /\ (rowNum = Limit \/ m + rowNum = Len(src))
          BY <1>0, <4>1, <4>2, <4>3
        <4>6. (IF m + Limit < Len(src) THEN m + Limit ELSE Len(src)) = m + rowNum
          BY <4>3, <4>5, PageArith, Zenon
        <4>7. QED
          BY <2>3, <3>1, <4>3, <4>4, <4>6
      <3>3. /\ Len(pageRows') = L + 1 /\ pageRows'[L + 1] = drawn
            /\ \A k \in 1..L : pageRows'[k] = pageRows[k]
        BY <1>0, <2>5
      <3>4. PagesDone'
        <4> SUFFICES ASSUME NEW k \in 1..(L + 1)
                     PROVE  /\ (k - 1) * Limit < Len(src)
                            /\ DataRowsOf(pageRows'[k], src, (k - 1) * Limit + 1, PageEnd(k))
          BY <1>0, <3>3 DEF PagesDone, PageEnd
        <4>1. CASE k \in 1..L
          BY <2>3, <3>3, <4>1 DEF PagesDone
        <4>2. CASE k = L + 1
          BY <2>3, <3>1, <3>2, <3>3, <4>2
        <4>3. QED
          BY <4>1, <4>2
      <3>5. pos' = Base'
        BY <1>0, <2>1, <3>2, <3>3 DEF Base, PageEnd
      <3>6. QED
        BY <2>1, <2>5, <3>4, <3>5 DEF LoopInv, EndInv
    <2>5a. CASE err' \in {"source", "frame"}
      BY <2>5a
    <2>6. QED
      BY <2>1, <2>4, <2>5, <2>5a
  <1>5. CASE UNCHANGED vars
    BY <1>5 DEF vars, PagInv, PagesDone, LoopInv, EndInv, Base, PageEnd
  <1>6. QED
    BY <1>2, <1>3, <1>4, <1>5 DEF Next


(* Every behaviour keeps the types and the pagination invariant.         *)
LEMMA AlwaysPagInv == Spec => [](TypeInv /\ PagInv)
  <1>1. Init => TypeInv /\ PagInv
    BY InitTypeInv, InitPagInv
  <1>2. TypeInv /\ PagInv /\ [Next]_vars => (TypeInv /\ PagInv)'
    BY NextTypeInv, PagStep
  <1>3. QED
    BY <1>1, <1>2, PTL DEF Spec

(* When the consumer loop ends cleanly (Next false, Err nil), the frames *)
(* it took cover the whole source in pages of Limit cursor positions,   *)
(* each built from exactly the data rows of its page, in order, for     *)
(* every source, bound and page limit: Next's limit test, its rowNum     *)
(* count of schema rows and the cursor's end never lose, repeat or move  *)
(* a row to another page, and a call after the end draws nothing.        *)
THEOREM PaginationHonest == Spec => []CleanEndPagination
  <1>1. TypeInv /\ PagInv => CleanEndPagination
    BY DEF PagInv, PagesDone, EndInv, CleanEndPagination
  <1>2. QED
    BY <1>1, AlwaysPagInv, PTL

-----------------------------------------------------------------------------
(* Next implements the design's frame iterator FI (FrameIterator).       *)

(* A page of the design is the data rows of its positions.               *)
LEMMA IsPageDataRows ==
  ASSUME NEW d, NEW k
  PROVE  FI!IsPage(d, k) <=> DataRowsOf(d, src, (k - 1) * Limit + 1, PageEnd(k))
  BY DEF FI!IsPage, FI!PageEnd, DataRowsOf, PageEnd

(* Once set, the iterator's error is never cleared.                      *)
LEMMA ErrStays == err # "none" /\ [Next]_vars => err' # "none"
  BY DEF Next, NextStart, NextRow, NextEnd, AfterLoop, vars

(* A step after a failure is one the design allows a failed iterator.     *)
LEMMA FailedStep ==
  ASSUME err # "none", err' # "none", src' = src
  PROVE  FI!AfterFailure
  BY DEF FI!AfterFailure

(* The step that sets the error of a Ready iterator is its failure.      *)
LEMMA FailStep ==
  ASSUME err = "none", ret # "false", err' # "none", UNCHANGED <<src, pageRows>>
  PROVE  FI!Fail
  BY DEF FI!Fail

(* A step of the consumer loop that changes none of what the design sees *)
(* is a stutter of the design.                                            *)
LEMMA HiddenStep ==
  ASSUME UNCHANGED <<src, pageRows, err, ret>>
  PROVE  UNCHANGED FI!fvars
  BY DEF FI!fvars

(* Each step of the consumer loop is a step of the design's iterator or  *)
(* leaves what the design sees unchanged.                                 *)
LEMMA RefineStep ==
  (TypeInv /\ PagInv /\ TypeInv' /\ PagInv' /\ [Next]_vars) => [FI!Next]_(FI!fvars)
  <1> SUFFICES ASSUME TypeInv, PagInv, TypeInv', PagInv', [Next]_vars
               PROVE  [FI!Next]_(FI!fvars)
    OBVIOUS
  <1> USE KVAssumption
  <1>0. src' = src
    BY SrcConst
  <1>1. CASE err # "none"
    <2>1. FI!AfterFailure
      BY <1>0, <1>1, ErrStays, FailedStep
    <2>2. QED
      BY <2>1 DEF FI!Next
  <1>2. CASE NextStart
    BY <1>2, HiddenStep DEF NextStart
  <1>3. CASE UNCHANGED vars
    BY <1>3, HiddenStep DEF vars
  <1>4. CASE NextRow /\ err = "none"
    <2>1. /\ ipc = "loop" /\ pos < Len(src) /\ UNCHANGED <<src, pageRows>>
          /\ \/ UNCHANGED <<ret, err>>
             \/ err' = "row"
      BY <1>4 DEF NextRow
    <2>2. ret # "false"
      BY <1>4, <2>1 DEF PagInv, EndInv
    <2>3. CASE UNCHANGED <<ret, err>>
      BY <2>1, <2>3, HiddenStep
    <2>4. CASE err' = "row"
      BY <1>4, <2>1, <2>2, <2>4, FailStep DEF FI!Next
    <2>5. QED
      BY <2>1, <2>3, <2>4
  <1>5. CASE NextEnd /\ err = "none"
    <2>0. /\ ipc = "loop" /\ UNCHANGED src
          /\ (ret = "false" => pos = Len(src) /\ ~srcFails /\ rowNum = 0)
      BY <1>5 DEF NextEnd, PagInv, EndInv
    <2>1. CASE pos = Len(src) /\ srcFails
      <3>1. err' = "source" /\ UNCHANGED pageRows /\ ret # "false"
        BY <1>5, <2>0, <2>1 DEF NextEnd, AfterLoop
      <3>2. QED
        BY <1>5, <2>0, <3>1, FailStep DEF FI!Next
    <2>2. CASE ~(pos = Len(src) /\ srcFails) /\ rowNum = 0
      <3>1. ret' = "false" /\ UNCHANGED <<err, pageRows>>
        BY <1>5, <2>2 DEF NextEnd, AfterLoop
      <3>2. CASE ret = "false"
        BY <2>0, <3>1, <3>2, HiddenStep
      <3>3. CASE ret # "false"
        <4>1. Len(src') <= Len(pageRows') * Limit
          BY <1>5, <3>1 DEF PagInv, EndInv
        <4>2. FI!Exhaust
          BY <1>5, <2>0, <3>1, <3>3, <4>1 DEF FI!Exhaust
        <4>3. QED
          BY <4>2 DEF FI!Next
      <3>4. QED
        BY <3>2, <3>3
    <2>3. CASE ~(pos = Len(src) /\ srcFails) /\ rowNum # 0
      <3>1. ret # "false"
        BY <2>0, <2>3
      <3>2. \/ err' = "frame" /\ UNCHANGED pageRows
            \/ /\ pageRows' = Append(pageRows, drawn) /\ ret' = "true"
               /\ UNCHANGED err
        BY <1>5, <2>3 DEF NextEnd, AfterLoop
      <3>3. CASE err' = "frame" /\ UNCHANGED pageRows
        BY <1>5, <2>0, <3>1, <3>3, FailStep DEF FI!Next
      <3>4. CASE pageRows' = Append(pageRows, drawn) /\ ret' = "true" /\ UNCHANGED err
        <4> DEFINE L == Len(pageRows)
        <4>1. pageRows \in Seq(Seq(Rows)) /\ drawn \in Seq(Rows)
          BY DEF TypeInv
        <4>2. L * Limit < Len(src)
          BY <1>5, <2>0, <2>3 DEF PagInv, LoopInv, TypeInv
        <4>3. /\ Len(pageRows') = L + 1 /\ pageRows'[L + 1] = drawn
              /\ \A k \in DOMAIN pageRows : pageRows'[k] = pageRows[k]
          BY <3>4, <4>1
        <4>4. DataRowsOf(pageRows'[L + 1], src, (L + 1 - 1) * Limit + 1, PageEnd(L + 1))
          <5>1. L + 1 \in DOMAIN pageRows'
            BY <4>1, <4>3
          <5>2. PagesDone'
            BY <1>5, <3>4 DEF PagInv
          <5>3. \A k \in DOMAIN pageRows' :
                  DataRowsOf(pageRows'[k], src, (k - 1) * Limit + 1, PageEnd(k))
            BY <1>0, <5>2 DEF PagesDone, PageEnd
          <5>4. QED
            BY <5>1, <5>3
        <4>7. FI!IsPage(pageRows'[L + 1], L + 1)
          BY <4>4, IsPageDataRows
        <4>8. FI!Yield
          BY <1>5, <2>0, <3>1, <3>4, <4>2, <4>3, <4>7 DEF FI!Yield
        <4>9. QED
          BY <4>8 DEF FI!Next
      <3>5. QED
        BY <3>2, <3>3, <3>4
    <2>4. QED
      BY <2>1, <2>2, <2>3
  <1>6. QED
    BY <1>1, <1>2, <1>3, <1>4, <1>5 DEF Next

(* Next, as its consumer sees it, implements the design's frame iterator *)
(* (spec section 4.3) for every source, bound and page limit: it starts  *)
(* Ready; while Err is nil it yields exactly the next page of the source *)
(* (the data rows of the next Limit cursor positions, schema rows taken  *)
(* out) and never a page past the source's end; it returns false with a *)
(* nil error only once the pages cover the source, and stays so when     *)
(* called again; once an error is set it keeps it.                        *)
THEOREM FrameIteratorRefinement == Spec => FrameIteratorSpec
  <1>1. Init => FI!Init
    BY KVAssumption DEF Init, FI!Init
  <1>2. (TypeInv /\ PagInv /\ TypeInv' /\ PagInv' /\ [Next]_vars) => [FI!Next]_(FI!fvars)
    BY RefineStep
  <1>3. QED
    BY <1>1, <1>2, AlwaysPagInv, PTL DEF Spec, FrameIteratorSpec, FI!Spec

=============================================================================
