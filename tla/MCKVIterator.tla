----------------------------- MODULE MCKVIterator -----------------------------
(***************************************************************************)
(* KVIterator on small sources: up to three rows, pages of two.  Every    *)
(* data row carries its item key in __name; field x holds an int or a     *)
(* string (two rows may disagree on its type), field y an int or a value  *)
(* of a type NewColumn refuses, and either field may be absent.  The      *)
(* variants add the table's schema row, or make y a timestamp.            *)
(***************************************************************************)
EXTENDS KVIterator

MCMaxRows == 3

MCLimit == 2

(* Pages of three rows over four: room for a schema row between two data *)
(* rows of one page, with a field first seen after it.                    *)
MCMaxRowsSchema == 4

MCLimitSchema == 3

Key == Cell("string", "k")

(* The rows whose fields take their values from FV (field -> values).     *)
RowsOver(FV) ==
    UNION { {r \in [D -> UNION {FV[f] : f \in D}] : \A f \in D : r[f] \in FV[f]} :
            D \in {d \in SUBSET DOMAIN FV : indexColKey \in d} }

DataRows ==
    RowsOver([f \in {indexColKey, "x", "y"} |->
                CASE f = indexColKey -> {Key}
                  [] f = "x" -> {Cell("int", "1"), Cell("string", "s")}
                  [] f = "y" -> {Cell("int", "2"), Cell("other", "b")}])

TheSchemaRow == indexColKey :> Cell("string", ".#schema")

MCRows == DataRows

MCRowsWithSchema == DataRows \cup {TheSchemaRow}

(* Sparse rows of an int field x and a timestamp field y.                 *)
MCRowsWithTime ==
    RowsOver([f \in {indexColKey, "x", "y"} |->
                CASE f = indexColKey -> {Key}
                  [] f = "x" -> {Cell("int", "1")}
                  [] f = "y" -> {Cell("time", "2018-11-01")}])

=============================================================================
