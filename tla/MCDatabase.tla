----------------------------- MODULE MCDatabase -----------------------------
(* Instances of Database for TLC. *)
EXTENDS Database, TLC

Num(n) == <<"Integer", n>>
Float(negative, n) == <<"Float", <<negative, n>> >>
Text(t) == <<"Text", t>>
Col(name, ty, pk) == [name |-> name, ty |-> ty, primary_key |-> pk]

MCLower == "Go" :> "go" @@ "go" :> "go" @@ "up" :> "up" @@ "UP" :> "up" @@ "" :> ""
GoUp == << <<"Go", "up">> >>          \* "Go-up": two words in one chunk
Go == << <<"go">> >>

Simple == DefaultOptions
Whitespace ==
    [Simple EXCEPT !.fulltext_tokenizer = "Whitespace", !.metric = "Cosine", !.worker_threads = 2]
Exact ==
    [Simple EXCEPT !.fulltext_tokenizer = "Exact", !.metric = "DotProduct", !.worker_threads = 4]
OneSimple == {Simple}
OneWhitespace == {Whitespace}
Sized == [Simple EXCEPT !.dimensions = 1, !.worker_threads = 2]

None == <<"None">>
Control == {[op |-> "Begin"], [op |-> "Commit"], [op |-> "Rollback"]}
Row(table, values) == [op |-> "Insert", table |-> table, columns |-> <<>>, values |-> values]
RowOf(table, list, values) == [Row(table, values) EXCEPT !.columns = <<list>>]
Set(table, target, values, f) ==
    [op |-> "Update", table |-> table, target |-> target, values |-> values, filter |-> f]
DeleteRows(table, f) == [op |-> "Delete", table |-> table, filter |-> f]
Query(table, projection, f) ==
    [op |-> "Select", table |-> table, projection |-> projection, filter |-> f,
     order |-> <<>>, limit |-> <<>>]
IndexOn(name, table, c, fulltext) ==
    [op |-> "CreateIndex", name |-> name, table |-> table, column |-> c, fulltext |-> fulltext]
TableOf(table, columns) == [op |-> "CreateTable", table |-> table, columns |-> columns]
Eq(c, v) == <<"Equals", c, v>>

\* A text column with a full-text and (in TokenizerStatements) an equality index.
TextTable == TableOf("t", <<Col("id", "Integer", TRUE), Col("x", "Text", FALSE)>>)
TextStatements ==
    {TextTable, IndexOn("ftx", "t", "x", TRUE),
     Row("t", <<Num(1), Text(GoUp)>>), Row("t", <<Num(2), Text(Go)>>),
     Row("t", <<Num(1)>>),
     Set("t", <<"id">>, <<Num(2)>>, Eq("id", Num(1))),
     Set("t", <<"x">>, <<Text(Go)>>, <<"FullText", "x", << <<"UP">> >> >>),
     DeleteRows("t", Eq("x", Text(Go))), DeleteRows("t", Eq("id", Num(1))),
     Query("t", {"id"}, <<"FullText", "x", GoUp>>),
     [op |-> "Explain", statement |-> Query("t", {}, Eq("id", Num(1)))],
     [op |-> "ParsedOnly"]}
TokenizerStatements == TextStatements \cup {IndexOn("byx", "t", "x", FALSE)}

\* Floats: a FLOAT primary key given as 1 and as 1.0, a non-finite value, a
\* column named twice, and both zeros in an indexed column.
FloatTable == TableOf("f", <<Col("id", "Float", TRUE), Col("y", "Float", FALSE)>>)
FloatStatements ==
    {FloatTable, IndexOn("byy", "f", "y", FALSE),
     Row("f", <<Num(1), Float(FALSE, 0)>>), Row("f", <<Float(FALSE, 1), Float(TRUE, 0)>>),
     Row("f", <<Num(2), Float(TRUE, 0)>>), Row("f", <<Float(FALSE, 3), <<"Float", NonFinite>> >>),
     RowOf("f", <<"id", "y", "id">>, <<Num(1), Null, Num(2)>>),
     Set("f", <<"id">>, <<Num(1)>>, None),
     Set("f", <<"y">>, <<Null>>, Eq("id", Num(1))),
     DeleteRows("f", Eq("y", Float(FALSE, 0))), DeleteRows("f", Eq("y", Null)),
     Query("f", {"y"}, Eq("y", Float(TRUE, 0)))}

\* Vectors, whose stored dimensions another opening may not accept, and points.
\* [1] and [-1] are near and far from [2], and their products with [-0.0] are
\* zeros of different sign.
One(negative) == <<"Vector", << <<negative, 1>> >> >>
Pair == <<"Vector", << <<FALSE, 1>>, <<FALSE, 2>> >> >>
Here == << <<FALSE, 1>>, <<FALSE, 1>> >>
AtHere == <<"GeoWithin", "p", {Here}>>
Nearest(target, f, descending, limit) ==
    [Query("v", {"e"}, f) EXCEPT
        !.order = <<[column |-> "e", target |-> target, descending |-> descending]>>,
        !.limit = limit]
VectorTable == TableOf("v", <<Col("e", "Vector", FALSE), Col("p", "Point", FALSE)>>)
VectorStatements ==
    {VectorTable, IndexOn("bye", "v", "e", FALSE),
     Row("v", <<One(FALSE), Null>>), Row("v", <<Pair, <<"Point", Here>> >>),
     Row("v", <<One(TRUE), <<"Point", Here>> >>),
     Set("v", <<"e">>, <<One(FALSE)>>, Eq("e", Pair)), DeleteRows("v", AtHere),
     Nearest(<< <<FALSE, 2>> >>, None, TRUE, <<2>>),
     Nearest(<< <<FALSE, 2>> >>, AtHere, FALSE, <<1>>),
     Nearest(<< <<TRUE, 0>> >>, None, FALSE, <<>>),
     Nearest(<< <<FALSE, 0>>, <<TRUE, 1>> >>, AtHere, FALSE, <<1>>)}

AllOptions == {Simple, Whitespace, Exact, Sized}
CoreStatements == Control \cup TextStatements \cup FloatStatements \cup VectorStatements

\* Few statements, so that long logs fit.
LogStatements == Control \cup
    {TableOf("t", <<Col("id", "Integer", TRUE)>>), Row("t", <<Num(1)>>),
     Set("t", <<"id">>, <<Num(2)>>, Eq("id", Num(1))), DeleteRows("t", Eq("id", Num(1))),
     Query("t", {"id"}, None)}
=============================================================================
