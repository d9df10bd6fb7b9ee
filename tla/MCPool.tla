------------------------------- MODULE MCPool -------------------------------
(* Instances of Pool for TLC. *)
EXTENDS Pool, TLC

CONSTANTS c1, c2
ConnSymmetry == Permutations(Conn)

Num(n) == <<"Integer", n>>
Col(name, ty, pk) == [name |-> name, ty |-> ty, primary_key |-> pk]
MCLower == [w \in {""} |-> w]
Simple == DefaultOptions

None == <<"None">>
Eq(c, v) == <<"Equals", c, v>>
Begins == [op |-> "Begin"]
Commits == [op |-> "Commit"]
Rollbacks == [op |-> "Rollback"]
Row(values) == [op |-> "Insert", table |-> "t", columns |-> <<>>, values |-> values]
Set(c, v, f) ==
    [op |-> "Update", table |-> "t", target |-> <<c>>, values |-> <<v>>, filter |-> f]
Remove(f) == [op |-> "Delete", table |-> "t", filter |-> f]
Query == [op |-> "Select", table |-> "t", projection |-> {"id"}, filter |-> None,
          order |-> <<>>, limit |-> <<>>]
IndexOn == [op |-> "CreateIndex", name |-> "byv", table |-> "t", column |-> "v", fulltext |-> FALSE]

\* A file written by a sequence of statements.
AfterCreate(columns) == Put(EmptyCatalog, "t", NewTable(columns))
Do(cat, s) == execute_statement(cat, s, Simple).catalog

IntTable == <<Col("id", "Integer", TRUE), Col("v", "Integer", FALSE)>>
TwoRows == encode(Do(Do(AfterCreate(IntTable), Row(<<Num(1), Num(0)>>)), Row(<<Num(2), Num(0)>>)))

\* Writers: a fresh primary key, an update of every row, a delete.
CoreStatements ==
    {Begins, Commits,
     Row(<<Num(3), Num(0)>>), Set("v", Num(1), None), Remove(Eq("id", Num(1)))}

\* A FLOAT primary key: the values 1 and 1.0 take different insert locks and
\* are the same key, a repeated column locks its first value and stores its
\* last, an infinite value has no key at all.  The update locks row after row,
\* may stop at the second, and finds two rows with one key only when it has both.
Float(n) == <<"Float", <<FALSE, n>> >>
TwoFloats == encode(Do(Do(AfterCreate(<<Col("id", "Float", TRUE)>>), Row(<<Num(5)>>)), Row(<<Num(6)>>)))
KeyStatements ==
    {Begins, Commits, Rollbacks, Row(<<Num(1)>>), Row(<<Float(1)>>),
     [Row(<<Num(2), Num(1)>>) EXCEPT !.columns = << <<"id", "id">> >>],
     Row(<< <<"Float", NonFinite>> >>), Set("id", Num(1), None), Remove(Eq("id", Num(6)))}

\* DDL beside transactions, on a table without a primary key.
PlainTable == encode(AfterCreate(<<Col("v", "Integer", FALSE)>>))
NewPlain == [op |-> "CreateTable", table |-> "u", columns |-> <<Col("v", "Integer", FALSE)>>]
DdlStatements ==
    {Begins, Commits, IndexOn, NewPlain, Row(<<Num(1)>>), Set("v", Num(2), Eq("v", Num(1))),
     [Query EXCEPT !.projection = {"v"}]}
=============================================================================
