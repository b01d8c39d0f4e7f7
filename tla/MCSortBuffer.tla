---------------------------- MODULE MCSortBuffer ----------------------------
(***************************************************************************)
(* Model-checking instance of SortBuffer: rows of two columns named "a"    *)
(* and "b", and ORDER BY clauses by position, by name, by an unknown name  *)
(* and by a position past the row. The properties compare the buffer with  *)
(* a reference order: lexicographic over the clauses, PostgreSQL's order   *)
(* on each column (NaN above every number), skipped columns equal.         *)
(***************************************************************************)
EXTENDS SortBuffer

MCNames   == {"a", "b", "zz"}
MCRowDesc == <<"a", "b">>
MCValues  == {1, 2}
MCRows    == {<<x, y>> : x, y \in MCValues}
MCRowsNaN == {<<x, y>> : x, y \in MCValues \cup {NaN}}

Idx(i, asc)  == [by |-> "index", index |-> i, asc |-> asc]
Nm(n, asc)   == [by |-> "name", name |-> n, asc |-> asc]

MCOrderBys ==
    { <<Idx(0, TRUE)>>,
      <<Idx(1, FALSE), Nm("a", TRUE)>>,
      <<Nm("zz", TRUE), Idx(0, FALSE)>>,
      <<Idx(5, TRUE), Nm("b", TRUE)>> }

-----------------------------------------------------------------------------
(* The reference order.                                                    *)

\* The position a clause names, or -1 when it names no column of the rows.
RefPos(cl) ==
    LET p == IF cl.by = "index" THEN cl.index
             ELSE IF \E i \in DOMAIN RowDesc : RowDesc[i] = cl.name
                  THEN (CHOOSE i \in DOMAIN RowDesc :
                          RowDesc[i] = cl.name
                          /\ \A j \in 1..i-1 : RowDesc[j] # cl.name) - 1
                  ELSE -1
    IN  IF p \in 0..1 THEN p ELSE -1

\* PostgreSQL's order on a column: NaN sorts above every number.
PgLess(x, y) == x # NaN /\ (y = NaN \/ x < y)

ClauseLess(cl, a, b) ==
    RefPos(cl) >= 0 /\
    LET x == a[RefPos(cl) + 1]
        y == b[RefPos(cl) + 1]
    IN  IF cl.asc THEN PgLess(x, y) ELSE PgLess(y, x)

ClauseEqual(cl, a, b) == ~ClauseLess(cl, a, b) /\ ~ClauseLess(cl, b, a)

\* Row a sorts strictly before row b under ORDER BY ob.
RefLess(ob, a, b) ==
    \E k \in 1..Len(ob) :
        /\ \A j \in 1..k-1 : ClauseEqual(ob[j], a, b)
        /\ ClauseLess(ob[k], a, b)

\* What the client receives, in order: rows taken, then rows still buffered.
Result == out \o buffer

-----------------------------------------------------------------------------
TypeOK ==
    /\ rows \in Seq(Rows)
    /\ buffer \in Seq(1..MaxRows)
    /\ full \in BOOLEAN
    /\ out \in Seq(1..MaxRows)
    /\ sortedBy \in OrderBys \cup {<<>>}

\* Once the buffer is full after sort(), the client receives every row the
\* shards sent, each once, in ORDER BY order (specification 4.7, and the
\* acceptance property 7: n rows in, n rows out, in a total order). About
\* the order_by closure of SortBuffer::sort and the slice sort it drives.
SortedResult ==
    (full /\ sortedBy # <<>>) =>
        /\ Len(Result) = Len(rows)
        /\ Range(Result) = 1..Len(rows)
        /\ \A i, j \in 1..Len(Result) :
              i < j => ~RefLess(sortedBy, rows[Result[j]], rows[Result[i]])

\* Rows that ORDER BY does not tell apart reach the client in the order
\* they were added (acceptance property 7: ties preserve input order):
\* the insertion sort never moves a row past one it compares Equal to.
StableResult ==
    (full /\ sortedBy # <<>>) =>
        \A i, j \in 1..Len(Result) :
            (i < j /\ ~RefLess(sortedBy, rows[Result[j]], rows[Result[i]])
                   /\ ~RefLess(sortedBy, rows[Result[i]], rows[Result[j]]))
              => Result[i] < Result[j]

=============================================================================
