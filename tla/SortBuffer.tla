----------------------------- MODULE SortBuffer -----------------------------
(***************************************************************************)
(* backend/pool/connection/sort_buffer.rs: the buffer that collects the    *)
(* DataRows of a cross-shard SELECT and sorts them by its ORDER BY before  *)
(* they are given to the client.                                           *)
(*                                                                         *)
(* A row is a sequence of column values. A value is a number, NaN (a float *)
(* or numeric column holding 'NaN', for which partial_cmp answers None) or *)
(* Unreadable (get_column returned Err or Ok(None)). The rows added are    *)
(* kept in the history `rows`; the buffer holds their positions in it, so  *)
(* that equal rows stay distinguishable and stability can be stated.       *)
(*                                                                         *)
(* The slice sort_by of the standard library sorts slices of at most 20    *)
(* elements by insertion sort (insertion_sort_shift_left with offset 1),   *)
(* in the merge sort of older releases and in driftsort alike; the bound   *)
(* on rows keeps every buffer in that range.                               *)
(***************************************************************************)
EXTENDS Naturals, Sequences, SequencesExt

CONSTANTS
    Values,      \* the numbers a column can hold
    NaN,         \* a float/numeric 'NaN'
    Unreadable,  \* a column get_column cannot turn into a value
    Names,       \* column names of the RowDescription
    RowDesc,     \* the RowDescription: field names in order
    Rows,        \* the rows the shards can send
    OrderBys,    \* ORDER BY clauses the router can hand over
    MaxRows      \* rows in one result

ASSUME MaxRows <= 20

\* A resolved column of sort(): none, or (index, asc).
NoCol == [by |-> "none"]

VARIABLES
    rows,      \* history: every DataRow added, in order
    buffer,    \* SortBuffer.buffer, as positions in rows
    full,      \* SortBuffer.full
    out,       \* positions of the rows take() has returned, in order
    sortedBy   \* ORDER BY the buffer was sorted by, or <<>>

vars == <<rows, buffer, full, out, sortedBy>>

-----------------------------------------------------------------------------
(* Comparison, as the order_by closure of SortBuffer::sort.                *)

\* RowDescription::field_index: first field with that name, 0-based.
FieldIndex(rd, name) == SelectInSeq(rd, LAMBDA f : f = name) - 1

\* DataRow::get_column, reduced to its outcome: the value, or Unreadable
\* for an index past the row (Ok(None)).
Cell(row, i) == IF i < Len(row) THEN row[i + 1] ELSE Unreadable

\* The column list sort() computes once before sorting.
Resolve(columns, rd) ==
    [k \in 1..Len(columns) |->
        LET c == columns[k]
        IN  IF c.by = "index" THEN [by |-> "col", index |-> c.index, asc |-> c.asc]
            ELSE IF FieldIndex(rd, c.name) >= 0
                 THEN [by |-> "col", index |-> FieldIndex(rd, c.name), asc |-> c.asc]
                 ELSE NoCol]

\* Datum::partial_cmp: None when either side is NaN.
PartialCmp(x, y) ==
    CASE x = NaN \/ y = NaN -> "None"
      [] x < y              -> "Less"
      [] x > y              -> "Greater"
      [] OTHER              -> "Equal"

\* Mutant: the closure returns the first resolved column's ordering even
\* when it is Equal, so later ORDER BY columns never break ties.
RECURSIVE CompareNoTieBreak(_, _, _)
CompareNoTieBreak(cols, a, b) ==
    IF cols = <<>> THEN "Equal"
    ELSE LET c   == Head(cols)
             l   == Cell(a, c.index)
             r   == Cell(b, c.index)
             ord == IF c = NoCol \/ l = Unreadable \/ r = Unreadable THEN "Equal"
                    ELSE IF c.asc THEN PartialCmp(l, r) ELSE PartialCmp(r, l)
         IN  IF c = NoCol THEN CompareNoTieBreak(Tail(cols), a, b)
             ELSE IF ord = "None" THEN "Equal" ELSE ord

\* The order_by closure: the first column that does not compare Equal
\* decides; None decides too, as Equal; an unreadable side compares Equal
\* and the next column is tried.
RECURSIVE Compare(_, _, _)
Compare(cols, a, b) ==
    IF cols = <<>> THEN "Equal"
    ELSE LET c   == Head(cols)
             l   == Cell(a, c.index)
             r   == Cell(b, c.index)
             ord == IF c = NoCol \/ l = Unreadable \/ r = Unreadable THEN "Equal"
                    ELSE IF c.asc THEN PartialCmp(l, r) ELSE PartialCmp(r, l)
         IN  IF c = NoCol \/ ord = "Equal" THEN Compare(Tail(cols), a, b)
             ELSE IF ord = "None" THEN "Equal" ELSE ord

IsLess(cols, a, b) == Compare(cols, rows[a], rows[b]) = "Less"

\* Mutant: insertion stops only at an element less than x, so x moves
\* left past the elements equal to it.
RECURSIVE InsertTailPastEqual(_, _, _)
InsertTailPastEqual(cols, pre, x) ==
    IF pre = <<>> \/ IsLess(cols, Last(pre), x) THEN Append(pre, x)
    ELSE Append(InsertTailPastEqual(cols, Front(pre), x), Last(pre))

\* insert_tail: move the last element left past every element it is less
\* than.
RECURSIVE InsertTail(_, _, _)
InsertTail(cols, pre, x) ==
    IF pre = <<>> \/ ~IsLess(cols, x, Last(pre)) THEN Append(pre, x)
    ELSE Append(InsertTail(cols, Front(pre), x), Last(pre))

\* insertion_sort_shift_left(v, 1, is_less): insert v[2], v[3], ... in turn
\* into the sorted prefix.
RECURSIVE InsertionSort(_, _)
InsertionSort(cols, v) ==
    IF v = <<>> THEN v
    ELSE InsertTail(cols, InsertionSort(cols, Front(v)), Last(v))

-----------------------------------------------------------------------------
(* The SortBuffer methods, driven as the caller (connection/mod.rs, not   *)
(* among the sources; specification 4.7) drives them: add rows while the  *)
(* shards stream; once every shard has completed, sort if the route has   *)
(* an ORDER BY and mark the buffer full; then take rows.                  *)

Init ==
    /\ rows = <<>>
    /\ buffer = <<>>
    /\ full = FALSE
    /\ out = <<>>
    /\ sortedBy = <<>>

\* Mutant: the new row is recorded at the position of the previous one.
AddOffByOne(row) ==
    /\ ~full
    /\ Len(rows) < MaxRows
    /\ rows' = Append(rows, row)
    /\ buffer' = Append(buffer, Len(rows))
    /\ UNCHANGED <<full, out, sortedBy>>

\* SortBuffer::add: decode the DataRow and push it at the back.
Add(row) ==
    /\ ~full
    /\ Len(rows) < MaxRows
    /\ rows' = Append(rows, row)
    /\ buffer' = Append(buffer, Len(rows) + 1)
    /\ UNCHANGED <<full, out, sortedBy>>

\* SortBuffer::sort(columns, rd): resolve the columns, then sort_by.
SortRows(columns, buf) == InsertionSort(Resolve(columns, RowDesc), buf)

\* SortBuffer::full, with no ORDER BY.
MarkFull ==
    /\ ~full
    /\ full' = TRUE
    /\ UNCHANGED <<rows, buffer, out, sortedBy>>

\* SortBuffer::sort followed by SortBuffer::full, for a route with an
\* ORDER BY.
SortAndMarkFull(columns) ==
    /\ ~full
    /\ buffer' = SortRows(columns, buffer)
    /\ full' = TRUE
    /\ sortedBy' = columns
    /\ UNCHANGED <<rows, out>>

\* SortBuffer::take: None until full, then pop the front.
Take ==
    /\ full
    /\ buffer # <<>>
    /\ out' = Append(out, Head(buffer))
    /\ buffer' = Tail(buffer)
    /\ UNCHANGED <<rows, full, sortedBy>>

Next ==
    \/ \E row \in Rows : Add(row)
    \/ MarkFull
    \/ \E columns \in OrderBys : SortAndMarkFull(columns)
    \/ Take

Spec == Init /\ [][Next]_vars

=============================================================================
