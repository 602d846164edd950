------------------------------ MODULE Sorting ------------------------------
(***************************************************************************)
(* sort.merge as a function of its arguments, and the definition it is     *)
(* compared with.  Items and positions are those of Search; the cursors    *)
(* count from 0, as the code's do.                                         *)
(***************************************************************************)
EXTENDS Search, FiniteSets

Before(a, b, reverse) == IF reverse THEN a > b ELSE a < b

\* Mutant: a right item of the same key is taken first.
RightNotAfter(left, right, reverse) ==
    IF reverse THEN Key(left) <= Key(right) ELSE Key(right) <= Key(left)
RightPrecedes(left, right, reverse) ==
    IF reverse THEN Key(left) < Key(right) ELSE Key(right) < Key(left)

\* Does the next item come from the left run?
TakesLeft(data, left, middle, right, end, reverse) ==
    /\ left < middle
    /\ right < end => ~RightPrecedes(data[left + 1], data[right + 1], reverse)

\* The runs start .. middle - 1 and middle .. end - 1 as one: of the items that
\* are written before write, those that are not from the left are from the right.
MergePair(data, start, middle, end, reverse) ==
    LET right(write, left) == middle + write - left
        takes(write, left) == TakesLeft(data, left, middle, right(write, left), end, reverse)
        left[write \in start .. end] ==
            IF write = start THEN start
            ELSE left[write - 1] + IF takes(write - 1, left[write - 1]) THEN 1 ELSE 0
    IN [write \in start .. end - 1 |->
           data[1 + IF takes(write, left[write]) THEN left[write] ELSE right(write, left[write])]]

\* One round: runs of width items are merged in pairs, the last may be short.
MergeRound(data, width, reverse) ==
    LET count == Len(data)
        pair  == [i \in 0 .. (count - 1) \div (2 * width) |->
                     LET start == i * (2 * width)
                     IN MergePair(data, start, Min({start + width, count}),
                                  Min({start + 2 * width, count}), reverse)]
    IN [p \in 1 .. count |-> pair[(p - 1) \div (2 * width)][p - 1]]

\* The rounds; there are fewer than items.
MergeSort(items, reverse) ==
    LET run[k \in Nat] ==
            CASE k = 0 -> [data |-> items, width |-> 1]
              [] k > 0 /\ run[k - 1].width >= Len(items) -> run[k - 1]
              [] OTHER -> [data  |-> MergeRound(run[k - 1].data, run[k - 1].width, reverse),
                           width |-> 2 * run[k - 1].width]
    IN run[Len(items)].data
-----------------------------------------------------------------------------
\* Is position p before position q, by key and where keys agree by position?
Ahead(items, p, q, reverse) ==
    \/ Before(Key(items[p]), Key(items[q]), reverse)
    \/ Key(items[p]) = Key(items[q]) /\ p < q

\* The reference: every item where as many positions are before its own.
StableSort(items, reverse) ==
    LET rank(p) == 1 + Cardinality({q \in DOMAIN items : Ahead(items, q, p, reverse)})
    IN [r \in DOMAIN items |-> items[CHOOSE p \in DOMAIN items : rank(p) = r]]
=============================================================================
