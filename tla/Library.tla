------------------------------ MODULE Library ------------------------------
(***************************************************************************)
(* The tasks of PureParts with the parts that recurse over data: the       *)
(* quicksort, the tree and the walks.                                      *)
(***************************************************************************)
EXTENDS PureParts

A == INSTANCE Algorithms
-----------------------------------------------------------------------------
\* sort.quick and the tree of ds.py order what they are given: the tree stably,
\* quick within a stack of log2(n) ranges; the walks of ds.py enter every node
\* that can be reached once, in their order.
OrdersRight ==
    /\ Done("sort") => A!SortedRight(task.items, task.reverse)
    /\ Done("walk") => A!WalkedRight(A!Graph(task.edges, task.directed), task.start)
=============================================================================
