----------------------------- MODULE Algorithms -----------------------------
(***************************************************************************)
(* The algorithms of UBIN that recurse over data: sort.quick and the tree  *)
(* and the graph of ds.py, as functions of their arguments, and beside     *)
(* them the definitions they are compared with.                            *)
(***************************************************************************)
EXTENDS Sorting, SequencesExt
-----------------------------------------------------------------------------
(* sort.quick: the array, the explicit stack of ranges, and the most       *)
(* ranges the stack has held.                                              *)

\* The two scans: the first position from i up, from j down, that may not stay
\* where it is.
ScanUp(data, i, hi, pivot, reverse) ==
    Min({k \in i .. hi : ~Before(Key(data[k]), pivot, reverse)} \cup {Max({i, hi + 1})})
ScanDown(data, j, lo, pivot, reverse) ==
    Max({k \in lo .. j : ~Before(pivot, Key(data[k]), reverse)} \cup {Min({j, lo - 1})})

\* Hoare's partition of lo .. hi from i and j on.
RECURSIVE Partition(_, _, _, _, _, _, _)
Partition(data, lo, hi, i, j, pivot, reverse) ==
    IF i > j THEN [data |-> data, i |-> i, j |-> j]
    ELSE LET up   == ScanUp(data, i, hi, pivot, reverse)
             down == ScanDown(data, j, lo, pivot, reverse)
         IN IF up <= down
            THEN Partition([data EXCEPT ![up] = data[down], ![down] = data[up]],
                           lo, hi, up + 1, down - 1, pivot, reverse)
            ELSE [data |-> data, i |-> up, j |-> down]

\* Mutant: the smaller part is stacked and the larger one continued.
StackSmaller(p, lo, hi) == p.j - lo >= hi - p.i
\* Is the right part the larger one?
StackRight(p, lo, hi) == p.j - lo < hi - p.i

RECURSIVE QuickFrom(_, _, _, _, _, _)
QuickFrom(data, stack, deepest, lo, hi, reverse) ==
    IF lo >= hi
    THEN IF stack = <<>> THEN [data |-> data, deepest |-> deepest]
         ELSE QuickFrom(data, Front(stack), deepest, Last(stack)[1], Last(stack)[2], reverse)
    ELSE LET p == Partition(data, lo, hi, lo, hi, Key(data[Middle(lo, hi)]), reverse)
             right == StackRight(p, lo, hi)
             kept  == IF right THEN IF p.i < hi THEN Append(stack, <<p.i, hi>>) ELSE stack
                      ELSE IF lo < p.j THEN Append(stack, <<lo, p.j>>) ELSE stack
         IN QuickFrom(p.data, kept, Max({deepest, Len(kept)}),
                      IF right THEN lo ELSE p.i, IF right THEN p.j ELSE hi, reverse)

QuickSort(items, reverse) == QuickFrom(items, <<>>, 0, 1, Len(items), reverse)
-----------------------------------------------------------------------------
(* ds.BinarySearchTree: a function from paths to the items of its nodes; 0 *)
(* is the left child and 1 the right one.                                  *)

\* Where the descent for an item ends: the first path without a node.
RECURSIVE Descend(_, _, _)
Descend(tree, item, path) ==
    IF path \notin DOMAIN tree THEN path
    ELSE Descend(tree, item, Append(path, IF Key(item) < Key(tree[path]) THEN 0 ELSE 1))

Insert(tree, item) ==
    LET new == Descend(tree, item, <<>>)
    IN [path \in DOMAIN tree \cup {new} |-> IF path = new THEN item ELSE tree[path]]

EmptyTree   == [path \in {} |-> 0]
Tree(items) == FoldLeft(Insert, EmptyTree, items)

RECURSIVE Finds(_, _, _)
Finds(tree, key, path) ==
    /\ path \in DOMAIN tree
    /\ \/ Key(tree[path]) = key
       \/ Finds(tree, key, Append(path, IF key < Key(tree[path]) THEN 0 ELSE 1))

\* The traversal with an explicit stack of the nodes still to be visited.
RECURSIVE InorderFrom(_, _, _, _)
InorderFrom(tree, path, stack, result) ==
    CASE path \in DOMAIN tree ->
             InorderFrom(tree, Append(path, 0), Append(stack, path), result)
      [] path \notin DOMAIN tree /\ stack # <<>> ->
             InorderFrom(tree, Append(Last(stack), 1), Front(stack),
                         Append(result, tree[Last(stack)]))
      [] OTHER -> result

Inorder(tree) == InorderFrom(tree, <<>>, <<>>, <<>>)
-----------------------------------------------------------------------------
(* ds.Graph: nodes and neighbours in the order they were added.            *)

AddLast(seq, x) == IF Contains(seq, x) THEN seq ELSE Append(seq, x)

\* add_edge, which adds both nodes, and both directions unless directed.
AddEdge(adj, edge, directed) ==
    LET s == edge[1]
        t == edge[2]
        nodes == DOMAIN adj \cup {s, t}
        out(n) == IF n \in DOMAIN adj THEN adj[n] ELSE <<>>
        there == [n \in nodes |-> IF n = s THEN AddLast(out(n), t) ELSE out(n)]
    IN IF directed THEN there ELSE [there EXCEPT ![t] = AddLast(@, s)]

EmptyGraph == [n \in {} |-> <<>>]
Graph(edges, directed) ==
    FoldLeft(LAMBDA adj, edge : AddEdge(adj, edge, directed), EmptyGraph, edges)

RECURSIVE BfsFrom(_, _, _, _)
BfsFrom(adj, seen, order, pending) ==
    IF pending = <<>> THEN order
    ELSE LET node == Head(pending)
             new  == SelectSeq(adj[node], LAMBDA m : m \notin seen)
         IN BfsFrom(adj, seen \cup ToSet(new), Append(order, node), Tail(pending) \o new)

RECURSIVE DfsFrom(_, _, _, _)
DfsFrom(adj, seen, order, pending) ==
    IF pending = <<>> THEN order
    ELSE LET node == Last(pending) IN
         IF node \in seen THEN DfsFrom(adj, seen, order, Front(pending))
         ELSE DfsFrom(adj, seen \cup {node}, Append(order, node),
                      Front(pending) \o Reverse(adj[node]))

Bfs(adj, start) == BfsFrom(adj, {start}, <<>>, <<start>>)
Dfs(adj, start) == DfsFrom(adj, {}, <<>>, <<start>>)

\* The references: levels of nodes at equal distance, and the nodes in the
\* order a recursive search enters them.
RECURSIVE Distances(_, _, _)
Distances(adj, known, d) ==
    LET next == (UNION {ToSet(adj[n]) : n \in DOMAIN known}) \ DOMAIN known
    IN IF next = {} THEN known
       ELSE Distances(adj, [n \in DOMAIN known \cup next |->
                               IF n \in next THEN d + 1 ELSE known[n]], d + 1)

RECURSIVE Preorder(_, _, _)
Preorder(adj, node, order) ==
    IF Contains(order, node) THEN order
    ELSE FoldLeft(LAMBDA o, m : Preorder(adj, m, o), Append(order, node), adj[node])
-----------------------------------------------------------------------------
\* The quicksort orders the items and its stack holds at most as many ranges as
\* the length has halvings; the tree keeps items of one key in their order, and
\* has the keys that were inserted.
SortedRight(items, reverse) ==
    LET quick == QuickSort(items, reverse) IN
    /\ \A p \in 1 .. Len(items) - 1 :
           ~Before(Key(quick.data[p + 1]), Key(quick.data[p]), reverse)
    /\ ToSet(quick.data) = ToSet(items) /\ Len(quick.data) = Len(items)
    /\ 2 ^ quick.deepest <= Max({Len(items), 1})
    /\ ~reverse => Inorder(Tree(items)) = StableSort(items, FALSE)
    /\ LET keys == {Key(items[p]) : p \in DOMAIN items} IN
       \A key \in 0 .. 4 : Finds(Tree(items), key, <<>>) = (key \in keys)

\* Walks enter every node that can be reached once; the breadth-first one in
\* the order of distance, the depth-first one as the recursive search does.
WalkedRight(adj, start) ==
    LET bfs  == Bfs(adj, start)
        dist == Distances(adj, [n \in {start} |-> 0], 0)
    IN /\ ToSet(bfs) = DOMAIN dist /\ Len(bfs) = Cardinality(DOMAIN dist)
       /\ \A p \in 1 .. Len(bfs) - 1 : dist[bfs[p]] <= dist[bfs[p + 1]]
       /\ Dfs(adj, start) = Preorder(adj, start, <<>>)
=============================================================================
