------------------------------- MODULE Search -------------------------------
(***************************************************************************)
(* search.py as functions of their arguments, and what they promise.       *)
(*                                                                         *)
(* An item is <<key, tag>>: items of one key are told apart by their tags, *)
(* which the code cannot see.  Positions count from 1 and 0 stands for the *)
(* result -1; lo + (hi - lo) // 2 is the same element either way.          *)
(***************************************************************************)
EXTENDS Integers, Sequences, FiniteSetsExt

Key(item) == item[1]

\* The element in the middle of lo .. hi.
Middle(lo, hi) == lo + (hi - lo) \div 2
-----------------------------------------------------------------------------
(* search.linear and search.binary                                         *)

Linear(values, target) ==
    LET at == {p \in DOMAIN values : Key(values[p]) = target}
    IN IF at = {} THEN 0 ELSE Min(at)

\* Mutant: the upper bound is put below the middle.
BinaryShort(values, target, lo, hi) ==
    LET find[r \in (1 .. Len(values) + 1) \X (0 .. Len(values) + 1)] ==
            IF r[1] >= r[2] THEN 0
            ELSE LET mid == Middle(r[1], r[2]) IN
                 CASE Key(values[mid]) < target -> find[<<mid + 1, r[2]>>]
                   [] Key(values[mid]) > target -> find[<<r[1], mid - 1>>]
                   [] OTHER -> mid
    IN find[<<lo, hi>>]
\* hi is exclusive; each round of the loop leaves a part of the range r.
Binary(values, target, lo, hi) ==
    LET find[r \in (1 .. Len(values) + 1) \X (1 .. Len(values) + 1)] ==
            IF r[1] >= r[2] THEN 0
            ELSE LET mid == Middle(r[1], r[2]) IN
                 CASE Key(values[mid]) < target -> find[<<mid + 1, r[2]>>]
                   [] Key(values[mid]) > target -> find[<<r[1], mid>>]
                   [] OTHER -> mid
    IN find[<<lo, hi>>]
-----------------------------------------------------------------------------
Ascending(items) == \A p \in 1 .. Len(items) - 1 : Key(items[p]) <= Key(items[p + 1])

\* The linear search finds the first item of the key, if there is one; the
\* binary search of sorted items finds one within the range it was given, if
\* one is there.
FoundRight(items, target) ==
    LET is(p) == Key(items[p]) = target
        first == Linear(items, target)
    IN /\ IF first = 0 THEN \A p \in DOMAIN items : ~is(p)
          ELSE is(first) /\ \A p \in 1 .. first - 1 : ~is(p)
       /\ Ascending(items) =>
              \A lo \in 1 .. Len(items) + 1 : \A hi \in lo .. Len(items) + 1 :
                  LET found == Binary(items, target, lo, hi) IN
                  IF found = 0 THEN \A p \in lo .. hi - 1 : ~is(p)
                  ELSE found \in lo .. hi - 1 /\ is(found)
=============================================================================
