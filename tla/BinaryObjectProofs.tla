------------------------- MODULE BinaryObjectProofs -------------------------
(***************************************************************************)
(* What one binary object promises its threads, for every number of        *)
(* threads, every backend, source, offset and length.                      *)
(***************************************************************************)
EXTENDS BinaryObject, SequenceTheorems, TLAPS

\* Where the cursor stands elsewhere, to be moved back.
Away     == {"moved", "read", "failing"}
Critical == Away \cup {"locked"}
Reading  == Critical \cup {"checked"}

\* Nobody has used an object whose constructor has not returned.
Untouched ==
    size = None => /\ lock = None /\ cursor = 0 /\ expected = 0
                   /\ \A t \in Threads : pc[t] = "idle" /\ op[t].name = "none"

\* Which calls are at which point, and how far a stream has come.
Placed ==
    \A t \in Threads :
        /\ pc[t] \in Away => IsReadAt(t)
        /\ pc[t] = "between" => op[t].name = "stream"
        /\ pc[t] \in {"closing", "marking"} => op[t].name = "close"
        /\ pc[t] \in Reading /\ op[t].name = "stream" => at[t] < size
        /\ pc[t] = "read" => Len(block[t]) <= Length(t)

TypeInv == TypeOK /\ Untouched /\ Placed
-----------------------------------------------------------------------------
\* A read returns bytes, at most as many as it was asked for, and at least one
\* before the end.
LEMMA ReadsFacts ==
    ASSUME NEW s \in Seq(Nat), NEW o \in Nat, NEW n \in Nat, NEW x \in Reads(s, o, n)
    PROVE  /\ x \in Seq(Nat) /\ Len(x) <= n
           /\ \E k \in 0 .. n : x = ReadAt(s, o, k) /\ (o < Len(s) /\ n > 0 => k > 0)
<1>1. ASSUME NEW k \in Nat, k <= n
      PROVE  ReadAt(s, o, k) \in Seq(Nat) /\ Len(ReadAt(s, o, k)) <= n
  BY <1>1 DEF ReadAt, Least
<1>2. PICK k \in Nat : k <= n /\ x = ReadAt(s, o, k) /\ (o < Len(s) /\ n > 0 => k > 0)
  BY DEF Reads
<1> QED
  BY <1>1, <1>2

LEMMA PassedType ==
    ASSUME source \in Seq(Nat), NEW o \in Nat, NEW n \in Nat, NEW k \in Passed(o, n)
    PROVE  k \in Nat
BY DEF Passed, ReadAt, Least

LEMMA OpTypes ==
    ASSUME TypeOK, NEW t \in Threads
    PROVE  /\ op[t].name = "read" => op[t].length \in Nat \ {0}
           /\ op[t].name = "seek" => op[t].offset \in Nat
           /\ op[t].name = "read_at" => op[t].offset \in Nat /\ op[t].length \in Nat \ {0}
           /\ op[t].name = "stream" => op[t].block \in Nat \ {0} /\ op[t].start \in Nat
<1>1. op[t] \in Calls \cup {[name |-> "none"]}
  BY DEF TypeOK
<1>2. Lengths \subseteq Nat \ {0} /\ Offsets \subseteq Nat
  BY ObjectAssumption
<1>3. CASE op[t] \in [name : {"read"}, length : Lengths]
  BY <1>2, <1>3
<1>4. CASE op[t] \in [name : {"seek"}, offset : Offsets]
  BY <1>2, <1>4
<1>5. CASE op[t] \in [name : {"read_at"}, offset : Offsets, length : Lengths]
  BY <1>2, <1>5
<1>6. CASE op[t] \in [name : {"stream"}, block : Lengths, start : Offsets]
  BY <1>2, <1>6
<1>7. CASE op[t] = [name |-> "close"] \/ op[t] = [name |-> "none"]
  BY <1>7
<1> QED
  BY <1>1, <1>3, <1>4, <1>5, <1>6, <1>7 DEF Calls

\* What the positioned read of t is about, while it has not passed the size.
LEMMA ArgumentTypes ==
    ASSUME TypeInv, NEW t \in Threads, IsReadAt(t), pc[t] # "idle",
           op[t].name = "stream" => at[t] < size
    PROVE  size \in Nat /\ Offset(t) \in Nat /\ Length(t) \in Nat \ {0}
<1>1. size \in Nat
  BY DEF TypeInv, TypeOK, Untouched
<1> QED
  BY <1>1, OpTypes DEF TypeInv, TypeOK, IsReadAt, Offset, Length, Least

LEMMA SourceType ==
    ASSUME TypeOK
    PROVE  source \in Seq(Nat) /\ named \in Seq(Nat) /\ Len(named) \in Nat
<1>1. source \in Contents \cup {<<>>} /\ named \in Contents /\ Contents \subseteq Seq(Nat)
  BY ObjectAssumption DEF TypeOK
<1>2. <<>> \in Seq(Nat)
  OBVIOUS
<1>3. source \in Seq(Nat) /\ named \in Seq(Nat)
  BY <1>1, <1>2
<1> QED
  BY <1>3

\* What FinishReadAt is given is typed, and within the length asked for.
LEMMA FinishTypes ==
    ASSUME TypeInv, NEW t \in Threads, NEW x \in Seq(Nat), FinishReadAt(t, x)
    PROVE  /\ pc' = [pc EXCEPT ![t] = IF op[t].name = "stream" /\ x # <<>> THEN "between"
                                                                        ELSE "returned"]
           /\ got' \in [Threads -> Seq(Nat)] /\ at' \in [Threads -> Nat]
           /\ \A u \in Threads \ {t} : at'[u] = at[u]
<1>1. got[t] \o x \in Seq(Nat) /\ at[t] + Len(x) \in Nat
  BY DEF TypeInv, TypeOK
<1> QED
  BY <1>1 DEF FinishReadAt, GoTo, TypeInv, TypeOK

LEMMA FinishPlaced ==
    ASSUME TypeInv, NEW t \in Threads, NEW x \in Seq(Nat), FinishReadAt(t, x),
           size' = size, op' = op, \A u \in Threads \ {t} : block'[u] = block[u]
    PROVE  Placed'
<1>1. /\ pc'[t] \in {"between", "returned"} /\ (pc'[t] = "between" => op[t].name = "stream")
      /\ \A u \in Threads \ {t} : pc'[u] = pc[u] /\ at'[u] = at[u]
  BY FinishTypes DEF TypeInv, TypeOK
<1>2. \A u \in Threads \ {t} : Length(u)' = Length(u) /\ IsReadAt(u)' = IsReadAt(u)
  BY <1>1 DEF Length, IsReadAt
<1>3. ASSUME NEW u \in Threads
      PROVE  /\ pc'[u] \in Away => IsReadAt(u)'
             /\ pc'[u] = "between" => op'[u].name = "stream"
             /\ pc'[u] \in {"closing", "marking"} => op'[u].name = "close"
             /\ pc'[u] \in Reading /\ op'[u].name = "stream" => at'[u] < size'
             /\ pc'[u] = "read" => Len(block'[u]) <= Length(u)'
  BY <1>1, <1>2 DEF TypeInv, Placed, Reading, Critical, Away
<1> QED
  BY <1>3 DEF Placed

LEMMA PositionedTypes ==
    ASSUME TypeInv, NEW t \in Threads, IsReadAt(t), pc[t] \in Reading,
           NEW s \in Seq(Nat), NEW x \in Reads(s, Offset(t), Length(t))
    PROVE  x \in Seq(Nat) /\ Len(x) <= Length(t)
<1>1. Offset(t) \in Nat /\ Length(t) \in Nat
  BY ArgumentTypes DEF TypeInv, Placed, Reading, Critical, Away
<1> QED
  BY <1>1, ReadsFacts

LEMMA TypeInit == Init => TypeInv
<1> SUFFICES ASSUME Init
             PROVE  TypeInv
  OBVIOUS
<1>1. TypeOK
  <2>1. /\ op \in [Threads -> Calls \cup {[name |-> "none"]}]
        /\ saved \in [Threads -> Nat] /\ at \in [Threads -> Nat]
        /\ block \in [Threads -> Seq(Nat)] /\ got \in [Threads -> Seq(Nat)]
    BY DEF Init
  <2> QED
    <3>1. calls \in 0 .. MaxCalls /\ edits \in 0 .. MaxEdits
      BY ObjectAssumption DEF Init
    <3>2. /\ backend \in Backends /\ number \in {"own", "other", "free"}
          /\ source \in Contents \cup {<<>>} /\ named \in Contents
          /\ size \in Nat \cup {None} /\ closed \in BOOLEAN
          /\ cursor \in Nat /\ expected \in Nat /\ lock \in Threads \cup {None}
      BY DEF Init
    <3>3. pc \in [Threads -> {"idle"}]
      BY DEF Init
    <3> QED
      BY <2>1, <3>1, <3>2, <3>3 DEF TypeOK, Resting
<1>2. Untouched /\ Placed
  BY DEF Init, Untouched, Placed, Reading, Critical, Away
<1> QED
  BY <1>1, <1>2 DEF TypeInv

\* The constructor, and what happens outside the object.
LEMMA TypeOutside ==
    ASSUME TypeInv, Open \/ Stat \/ ReuseNumber \/ Edit
    PROVE  TypeInv'
<1> USE DEF TypeInv, TypeOK, cursorVars, callVars
<1>1. Len(named) \in Nat
  BY SourceType
<1>2. CASE Open
  <2>1. \A t \in Threads : pc[t] = "idle"
    BY <1>2 DEF Open, Untouched
  <2> QED
    BY <1>1, <1>2, <2>1 DEF Open, Untouched, Placed, Reading, Critical, Away
<1>3. CASE Stat
  <2>1. \A t \in Threads : pc[t] = "idle"
    BY <1>3 DEF Stat, Untouched
  <2> QED
    BY <1>1, <1>3, <2>1 DEF Stat, Untouched, Placed, Reading, Critical, Away
<1>4. CASE ReuseNumber
  BY <1>4 DEF ReuseNumber, Untouched, Placed, IsReadAt, Length
<1>5. CASE Edit
  <2>1. named' \in Contents /\ source' \in Contents \cup {<<>>}
    BY <1>5 DEF Edit
  <2>2. edits' \in 0 .. MaxEdits
    BY <1>5, ObjectAssumption DEF Edit
  <2> QED
    BY <1>5, <2>1, <2>2 DEF Edit, Untouched, Placed, IsReadAt, Length
<1> QED
  BY <1>2, <1>3, <1>4, <1>5

LEMMA TypeCall ==
    ASSUME TypeInv, NEW t \in Threads, NEW c \in Calls, Call(t, c)
    PROVE  TypeInv'
<1> USE DEF TypeInv, TypeOK
<1>1. (IF c.name = "stream" THEN c.start ELSE 0) \in Nat
  <2>1. c.name = "stream" => c.start \in Offsets
    BY DEF Calls
  <2> QED
    BY <2>1, ObjectAssumption
<1>2. PICK l \in {"returned", "closing", "raised", "between", "checked"} :
           /\ pc' = [pc EXCEPT ![t] = l]
           /\ l = "between" => c.name = "stream"
           /\ l = "closing" => c.name = "close"
           /\ l = "checked" => c.name # "stream"
  <2>1. CASE c.name = "close"
    BY <2>1 DEF Call, GoTo
  <2>2. CASE c.name = "stream"
    BY <2>2 DEF Call, GoTo
  <2>3. CASE c.name \notin {"close", "stream"}
    BY <2>3 DEF Call, GoTo
  <2> QED
    BY <2>1, <2>2, <2>3
<1>3. /\ op' = [op EXCEPT ![t] = c] /\ got' = [got EXCEPT ![t] = <<>>]
      /\ at' = [at EXCEPT ![t] = IF c.name = "stream" THEN c.start ELSE 0]
      /\ UNCHANGED <<objectVars, cursorVars, saved, block, edits>>
  BY DEF Call
<1>4. TypeOK'
  <2>1. calls' \in 0 .. MaxCalls
    <3>1. calls < MaxCalls /\ calls' = calls + 1
      BY DEF Call
    <3> QED
      BY <3>1, ObjectAssumption
  <2>2. <<>> \in Seq(Nat)
    OBVIOUS
  <2> QED
    BY <1>1, <1>2, <1>3, <2>1, <2>2 DEF objectVars, cursorVars, Resting
<1>5. Untouched'
  BY <1>2, <1>3 DEF Call, Opened, Untouched, objectVars
<1>6. Placed'
  <2>1. op'[t] = c /\ pc'[t] \notin Critical
    BY <1>2, <1>3 DEF Critical, Away
  <2>2. \A u \in Threads \ {t} : op'[u] = op[u] /\ pc'[u] = pc[u] /\ at'[u] = at[u]
    BY <1>2, <1>3
  <2>3. size' = size /\ block' = block
    BY <1>3 DEF objectVars
  <2> QED
    BY <1>2, <2>1, <2>2, <2>3, SMTT(60) DEF Placed, IsReadAt, Length, Reading, Critical, Away
<1> QED
  BY <1>4, <1>5, <1>6

LEMMA TypeStep ==
    ASSUME TypeInv, NEW t \in Threads, Step(t)
    PROVE  TypeInv'
<1> USE DEF TypeInv, TypeOK, objectVars, cursorVars, Resting
<1>1. pc[t] # "idle" /\ size # None
  BY DEF Step, Acquire, ReadHere, SeekTo, ErrorHere, Direct, RaiseDirect, MoveAway,
         ReadThere, ErrorThere, MoveBack, RaiseLocked, NextBlock, CloseSource, MarkClosed,
         Untouched
<1>2. size' = size /\ op' = op
  BY DEF Step, Acquire, ReadHere, SeekTo, ErrorHere, Direct, RaiseDirect, MoveAway,
         ReadThere, ErrorThere, MoveBack, RaiseLocked, NextBlock, CloseSource, MarkClosed
<1>3. Untouched'
  BY <1>1, <1>2 DEF Untouched
<1>4. CASE Acquire(t)
  BY <1>2, <1>3, <1>4 DEF Acquire, GoTo, Placed, IsReadAt, Length, Reading, Critical, Away
<1>5. CASE ReadHere(t)
  <2>1. PICK x \in Reads(source, cursor, op[t].length) :
             got' = [got EXCEPT ![t] = x] /\ cursor' = cursor + Len(x)
    BY <1>5 DEF ReadHere
  <2>2. x \in Seq(Nat) /\ Len(x) \in Nat
    <3>1. op[t].length \in Nat /\ source \in Seq(Nat) /\ cursor \in Nat
      BY <1>5, OpTypes, SourceType DEF ReadHere
    <3> QED
      BY <3>1, ReadsFacts
  <2> QED
    BY <1>2, <1>3, <1>5, <2>1, <2>2
       DEF ReadHere, GoTo, Release, Placed, IsReadAt, Length, Reading, Critical, Away
<1>15. CASE ErrorHere(t)
  <2>1. cursor' \in Nat /\ expected' \in Nat
    <3>1. CASE op[t].name = "read"
      <4>1. op[t].length \in Nat /\ source \in Seq(Nat) /\ cursor \in Nat
        BY <3>1, OpTypes, SourceType
      <4>2. \A k \in Passed(cursor, op[t].length) : k \in Nat
        BY <4>1, PassedType
      <4> QED
        BY <1>15, <3>1, <4>1, <4>2 DEF ErrorHere
    <3>2. CASE op[t].name # "read"
      BY <1>15, <3>2 DEF ErrorHere
    <3> QED
      BY <3>1, <3>2
  <2>2. /\ pc' = [pc EXCEPT ![t] = "raised"] /\ lock' = None
        /\ UNCHANGED <<objectVars, op, saved, block, at, got, calls, edits>>
    BY <1>15 DEF ErrorHere, GoTo, Release
  <2> QED
    BY <1>2, <1>3, <2>1, <2>2 DEF Placed, IsReadAt, Length, Reading, Critical, Away
<1>6. CASE SeekTo(t)
  <2>1. op[t].offset \in Nat /\ size \in Nat
    BY <1>1, <1>6, OpTypes DEF SeekTo
  <2> QED
    BY <1>2, <1>3, <1>6, <2>1
       DEF SeekTo, GoTo, Release, Least, Placed, IsReadAt, Length, Reading, Critical, Away
<1>7. CASE Direct(t)
  <2>1. PICK x \in Seq(Nat) : FinishReadAt(t, x)
    <3>1. CASE Offset(t) >= size
      <4>1. <<>> \in Seq(Nat)
        OBVIOUS
      <4> QED
        BY <1>7, <3>1, <4>1 DEF Direct
    <3>2. CASE ~(Offset(t) >= size)
      <4>1. (IF Live THEN source ELSE Foreign) \in Seq(Nat)
        BY SourceType, ObjectAssumption
      <4> QED
        BY <1>7, <3>2, <4>1, PositionedTypes DEF Direct, Reading
    <3> QED
      BY <3>1, <3>2
  <2> QED
    <3>1. TypeOK'
      BY <1>2, <1>7, <2>1, FinishTypes DEF Direct
    <3>2. Placed'
      BY <1>2, <1>7, <2>1, FinishPlaced DEF Direct
    <3> QED
      BY <1>3, <3>1, <3>2
<1>8. CASE RaiseDirect(t) \/ RaiseLocked(t)
  BY <1>2, <1>3, <1>8
     DEF RaiseDirect, RaiseLocked, GoTo, Release, Placed, IsReadAt, Length, Reading, Critical, Away
<1>9. CASE MoveAway(t)
  <2>1. Offset(t) \in Nat
    BY <1>1, <1>9, ArgumentTypes DEF MoveAway, Placed, Reading, Critical, Away
  <2> QED
    BY <1>2, <1>3, <1>9, <2>1 DEF MoveAway, GoTo, Placed, IsReadAt, Length, Reading, Critical, Away
<1>10. CASE ReadThere(t)
  <2>1. PICK x \in Reads(source, cursor, Length(t)) :
             block' = [block EXCEPT ![t] = x] /\ cursor' = cursor + Len(x)
    BY <1>10 DEF ReadThere
  <2>2. Length(t) \in Nat
    BY <1>1, <1>10, ArgumentTypes DEF ReadThere, Placed, Reading, Critical, Away
  <2>3. x \in Seq(Nat) /\ Len(x) \in Nat /\ Len(x) <= Length(t)
    BY <2>2, SourceType, ReadsFacts, SMTT(60)
  <2> QED
    <3>1. TypeOK'
      BY <1>2, <1>10, <2>1, <2>3, SMTT(60) DEF ReadThere, GoTo
    <3>2. \A u \in Threads : Length(u)' = Length(u) /\ IsReadAt(u)' = IsReadAt(u)
      BY <1>2, <1>10 DEF ReadThere, Length, IsReadAt
    <3>3. Placed'
      BY <1>2, <1>10, <2>1, <2>3, <3>2, SMTT(60) DEF ReadThere, GoTo, Placed, Reading, Critical, Away
    <3> QED
      BY <1>3, <3>1, <3>3
<1>16. CASE ErrorThere(t)
  <2>1. Length(t) \in Nat /\ source \in Seq(Nat) /\ cursor \in Nat
    BY <1>1, <1>16, ArgumentTypes, SourceType
       DEF ErrorThere, Placed, Reading, Critical, Away
  <2>2. cursor' \in Nat
    BY <1>16, <2>1, PassedType DEF ErrorThere
  <2> QED
    BY <1>2, <1>3, <1>16, <2>2
       DEF ErrorThere, GoTo, Placed, IsReadAt, Length, Reading, Critical, Away
<1>17. CASE MoveBack(t) /\ pc[t] = "failing"
  <2>1. /\ pc' = [pc EXCEPT ![t] = "raised"] /\ lock' = None /\ cursor' = saved[t]
        /\ saved' = [saved EXCEPT ![t] = 0] /\ block' = [block EXCEPT ![t] = <<>>]
        /\ UNCHANGED <<objectVars, expected, op, at, got, calls, edits>>
    BY <1>17 DEF MoveBack, GoTo, Release
  <2>2. saved[t] \in Nat /\ <<>> \in Seq(Nat)
    OBVIOUS
  <2> QED
    BY <1>2, <1>3, <2>1, <2>2 DEF Placed, IsReadAt, Length, Reading, Critical, Away
<1>11. CASE MoveBack(t) /\ pc[t] = "read"
  <2>1. FinishReadAt(t, block[t]) /\ block[t] \in Seq(Nat) /\ saved[t] \in Nat
    BY <1>11 DEF MoveBack
  <2> QED
    <3>1. /\ saved' = [saved EXCEPT ![t] = 0] /\ block' = [block EXCEPT ![t] = <<>>]
          /\ cursor' = saved[t] /\ lock' = None
          /\ UNCHANGED <<objectVars, expected, op, calls, edits>>
      BY <1>11 DEF MoveBack, Release
    <3>2. /\ pc' \in [Threads -> Resting \cup {"checked", "locked", "moved", "read",
                                              "failing", "between", "closing", "marking"}]
          /\ got' \in [Threads -> Seq(Nat)] /\ at' \in [Threads -> Nat]
      BY <2>1, FinishTypes
    <3>3. <<>> \in Seq(Nat)
      OBVIOUS
    <3>4. saved' \in [Threads -> Nat] /\ block' \in [Threads -> Seq(Nat)]
      BY <3>1, <3>3
    <3>5. TypeOK'
      BY <2>1, <3>1, <3>2, <3>4
    <3>6. Placed'
      BY <1>2, <2>1, <3>1, FinishPlaced
    <3> QED
      BY <1>3, <3>5, <3>6
<1>12. CASE NextBlock(t)
  <2>1. size \in Nat /\ (pc'[t] = "checked" => at[t] < size)
    BY <1>1, <1>12 DEF NextBlock, GoTo
  <2>2. pc' = [pc EXCEPT ![t] = pc'[t]] /\ pc'[t] \in {"raised", "returned", "checked"}
    BY <1>12 DEF NextBlock, GoTo
  <2> QED
    BY <1>2, <1>3, <1>12, <2>1, <2>2 DEF NextBlock, Placed, IsReadAt, Length, Reading, Critical, Away
<1>13. CASE CloseSource(t)
  BY <1>2, <1>3, <1>13 DEF CloseSource, GoTo, Placed, IsReadAt, Length, Reading, Critical, Away
<1>14. CASE MarkClosed(t)
  BY <1>2, <1>3, <1>14 DEF MarkClosed, GoTo, Placed, IsReadAt, Length, Reading, Critical, Away
<1> QED
  BY <1>4, <1>5, <1>6, <1>7, <1>8, <1>9, <1>10, <1>11, <1>12, <1>13, <1>14, <1>15, <1>16,
     <1>17
     DEF Step, MoveBack

LEMMA TypeNext == TypeInv /\ [Next]_vars => TypeInv'
<1>1. CASE UNCHANGED vars
  BY <1>1 DEF vars, objectVars, cursorVars, callVars, TypeInv, TypeOK, Untouched, Placed,
              IsReadAt, Length
<1> QED
  BY <1>1, TypeOutside, TypeCall, TypeStep DEF Next

\* Every variable of an object keeps its type.
THEOREM ObjectTypes == Spec => []TypeOK
<1>1. TypeInv => TypeOK
  BY DEF TypeInv
<1> QED
  BY <1>1, TypeInit, TypeNext, PTL DEF Spec
-----------------------------------------------------------------------------
(* The cursor.                                                             *)

\* The lock is held from Acquire on; the thread that has moved the cursor
\* knows where it was.
CursorInv ==
    /\ \A t \in Threads : pc[t] \in Critical <=> lock = t
    /\ Live /\ (\A t \in Threads : pc[t] \notin Away) => cursor = expected
    /\ \A t \in Threads : pc[t] \in Away => saved[t] = expected
    /\ \A t \in Threads : pc[t] = "moved" => cursor = Offset(t)

LEMMA CursorInit == Init => CursorInv
BY ObjectAssumption DEF Init, CursorInv, Critical, Away

\* Other threads do not hold the lock while t does.
LEMMA Alone ==
    ASSUME CursorInv, NEW t \in Threads, pc[t] \in Critical
    PROVE  lock = t /\ \A u \in Threads \ {t} : pc[u] \notin Critical
BY DEF CursorInv

LEMMA OffsetKept ==
    ASSUME NEW u \in Threads, op'[u] = op[u], at'[u] = at[u]
    PROVE  Offset(u)' = Offset(u)
BY DEF Offset

LEMMA CursorStep ==
    ASSUME TypeInv, CursorInv, NEW t \in Threads, Step(t)
    PROVE  CursorInv'
<1> USE ObjectAssumption DEF TypeInv, TypeOK, Critical, Away, objectVars, cursorVars, Live
<1>1. CASE Acquire(t)
  <2>1. \A u \in Threads : Offset(u)' = Offset(u)
    BY <1>1, OffsetKept DEF Acquire
  <2> QED
    BY <1>1, <2>1 DEF Acquire, GoTo, CursorInv
<1>8. CASE ErrorHere(t)
  <2>1. \A u \in Threads \ {t} : pc[u] \notin Critical
    BY <1>8, Alone DEF ErrorHere
  <2>2. cursor = expected
    BY <1>8, <2>1 DEF ErrorHere, CursorInv
  <2>3. cursor' = expected' /\ pc' = [pc EXCEPT ![t] = "raised"] /\ lock' = None
    BY <1>8, <2>2 DEF ErrorHere, GoTo, Release
  <2>4. \A u \in Threads : pc'[u] \notin Critical /\ lock' # u
    BY <2>1, <2>3
  <2> QED
    BY <2>3, <2>4 DEF CursorInv
<1>2. CASE ReadHere(t) \/ SeekTo(t)
  <2>1. \A u \in Threads \ {t} : pc[u] \notin Critical
    BY <1>2, Alone DEF ReadHere, SeekTo
  <2>2. cursor' = expected' /\ pc' = [pc EXCEPT ![t] = "returned"] /\ lock' = None
    BY <1>2 DEF ReadHere, SeekTo, GoTo, Release
  <2>3. \A u \in Threads : pc'[u] \notin Critical /\ lock' # u
    BY <2>1, <2>2
  <2> QED
    BY <2>2, <2>3 DEF CursorInv
<1>3. CASE Direct(t) \/ RaiseDirect(t) \/ NextBlock(t) \/ CloseSource(t) \/ MarkClosed(t)
  <2>1. /\ pc[t] \notin Critical /\ pc'[t] \notin Critical
        /\ \A u \in Threads \ {t} : pc'[u] = pc[u] /\ op'[u] = op[u] /\ at'[u] = at[u]
        /\ UNCHANGED <<cursor, expected, lock, saved>> /\ (number' = "own" => number = "own")
    BY <1>3 DEF Direct, RaiseDirect, NextBlock, CloseSource, MarkClosed, FinishReadAt, GoTo
  <2>2. \A u \in Threads \ {t} : Offset(u)' = Offset(u)
    BY <2>1, OffsetKept
  <2>3. \A u \in Threads : pc'[u] \in Critical \/ pc[u] \in Critical =>
                            pc'[u] = pc[u] /\ Offset(u)' = Offset(u)
    BY <2>1, <2>2
  <2>4. \A u \in Threads : pc'[u] \in Critical <=> lock' = u
    BY <2>1, <2>3 DEF CursorInv
  <2>5. (\A u \in Threads : pc'[u] \notin Away) =>
            \A u \in Threads : pc[u] \notin Away
    BY <2>3
  <2> QED
    BY <2>1, <2>3, <2>4, <2>5, SMTT(60) DEF CursorInv
<1>4. CASE MoveAway(t)
  <2>1. \A u \in Threads \ {t} : pc[u] \notin Critical
    BY <1>4, Alone DEF MoveAway
  <2>2. Offset(t)' = Offset(t)
    BY <1>4, OffsetKept DEF MoveAway
  <2>3. cursor = expected
    BY <1>4, <2>1 DEF MoveAway, CursorInv
  <2> QED
    BY <1>4, <2>1, <2>2, <2>3 DEF MoveAway, GoTo, CursorInv
<1>5. CASE ReadThere(t) \/ ErrorThere(t)
  <2>1. \A u \in Threads \ {t} : pc[u] \notin Critical
    BY <1>5, Alone DEF ReadThere, ErrorThere
  <2>2. /\ pc' \in {[pc EXCEPT ![t] = "read"], [pc EXCEPT ![t] = "failing"]}
        /\ UNCHANGED <<expected, lock, saved>>
    BY <1>5 DEF ReadThere, ErrorThere, GoTo
  <2>3. lock = t /\ pc[t] = "moved" /\ saved[t] = expected
    BY <1>5, Alone DEF ReadThere, ErrorThere, CursorInv
  <2> QED
    BY <2>1, <2>2, <2>3 DEF CursorInv
<1>6. CASE MoveBack(t)
  <2>1. \A u \in Threads \ {t} : pc[u] \notin Critical
    BY <1>6, Alone DEF MoveBack
  <2>2. /\ pc' \in {[pc EXCEPT ![t] = l] : l \in {"between", "returned", "raised"}}
        /\ cursor' = saved[t] /\ expected' = expected /\ lock' = None
    BY <1>6 DEF MoveBack, FinishReadAt, GoTo, Release
  <2>3. saved[t] = expected
    BY <1>6 DEF MoveBack, CursorInv
  <2> QED
    BY <2>1, <2>2, <2>3 DEF CursorInv
<1>7. CASE RaiseLocked(t)
  <2>1. \A u \in Threads \ {t} : pc[u] \notin Critical
    BY <1>7, Alone DEF RaiseLocked
  <2>2. pc' = [pc EXCEPT ![t] = "raised"] /\ lock' = None /\ number' # "own"
    BY <1>7 DEF RaiseLocked, GoTo, Release
  <2> QED
    BY <2>1, <2>2 DEF CursorInv
<1> QED
  BY <1>1, <1>2, <1>3, <1>4, <1>5, <1>6, <1>7, <1>8 DEF Step

LEMMA CursorNext == TypeInv /\ CursorInv /\ [Next]_vars => CursorInv'
<1> SUFFICES ASSUME TypeInv, CursorInv, [Next]_vars
             PROVE  CursorInv'
  OBVIOUS
<1>1. CASE UNCHANGED vars \/ ReuseNumber \/ Edit \/ Stat
  BY <1>1 DEF vars, objectVars, cursorVars, callVars, ReuseNumber, Edit, Stat, CursorInv, Offset,
              Live
<1>2. CASE Open
  <2>1. lock = None /\ cursor = expected /\ \A t \in Threads : pc[t] = "idle"
    BY <1>2 DEF Open, TypeInv, Untouched
  <2> QED
    BY <1>2, <2>1, ObjectAssumption DEF Open, CursorInv, cursorVars, callVars, Critical, Away
<1>3. ASSUME NEW t \in Threads, NEW c \in Calls, Call(t, c)
      PROVE  CursorInv'
  <2>1. /\ pc[t] \notin Critical /\ pc'[t] \notin Critical
        /\ \A u \in Threads \ {t} : pc'[u] = pc[u] /\ op'[u] = op[u] /\ at'[u] = at[u]
        /\ UNCHANGED <<cursor, expected, lock, saved, number>>
    BY <1>3 DEF Call, GoTo, Resting, Critical, Away, objectVars, cursorVars, TypeInv, TypeOK
  <2>2. \A u \in Threads \ {t} : Offset(u)' = Offset(u)
    BY <2>1, OffsetKept
  <2> QED
    BY <2>1, <2>2 DEF CursorInv, Critical, Away, Live
<1> QED
  BY <1>1, <1>2, <1>3, CursorStep DEF Next

\* Whatever threads read elsewhere, stream, hash or close, and whichever of their
\* reads raise: when nobody is inside the lock of an open source, the cursor is
\* where the last read or seek left it.
THEOREM CursorStays == Spec => []CursorKept
<1>1. Init => TypeInv /\ CursorInv
  BY TypeInit, CursorInit
<1>2. TypeInv /\ CursorInv /\ [Next]_vars => (TypeInv /\ CursorInv)'
  BY TypeNext, CursorNext
<1>3. TypeInv /\ CursorInv => CursorKept
  BY ObjectAssumption DEF CursorInv, CursorKept, Critical, Away
<1> QED
  BY <1>1, <1>2, <1>3, PTL DEF Spec
-----------------------------------------------------------------------------
(* What positioned reads and streams return.                               *)

\* An object nobody has touched from outside holds what its path names, and
\* has recorded its size.
SourceInv ==
    edits = 0 => /\ Live \/ Opened => source = named
                 /\ Opened => size = Len(source)

ReadOk(t) ==
    op[t].name = "read_at" =>
        /\ pc[t] \in Reading => got[t] = <<>>
        /\ Undisturbed /\ pc[t] = "returned" =>
               \E n \in 0 .. op[t].length :
                   /\ got[t] = ReadAt(source, op[t].offset, n)
                   /\ op[t].offset < Len(source) => n > 0

\* A stream has yielded what lies between its start and its offset.
StreamOk(t) ==
    op[t].name = "stream" =>
        /\ at[t] = op[t].start + Len(got[t])
        /\ got[t] = <<>> \/ at[t] <= size
        /\ Undisturbed => got[t] = ReadAt(source, op[t].start, Len(got[t]))
        /\ Undisturbed /\ pc[t] = "returned" => at[t] >= size

BlockOk(t) ==
    pc[t] = "read" /\ Undisturbed => block[t] \in Reads(source, Offset(t), Length(t))

ThreadOk(t) == ReadOk(t) /\ StreamOk(t) /\ BlockOk(t)

\* Two reads that adjoin make one.
LEMMA ReadsAdjoin ==
    ASSUME NEW s \in Seq(Nat), NEW a \in Nat, NEW n \in Nat, NEW k \in Nat,
           a + n <= Len(s)
    PROVE  ReadAt(s, a, n) \o ReadAt(s, a + n, k) = ReadAt(s, a, n + Len(ReadAt(s, a + n, k)))
<1> DEFINE e == Least(a + n + k, Len(s))
           x == ReadAt(s, a + n, k)
<1>1. e \in a + n .. Len(s) /\ e \in Nat
  BY DEF Least
<1>2. x = SubSeq(s, a + n + 1, e) /\ Len(x) = e - (a + n)
  BY <1>1 DEF ReadAt
<1>3. ReadAt(s, a, n) = SubSeq(s, a + 1, a + n)
  BY DEF ReadAt, Least
<1>4. ReadAt(s, a, n + Len(x)) = SubSeq(s, a + 1, e)
  <2>1. \A l \in Nat : l = e - (a + n) => a + (n + l) = e
    BY <1>1
  <2>2. Len(x) \in Nat /\ Len(x) = e - (a + n)
    BY <1>1, <1>2
  <2>3. a + (n + Len(x)) = e
    BY <2>1, <2>2
  <2> QED
    BY <1>1, <2>3 DEF ReadAt, Least
<1>5. SubSeq(s, a + 1, a + n) \o SubSeq(s, a + n + 1, e) = SubSeq(s, a + 1, e)
  <2>1. ASSUME NEW m \in 1 .. Len(s) + 1, NEW j \in m - 1 .. Len(s), NEW l \in j .. Len(s)
        PROVE  SubSeq(s, m, j) \o SubSeq(s, j + 1, l) = SubSeq(s, m, l)
    BY ConcatAdjacentSubSeq
  <2>2. /\ a + 1 \in 1 .. Len(s) + 1 /\ a + n \in (a + 1) - 1 .. Len(s)
        /\ e \in a + n .. Len(s)
    BY <1>1
  <2> QED
    BY <2>1, <2>2
<1> QED
  BY <1>2, <1>3, <1>4, <1>5

\* Nothing but the constructor makes an object undisturbed again.
LEMMA DisturbedStays ==
    ASSUME TypeInv, [Next]_vars, Opened, Undisturbed'
    PROVE  Undisturbed /\ UNCHANGED <<source, named, size, backend>>
<1> USE DEF Undisturbed, Live, Opened
<1>1. CASE Open \/ Stat
  BY <1>1 DEF Open, Stat
<1>2. CASE Edit
  BY <1>2, ObjectAssumption DEF Edit, TypeInv, TypeOK
<1>3. CASE ReuseNumber \/ UNCHANGED vars
  BY <1>3 DEF ReuseNumber, vars, objectVars
<1>4. ASSUME NEW t \in Threads, NEW c \in Calls, Call(t, c)
      PROVE  Undisturbed /\ UNCHANGED <<source, named, size, backend>>
  BY <1>4 DEF Call, objectVars
<1>5. ASSUME NEW t \in Threads, Step(t)
      PROVE  Undisturbed /\ UNCHANGED <<source, named, size, backend>>
  BY <1>5 DEF Step, Acquire, ReadHere, SeekTo, ErrorHere, Direct, RaiseDirect, MoveAway,
              ReadThere, ErrorThere, MoveBack, RaiseLocked, NextBlock, CloseSource,
              MarkClosed, objectVars
<1> QED
  BY <1>1, <1>2, <1>3, <1>4, <1>5 DEF Next

LEMMA SourceNext ==
    ASSUME TypeInv, SourceInv, [Next]_vars
    PROVE  SourceInv'
<1>1. CASE Open
  BY <1>1 DEF Open, SourceInv, Live, Opened, TypeInv, TypeOK
<1>2. CASE Stat
  BY <1>2 DEF Stat, SourceInv, Live, Opened
<1>3. CASE Edit
  BY <1>3, ObjectAssumption DEF Edit, SourceInv, TypeInv, TypeOK
<1>4. CASE UNCHANGED vars \/ ReuseNumber
  BY <1>4 DEF ReuseNumber, vars, objectVars, SourceInv, Live, Opened
<1>5. ASSUME NEW t \in Threads, NEW c \in Calls, Call(t, c)
      PROVE  SourceInv'
  BY <1>5 DEF Call, objectVars, SourceInv, Live, Opened
<1>6. ASSUME NEW t \in Threads, Step(t)
      PROVE  SourceInv'
  <2>1. UNCHANGED <<source, named, size, edits>> /\ (Live' => Live)
    BY <1>6 DEF Step, Acquire, ReadHere, SeekTo, ErrorHere, Direct, RaiseDirect, MoveAway,
                ReadThere, ErrorThere, MoveBack, RaiseLocked, NextBlock, CloseSource,
                MarkClosed, objectVars, Live
  <2> QED
    BY <2>1 DEF SourceInv, Opened
<1> QED
  BY <1>1, <1>2, <1>3, <1>4, <1>5, <1>6 DEF Next

\* A thread that does not move keeps its promise.
LEMMA ThreadRests ==
    ASSUME TypeInv, NEW u \in Threads, ThreadOk(u),
           Undisturbed' => Undisturbed /\ UNCHANGED <<source, named, size, backend>>,
           size' = size,
           pc'[u] = pc[u], op'[u] = op[u], at'[u] = at[u], got'[u] = got[u], block'[u] = block[u]
    PROVE  ThreadOk(u)'
<1>1. ReadOk(u)'
  BY DEF ThreadOk, ReadOk
<1>2. StreamOk(u)'
  BY DEF ThreadOk, StreamOk
<1>3. BlockOk(u)'
  <2>1. Undisturbed' => /\ Offset(u)' = Offset(u) /\ Length(u)' = Length(u)
                        /\ Reads(source, Offset(u), Length(u))'
                             = Reads(source, Offset(u), Length(u))
    BY DEF Offset, Length, Reads
  <2> QED
    BY <2>1 DEF ThreadOk, BlockOk
<1> QED
  BY <1>1, <1>2, <1>3 DEF ThreadOk

\* What read_at returns is right for its caller, and for a stream it serves.
LEMMA FinishOk ==
    ASSUME TypeInv, SourceInv, NEW t \in Threads, ThreadOk(t), IsReadAt(t), pc[t] \in Reading,
           NEW x \in Seq(Nat), FinishReadAt(t, x), Len(x) <= Length(t) \/ x = <<>>,
           size' = size, op' = op,
           Undisturbed' => Undisturbed /\ UNCHANGED <<source, named, size, backend>>,
           Undisturbed => \/ x \in Reads(source, Offset(t), Length(t))
                          \/ x = <<>> /\ Offset(t) >= size
    PROVE  ThreadOk(t)'
<1>1. /\ pc' = [pc EXCEPT ![t] = IF op[t].name = "stream" /\ x # <<>> THEN "between" ELSE "returned"]
      /\ got'[t] = got[t] \o x /\ at'[t] = at[t] + Len(x)
  BY FinishTypes DEF FinishReadAt, TypeInv, TypeOK
<1>2. pc'[t] = IF op[t].name = "stream" /\ x # <<>> THEN "between" ELSE "returned"
  BY <1>1 DEF TypeInv, TypeOK
<1>3. /\ source \in Seq(Nat) /\ got[t] \in Seq(Nat) /\ at[t] \in Nat /\ pc[t] # "idle"
      /\ Len(got[t]) \in Nat /\ Len(x) \in Nat
  <2>1. got[t] \in Seq(Nat) /\ at[t] \in Nat /\ pc[t] # "idle"
    BY DEF TypeInv, TypeOK, Reading, Critical, Away
  <2> QED
    BY <2>1, SourceType DEF TypeInv
<1>4. size \in Nat /\ Opened
  BY <1>3 DEF TypeInv, TypeOK, Untouched, Opened
<1>5. Undisturbed => size = Len(source)
  BY <1>4 DEF Undisturbed, SourceInv
<1>6. Offset(t) \in Nat /\ Length(t) \in Nat \ {0}
  BY <1>3, ArgumentTypes DEF TypeInv, Placed
<1>7. ASSUME Undisturbed
      PROVE  \E k \in 0 .. Length(t) :
                 x = ReadAt(source, Offset(t), k) /\ (Offset(t) < Len(source) => k > 0)
  <2>1. CASE x \in Reads(source, Offset(t), Length(t))
    BY <1>3, <1>6, <2>1, ReadsFacts
  <2>2. CASE x = <<>> /\ Offset(t) >= size
    <3>1. ReadAt(source, Offset(t), 0) = <<>>
      BY <1>3, <1>6 DEF ReadAt, Least
    <3> QED
      BY <1>5, <1>7, <1>6, <2>2, <3>1
  <2> QED
    BY <1>7, <2>1, <2>2
<1>8. CASE op[t].name = "read_at"
  <2>1. got'[t] = x
    BY <1>1, <1>8 DEF ThreadOk, ReadOk
  <2>2. Offset(t) = op[t].offset /\ Length(t) = op[t].length
    BY <1>8 DEF Offset, Length
  <2>3. ReadOk(t)'
    BY <1>2, <1>7, <2>1, <2>2 DEF ReadOk, Reading, Critical, Away
  <2> QED
    BY <1>2, <1>8, <2>3 DEF ThreadOk, StreamOk, BlockOk
<1>9. CASE op[t].name = "stream"
  <2>1. op[t].start \in Nat /\ op[t].block \in Nat
    BY <1>9, OpTypes DEF TypeInv
  <2>2. at[t] = op[t].start + Len(got[t]) /\ at[t] < size /\ Offset(t) = at[t]
    BY <1>9 DEF ThreadOk, StreamOk, TypeInv, Placed, Offset
  <2>3. Len(got'[t]) = Len(got[t]) + Len(x)
    BY <1>1, <1>3
  <2>4. at'[t] = op[t].start + Len(got'[t])
    BY <1>1, <1>3, <2>1, <2>2, <2>3
  <2>5. got'[t] = <<>> \/ at'[t] <= size
    <3>1. Length(t) <= size - at[t]
      BY <1>3, <1>4, <1>9, <2>1 DEF Length, Least
    <3>2. Len(x) <= size - at[t]
      BY <1>3, <1>4, <1>6, <2>2, <3>1
    <3> QED
      BY <1>1, <1>3, <1>4, <3>2
  <2>6. ASSUME Undisturbed'
        PROVE  got'[t] = ReadAt(source, op[t].start, Len(got'[t]))
    <3>1. got[t] = ReadAt(source, op[t].start, Len(got[t]))
      BY <1>9, <2>6 DEF ThreadOk, StreamOk
    <3>2. PICK k \in Nat : x = ReadAt(source, op[t].start + Len(got[t]), k)
      BY <1>7, <2>2, <2>6
    <3>3. op[t].start + Len(got[t]) <= Len(source)
      BY <1>3, <1>4, <1>5, <2>1, <2>2, <2>6
    <3>4. ReadAt(source, op[t].start, Len(got[t])) \o x
            = ReadAt(source, op[t].start, Len(got[t]) + Len(x))
      <4>1. ASSUME NEW s \in Seq(Nat), NEW a \in Nat, NEW n \in Nat, a + n <= Len(s)
            PROVE  ReadAt(s, a, n) \o ReadAt(s, a + n, k)
                     = ReadAt(s, a, n + Len(ReadAt(s, a + n, k)))
        BY <4>1, ReadsAdjoin
      <4>2. ASSUME NEW n \in Nat, op[t].start + n <= Len(source)
            PROVE  ReadAt(source, op[t].start, n) \o ReadAt(source, op[t].start + n, k)
                     = ReadAt(source, op[t].start, n + Len(ReadAt(source, op[t].start + n, k)))
        <5>1. source \in Seq(Nat) /\ op[t].start \in Nat
          BY <1>3, <2>1
        <5> QED
          BY <4>1, <4>2, <5>1, ZenonT(60)
      <4>3. ReadAt(source, op[t].start, Len(got[t])) \o ReadAt(source, op[t].start + Len(got[t]), k)
              = ReadAt(source, op[t].start,
                       Len(got[t]) + Len(ReadAt(source, op[t].start + Len(got[t]), k)))
        BY <1>3, <3>3, <4>2, Zenon
      <4> QED
        BY <3>2, <4>3, Zenon
    <3> QED
      BY <1>1, <2>3, <3>1, <3>4
  <2>7. ASSUME Undisturbed', pc'[t] = "returned"
        PROVE  FALSE
    <3>1. x = <<>>
      BY <1>2, <1>9, <2>7
    <3>2. PICK k \in Nat : x = ReadAt(source, at[t], k) /\ k > 0
      BY <1>5, <1>7, <2>2, <2>7
    <3>3. Len(ReadAt(source, at[t], k)) > 0
      BY <1>3, <1>5, <2>2, <2>7, <3>2, SMTT(60) DEF ReadAt, Least
    <3> QED
      BY <3>1, <3>2, <3>3
  <2>8. StreamOk(t)'
    BY <2>4, <2>5, <2>6, <2>7 DEF StreamOk
  <2> QED
    BY <1>2, <1>9, <2>8 DEF ThreadOk, ReadOk, BlockOk
<1> QED
  BY <1>8, <1>9 DEF IsReadAt

ThreadsOk == \A t \in Threads : ThreadOk(t)

ObjectInv == TypeInv /\ CursorInv /\ SourceInv /\ ThreadsOk

LEMMA ObjectInit == Init => ObjectInv
<1> SUFFICES ASSUME Init
             PROVE  SourceInv /\ ThreadsOk
  BY TypeInit, CursorInit DEF ObjectInv
<1>1. SourceInv
  BY DEF Init, SourceInv, Live, Opened
<1>2. ThreadsOk
  BY DEF Init, ThreadsOk, ThreadOk, ReadOk, StreamOk, BlockOk
<1> QED
  BY <1>1, <1>2

LEMMA ThreadsOutside ==
    ASSUME ObjectInv, Open \/ Stat \/ ReuseNumber \/ Edit \/ UNCHANGED vars
    PROVE  ThreadsOk'
<1>1. UNCHANGED <<pc, op, at, got, block>>
  BY DEF Open, Stat, ReuseNumber, Edit, vars, callVars
<1>2. CASE ~Opened
  <2>1. \A t \in Threads : pc[t] = "idle" /\ op[t].name = "none"
    BY <1>2 DEF ObjectInv, TypeInv, Untouched, Opened
  <2> QED
    BY <1>1, <2>1 DEF ThreadsOk, ThreadOk, ReadOk, StreamOk, BlockOk
<1>3. CASE Opened
  <2>1. [Next]_vars
    BY DEF Next
  <2>2. size' = size
    BY <1>3 DEF Open, Stat, ReuseNumber, Edit, vars, objectVars, Opened
  <2>3. Undisturbed' => Undisturbed /\ UNCHANGED <<source, named, size, backend>>
    BY <1>3, <2>1, DisturbedStays DEF ObjectInv
  <2> QED
    BY <1>1, <2>2, <2>3, ThreadRests DEF ObjectInv, ThreadsOk
<1> QED
  BY <1>2, <1>3

LEMMA ThreadsCall ==
    ASSUME ObjectInv, NEW t \in Threads, NEW c \in Calls, Call(t, c)
    PROVE  ThreadsOk'
<1> USE DEF ObjectInv, TypeInv, TypeOK
<1>1. Opened /\ [Next]_vars
  BY DEF Call, Next
<1>2. Undisturbed' => Undisturbed /\ UNCHANGED <<source, named, size, backend>>
  BY <1>1, DisturbedStays
<1>3. ASSUME NEW u \in Threads \ {t}
      PROVE  ThreadOk(u)'
  <2>1. /\ pc'[u] = pc[u] /\ op'[u] = op[u] /\ at'[u] = at[u] /\ got'[u] = got[u]
        /\ block'[u] = block[u] /\ size' = size
    BY DEF Call, GoTo, objectVars
  <2> QED
    BY <1>2, <2>1, ThreadRests DEF ThreadsOk
<1>4. ThreadOk(t)'
  <2>1. /\ op'[t] = c /\ got'[t] = <<>> /\ pc'[t] # "read"
        /\ c.name = "stream" => at'[t] = c.start /\ pc'[t] # "returned"
        /\ c.name = "read_at" => pc'[t] # "returned"
    BY DEF Call, GoTo
  <2>2. c.name = "stream" => c.start \in Nat
    <3>1. c.name = "stream" => c.start \in Offsets
      BY DEF Calls
    <3> QED
      BY <3>1, ObjectAssumption
  <2>3. ASSUME NEW s \in Seq(Nat), NEW a \in Nat
        PROVE  ReadAt(s, a, 0) = <<>>
    BY DEF ReadAt, Least
  <2>4. source' \in Seq(Nat)
    BY SourceType DEF Call, objectVars
  <2>5. Len(<<>>) = 0
    OBVIOUS
  <2>6. c.name = "stream" => got'[t] = ReadAt(source', c.start, Len(got'[t]))
    BY <2>1, <2>2, <2>3, <2>4, <2>5
  <2> QED
    BY <2>1, <2>2, <2>5, <2>6 DEF ThreadOk, ReadOk, StreamOk, BlockOk
<1> QED
  BY <1>3, <1>4 DEF ThreadsOk

LEMMA ThreadsStep ==
    ASSUME ObjectInv, NEW t \in Threads, Step(t)
    PROVE  ThreadsOk'
<1> USE DEF ObjectInv, TypeInv, TypeOK
<1>1. pc[t] # "idle"
  BY DEF Step, Acquire, ReadHere, SeekTo, ErrorHere, Direct, RaiseDirect, MoveAway,
         ReadThere, ErrorThere, MoveBack, RaiseLocked, NextBlock, CloseSource, MarkClosed
<1>2. Opened /\ [Next]_vars /\ op' = op /\ size' = size
  <2>1. op' = op /\ size' = size
    BY DEF Step, Acquire, ReadHere, SeekTo, ErrorHere, Direct, RaiseDirect, MoveAway,
           ReadThere, ErrorThere, MoveBack, RaiseLocked, NextBlock, CloseSource,
           MarkClosed, objectVars
  <2> QED
    BY <1>1, <2>1 DEF Untouched, Opened, Next
<1>3. Undisturbed' => Undisturbed /\ UNCHANGED <<source, named, size, backend>>
  BY <1>2, DisturbedStays
<1>4. ASSUME NEW u \in Threads \ {t}
      PROVE  ThreadOk(u)'
  <2>1. pc'[u] = pc[u] /\ at'[u] = at[u] /\ got'[u] = got[u] /\ block'[u] = block[u]
    BY DEF Step, Acquire, ReadHere, SeekTo, ErrorHere, Direct, RaiseDirect, MoveAway,
           ReadThere, ErrorThere, MoveBack, RaiseLocked, NextBlock, CloseSource,
           MarkClosed, GoTo, FinishReadAt
  <2> QED
    BY <1>2, <1>3, <2>1, ThreadRests DEF ThreadsOk
<1>5. ThreadOk(t)
  BY DEF ThreadsOk
<1>6. ASSUME Acquire(t) \/ MoveAway(t) \/ ErrorThere(t)
      PROVE  ThreadOk(t)'
  <2>1. /\ pc[t] \in Reading /\ pc'[t] \in {"locked", "moved", "failing"}
        /\ UNCHANGED <<got, at>>
    BY <1>6 DEF Acquire, MoveAway, ErrorThere, GoTo, Reading, Critical, Away
  <2> QED
    BY <1>2, <1>3, <1>5, <2>1 DEF ThreadOk, ReadOk, StreamOk, BlockOk
<1>7. ASSUME ReadHere(t) \/ SeekTo(t)
      PROVE  ThreadOk(t)'
  <2>1. op[t].name \in {"read", "seek"} /\ pc'[t] = "returned"
    BY <1>7 DEF ReadHere, SeekTo, GoTo
  <2> QED
    BY <1>2, <2>1 DEF ThreadOk, ReadOk, StreamOk, BlockOk
<1>8. ASSUME RaiseDirect(t) \/ RaiseLocked(t) \/ ErrorHere(t)
                 \/ (MoveBack(t) /\ pc[t] = "failing")
      PROVE  ThreadOk(t)'
  <2>1. pc'[t] = "raised" /\ UNCHANGED <<got, at>>
    BY <1>8 DEF RaiseDirect, RaiseLocked, ErrorHere, MoveBack, GoTo
  <2> QED
    BY <1>2, <1>3, <1>5, <2>1 DEF ThreadOk, ReadOk, StreamOk, BlockOk, Reading, Critical, Away
<1>9. ASSUME CloseSource(t) \/ MarkClosed(t)
      PROVE  ThreadOk(t)'
  <2>1. op[t].name = "close" /\ pc'[t] # "read"
    BY <1>9 DEF CloseSource, MarkClosed, GoTo, Placed
  <2> QED
    BY <1>2, <2>1 DEF ThreadOk, ReadOk, StreamOk, BlockOk
<1>10. ASSUME NextBlock(t)
      PROVE  ThreadOk(t)'
  <2>1. /\ op[t].name = "stream" /\ pc'[t] \in {"raised", "returned", "checked"}
        /\ pc'[t] = "returned" => at[t] >= size
        /\ UNCHANGED <<got, at>>
    BY <1>10 DEF NextBlock, GoTo, Placed
  <2> QED
    BY <1>2, <1>3, <1>5, <2>1 DEF ThreadOk, ReadOk, StreamOk, BlockOk
<1>11. ASSUME Direct(t)
      PROVE  ThreadOk(t)'
  <2>1. IsReadAt(t) /\ pc[t] \in Reading
    BY <1>11 DEF Direct, Reading
  <2>2. PICK x \in Seq(Nat) :
             /\ FinishReadAt(t, x) /\ (Len(x) <= Length(t) \/ x = <<>>)
             /\ Undisturbed => \/ x \in Reads(source, Offset(t), Length(t))
                               \/ x = <<>> /\ Offset(t) >= size
    <3>1. CASE Offset(t) >= size
      <4>1. <<>> \in Seq(Nat)
        OBVIOUS
      <4> QED
        BY <1>11, <3>1, <4>1 DEF Direct
    <3>2. CASE ~(Offset(t) >= size)
      <4>1. (IF Live THEN source ELSE Foreign) \in Seq(Nat)
        BY SourceType, ObjectAssumption
      <4>2. PICK x \in Reads(IF Live THEN source ELSE Foreign, Offset(t), Length(t)) :
                 FinishReadAt(t, x)
        BY <1>11, <3>2 DEF Direct
      <4>3. x \in Seq(Nat) /\ Len(x) <= Length(t)
        BY <2>1, <4>1, PositionedTypes
      <4>4. Undisturbed => x \in Reads(source, Offset(t), Length(t))
        BY DEF Undisturbed
      <4> QED
        BY <4>2, <4>3, <4>4
    <3> QED
      BY <3>1, <3>2
  <2> QED
    BY <1>2, <1>3, <1>5, <2>1, <2>2, FinishOk
<1>12. ASSUME ReadThere(t)
      PROVE  ThreadOk(t)'
  <2>1. PICK x \in Reads(source, cursor, Length(t)) : block' = [block EXCEPT ![t] = x]
    BY <1>12 DEF ReadThere
  <2>2. cursor = Offset(t)
    BY <1>12 DEF ReadThere, CursorInv
  <2>3. block'[t] \in Reads(source, Offset(t), Length(t))
    BY <2>1, <2>2
  <2>4. pc[t] \in Reading /\ pc'[t] = "read" /\ UNCHANGED <<got, at>>
    BY <1>12 DEF ReadThere, GoTo, Reading, Critical, Away
  <2>5. ReadOk(t)' /\ StreamOk(t)'
    BY <1>2, <1>3, <1>5, <2>4 DEF ThreadOk, ReadOk, StreamOk
  <2>6. Undisturbed' => Reads(source, Offset(t), Length(t))' = Reads(source, Offset(t), Length(t))
    BY <1>2, <1>3, <2>4 DEF Offset, Length, Reads
  <2>7. BlockOk(t)'
    BY <2>3, <2>6 DEF BlockOk
  <2> QED
    BY <2>5, <2>7 DEF ThreadOk
<1>13. ASSUME MoveBack(t), pc[t] = "read"
      PROVE  ThreadOk(t)'
  <2>1. /\ IsReadAt(t) /\ pc[t] \in Reading /\ FinishReadAt(t, block[t])
        /\ block[t] \in Seq(Nat) /\ Len(block[t]) <= Length(t)
    BY <1>13 DEF MoveBack, Placed, Reading, Critical, Away
  <2>2. Undisturbed => block[t] \in Reads(source, Offset(t), Length(t))
    BY <1>5, <1>13 DEF MoveBack, ThreadOk, BlockOk
  <2> QED
    BY <1>2, <1>3, <1>5, <2>1, <2>2, FinishOk
<1>14. ThreadOk(t)'
  BY <1>6, <1>7, <1>8, <1>9, <1>10, <1>11, <1>12, <1>13 DEF Step, MoveBack
<1> QED
  BY <1>4, <1>14 DEF ThreadsOk

LEMMA ObjectNext == ObjectInv /\ [Next]_vars => ObjectInv'
<1> SUFFICES ASSUME ObjectInv, [Next]_vars
             PROVE  ThreadsOk'
  BY TypeNext, CursorNext, SourceNext DEF ObjectInv
<1> QED
  BY ThreadsOutside, ThreadsCall, ThreadsStep DEF Next

\* While nobody changes the source, what a positioned read returns is what the
\* source holds at its offset, whatever other threads do meanwhile.
THEOREM ReadsAreExact == Spec => []ReadsOwnBytes
<1>1. ObjectInv => ReadsOwnBytes
  BY DEF ObjectInv, ThreadsOk, ThreadOk, ReadOk, ReadsOwnBytes
<1> QED
  BY <1>1, ObjectInit, ObjectNext, PTL DEF Spec

\* A stream that ends by itself has yielded the rest of the source, and none
\* yields more than the size the object recorded.
THEOREM StreamsAreWhole == Spec => []StreamWhole
<1>1. ASSUME ObjectInv
      PROVE  StreamWhole
  <2> SUFFICES ASSUME NEW t \in Threads, pc[t] = "returned", op[t].name = "stream"
               PROVE  /\ Undisturbed => got[t] = ReadAt(source, op[t].start, size)
                      /\ op[t].start + Len(got[t]) <= size \/ got[t] = <<>>
    BY DEF StreamWhole
  <2>1. StreamOk(t)
    BY <1>1 DEF ObjectInv, ThreadsOk, ThreadOk
  <2>2. /\ op[t].start \in Nat /\ got[t] \in Seq(Nat) /\ source \in Seq(Nat)
        /\ size \in Nat /\ Opened
    BY <1>1, OpTypes, SourceType DEF ObjectInv, TypeInv, TypeOK, Untouched, Opened
  <2>3. ASSUME Undisturbed
        PROVE  got[t] = ReadAt(source, op[t].start, size)
    <3>1. size = Len(source) /\ op[t].start + Len(got[t]) >= size
      BY <1>1, <2>1, <2>2, <2>3 DEF ObjectInv, SourceInv, Undisturbed, StreamOk
    <3>2. ASSUME NEW s \in Seq(Nat), NEW a \in Nat, NEW n \in Nat, a + n >= Len(s)
          PROVE  ReadAt(s, a, n) = ReadAt(s, a, Len(s))
      <4>1. Least(a + n, Len(s)) = Len(s) /\ Least(a + Len(s), Len(s)) = Len(s)
        BY <3>2 DEF Least
      <4> QED
        BY <4>1 DEF ReadAt
    <3>3. ReadAt(source, op[t].start, Len(got[t])) = ReadAt(source, op[t].start, size)
      BY <2>2, <3>1, <3>2
    <3> QED
      BY <2>1, <2>3, <3>3 DEF StreamOk
  <2> QED
    BY <2>1, <2>3 DEF StreamOk
<1>2. ObjectInv => StreamWhole
  BY <1>1
<1> QED
  BY <1>2, ObjectInit, ObjectNext, PTL DEF Spec
=============================================================================
