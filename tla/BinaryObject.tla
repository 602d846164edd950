---------------------------- MODULE BinaryObject ----------------------------
(***************************************************************************)
(* One UBIN object (core.py) shared by several threads: a file, a buffer   *)
(* or a stream of the caller.  read and seek use one cursor under          *)
(* _cursor_lock; read_at uses pread on the descriptor number where there   *)
(* is one, and otherwise moves the cursor and moves it back; stream and    *)
(* hash are made of read_at; close takes no lock.                          *)
(*                                                                         *)
(* A descriptor number is free for the next file that is opened once the   *)
(* object is closed.  A read may return less than it was asked for, and    *)
(* any operation on a file or stream may raise while it is open; what is   *)
(* taken for granted is that going back to a position tell gave succeeds.  *)
(***************************************************************************)
EXTENDS ResumeFormat

CONSTANTS
    Threads,
    Backends,    \* a subset of {"pread", "file", "memory", "stream"}
    Contents,    \* what the source may hold
    Foreign,     \* content of a file another part of the program opens
    Offsets,     \* offsets and lengths the threads ask for
    Lengths,
    MaxCalls,    \* bound: calls
    MaxEdits,    \* bound: changes of the source by others
    None

VARIABLES
    backend,  \* which of the classes the object is an instance of
    source,   \* content of the file, buffer or stream
    named,    \* content of the file that its path names
    number,   \* what the descriptor number stands for: "own", "other", "free"
    size,     \* _size
    closed,   \* _closed
    cursor,   \* position of the descriptor, _cursor, position of the stream
    expected, \* history: where the last read or seek left the cursor
    lock,     \* holder of _cursor_lock
    pc,       \* pc[t]: where the call of t stands
    op,       \* op[t]: the call
    saved,    \* saved[t]: the local current of read_at
    block,    \* block[t]: what read_at has read and will return
    at,       \* at[t]: the offset of stream
    got,      \* got[t]: what the call has returned or yielded
    calls, edits

objectVars == <<backend, source, named, number, size, closed>>
cursorVars == <<cursor, expected, lock>>
callVars   == <<pc, op, saved, block, at, got>>
vars       == <<objectVars, cursorVars, callVars, calls, edits>>

ASSUME ObjectAssumption ==
    /\ None \notin Threads
    /\ Backends \subseteq {"pread", "file", "memory", "stream"}
    /\ Contents \subseteq Seq(Nat) /\ Foreign \in Seq(Nat)
    /\ Offsets \subseteq Nat /\ Lengths \subseteq Nat \ {0}
    /\ MaxCalls \in Nat /\ MaxEdits \in Nat

\* What a read of n bytes at offset o may return: not less than one byte
\* before the end, and a buffer never less than there is.
Reads(x, o, n) ==
    IF backend = "memory" THEN {ReadAt(x, o, n)}
    ELSE {ReadAt(x, o, k) : k \in (IF o < Len(x) THEN 1 .. n ELSE {n})}

\* How many bytes a read of n bytes at offset o may have passed when it raises:
\* the device fails, or a stream gave something else than bytes.
Passed(o, n) == {Len(ReadAt(source, o, k)) : k \in 0 .. n}

IsFile == backend \in {"pread", "file"}

\* Do the methods of the file, the view or the stream still work?
Live == number = "own"

Calls ==
    [name : {"read"}, length : Lengths] \cup [name : {"seek"}, offset : Offsets]
        \cup [name : {"read_at"}, offset : Offsets, length : Lengths]
        \cup [name : {"stream"}, block : Lengths, start : Offsets]
        \cup {[name |-> "close"]}

GoTo(t, label) == pc' = [pc EXCEPT ![t] = label]

Resting == {"idle", "returned", "raised"}

Release == lock' = None
-----------------------------------------------------------------------------
(* The constructor.                                                        *)

\* path.open, or the buffer.
Open ==
    /\ number = "free" /\ size = None /\ ~closed
    /\ number' = "own"
    /\ source' = named
    /\ size' = IF IsFile THEN None ELSE Len(named)
    /\ UNCHANGED <<backend, named, closed, cursorVars, callVars, calls, edits>>

\* path.stat looks the name up once more.
Stat ==
    /\ number = "own" /\ size = None
    /\ size' = Len(named)
    /\ UNCHANGED <<backend, source, named, number, closed, cursorVars, callVars, calls, edits>>

Opened == size # None
-----------------------------------------------------------------------------
(* The methods.                                                            *)

\* _ensure_open.
Call(t, c) ==
    /\ Opened /\ pc[t] \in Resting /\ calls < MaxCalls
    /\ op' = [op EXCEPT ![t] = c]
    /\ got' = [got EXCEPT ![t] = <<>>]
    /\ at' = [at EXCEPT ![t] = IF c.name = "stream" THEN c.start ELSE 0]
    /\ GoTo(t, CASE c.name = "close"  -> IF closed THEN "returned" ELSE "closing"
                 [] c.name = "stream" -> IF closed THEN "raised" ELSE "between"
                 [] OTHER             -> IF closed THEN "raised" ELSE "checked")
    /\ calls' = calls + 1
    /\ UNCHANGED <<objectVars, cursorVars, saved, block, edits>>

\* What the read_at that t calls, or stream calls for it, asks for.
IsReadAt(t) == op[t].name \in {"read_at", "stream"}
Offset(t)   == IF op[t].name = "stream" THEN at[t] ELSE op[t].offset
Length(t)   == IF op[t].name = "stream" THEN Least(op[t].block, size - at[t]) ELSE op[t].length

\* Mutant: the offset advances by the length asked for.
AdvanceByLength(t, x) ==
    /\ GoTo(t, IF op[t].name = "stream" /\ x # <<>> THEN "between" ELSE "returned")
    /\ got' = [got EXCEPT ![t] = @ \o x]
    /\ at' = [at EXCEPT ![t] = @ + Length(t)]
\* read_at returns x, to its caller or to stream, which yields x, advances its
\* offset by what x holds, and ends when x is empty.
FinishReadAt(t, x) ==
    /\ GoTo(t, IF op[t].name = "stream" /\ x # <<>> THEN "between" ELSE "returned")
    /\ got' = [got EXCEPT ![t] = @ \o x]
    /\ at' = [at EXCEPT ![t] = @ + Len(x)]

\* Mutant: the lock is not waited for.
AcquireShared(t) ==
    /\ pc[t] = "checked"
    /\ IsReadAt(t) => backend \in {"file", "stream"} /\ Offset(t) < size
    /\ lock' = t
    /\ GoTo(t, "locked")
    /\ UNCHANGED <<objectVars, cursor, expected, op, saved, block, at, got, calls, edits>>
Acquire(t) ==
    /\ pc[t] = "checked" /\ lock = None
    /\ IsReadAt(t) => backend \in {"file", "stream"} /\ Offset(t) < size
    /\ lock' = t
    /\ GoTo(t, "locked")
    /\ UNCHANGED <<objectVars, cursor, expected, op, saved, block, at, got, calls, edits>>

\* read: from the cursor, which moves by what was returned.
ReadHere(t) ==
    /\ pc[t] = "locked" /\ op[t].name = "read" /\ Live
    /\ \E x \in Reads(source, cursor, op[t].length) :
           /\ got' = [got EXCEPT ![t] = x]
           /\ cursor' = cursor + Len(x)
    /\ expected' = cursor' /\ GoTo(t, "returned") /\ Release
    /\ UNCHANGED <<objectVars, op, saved, block, at, calls, edits>>

\* seek: anywhere in a file, but not past the end of a buffer.
SeekTo(t) ==
    /\ pc[t] = "locked" /\ op[t].name = "seek" /\ Live
    /\ cursor' = IF backend = "memory" THEN Least(op[t].offset, size) ELSE op[t].offset
    /\ expected' = cursor' /\ GoTo(t, "returned") /\ Release
    /\ UNCHANGED <<objectVars, op, saved, block, at, got, calls, edits>>

\* The read, seek or tell of an open file or stream raises; the with statement
\* releases the lock.
ErrorHere(t) ==
    /\ pc[t] = "locked" /\ Live /\ backend # "memory"
    /\ IF op[t].name = "read"
       THEN \E k \in Passed(cursor, op[t].length) : cursor' = cursor + k /\ expected' = cursor'
       ELSE UNCHANGED <<cursor, expected>>
    /\ GoTo(t, "raised") /\ Release
    /\ UNCHANGED <<objectVars, op, saved, block, at, got, calls, edits>>

\* read_at without the lock: nothing beyond the recorded size, a slice of the
\* buffer, or pread of whatever the descriptor number stands for by now.
Direct(t) ==
    /\ pc[t] = "checked" /\ IsReadAt(t)
    /\ backend \in {"pread", "memory"} \/ Offset(t) >= size
    /\ backend = "memory" => Live
    /\ IF Offset(t) >= size THEN FinishReadAt(t, <<>>)
       ELSE /\ number # "free"
            /\ \E x \in Reads(IF Live THEN source ELSE Foreign, Offset(t), Length(t)) :
                   FinishReadAt(t, x)
    /\ UNCHANGED <<objectVars, cursorVars, op, saved, block, calls, edits>>

\* The view was released, or pread fails: on a free number, or on a file that
\* cannot be read.
RaiseDirect(t) ==
    /\ pc[t] = "checked" /\ IsReadAt(t)
    /\ (backend = "memory" /\ ~Live) \/ (backend = "pread" /\ Offset(t) < size)
    /\ GoTo(t, "raised")
    /\ UNCHANGED <<objectVars, cursorVars, op, saved, block, at, got, calls, edits>>

\* read_at elsewhere: tell and seek, read, and seek back, under the lock.
MoveAway(t) ==
    /\ pc[t] = "locked" /\ IsReadAt(t) /\ Live
    /\ saved' = [saved EXCEPT ![t] = cursor]
    /\ cursor' = Offset(t)
    /\ GoTo(t, "moved")
    /\ UNCHANGED <<objectVars, expected, lock, op, block, at, got, calls, edits>>

ReadThere(t) ==
    /\ pc[t] = "moved" /\ Live
    /\ \E x \in Reads(source, cursor, Length(t)) :
           block' = [block EXCEPT ![t] = x] /\ cursor' = cursor + Len(x)
    /\ GoTo(t, "read")
    /\ UNCHANGED <<objectVars, expected, lock, op, saved, at, got, calls, edits>>

\* The read raises while the source is open.
ErrorThere(t) ==
    /\ pc[t] = "moved" /\ Live
    /\ \E k \in Passed(cursor, Length(t)) : cursor' = cursor + k
    /\ GoTo(t, "failing")
    /\ UNCHANGED <<objectVars, expected, lock, op, saved, block, at, got, calls, edits>>

\* Mutant: the cursor is moved back after a read that succeeded only.
MoveBackUnlessFailing(t) ==
    /\ pc[t] \in {"read", "failing"} /\ Live
    /\ cursor' = IF pc[t] = "read" THEN saved[t] ELSE cursor
    /\ \/ pc[t] = "read" /\ FinishReadAt(t, block[t])
       \/ pc[t] = "failing" /\ GoTo(t, "raised") /\ UNCHANGED <<got, at>>
    /\ Release
    /\ saved' = [saved EXCEPT ![t] = 0] /\ block' = [block EXCEPT ![t] = <<>>]
    /\ UNCHANGED <<objectVars, expected, op, calls, edits>>
\* The finally clause: whether it read or raised, the cursor goes back.
MoveBack(t) ==
    /\ pc[t] \in {"read", "failing"} /\ Live
    /\ cursor' = saved[t]
    /\ \/ pc[t] = "read" /\ FinishReadAt(t, block[t])
       \/ pc[t] = "failing" /\ GoTo(t, "raised") /\ UNCHANGED <<got, at>>
    /\ Release
    /\ saved' = [saved EXCEPT ![t] = 0] /\ block' = [block EXCEPT ![t] = <<>>]
    /\ UNCHANGED <<objectVars, expected, op, calls, edits>>

\* Mutant: the lock is not released when the call raises.
KeepLock(t) ==
    /\ pc[t] \in {"locked", "moved", "read", "failing"} /\ ~Live
    /\ GoTo(t, "raised")
    /\ UNCHANGED <<objectVars, cursorVars, op, saved, block, at, got, calls, edits>>
\* The file, or the view, was closed under the call: its methods raise, the
\* with statement releases the lock.
RaiseLocked(t) ==
    /\ pc[t] \in {"locked", "moved", "read", "failing"} /\ ~Live
    /\ GoTo(t, "raised") /\ Release
    /\ UNCHANGED <<objectVars, cursor, expected, op, saved, block, at, got, calls, edits>>

\* stream, bytes and hash: one read_at after the other, each of which checks
\* that the object is open, up to the recorded size.
NextBlock(t) ==
    /\ pc[t] = "between"
    /\ GoTo(t, IF backend = "memory" /\ ~Live THEN "raised"
               ELSE IF at[t] >= size THEN "returned"
               ELSE IF closed THEN "raised" ELSE "checked")
    /\ UNCHANGED <<objectVars, cursorVars, op, saved, block, at, got, calls, edits>>
-----------------------------------------------------------------------------
(* close, and what happens outside the object.                             *)

\* The file is closed and the view released; a stream stays with its owner.
CloseSource(t) ==
    /\ pc[t] = "closing"
    /\ number' = IF backend = "stream" \/ number # "own" THEN number ELSE "free"
    /\ GoTo(t, "marking")
    /\ UNCHANGED <<backend, source, named, size, closed, cursorVars, op, saved, block, at,
                   got, calls, edits>>

MarkClosed(t) ==
    /\ pc[t] = "marking"
    /\ closed' = TRUE
    /\ GoTo(t, "returned")
    /\ UNCHANGED <<backend, source, named, number, size, cursorVars, op, saved, block, at,
                   got, calls, edits>>

\* Another part of the program opens a file and is given the number.
ReuseNumber ==
    /\ IsFile /\ number = "free" /\ Opened
    /\ number' = "other"
    /\ UNCHANGED <<backend, source, named, size, closed, cursorVars, callVars, calls, edits>>

\* The source is replaced under its name, or changed in place.
Edit ==
    /\ edits < MaxEdits
    /\ \E x \in Contents \ {named} :
           /\ named' = x
           /\ \/ UNCHANGED source
              \/ IsFile /\ number = "own" /\ source = named /\ source' = x
    /\ edits' = edits + 1
    /\ IsFile
    /\ UNCHANGED <<backend, number, size, closed, cursorVars, callVars, calls>>
-----------------------------------------------------------------------------
Init ==
    /\ backend \in Backends
    /\ named \in Contents /\ source = <<>> /\ number = "free"
    /\ size = None /\ closed = FALSE
    /\ cursor = 0 /\ expected = 0 /\ lock = None
    /\ pc = [t \in Threads |-> "idle"]
    /\ op = [t \in Threads |-> [name |-> "none"]]
    /\ saved = [t \in Threads |-> 0]
    /\ block = [t \in Threads |-> <<>>]
    /\ at = [t \in Threads |-> 0]
    /\ got = [t \in Threads |-> <<>>]
    /\ calls = 0 /\ edits = 0

Step(t) ==
    \/ Acquire(t) \/ ReadHere(t) \/ SeekTo(t) \/ ErrorHere(t) \/ Direct(t) \/ RaiseDirect(t)
    \/ MoveAway(t) \/ ReadThere(t) \/ ErrorThere(t) \/ MoveBack(t) \/ RaiseLocked(t)
    \/ NextBlock(t) \/ CloseSource(t) \/ MarkClosed(t)

Next ==
    \/ Open \/ Stat \/ ReuseNumber \/ Edit
    \/ \E t \in Threads : (\E c \in Calls : Call(t, c)) \/ Step(t)

\* A thread that is inside a method goes on; nobody has to call one.
Spec == Init /\ [][Next]_vars /\ \A t \in Threads : WF_vars(Step(t))
-----------------------------------------------------------------------------
TypeOK ==
    /\ backend \in Backends /\ number \in {"own", "other", "free"}
    /\ source \in Contents \cup {<<>>} /\ named \in Contents
    /\ size \in Nat \cup {None} /\ closed \in BOOLEAN
    /\ cursor \in Nat /\ expected \in Nat /\ lock \in Threads \cup {None}
    /\ pc \in [Threads -> Resting \cup {"checked", "locked", "moved", "read",
                                        "failing", "between", "closing", "marking"}]
    /\ op \in [Threads -> Calls \cup {[name |-> "none"]}]
    /\ saved \in [Threads -> Nat] /\ at \in [Threads -> Nat]
    /\ block \in [Threads -> Seq(Nat)] /\ got \in [Threads -> Seq(Nat)]
    /\ calls \in 0 .. MaxCalls /\ edits \in 0 .. MaxEdits

Undisturbed == Live /\ edits = 0

\* SPEC.md: read semantics are byte-exact.  What read_at returns while the
\* object is open are the bytes at its offset, at least one where there is
\* one, whatever other threads read and wherever they move the cursor.
ReadsOwnBytes ==
    \A t \in Threads :
        Undisturbed /\ pc[t] = "returned" /\ op[t].name = "read_at" =>
            \E n \in 0 .. op[t].length :
                /\ got[t] = ReadAt(source, op[t].offset, n)
                /\ op[t].offset < Len(source) => n > 0

\* Positioned reads and streams do not disturb the sequential cursor, whether
\* they read or raise: while the source is open and nobody is inside the lock,
\* it is where the last read or seek left it.
CursorKept == lock = None /\ Live => cursor = expected

\* A stream that ends by itself has yielded every byte from its start to the
\* end once, however short the single reads were; and it never yields more
\* than the size recorded when the object was opened, even if the source grew.
StreamWhole ==
    \A t \in Threads :
        pc[t] = "returned" /\ op[t].name = "stream" =>
            /\ Undisturbed => got[t] = ReadAt(source, op[t].start, size)
            /\ op[t].start + Len(got[t]) <= size \/ got[t] = <<>>

\* Every call returns or raises, also when close comes in between: no error
\* leaves the cursor locked.
CallsEnd == \A t \in Threads : [](pc[t] \notin Resting => <>(pc[t] \in Resting))
=============================================================================
