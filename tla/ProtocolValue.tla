---------------------------- MODULE ProtocolValue ----------------------------
(***************************************************************************)
(* The canonical values and the envelope of UBIN Protocol 2 (protocol.py). *)
(*                                                                         *)
(* A value is a record of its tag, its raw tokens (the payload of a number,*)
(* the bytes of a string) and its parts: the items of a list by position,  *)
(* the values of a map by key.  One token of the wire stands for a tag     *)
(* byte, a u32, the eight bytes of a number or one byte of a string.       *)
(***************************************************************************)
EXTENDS Integers, Sequences, SequencesExt, FiniteSets

CONSTANTS
    MaxDepth,   \* MAX_DEPTH
    Unsuited    \* a payload no number and no string may have: an integer of
                \* more than 64 bits, an infinite float, a byte that is not UTF-8

ASSUME DepthAssumption == MaxDepth \in Nat

TagNull  == 0
TagFalse == 1
TagTrue  == 2
TagInt64   == 16
TagFloat64 == 17
TagBytes == 32
TagStr   == 33
TagList  == 48
TagMap   == 49

Scalar(tag)       == [tag |-> tag, raw |-> <<>>, parts |-> <<>>]
Number(tag, x)    == [tag |-> tag, raw |-> <<x>>, parts |-> <<>>]
Text(tag, raw)    == [tag |-> tag, raw |-> raw, parts |-> <<>>]
Group(tag, parts) == [tag |-> tag, raw |-> <<>>, parts |-> parts]

\* The values that are nested in v, by how deep they are.
Within(v) ==
    LET level[d \in 0 .. MaxDepth + 1] ==
            IF d = 0 THEN {v}
            ELSE UNION {{w.parts[x] : x \in DOMAIN w.parts} : w \in level[d - 1]}
    IN level

\* The order of bytes in memory.
Less(a, b) ==
    \E n \in 0 .. Len(a) :
        /\ n < Len(b) /\ \A i \in 1 .. n : a[i] = b[i]
        /\ n = Len(a) \/ a[n + 1] < b[n + 1]

\* Keys in ascending order, and the order in which the parts of v are written.
Sorted(keys) ==
    CHOOSE s \in [1 .. Cardinality(keys) -> keys] : \A i, j \in DOMAIN s : i < j => Less(s[i], s[j])
Places(v) == IF v.tag = TagMap THEN Sorted(DOMAIN v.parts) ELSE [i \in DOMAIN v.parts |-> i]
-----------------------------------------------------------------------------
(* encode_value: the bytes, and how many values they hold.                 *)

Refused       == [ok |-> FALSE, bytes |-> <<>>, items |-> 0]
Emit(seqn, n) == [ok |-> TRUE, bytes |-> seqn, items |-> n]
Joined(a, b)  == IF a.ok /\ b.ok THEN Emit(a.bytes \o b.bytes, a.items + b.items) ELSE Refused

TextForm(tag, raw) ==
    IF tag = TagStr /\ Contains(raw, Unsuited) THEN Refused ELSE Emit(<<tag, Len(raw)>> \o raw, 1)

\* A list or a map, with the forms of the parts: in a map each follows its key.
KeyForm(tag, place) == IF tag = TagMap THEN TextForm(TagStr, place) ELSE Emit(<<>>, 0)
GroupForm(v, forms) ==
    LET places == Places(v)
        body[i \in 0 .. Len(places)] ==
            IF i = 0 THEN Emit(<<v.tag, Len(places)>>, 1)
            ELSE Joined(body[i - 1], Joined(KeyForm(v.tag, places[i]), forms[v.parts[places[i]]]))
    IN body[Len(places)]

Form(v, forms) ==
    CASE v.tag \in {TagNull, TagFalse, TagTrue} -> Emit(<<v.tag>>, 1)
      [] v.tag \in {TagInt64, TagFloat64} ->
             IF v.raw[1] = Unsuited THEN Refused ELSE Emit(<<v.tag>> \o v.raw, 1)
      [] v.tag \in {TagBytes, TagStr} -> TextForm(v.tag, v.raw)
      [] v.tag \in {TagList, TagMap}  -> GroupForm(v, forms)

\* n levels may still be entered.
Encode(v) ==
    LET forms[n \in 0 .. MaxDepth + 1] ==
            IF n = 0 THEN [w \in Within(v)[MaxDepth + 1] |-> Refused]
            ELSE [w \in Within(v)[MaxDepth + 1 - n] |-> Form(w, forms[n - 1])]
    IN forms[MaxDepth + 1][v]
-----------------------------------------------------------------------------
(* _Reader: what has been read, where the next token is, and how many      *)
(* values were read so far.                                                *)

Wrong         == [ok |-> FALSE, value |-> Scalar(TagNull), next |-> 0, items |-> 0]
Read(v, n, k) == [ok |-> TRUE, value |-> v, next |-> n, items |-> k]

\* Mutant: keys that are equal pass for ordered.
MayFollowEqual(previous, key) == ~Less(key, previous)
\* The keys of a map ascend.
MayFollow(previous, key) == Less(previous, key)

\* The count of a list or a map fits what is left of the limit.
LeavesRoom(count, tag, left) == count <= IF tag = TagMap THEN left \div 2 ELSE left

Bind(f, x, y) == [z \in DOMAIN f \cup {x} |-> IF z = x THEN y ELSE f[z]]

\* What a list or a map has got so far, at token n after k values.
Start(n, k) == [ok |-> TRUE, parts |-> <<>>, next |-> n, items |-> k, previous |-> <<>>]
Stopped     == [Start(0, 0) EXCEPT !.ok = FALSE]

\* Where part i goes: a key that is read, greater than the one before, or i.
NextPlace(nested, tag, i, s) ==
    LET key == nested[<<s.next, s.items>>]
    IN IF tag = TagMap
       THEN [ok |-> /\ key.ok /\ key.value.tag = TagStr
                    /\ i = 1 \/ MayFollow(s.previous, key.value.raw),
             place |-> key.value.raw, next |-> key.next, items |-> key.items]
       ELSE [ok |-> TRUE, place |-> i, next |-> s.next, items |-> s.items]

NextPart(nested, tag, i, s) ==
    LET at   == NextPlace(nested, tag, i, s)
        part == nested[<<at.next, at.items>>]
    IN IF s.ok /\ at.ok /\ part.ok
       THEN [ok |-> TRUE, parts |-> Bind(s.parts, at.place, part.value),
             next |-> part.next, items |-> part.items, previous |-> at.place]
       ELSE Stopped

\* A list or a map of count parts at token n, after k values.
ReadGroup(nested, tag, count, n, k) ==
    LET after[i \in 0 .. count] ==
            IF i = 0 THEN Start(n, k) ELSE NextPart(nested, tag, i, after[i - 1])
        end == after[count]
    IN IF end.ok THEN Read(Group(tag, end.parts), end.next, end.items) ELSE Wrong

\* _Reader.value at token n, after k values.
ReadValue(data, max, nested, n, k) ==
    LET tag   == data[n]
        count == data[n + 1]
        short == n + 1 > Len(data)
        raw   == SubSeq(data, n + 2, n + 1 + count)
    IN IF k >= max \/ n > Len(data) THEN Wrong
       ELSE CASE tag \in {TagNull, TagFalse, TagTrue} -> Read(Scalar(tag), n + 1, k + 1)
              [] tag \in {TagInt64, TagFloat64} ->
                     IF short \/ count = Unsuited THEN Wrong ELSE Read(Number(tag, count), n + 2, k + 1)
              [] tag \in {TagBytes, TagStr} ->
                     IF short \/ n + 1 + count > Len(data) \/ (tag = TagStr /\ Contains(raw, Unsuited))
                     THEN Wrong ELSE Read(Text(tag, raw), n + 2 + count, k + 1)
              [] tag \in {TagList, TagMap} ->
                     IF short \/ ~LeavesRoom(count, tag, max - k - 1) THEN Wrong
                     ELSE ReadGroup(nested, tag, count, n + 2, k + 1)
              [] OTHER -> Wrong

\* decode_value: one value and nothing after it.
Decode(data, max) ==
    LET values[n \in 0 .. MaxDepth + 1] ==
            IF n = 0 THEN [p \in Nat \X Nat |-> Wrong]
            ELSE [p \in Nat \X Nat |-> ReadValue(data, max, values[n - 1], p[1], p[2])]
        read == values[MaxDepth + 1][<<1, 0>>]
    IN IF read.ok /\ read.next = Len(data) + 1 THEN read ELSE Wrong
-----------------------------------------------------------------------------
(* The envelope: magic, version, message type, flags, length of payload.   *)

Magic     == 85
Version   == 2
TypeValue == 1

EncodeEnvelope(payload, type, flags) ==
    <<Magic, Version, type, flags, Len(payload)>> \o payload

DecodeEnvelope(data, maxPayload) ==
    IF /\ Len(data) >= 5
       /\ data[1] = Magic /\ data[2] = Version
       /\ data[5] <= maxPayload /\ Len(data) = 5 + data[5]
    THEN [ok |-> TRUE, type |-> data[3], flags |-> data[4],
          payload |-> SubSeq(data, 6, Len(data))]
    ELSE [ok |-> FALSE, type |-> 0, flags |-> 0, payload |-> <<>>]

EncodeMessage(v, flags) == EncodeEnvelope(Encode(v).bytes, TypeValue, flags)

DecodeMessage(data, maxPayload, maxItems) ==
    LET e == DecodeEnvelope(data, maxPayload)
    IN IF e.ok /\ e.type = TypeValue THEN Decode(e.payload, maxItems) ELSE Wrong
-----------------------------------------------------------------------------
\* What Python hands to encode_value, for as deep as it looks.
IsValue(v) ==
    \A d \in 0 .. MaxDepth : \A w \in Within(v)[d] :
        \/ w.tag \in {TagNull, TagFalse, TagTrue} /\ w = Scalar(w.tag)
        \/ w.tag \in {TagInt64, TagFloat64} /\ w = Number(w.tag, w.raw[1]) /\ w.raw[1] \in Nat
        \/ w.tag \in {TagBytes, TagStr} /\ w = Text(w.tag, w.raw) /\ w.raw \in Seq(Nat)
        \/ w = Group(TagList, w.parts) /\ w.parts \in Seq(Range(w.parts))
        \/ /\ w = Group(TagMap, w.parts) /\ w.parts = [key \in DOMAIN w.parts |-> w.parts[key]]
           /\ DOMAIN w.parts \in SUBSET Seq(Nat) /\ IsFiniteSet(DOMAIN w.parts)

\* All numbers, strings and keys in v can be written.
Writable(v) ==
    \A d \in 0 .. MaxDepth : \A w \in Within(v)[d] :
        /\ w.tag \in {TagInt64, TagFloat64} => w.raw[1] # Unsuited
        /\ w.tag = TagStr => ~Contains(w.raw, Unsuited)
        /\ w.tag = TagMap => \A key \in DOMAIN w.parts : ~Contains(key, Unsuited)

\* A value that is writable and not too deep is written, and what is written
\* is read back, exactly when the reader's limit admits as many values.
ReadsBack(v, max) ==
    LET wire == Encode(v)
        back == DecodeMessage(EncodeMessage(v, 0), Len(wire.bytes), max)
    IN /\ wire.ok = (Writable(v) /\ Within(v)[MaxDepth + 1] = {})
       /\ wire.ok => back = IF wire.items <= max THEN Read(v, Len(wire.bytes) + 1, wire.items)
                            ELSE Wrong

\* Any bytes the reader accepts are the ones the writer makes of the value
\* read, which has as many values as were counted and the limit admits: there is
\* one form of each value.
OneForm(data, max) ==
    LET read     == Decode(data, max)
        envelope == DecodeEnvelope(data, Len(data))
    IN /\ read.ok => Encode(read.value) = Emit(data, read.items) /\ read.items <= max
       /\ envelope.ok => data = EncodeEnvelope(envelope.payload, envelope.type, envelope.flags)
=============================================================================
