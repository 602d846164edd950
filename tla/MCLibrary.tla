----------------------------- MODULE MCLibrary -----------------------------
(***************************************************************************)
(* Tasks for TLC: every short input of the algorithms, and for the formats *)
(* samples with everything that is one change away from them.              *)
(***************************************************************************)
EXTENDS Library, FiniteSets, SequencesExt

\* Every sequence of up to four keys of three, and the patterns of eight.
Tagged(keys) == [i \in DOMAIN keys |-> <<keys[i], i>>]
Keys  == BoundedSeq({1, 2, 3}, 4) \cup [1 .. 8 -> {1, 2}]
\* Inputs that quicksort divides as unevenly as it can.
Awkward == {<<1, 3, 2, 7, 4, 6, 5, 8>>, <<5, 3, 2, 10, 9, 8, 4, 1, 6, 7>>,
            <<6, 8, 3, 12, 9, 11, 1, 10, 5, 7, 4, 2>>}
SortTasks   == {[name |-> "sort", items |-> Tagged(k), reverse |-> r] : k \in Keys, r \in BOOLEAN}
                   \cup {[name |-> "sort", items |-> Tagged(k), reverse |-> FALSE] :
                            k \in SetToSeqs(1 .. 6) \cup Awkward}
SearchTasks == {[name |-> "search", items |-> Tagged(k), target |-> x] :
                   k \in BoundedSeq({1, 3, 5}, 5), x \in 0 .. 6}
WalkTasks   == {[name |-> "walk", edges |-> e, directed |-> d, start |-> e[1][1]] :
                   e \in UNION {[1 .. n -> {1, 2, 3, 4} \X {1, 2, 3, 4}] : n \in 1 .. 3}
                         \cup {<<<<1, 2>>, <<1, 3>>, <<2, 4>>, <<3, 4>>, <<4, 1>>>>},
                   d \in BOOLEAN}

\* Scalars, strings, and groups of them three deep.
Leaves == {Scalar(TagNull), Number(TagInt64, 1), Number(TagInt64, Unsuited),
           Number(TagFloat64, 2), Text(TagStr, <<>>), Text(TagStr, <<1>>),
           Text(TagStr, <<1, 2>>), Text(TagBytes, <<Unsuited>>), Text(TagStr, <<Unsuited>>)}
KeySets == {K \in SUBSET {<<>>, <<2>>, <<1, 2>>, <<1, Unsuited>>} : Cardinality(K) <= 2}
Maps(vs) == {Group(TagMap, f) : f \in UNION {[K -> vs] : K \in KeySets}}
Lists(vs) == {Group(TagList, s) : s \in BoundedSeq(vs, 2)}
Shallow == Leaves \cup Lists(Leaves) \cup Maps({Scalar(TagTrue), Number(TagInt64, 1)})
Deep    == {Group(TagList, <<Group(TagList, <<v>>), Scalar(TagFalse)>>) : v \in Shallow}
           \cup {Group(TagMap, [K \in {<<1>>} |-> Group(TagList, <<v>>)]) : v \in Shallow}
ValueTasks == {[name |-> "value", value |-> v, max |-> m] : v \in Shallow \cup Deep, m \in 1 .. 6}

Alphabet == {0, 1, 2, 3, TagInt64, TagStr, TagList, TagMap, Unsuited}
Near(data) ==
    {data} \cup {RemoveAt(data, i) : i \in DOMAIN data}
    \cup {ReplaceAt(data, i, x) : i \in DOMAIN data, x \in Alphabet}
    \cup {InsertAt(data, i, x) : i \in 1 .. Len(data) + 1, x \in Alphabet}
WireTasks == {[name |-> "wire", data |-> d, max |-> 6] :
                 d \in BoundedSeq(Alphabet, 4)
                       \cup UNION {Near(Encode(v).bytes) :
                                       v \in Maps({Scalar(TagTrue), Group(TagList, <<Scalar(TagNull)>>)})}
                       \cup Near(EncodeMessage(Number(TagInt64, 1), 3))}

\* Every table of round values for halves of one bit, samples for two and
\* three bits.
Table(a, b, c, d) == [r \in 0 .. 5 |-> [x \in 0 .. 7 |-> (a * x + b * r + c + d * x * x) % 8]]
BitTables == {[r \in 0 .. 5 |-> [x \in 0 .. 1 |-> bits[2 * r + x + 1]]] :
                  bits \in [1 .. 12 -> 0 .. 1]}
LayoutTasks ==
    {[name |-> "layout", count |-> n, bs |-> 1, tail |-> 0, f |-> f] : n \in 2 .. 4, f \in BitTables}
    \cup {[name |-> "layout", count |-> n, bs |-> b, tail |-> b - 1, f |-> Table(a, x, c, d)] :
             n \in (0 .. 9) \cup {15, 16, 17}, b \in {1, 2, 3}, a \in {1, 2, 3}, x \in 0 .. 1, c \in {0, 5},
             d \in 0 .. 1}

Sources == {<<>>, <<1>>, <<1, 2>>, <<1, 2, 3>>}
ContainerTasks == {[name |-> "container", bytes |-> b, other |-> o, frame |-> f] :
                      b \in Sources, o \in Sources, f \in 1 .. 3}
CarrierTasks == {[name |-> "carrier", bytes |-> b, frame |-> f, bs |-> s, width |-> w,
                  rounds |-> [p \in {"right", "wrong"} |-> [n \in 0 .. 9 |->
                      IF p = "right" THEN Table(1, 1, 0, 1) ELSE Table(3, 0, 5, 0)]]] :
                    b \in Sources, f \in 1 .. 3, s \in 1 .. 3, w \in 1 .. 3}

\* One bundled name, one plugin that is written in two ways, and a name that
\* is not valid.
Providers == {"a:Plug", "b:Plug"}
MCNormal == [n \in {"sort", "Sort", "plug", "Plug", "bad-name"} |->
                CASE n = "Sort" -> "sort" [] n = "Plug" -> "plug" [] OTHER -> n]
MCOrder  == [n \in DOMAIN MCNormal \cup Providers |->
                CASE n = "Plug" -> 1 [] n = "Sort" -> 2 [] n = "bad-name" -> 3
                  [] n = "plug" -> 4 [] n = "sort" -> 5 [] n = "a:Plug" -> 6 [] n = "b:Plug" -> 7]
MCBuiltins   == {"sort"}
MCValidNames == {"sort", "plug"}
GoodManifest == [name |-> "plug", formed |-> TRUE, api |-> 1, low |-> 2, high |-> 3]
Manifests == {NotFound, [GoodManifest EXCEPT !.low = 3, !.high = 4],
              [GoodManifest EXCEPT !.name = "sort"], [GoodManifest EXCEPT !.api = 2],
              [GoodManifest EXCEPT !.formed = FALSE]}
EntryPoints == [name : DOMAIN MCNormal, provider : Providers, manifest : {GoodManifest}]
               \cup [name : {"plug"}, provider : {"a:Plug"}, manifest : Manifests]
Installations == {{e, d} : e \in EntryPoints, d \in EntryPoints} \cup {{}}
RegistryTasks == {[name |-> "registry", installed |-> i, later |-> l, requested |-> q] :
                     i \in Installations, l \in Installations, q \in {{"plug"}, {"sort", "plug"}}}

MCTasks == <<SortTasks, SearchTasks, WalkTasks, ValueTasks, WireTasks, LayoutTasks,
             ContainerTasks, CarrierTasks, RegistryTasks>>
=============================================================================
