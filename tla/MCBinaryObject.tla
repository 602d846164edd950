--------------------------- MODULE MCBinaryObject ---------------------------
(***************************************************************************)
(* An instance of BinaryObject for TLC: two versions of a source, one      *)
(* longer than the other, and a foreign file that shares no byte with them.*)
(***************************************************************************)
EXTENDS BinaryObject

AllBackends == {"pread", "file", "memory", "stream"}
TwoVersions == {<<1, 2, 3>>, <<4, 5, 6, 7>>}
OtherFile   == <<9, 9, 9, 9>>
=============================================================================
