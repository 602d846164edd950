------------------------ MODULE MCResumableTransfer ------------------------
(***************************************************************************)
(* Instances of ResumableTransfer for TLC: sources of two frames, the last *)
(* one short, and the boundary contents of the frame arithmetic.           *)
(***************************************************************************)
EXTENDS ResumableTransfer

\* Two full and short last frames, an exact number of frames, an empty file.
Boundaries == {<<1, 2, 3>>, <<4, 5, 3>>, <<1, 2>>, <<>>}

\* A source nobody edits, and one that is edited in its first frame.
OneVersion  == {<<1, 2, 3>>}
TwoVersions == {<<1, 2, 3>>, <<4, 5, 3>>}

\* Two contents of one frame each, for senders that race for one name.
OneFrame == {<<1, 2>>, <<3>>}
=============================================================================
