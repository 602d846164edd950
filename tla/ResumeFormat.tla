---------------------------- MODULE ResumeFormat ----------------------------
(***************************************************************************)
(* Frame arithmetic of the resumable transfer formats (resume_format.py,   *)
(* krp_format.py) and the two file primitives the receiver relies on: a    *)
(* positioned write through an unbuffered descriptor and a truncation.     *)
(*                                                                         *)
(* Sizes, offsets and frame numbers are naturals.  A content is a sequence *)
(* of bytes; frame number i (counted from 0, as in the code) of a content  *)
(* of the given size starts at offset i * fs.                              *)
(***************************************************************************)
EXTENDS Naturals, Sequences

Least(a, b)    == IF a <= b THEN a ELSE b
Greatest(a, b) == IF a <= b THEN b ELSE a

\* ceil(size / fs), and 0 for an empty source.
FrameCount(size, fs) == IF size = 0 THEN 0 ELSE (size + fs - 1) \div fs

\* Bytes that precede frame `next`; the whole size once every frame is in.
\* Meaningful for next \in 0..FrameCount(size, fs): the code raises outside.
ExpectedBytes(next, size, fs) ==
    IF next = FrameCount(size, fs) THEN size ELSE next * fs

\* Length of the frame that starts at `offset`: only the last one is short.
FrameLen(offset, size, fs) == Least(fs, size - offset)

\* What a positioned read of `len` bytes returns: less at the end of file.
ReadAt(content, offset, len) ==
    SubSeq(content, offset + 1, Least(offset + len, Len(content)))

\* A write of `data` at `offset`.  Bytes between the old end of file and the
\* offset read back as `hole` (the zero byte of a sparse file).
WriteAt(content, offset, data, hole) ==
    [i \in 1 .. Greatest(Len(content), offset + Len(data)) |->
        IF i \in offset + 1 .. offset + Len(data) THEN data[i - offset]
        ELSE IF i <= Len(content) THEN content[i] ELSE hole]

\* ftruncate to a length not above the current one.
TruncateTo(content, len) == SubSeq(content, 1, len)
=============================================================================
