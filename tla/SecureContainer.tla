-------------------------- MODULE SecureContainer --------------------------
(***************************************************************************)
(* The local formats of UBIN Secure as functions: the container .ubs       *)
(* (container.py, format.py), and the image carrier that lays a container  *)
(* out by KRP and stores it in the pixels of a PNG (image_carrier.py,      *)
(* png_codec.py).                                                          *)
(*                                                                         *)
(* A file is a sequence of cells: a header, a FRAME_META, a ciphertext, a  *)
(* FINAL_META or a filler is one cell.  AES-GCM opens a ciphertext under   *)
(* the key, nonce and associated data it was sealed with and no others; a  *)
(* digest is the content it was computed from.                             *)
(***************************************************************************)
EXTENDS KrpLayout, SequencesExt, FiniteSetsExt

CONSTANTS
    ChunkLimit   \* cells the PNG encoder collects before it writes a chunk

\* A container: the header, per frame a FRAME_META and its ciphertext, the
\* FINAL_META and the sealed digest.
Header(size, frameSize, id) ==
    [kind |-> "header", size |-> size, frameSize |-> frameSize,
     frameCount |-> FrameCount(size, frameSize), id |-> id]
Meta(number, len) == [kind |-> "meta", number |-> number, len |-> len]
FinalMeta         == [kind |-> "final"]

FrameNonce(header, number)    == <<header.id, number>>
FrameAad(header, number, len) == <<header, number, len>>
FinalAad(header)              == <<header, "END1">>

Seal(key, nonce, plain, aad) ==
    [kind |-> "sealed", key |-> key, nonce |-> nonce, aad |-> aad, plain |-> plain]
Opens(cell, key, nonce, aad) ==
    cell.kind = "sealed" /\ cell.key = key /\ cell.nonce = nonce /\ cell.aad = aad

\* save.
SaveFrame(bytes, header, key, number) ==
    LET offset == number * header.frameSize
        plain  == ReadAt(bytes, offset, FrameLen(offset, header.size, header.frameSize))
    IN <<Meta(number, Len(plain)),
         Seal(key, FrameNonce(header, number), plain, FrameAad(header, number, Len(plain)))>>

Save(bytes, frameSize, key, id) ==
    LET header == Header(Len(bytes), frameSize, id)
    IN <<header>>
       \o FlattenSeq([i \in 1 .. header.frameCount |-> SaveFrame(bytes, header, key, i - 1)])
       \o <<FinalMeta, Seal(key, FrameNonce(header, header.frameCount), bytes,
                            FinalAad(header))>>

\* SecureHeader.unpack: the frame count has to be the one of the sizes.
HeaderIsValid(cell) ==
    cell.kind = "header" /\ cell.frameCount = FrameCount(cell.size, cell.frameSize)

\* What the two cells of frame `number` restore after `restored` bytes, or -1.
FrameIsValid(meta, cell, header, key, number, restored) ==
    /\ meta.kind = "meta" /\ meta.number = number
    /\ meta.len = FrameLen(restored, header.size, header.frameSize)
    /\ Opens(cell, key, FrameNonce(header, number), FrameAad(header, number, meta.len))

\* The checks that follow the frames.
FinalIsValid(meta, cell, header, key, bytes) ==
    /\ Len(bytes) = header.size /\ meta.kind = "final"
    /\ Opens(cell, key, FrameNonce(header, header.frameCount), FinalAad(header))
    /\ cell.plain = bytes

Failure        == [ok |-> FALSE, bytes |-> <<>>]
Success(bytes) == [ok |-> TRUE, bytes |-> bytes]

\* Mutant: cells after the final record are not noticed.
DecryptPrefix(cells, key) ==
    LET header == Head(cells)
        n      == header.frameCount
        bytes  == FlattenSeq([i \in 1 .. n |-> cells[2 * i + 1].plain])
    IN IF /\ cells # <<>> /\ HeaderIsValid(header) /\ Len(cells) >= 2 * n + 3
          /\ \A i \in 1 .. n :
                 FrameIsValid(cells[2 * i], cells[2 * i + 1], header, key, i - 1,
                              (i - 1) * header.frameSize)
          /\ FinalIsValid(cells[2 * n + 2], cells[2 * n + 3], header, key, bytes)
       THEN Success(bytes) ELSE Failure
\* decrypt_file.  The frames before a valid one are full, so that it starts at
\* a multiple of the frame size; nothing may follow the final record.
Decrypt(cells, key) ==
    LET header == Head(cells)
        n      == header.frameCount
        bytes  == FlattenSeq([i \in 1 .. n |-> cells[2 * i + 1].plain])
    IN IF /\ cells # <<>> /\ HeaderIsValid(header) /\ Len(cells) = 2 * n + 3
          /\ \A i \in 1 .. n :
                 FrameIsValid(cells[2 * i], cells[2 * i + 1], header, key, i - 1,
                              (i - 1) * header.frameSize)
          /\ FinalIsValid(cells[2 * n + 2], cells[2 * n + 3], header, key, bytes)
       THEN Success(bytes) ELSE Failure
-----------------------------------------------------------------------------
(* The PNG.  A row is a filter byte, here Filter, and four cells per pixel.*)

Filter == [kind |-> "filter0"]
Filler == [kind |-> "filler"]
StreamEnd == [kind |-> "adler"]

\* dimensions_for_payload.
PngHeight(size, width) ==
    LET pixels == Greatest(1, (size + 3) \div 4) IN (pixels + width - 1) \div width

Chunk(type, data) == [type |-> type, data |-> data, intact |-> TRUE]

\* Row r of a payload, filled up at the end.
PngRow(payload, width, r) ==
    LET taken == ReadAt(payload, (r - 1) * 4 * width, 4 * width)
    IN <<Filter>> \o taken \o [i \in 1 .. 4 * width - Len(taken) |-> Filler]

\* encode_file_to_png, after each row: what the compressor has put out is
\* written as a chunk whenever it exceeds the limit.
Encoded(payload, width, height) ==
    LET rows[r \in 0 .. height] ==
            IF r = 0
            THEN [chunks |-> <<Chunk("IHDR", <<[kind |-> "ihdr", width |-> width, height |-> height]>>)>>,
                  pending |-> <<>>]
            ELSE LET acc     == rows[r - 1]
                     pending == acc.pending \o PngRow(payload, width, r)
                 IN  IF Len(pending) >= ChunkLimit
                     THEN [chunks |-> Append(acc.chunks, Chunk("IDAT", pending)), pending |-> <<>>]
                     ELSE [chunks |-> acc.chunks, pending |-> pending]
    IN  rows

\* What flush adds is the last chunk of data.
EncodePng(payload, width) ==
    LET height == PngHeight(Len(payload), width)
        rows   == Encoded(payload, width, height)[height]
    IN Append(Append(rows.chunks, Chunk("IDAT", Append(rows.pending, StreamEnd))),
              Chunk("IEND", <<>>))

\* decode_png_to_file: every chunk is intact, the image starts with IHDR and
\* ends with an empty IEND, chunks of other types are skipped unless they are
\* critical, the compressed stream ends once, at the last byte, and has the
\* size of the image, and no row is filtered.
Critical == {"IHDR", "PLTE"}
PngIsValid(chunks) ==
    LET ihdr   == chunks[1].data[1]
        stream == FlattenSeq([i \in DOMAIN chunks |->
                      IF chunks[i].type = "IDAT" THEN chunks[i].data ELSE <<>>])
        row    == 4 * ihdr.width + 1
    IN /\ Len(chunks) >= 2 /\ \A i \in DOMAIN chunks : chunks[i].intact
       /\ chunks[1].type = "IHDR" /\ Len(chunks[1].data) = 1 /\ ihdr.kind = "ihdr"
       /\ Last(chunks) = Chunk("IEND", <<>>)
       /\ \A i \in 2 .. Len(chunks) - 1 : chunks[i].type \notin Critical \cup {"IEND"}
       /\ Len(stream) = ihdr.height * row + 1
       /\ \A p \in DOMAIN stream : (stream[p] = StreamEnd) = (p = Len(stream))
       /\ \A r \in 0 .. ihdr.height - 1 : stream[r * row + 1] = Filter

\* The cells of the pixels.
DecodePng(chunks) ==
    LET width  == chunks[1].data[1].width
        height == chunks[1].data[1].height
        stream == FlattenSeq([i \in DOMAIN chunks |->
                      IF chunks[i].type = "IDAT" THEN chunks[i].data ELSE <<>>])
    IN FlattenSeq([r \in 1 .. height |->
           SubSeq(stream, (r - 1) * (4 * width + 1) + 2, r * (4 * width + 1))])
-----------------------------------------------------------------------------
(* The carrier: a header of one cell, then the permuted container.         *)

CarrierHeader(size, id, payload) ==
    [kind |-> "carrier", size |-> size, id |-> id, length |-> Len(payload),
     digest |-> payload]

\* _derive_keys: the passphrase, with the random salt and context, gives the key
\* and the layout of `count` blocks; layouts[pass][count] is a Layout of KrpLayout.
CarrierKey(pass, id) == <<pass, id>>
CarrierLayout(layouts, pass, count) == layouts[pass][count]

\* create_image_carrier, of a layout that was found.
CreateCarrier(bytes, pass, id, layouts, frameSize, bs, width) ==
    LET secure   == Save(bytes, frameSize, CarrierKey(pass, id), id)
        permuted == PermuteFile(secure, bs,
                        CarrierLayout(layouts, pass, Blocks(secure, bs)))
    IN EncodePng(<<CarrierHeader(Len(bytes), id, permuted)>> \o permuted, width)

\* The payload that _read_header announces.
Payload(pixels) == SubSeq(pixels, 2, 1 + Head(pixels).length)

\* _read_header, and the digest of the payload.
CarrierIsValid(pixels) ==
    /\ pixels # <<>> /\ Head(pixels).kind = "carrier" /\ Head(pixels).length >= 1
    /\ 1 + Head(pixels).length <= Len(pixels)
    /\ Head(pixels).digest = Payload(pixels)

\* restore_image_carrier; it refuses when a walk of krp.py meets its limit.
RestoreCarrier(chunks, pass, layouts, bs) ==
    LET pixels  == DecodePng(chunks)
        payload == Payload(pixels)
        id      == Head(pixels).id
        count   == Blocks(payload, bs)
        target  == CarrierLayout(layouts, pass, count)
        secure  == RestoreFile(payload, bs, target)
    IN IF PngIsValid(chunks) /\ CarrierIsValid(pixels) /\ Found(target, count)
       THEN Decrypt(secure, CarrierKey(pass, id)) ELSE Failure
-----------------------------------------------------------------------------
(* Disturbances: everything that is one cell away from a sequence, cut off *)
(* somewhere, or has a cell of another sequence in it.                     *)

Noise == [kind |-> "noise"]
Disturbed(cells, others) ==
    {SubSeq(cells, 1, n) : n \in 0 .. Len(cells) - 1}
    \cup {RemoveAt(cells, i) : i \in DOMAIN cells}
    \cup {ReplaceAt(cells, i, x) : i \in DOMAIN cells, x \in others}
    \cup {Append(cells, x) : x \in others}
    \cup {[cells EXCEPT ![i] = cells[j], ![j] = cells[i]] : i \in DOMAIN cells,
                                                             j \in DOMAIN cells}

\* A container gives back what was saved, under its key only; one with a cell
\* altered, lost, added, exchanged, or taken from another container under the
\* same key is refused.
ContainerRestored(bytes, other, frameSize, key, wrongKey) ==
    LET cells == Save(bytes, frameSize, key, "id1")
        foreign == ToSet(Save(other, frameSize, key, "id2")) \cup {Noise}
    IN /\ Decrypt(cells, key) = Success(bytes)
       /\ Decrypt(cells, wrongKey) = Failure
       /\ \A x \in Disturbed(cells, foreign) \ {cells} : Decrypt(x, key) = Failure

\* A carrier that could be laid out gives back what was put in; a wrong passphrase
\* gives nothing; and with one pixel altered, one chunk lost or moved, or another
\* block size, it gives the same or nothing.
ImageRestored(bytes, pass, wrongPass, layouts, frameSize, bs, width) ==
    LET image == CreateCarrier(bytes, pass, "id1", layouts, frameSize, bs, width)
        sameOrNothing(x, b) == RestoreCarrier(x, pass, layouts, b) \in {Failure, Success(bytes)}
        count == Blocks(Save(bytes, frameSize, CarrierKey(pass, "id1"), "id1"), bs)
    IN Found(CarrierLayout(layouts, pass, count), count) =>
           /\ RestoreCarrier(image, pass, layouts, bs) = Success(bytes)
           /\ RestoreCarrier(image, wrongPass, layouts, bs) = Failure
           /\ \A b \in 1 .. 3 : sameOrNothing(image, b)
           /\ \A x \in Disturbed(image, {}) : sameOrNothing(x, bs)
           /\ \A c \in {i \in DOMAIN image : image[i].type = "IDAT"} :
                  \A x \in Disturbed(image[c].data, {Noise, Filler, StreamEnd}) :
                      sameOrNothing([image EXCEPT ![c].data = x], bs)
=============================================================================
