--------------------------- MODULE OneShotTransfer ---------------------------
(***************************************************************************)
(* The one-shot transfer of wire format v0.3 (secure/network.py): the      *)
(* client side is send_secure_file, the server side is                     *)
(* SecureServer.serve_once with _receive_v03_after_magic.  The server      *)
(* publishes what it receives as one of the writers of AtomicFile; other   *)
(* writers publish files of the same name beside it.                       *)
(*                                                                         *)
(* Each client makes one call.  A digest is the content it was computed    *)
(* from.  TLS and AES-GCM deliver the messages sent or nothing.            *)
(***************************************************************************)
EXTENDS AtomicFile

CONSTANTS
    Clients,     \* callers of send_secure_file, each with its own handler:
    Locals,      \* Writers = Clients \cup Locals
    Contents,    \* what a source may hold
    Payloads,    \* what a local writer may write
    FrameSize,
    MaxEdits     \* bound: in-place modifications of a source

F == INSTANCE ResumeFormat

ASSUME OneShotAssumption ==
    /\ Writers = Clients \cup Locals /\ Clients \cap Locals = {}
    /\ Contents \subseteq Seq(Nat) /\ Payloads \subseteq Seq(Nat)
    /\ FrameSize \in Nat \ {0} /\ MaxEdits \in Nat

VARIABLES
    source,    \* source[c]: content of the file c sends
    cpc,       \* cpc[c]: where its call stands
    size,      \* size[c]: size of the source when it was opened, in the header
    digest,    \* digest[c]: bytes the client has read, sent and hashed
    up,        \* up[c]: messages on their way to the handler
    down,      \* down[c]: its answer
    todo,      \* todo[w]: what a local writer still has to write
    want,      \* want[w]: the payload it was given
    edits

netVars   == <<source, cpc, size, digest, up, down, edits>>
localVars == <<todo, want>>
vars      == <<fileVars, netVars, localVars>>

Frame(i, bytes) == [kind |-> "frame", number |-> i, bytes |-> bytes]
Final(d)        == [kind |-> "final", digest |-> d]
Header(n)       == [kind |-> "header", size |-> n]
Ack(n, d)       == [kind |-> "ack", size |-> n, digest |-> d]
Error           == [kind |-> "error"]
-----------------------------------------------------------------------------
(* The client: send_secure_file.                                           *)

CallGoes(c, label) == cpc' = [cpc EXCEPT ![c] = label]

\* The source is opened, its size recorded, and the header sent.
Open(c) ==
    /\ cpc[c] = "idle"
    /\ size' = [size EXCEPT ![c] = Len(source[c])]
    /\ up' = [up EXCEPT ![c] = Append(@, Header(size'[c]))]
    /\ CallGoes(c, "streaming")
    /\ UNCHANGED <<fileVars, source, digest, down, localVars, edits>>

Due(c)  == F!FrameLen(Len(digest[c]), size[c], FrameSize)
Read(c) == F!ReadAt(source[c], Len(digest[c]), Due(c))

\* Each frame is read at its offset, absorbed by the digest, sealed and sent.
SendFrame(c) ==
    /\ cpc[c] = "streaming" /\ Len(digest[c]) < size[c] /\ Len(Read(c)) = Due(c)
    /\ up' = [up EXCEPT ![c] = Append(@, Frame(Len(digest[c]) \div FrameSize, Read(c)))]
    /\ digest' = [digest EXCEPT ![c] = @ \o Read(c)]
    /\ UNCHANGED <<fileVars, source, cpc, size, down, localVars, edits>>

\* The source has become shorter: the call raises.
AbandonShortSource(c) ==
    /\ cpc[c] = "streaming" /\ Len(digest[c]) < size[c] /\ Len(Read(c)) # Due(c)
    /\ CallGoes(c, "raised")
    /\ UNCHANGED <<fileVars, source, size, digest, up, down, localVars, edits>>

SendFinal(c) ==
    /\ cpc[c] = "streaming" /\ Len(digest[c]) = size[c]
    /\ up' = [up EXCEPT ![c] = Append(@, Final(digest[c]))]
    /\ CallGoes(c, "finishing")
    /\ UNCHANGED <<fileVars, source, size, digest, down, localVars, edits>>

\* The acknowledgement repeats size and digest: the receipt is returned.
ReceiveAck(c) ==
    /\ cpc[c] = "finishing" /\ down[c] # None /\ down[c].kind = "ack"
    /\ down[c].size = size[c] /\ down[c].digest = digest[c]
    /\ CallGoes(c, "receipt")
    /\ UNCHANGED <<fileVars, source, size, digest, up, down, localVars, edits>>

\* An error record, or a connection that was shut.
ReceiveError(c) ==
    /\ cpc[c] \in {"streaming", "finishing"}
    /\ pc[c] = "failed" \/ c \in killed
    /\ down[c] \in {None, Error}
    /\ CallGoes(c, "raised")
    /\ UNCHANGED <<fileVars, source, size, digest, up, down, localVars, edits>>

\* The client is killed or times out.
ClientAbort(c) ==
    /\ cpc[c] \in {"streaming", "finishing"}
    /\ CallGoes(c, "raised")
    /\ Fault
    /\ UNCHANGED <<kind, overwrite, pc, data, file, synced, temps, dest, known, killed,
                   source, size, digest, up, down, localVars, edits>>

EditSource(c) ==
    /\ edits < MaxEdits
    /\ \E x \in Contents \ {source[c]} : source' = [source EXCEPT ![c] = x]
    /\ edits' = edits + 1
    /\ UNCHANGED <<fileVars, cpc, size, digest, up, down, localVars>>
-----------------------------------------------------------------------------
(* The server: serve_once, one connection at a time.                       *)

\* The handler of c is past the rename and has not answered yet.
Unanswered(c) == pc[c] = "done" /\ down[c] = None /\ c \notin killed

Serving(c) == Running(c) \/ Unanswered(c)
Attached(c) == cpc[c] \in {"streaming", "finishing"}

UpHead(c, k) == up[c] # <<>> /\ Head(up[c]).kind = k

\* The handshake, the magic UBT3, the header and the check of the destination.
\* A refusal is answered with an error record.
ReceiveHeader(c) ==
    /\ \A d \in Clients : ~Serving(d)
    /\ Attached(c) /\ UpHead(c, "header")
    /\ Check(c)
    /\ up' = [up EXCEPT ![c] = Tail(@)]
    /\ down' = IF pc'[c] = "failed" THEN [down EXCEPT ![c] = Error] ELSE down
    /\ UNCHANGED <<source, cpc, size, digest, localVars, edits>>

\* A client that left the backlog fails the handshake.
DropQueued(c) ==
    /\ \A d \in Clients : ~Serving(d)
    /\ ~Attached(c) /\ UpHead(c, "header") /\ pc[c] = "idle"
    /\ GoTo(c, "failed")
    /\ UNCHANGED <<kind, overwrite, data, file, synced, temps, dest, known, killed, faults,
                   netVars, localVars>>

CreateTemp(c) == MakeTemp(c) /\ UNCHANGED <<netVars, localVars>>

\* A frame with the number and the length expected is written and absorbed by
\* the digest, which is the data of the writer.
ReceiveFrame(c) ==
    LET m == Head(up[c]) IN
    /\ UpHead(c, "frame") /\ m.number = Len(data[c]) \div FrameSize
    /\ Len(m.bytes) = F!FrameLen(Len(data[c]), size[c], FrameSize)
    /\ WriteChunk(c, m.bytes)
    /\ up' = [up EXCEPT ![c] = Tail(@)]
    /\ UNCHANGED <<source, cpc, size, digest, down, localVars, edits>>

\* The digest of the final record equals the one of the bytes received.
ReceiveFinal(c) ==
    LET m == Head(up[c]) IN
    /\ UpHead(c, "final") /\ Len(data[c]) = size[c] /\ m.digest = data[c]
    /\ Flush(c)
    /\ up' = [up EXCEPT ![c] = Tail(@)]
    /\ UNCHANGED <<source, cpc, size, digest, down, localVars, edits>>

Finish(c) == (Close(c) \/ Recheck(c) \/ Replace(c)) /\ UNCHANGED <<netVars, localVars>>

\* Mutant: the acknowledgement is sent before the rename.
AckEarly(c) ==
    /\ pc[c] = "ready" \/ Unanswered(c)
    /\ down[c] = None
    /\ down' = [down EXCEPT ![c] = Ack(Len(data[c]), data[c])]
    /\ UNCHANGED <<fileVars, source, cpc, size, digest, up, localVars, edits>>
\* The acknowledgement follows the rename.
Acknowledge(c) ==
    /\ Unanswered(c)
    /\ down' = [down EXCEPT ![c] = Ack(Len(data[c]), data[c])]
    /\ UNCHANGED <<fileVars, source, cpc, size, digest, up, localVars, edits>>

\* The server is killed, or sends in vain, between the rename and the
\* acknowledgement.
EndUnanswered(c) ==
    /\ Unanswered(c)
    /\ killed' = killed \cup {c}
    /\ Fault
    /\ UNCHANGED <<kind, overwrite, pc, data, file, synced, temps, dest, known, netVars,
                   localVars>>

\* The connection breaks while frames are awaited: the handler raises, unlinks
\* its temporary file and tries to send an error record.
PeerGone(c) ==
    /\ pc[c] = "writing" /\ up[c] = <<>> /\ ~Attached(c)
    /\ Abandon(c)
    /\ down' = [down EXCEPT ![c] = Error]
    /\ UNCHANGED <<kind, overwrite, data, file, synced, dest, known, killed, faults,
                   source, cpc, size, digest, up, localVars, edits>>

HandlerFail(c) ==
    /\ Fail(c)
    /\ down' = [down EXCEPT ![c] = Error]
    /\ UNCHANGED <<source, cpc, size, digest, up, localVars, edits>>
-----------------------------------------------------------------------------
(* The other writers of the destination.                                   *)

\* The source, or the stages it passes through, yield the next chunk.
WriteNext(w) ==
    /\ \E n \in 1 .. Len(todo[w]) :
           /\ WriteChunk(w, SubSeq(todo[w], 1, n))
           /\ todo' = [todo EXCEPT ![w] = SubSeq(@, n + 1, Len(@))]
    /\ UNCHANGED <<netVars, want>>

LocalStep(w) ==
    \/ (Check(w) \/ MakeTemp(w) \/ Close(w) \/ Recheck(w) \/ Replace(w) \/ Fail(w))
           /\ UNCHANGED <<netVars, localVars>>
    \/ WriteNext(w)
    \/ todo[w] = <<>> /\ Flush(w) /\ UNCHANGED <<netVars, localVars>>

World == PowerLoss \/ ForeignCreate \/ ForeignRemove
-----------------------------------------------------------------------------
Init ==
    /\ FileInit
    /\ kind \in [Writers -> Kinds] /\ \A c \in Clients : kind[c] = Sealed
    /\ overwrite \in [Writers -> BOOLEAN]
    /\ source \in [Clients -> Contents]
    /\ cpc = [c \in Clients |-> "idle"]
    /\ size = [c \in Clients |-> 0]
    /\ digest = [c \in Clients |-> <<>>]
    /\ up = [c \in Clients |-> <<>>]
    /\ down = [c \in Clients |-> None]
    /\ want \in [Locals -> Payloads] /\ todo = want
    /\ edits = 0

ClientStep(c) ==
    \/ Open(c) \/ SendFrame(c) \/ AbandonShortSource(c) \/ SendFinal(c) \/ ReceiveAck(c)
    \/ ReceiveError(c) \/ ClientAbort(c) \/ EditSource(c)

HandlerStep(c) ==
    \/ ReceiveHeader(c) \/ DropQueued(c) \/ CreateTemp(c) \/ ReceiveFrame(c)
    \/ ReceiveFinal(c) \/ Finish(c) \/ Acknowledge(c) \/ EndUnanswered(c) \/ PeerGone(c)
    \/ HandlerFail(c)

Next ==
    \/ \E c \in Clients : ClientStep(c) \/ HandlerStep(c)
    \/ \E w \in Locals : LocalStep(w)
    \/ \E w \in Writers : Kill(w) /\ UNCHANGED <<netVars, localVars>>
    \/ World /\ UNCHANGED <<netVars, localVars>>

Spec == Init /\ [][Next]_vars
-----------------------------------------------------------------------------
TypeOK ==
    /\ FileTypes
    /\ source \in [Clients -> Contents] /\ size \in [Clients -> Nat]
    /\ cpc \in [Clients -> {"idle", "streaming", "finishing", "receipt", "raised"}]
    /\ digest \in [Clients -> Seq(Nat)]
    /\ edits \in 0 .. MaxEdits

\* What the file of writer w has to hold once it is published.
Intended(w) == IF w \in Clients THEN digest[w] ELSE want[w]

\* The file at the destination has every byte of what its writer was to write:
\* on stable storage, and whatever fails, where the writer syncs; until power
\* is lost, where it does not (gzip_file, of which nothing is said afterwards).
\* What the server received has the size that the client announced.
PublishedWhole ==
    dest \in Writers =>
        /\ pc[dest] = "done"
        /\ kind[dest].syncs \/ dest \notin killed => file[dest] = Intended(dest)
        /\ kind[dest].syncs => synced[dest] = Intended(dest)
        /\ dest \in Clients => Len(file[dest]) = size[dest]

\* A client that returns a receipt sent a file that was published whole, and
\* the digest in the receipt is the digest of that file.
ReceiptMeansPublished ==
    \A c \in Clients :
        cpc[c] = "receipt" => /\ pc[c] = "done"
                              /\ file[c] = digest[c] /\ Len(digest[c]) = size[c]

\* SECURITY.md:66: "incomplete or failed output remains temporary; the final
\* pathname appears only after verification succeeds."  A file the server has
\* renamed into place holds what the client sent.
PublishedFileVerified == dest \in Clients => file[dest] = digest[dest]
=============================================================================
