-------------------------- MODULE ResumableTransfer --------------------------
(***************************************************************************)
(* The durable, resumable file transfer of UBIN Secure (wire format v0.4): *)
(* the client side is send_resumable_file, the server side is              *)
(* receive_resumable_after_magic as dispatched by SecureServer.serve_once, *)
(* both in secure/resume.py.                                               *)
(*                                                                         *)
(* A client opens its source, hashes it block by block, decides between a  *)
(* NEW transfer and a RESUME of the one its local state file names,        *)
(* connects, stores the ticket the server returns, streams the frames that *)
(* are missing and waits for the acknowledgement.  The server keeps one    *)
(* partial file and one checkpoint file per transfer; each frame is        *)
(* written, fsynced and then covered by an atomically replaced checkpoint; *)
(* after the last one the whole partial file is hashed again and renamed   *)
(* to the destination.                                                     *)
(*                                                                         *)
(* Every connection n has its own handler; the transfer identifier and the *)
(* inode of a partial file are named after the connection that created     *)
(* them.  SHA-256 is taken to be injective: a digest IS the content it     *)
(* was computed from.  The TLS session and AEAD sealing deliver the bytes  *)
(* sent or nothing, so a channel is a FIFO queue that may be cut.          *)
(***************************************************************************)
EXTENDS ResumeFormat

CONSTANTS
    Clients,      \* senders; all of them send a file with the same basename
    Contents,     \* what a source file may hold: a set of byte sequences
    Hole,         \* the byte an unwritten region of a file reads as
    FrameSize,    \* payload bytes of a full frame
    HashBlock,    \* bytes read per block while the source is hashed
    Overwrite,    \* SecureServer(overwrite=...)
    Concurrent,   \* may two handlers run at once?  FALSE: serve_once in a loop
    ShortWrites,  \* may a raw write store fewer bytes than it was given?
    MaxAttempts,  \* bound: connections made, over all clients
    MaxFaults,    \* bound: aborts, crashes and power losses
    MaxEdits,     \* bound: in-place modifications of a source file
    None          \* absent file, absent state, absent inode

Conns == 1 .. MaxAttempts

\* What the variables range over.
Byte     == Nat
ZeroTicket == <<>>
Tickets  == Conns \X Seq(Byte) \X Nat
Headers  == [mode : {"new", "resume"}, tid : Conns, digest : Seq(Byte), size : Nat,
             ticket : Tickets \cup {ZeroTicket}]
Saves    == [tid : Conns, digest : Seq(Byte), size : Nat, ticket : Tickets]
Ckpts    == [tid : Conns, digest : Seq(Byte), size : Nat, next : Nat, bytes : Nat]
UpMsgs   == [kind : {"frame"}, number : Nat, data : Seq(Byte)]
                \cup [kind : {"final"}, digest : Seq(Byte)]
DownMsgs == [kind : {"status"}, next : Nat, bytes : Nat, ticket : Tickets]
                \cup [kind : {"ack"}, digest : Seq(Byte), tid : Conns]

ASSUME ConstantsAssumption ==
    /\ Contents \subseteq Seq(Byte) /\ Hole \in Byte
    /\ FrameSize \in Nat \ {0}
    /\ HashBlock \in Nat \ {0}
    /\ MaxAttempts \in Nat /\ MaxFaults \in Nat /\ MaxEdits \in Nat
    /\ Overwrite \in BOOLEAN /\ Concurrent \in BOOLEAN /\ ShortWrites \in BOOLEAN
    /\ None \notin Conns /\ None \notin Headers /\ None \notin Saves /\ None \notin Ckpts

VARIABLES
    \* ---- client processes and their disks
    source,    \* source[c]: current content of the file c sends
    cpc,       \* cpc[c]: where the call of send_resumable_file stands
    size,      \* size[c]: st_size when the source was opened
    hashed,    \* hashed[c]: the bytes the running digest has absorbed
    conn,      \* conn[c]: the connection c holds, or None
    sent,      \* sent[c]: offset of the next byte to send
    saved,     \* saved[c]: the client's resume state file, or None
    \* ---- connections
    request,   \* request[n]: header and request record sent on n, or None
    up,        \* up[n]: frames and final record on their way to the server
    down,      \* down[n]: status and acknowledgement on their way back
    \* ---- server handlers
    spc,       \* spc[n]: where the handler of n stands
    nxt,       \* nxt[n]: next frame expected
    cur,       \* cur[n]: current_bytes
    fd,        \* fd[n]: inode of the handler's open descriptor, or None
    pos,       \* pos[n]: file offset of that descriptor
    \* ---- server disk
    file,      \* file[i]: content of inode i as any process sees it
    synced,    \* synced[i]: content of inode i that is on stable storage
    partial,   \* partial[t]: inode under t's partial file name, or None
    ckpt,      \* ckpt[t]: checkpoint file of transfer t, or None
    dest,      \* inode under the destination name, or None
    \* ---- bookkeeping of the model
    outcome,   \* outcome[t]: history: "open", "published" or "discarded"
    faults, edits

clientVars  == <<source, cpc, size, hashed, conn, sent, saved>>
netVars     == <<request, up, down>>
handlerVars == <<spc, nxt, cur, fd, pos>>
diskVars    == <<file, synced, partial, ckpt, dest>>
modelVars   == <<outcome, faults, edits>>
vars == <<clientVars, netVars, handlerVars, diskVars, modelVars>>
-----------------------------------------------------------------------------
(* Messages and records. *)

\* Mutant: an HMAC over the digest alone.
TicketOverDigest(h) == <<h.digest>>
\* The HMAC over the stable header fields: equal exactly when they are.
Ticket(h) == <<h.tid, h.digest, h.size>>

Frame(i, data)  == [kind |-> "frame", number |-> i, data |-> data]
Final(digest)   == [kind |-> "final", digest |-> digest]
Status(i, b, t) == [kind |-> "status", next |-> i, bytes |-> b, ticket |-> t]
Ack(digest, t)  == [kind |-> "ack", digest |-> digest, tid |-> t]

Count(h) == FrameCount(h.size, FrameSize)

CheckpointOf(h, i, b) ==
    [tid |-> h.tid, digest |-> h.digest, size |-> h.size, next |-> i, bytes |-> b]

Used == {n \in Conns : request[n] # None}
Closed  == {"none", "queued", "closed"}
Active(n) == spc[n] \notin Closed

\* Connections still held by a client: the others have been shut.
Attached(n) == \E c \in Clients : conn[c] = n
-----------------------------------------------------------------------------
(* The client: send_resumable_file. *)

\* The call ends with an exception; the state file stays where it is.
Give(c) == /\ cpc' = [cpc EXCEPT ![c] = "idle"]
           /\ conn' = [conn EXCEPT ![c] = None]

\* with UbinObject(source): the size is taken here, once.
Open(c) ==
    /\ cpc[c] \in {"idle", "done"}
    /\ cpc' = [cpc EXCEPT ![c] = "hashing"]
    /\ size' = [size EXCEPT ![c] = Len(source[c])]
    /\ hashed' = [hashed EXCEPT ![c] = <<>>]
    /\ Used # Conns
    /\ UNCHANGED <<source, conn, sent, saved, netVars, handlerVars, diskVars, modelVars>>

\* The block the digest reads next; empty at the recorded size and at the
\* end of a file that shrank.
NextBlock(c) ==
    LET have == Len(hashed[c])
    IN  ReadAt(source[c], have, Least(HashBlock, size[c] - have))

HashOneBlock(c) ==
    /\ cpc[c] = "hashing"
    /\ NextBlock(c) # <<>>
    /\ hashed' = [hashed EXCEPT ![c] = @ \o NextBlock(c)]
    /\ UNCHANGED <<source, cpc, size, conn, sent, saved, netVars, handlerVars, diskVars, modelVars>>

\* The header and request a client sends: a fresh identifier and the zero
\* ticket, or those of its state file.
NewRequest(c, n) ==
    [mode |-> "new", tid |-> n, digest |-> hashed[c], size |-> size[c],
     ticket |-> ZeroTicket]
ResumeRequest(c) ==
    [mode |-> "resume", tid |-> saved[c].tid, digest |-> hashed[c], size |-> size[c],
     ticket |-> saved[c].ticket]

\* Does the state file describe the content just hashed?
SourceUnchanged(c) == saved[c].digest = hashed[c] /\ saved[c].size = size[c]

\* The digest is complete: consult the state file, connect, send the header
\* and the request on the next unused connection.
Connect(c) ==
    /\ cpc[c] = "hashing"
    /\ NextBlock(c) = <<>>
    /\ saved[c] # None => SourceUnchanged(c)
    /\ \E n \in Conns \ Used :
        /\ \A m \in Conns \ Used : n <= m
        /\ request' = [request EXCEPT ![n] =
               IF saved[c] = None THEN NewRequest(c, n) ELSE ResumeRequest(c)]
        /\ spc' = [spc EXCEPT ![n] = "queued"]
        /\ conn' = [conn EXCEPT ![c] = n]
    /\ cpc' = [cpc EXCEPT ![c] = "waiting"]
    /\ UNCHANGED <<source, size, hashed, sent, saved, up, down, nxt, cur, fd, pos,
                   diskVars, modelVars>>

\* UbinSourceChanged before anything is sent.
RefuseChangedSource(c) ==
    /\ cpc[c] = "hashing"
    /\ NextBlock(c) = <<>>
    /\ saved[c] # None /\ ~SourceUnchanged(c)
    /\ Give(c)
    /\ UNCHANGED <<source, size, hashed, sent, saved, netVars, handlerVars, diskVars, modelVars>>

\* Mutant: the ticket is not stored.
StateNotSaved(h, ticket) == None
SavedState(h, ticket) ==
    [tid |-> h.tid, digest |-> h.digest, size |-> h.size, ticket |-> ticket]

\* The status arrives, is checked, and the ticket is stored before the first
\* frame is sent.
ReceiveStatus(c) ==
    LET n == conn[c] h == request[n] m == Head(down[n]) IN
    /\ cpc[c] = "waiting" /\ down[n] # <<>> /\ m.kind = "status"
    /\ m.bytes = ExpectedBytes(m.next, h.size, FrameSize)
    /\ h.mode = "resume" => m.ticket = h.ticket
    /\ down' = [down EXCEPT ![n] = Tail(@)]
    /\ saved' = [saved EXCEPT ![c] = SavedState(h, m.ticket)]
    /\ sent' = [sent EXCEPT ![c] = m.bytes]
    /\ cpc' = [cpc EXCEPT ![c] = "streaming"]
    /\ UNCHANGED <<source, size, hashed, conn, request, up, handlerVars, diskVars, modelVars>>

\* The frame the client reads from its source now.
FrameAt(c) ==
    LET h == request[conn[c]]
    IN  ReadAt(source[c], sent[c], FrameLen(sent[c], h.size, FrameSize))

SendFrame(c) ==
    LET n == conn[c] h == request[n] IN
    /\ cpc[c] = "streaming" /\ sent[c] < h.size
    /\ Len(FrameAt(c)) = FrameLen(sent[c], h.size, FrameSize)
    /\ up' = [up EXCEPT ![n] = Append(@, Frame(sent[c] \div FrameSize, FrameAt(c)))]
    /\ sent' = [sent EXCEPT ![c] = @ + Len(FrameAt(c))]
    /\ UNCHANGED <<source, cpc, size, hashed, conn, saved, request, down, handlerVars,
                   diskVars, modelVars>>

\* A short read of the source ends the attempt.
AbandonShortSource(c) ==
    LET h == request[conn[c]] IN
    /\ cpc[c] = "streaming" /\ sent[c] < h.size
    /\ Len(FrameAt(c)) # FrameLen(sent[c], h.size, FrameSize)
    /\ Give(c)
    /\ UNCHANGED <<source, size, hashed, sent, saved, netVars, handlerVars, diskVars, modelVars>>

SendFinal(c) ==
    LET n == conn[c] h == request[n] IN
    /\ cpc[c] = "streaming" /\ sent[c] = h.size
    /\ up' = [up EXCEPT ![n] = Append(@, Final(h.digest))]
    /\ cpc' = [cpc EXCEPT ![c] = "finishing"]
    /\ UNCHANGED <<source, size, hashed, conn, sent, saved, request, down, handlerVars,
                   diskVars, modelVars>>

\* A matching acknowledgement: the state file goes and the receipt is returned.
ReceiveAck(c) ==
    LET n == conn[c] h == request[n] m == Head(down[n]) IN
    /\ cpc[c] = "finishing" /\ down[n] # <<>> /\ m.kind = "ack"
    /\ m.tid = h.tid /\ m.digest = h.digest
    /\ down' = [down EXCEPT ![n] = Tail(@)]
    /\ saved' = [saved EXCEPT ![c] = None]
    /\ cpc' = [cpc EXCEPT ![c] = "done"]
    /\ conn' = [conn EXCEPT ![c] = None]
    /\ UNCHANGED <<source, size, hashed, sent, request, up, handlerVars, diskVars, modelVars>>

\* Mutant: a connection that closes after the final record counts as success.
CloseIsSuccess(c) ==
    /\ cpc[c] \in {"waiting", "streaming", "finishing"}
    /\ spc[conn[c]] = "closed" /\ down[conn[c]] = <<>>
    /\ cpc' = [cpc EXCEPT ![c] = IF @ = "finishing" THEN "done" ELSE "idle"]
    /\ conn' = [conn EXCEPT ![c] = None]
    /\ UNCHANGED <<source, size, hashed, sent, saved, netVars, handlerVars, diskVars, modelVars>>

\* Mutant: no timeout while waiting for the acknowledgement.
WaitForever(c) ==
    /\ cpc[c] \in {"waiting", "streaming"}
    /\ spc[conn[c]] = "closed" /\ down[conn[c]] = <<>>
    /\ Give(c)
    /\ UNCHANGED <<source, size, hashed, sent, saved, netVars, handlerVars, diskVars, modelVars>>

\* The server closed the connection, with or without an error record.
ReceiveEnd(c) ==
    /\ cpc[c] \in {"waiting", "streaming", "finishing"}
    /\ spc[conn[c]] = "closed" /\ down[conn[c]] = <<>>
    /\ Give(c)
    /\ UNCHANGED <<source, size, hashed, sent, saved, netVars, handlerVars, diskVars, modelVars>>
-----------------------------------------------------------------------------
(* The server: receive_resumable_after_magic on connection n. *)

\* An exception leaves the handler: the descriptor and the socket are closed.
Leave(n) == spc' = [spc EXCEPT ![n] = "closed"]

\* serve_once accepts the next connection and completes the handshake with
\* its client; a single-threaded server is still busy with the previous
\* handler until that one has returned.
Accept(n) ==
    /\ spc[n] = "queued" /\ Attached(n)
    /\ Concurrent \/ \A m \in Conns : ~Active(m)
    /\ spc' = [spc EXCEPT ![n] = "accepted"]
    /\ UNCHANGED <<clientVars, netVars, nxt, cur, fd, pos, diskVars, modelVars>>

\* The handshake fails when the client has left the backlog.
DropQueued(n) ==
    /\ spc[n] = "queued" /\ ~Attached(n)
    /\ Leave(n)
    /\ UNCHANGED <<clientVars, netVars, nxt, cur, fd, pos, diskVars, modelVars>>

\* Mutant: the existence check is lost.
NeverTaken == FALSE
DestinationTaken == dest # None /\ ~Overwrite

NewAllowed(h) == h.ticket = ZeroTicket /\ ckpt[h.tid] = None /\ ~DestinationTaken

\* A NEW transfer: an old partial file is unlinked, an empty one created.
CreatePartial(n) ==
    LET h == request[n] IN
    /\ spc[n] = "accepted" /\ h.mode = "new" /\ NewAllowed(h)
    /\ partial' = [partial EXCEPT ![h.tid] = n]
    /\ file' = [file EXCEPT ![n] = <<>>]
    /\ synced' = [synced EXCEPT ![n] = <<>>]
    /\ nxt' = [nxt EXCEPT ![n] = 0]
    /\ cur' = [cur EXCEPT ![n] = 0]
    /\ spc' = [spc EXCEPT ![n] = "created"]
    /\ UNCHANGED <<clientVars, netVars, fd, pos, ckpt, dest, modelVars>>

\* Mutant: the first checkpoint is left to the first frame.
FirstCheckpointDeferred(n) ==
    /\ spc[n] = "created"
    /\ spc' = [spc EXCEPT ![n] = "admitted"]
    /\ UNCHANGED <<clientVars, netVars, nxt, cur, fd, pos, diskVars, modelVars>>

\* The checkpoint of no frames, written before the status is sent.
WriteFirstCheckpoint(n) ==
    LET h == request[n] IN
    /\ spc[n] = "created"
    /\ ckpt' = [ckpt EXCEPT ![h.tid] = CheckpointOf(h, 0, 0)]
    /\ spc' = [spc EXCEPT ![n] = "admitted"]
    /\ UNCHANGED <<clientVars, netVars, nxt, cur, fd, pos, file, synced, partial, dest, modelVars>>

\* _validate_server_state up to the existence of the partial file.
ValidState(h) ==
    LET k == ckpt[h.tid] IN
    /\ k # None
    /\ k = CheckpointOf(h, k.next, ExpectedBytes(k.next, h.size, FrameSize))
    /\ k.next <= Count(h)
    /\ partial[h.tid] # None

ResumeAllowed(h) == h.ticket = Ticket(h) /\ ValidState(h)

\* A RESUME: the handler takes its position from the checkpoint it read.
LoadCheckpoint(n) ==
    LET h == request[n] IN
    /\ spc[n] = "accepted" /\ h.mode = "resume" /\ ResumeAllowed(h)
    /\ nxt' = [nxt EXCEPT ![n] = ckpt[h.tid].next]
    /\ cur' = [cur EXCEPT ![n] = ckpt[h.tid].bytes]
    /\ spc' = [spc EXCEPT ![n] = "loaded"]
    /\ UNCHANGED <<clientVars, netVars, fd, pos, diskVars, modelVars>>

RejectRequest(n) ==
    LET h == request[n] IN
    /\ spc[n] = "accepted"
    /\ \/ h.mode = "new" /\ ~NewAllowed(h)
       \/ h.mode = "resume" /\ ~ResumeAllowed(h)
    /\ Leave(n)
    /\ UNCHANGED <<clientVars, netVars, nxt, cur, fd, pos, diskVars, modelVars>>

\* Mutant: a partial file longer than its checkpoint is refused.
RollBackRefused(n) ==
    LET i == partial[request[n].tid] IN
    /\ spc[n] = "loaded"
    /\ i # None /\ Len(file[i]) >= cur[n]
    /\ spc' = [spc EXCEPT ![n] =
                  IF Len(file[i]) > cur[n] \/ DestinationTaken THEN "closed" ELSE "admitted"]
    /\ UNCHANGED <<clientVars, netVars, nxt, cur, fd, pos, diskVars, modelVars>>

\* Bytes beyond the checkpoint are cut off, durably; then the destination is
\* checked.
RollBack(n) ==
    LET i == partial[request[n].tid] IN
    /\ spc[n] = "loaded"
    /\ i # None /\ Len(file[i]) >= cur[n]
    /\ IF Len(file[i]) > cur[n]
       THEN /\ file' = [file EXCEPT ![i] = TruncateTo(@, cur[n])]
            /\ synced' = [synced EXCEPT ![i] = file'[i]]
       ELSE UNCHANGED <<file, synced>>
    /\ spc' = [spc EXCEPT ![n] = IF DestinationTaken THEN "closed" ELSE "admitted"]
    /\ UNCHANGED <<clientVars, netVars, nxt, cur, fd, pos, partial, ckpt, dest, modelVars>>

\* The partial file vanished meanwhile, or is shorter than the checkpoint.
RefuseShortPartial(n) ==
    LET i == partial[request[n].tid] IN
    /\ spc[n] = "loaded"
    /\ i = None \/ (i # None /\ Len(file[i]) < cur[n])
    /\ Leave(n)
    /\ UNCHANGED <<clientVars, netVars, nxt, cur, fd, pos, diskVars, modelVars>>

\* The status is sent, then the partial file is opened by name and positioned.
SendStatus(n) ==
    LET h == request[n] i == partial[request[n].tid] IN
    /\ spc[n] = "admitted"
    /\ down' = [down EXCEPT ![n] = Append(@, Status(nxt[n], cur[n], Ticket(h)))]
    /\ spc' = [spc EXCEPT ![n] = IF i = None THEN "closed" ELSE "receiving"]
    /\ fd' = [fd EXCEPT ![n] = i]
    /\ pos' = [pos EXCEPT ![n] = cur[n]]
    /\ UNCHANGED <<clientVars, request, up, nxt, cur, diskVars, modelVars>>

\* How many of k bytes one raw write stores.
Stored(k) == IF ShortWrites /\ k > 0 THEN 1 .. k ELSE {k}

\* The next frame passes the number and length checks, and is written at the
\* descriptor's own offset.  The code takes the whole frame as written.
ReceiveFrame(n) ==
    LET h == request[n] m == Head(up[n]) IN
    /\ spc[n] = "receiving" /\ nxt[n] < Count(h)
    /\ up[n] # <<>> /\ m.kind = "frame" /\ m.number = nxt[n]
    /\ Len(m.data) = FrameLen(cur[n], h.size, FrameSize)
    /\ up' = [up EXCEPT ![n] = Tail(@)]
    /\ \E k \in Stored(Len(m.data)) :
        /\ file' = [file EXCEPT ![fd[n]] =
                       WriteAt(@, pos[n], SubSeq(m.data, 1, k), Hole)]
        /\ pos' = [pos EXCEPT ![n] = @ + k]
    /\ cur' = [cur EXCEPT ![n] = @ + Len(m.data)]
    /\ nxt' = [nxt EXCEPT ![n] = @ + 1]
    /\ spc' = [spc EXCEPT ![n] = "written"]
    /\ UNCHANGED <<clientVars, request, down, fd, synced, partial, ckpt, dest, modelVars>>

\* Mutant: the fsync before the checkpoint is dropped.
SyncSkipped(n) ==
    /\ spc[n] = "written"
    /\ spc' = [spc EXCEPT ![n] = "synced"]
    /\ UNCHANGED <<clientVars, netVars, nxt, cur, fd, pos, diskVars, modelVars>>

SyncFrame(n) ==
    /\ spc[n] = "written"
    /\ synced' = [synced EXCEPT ![fd[n]] = file[fd[n]]]
    /\ spc' = [spc EXCEPT ![n] = "synced"]
    /\ UNCHANGED <<clientVars, netVars, nxt, cur, fd, pos, file, partial, ckpt, dest, modelVars>>

\* The checkpoint file is replaced atomically, after the data is durable.
AdvanceCheckpoint(n) ==
    LET h == request[n] IN
    /\ spc[n] = "synced"
    /\ ckpt' = [ckpt EXCEPT ![h.tid] = CheckpointOf(h, nxt[n], cur[n])]
    /\ spc' = [spc EXCEPT ![n] = "receiving"]
    /\ UNCHANGED <<clientVars, netVars, nxt, cur, fd, pos, file, synced, partial, dest, modelVars>>

\* All frames are in and the final record carries the digest of the header;
\* the file is fsynced once more and closed.
ReceiveFinal(n) ==
    LET h == request[n] m == Head(up[n]) IN
    /\ spc[n] = "receiving" /\ nxt[n] = Count(h) /\ cur[n] = h.size
    /\ up[n] # <<>> /\ m.kind = "final" /\ m.digest = h.digest
    /\ up' = [up EXCEPT ![n] = Tail(@)]
    /\ synced' = [synced EXCEPT ![fd[n]] = file[fd[n]]]
    /\ fd' = [fd EXCEPT ![n] = None]
    /\ spc' = [spc EXCEPT ![n] = "complete"]
    /\ UNCHANGED <<clientVars, request, down, nxt, cur, pos, file, partial, ckpt, dest, modelVars>>

\* Mutant: the size is compared instead of the digest.
IntactBySize(h) == Len(file[partial[h.tid]]) = h.size
\* The digest of the whole partial file against the one of the header.
Intact(h) == file[partial[h.tid]] = h.digest

Rehash(n) ==
    LET h == request[n] IN
    /\ spc[n] = "complete"
    /\ spc' = [spc EXCEPT ![n] = IF partial[h.tid] = None THEN "closed"
                                 ELSE IF Intact(h) THEN "verified" ELSE "rejected"]
    /\ UNCHANGED <<clientVars, netVars, nxt, cur, fd, pos, diskVars, modelVars>>

\* Mutant: the destination is hard-linked and the partial name stays.
PublishByLink(n) ==
    LET t == request[n].tid IN
    /\ spc[n] = "verified" /\ partial[t] # None
    /\ dest' = partial[t]
    /\ outcome' = [outcome EXCEPT ![t] = "published"]
    /\ spc' = [spc EXCEPT ![n] = "published"]
    /\ UNCHANGED <<clientVars, netVars, nxt, cur, fd, pos, file, synced, partial, ckpt, faults, edits>>

\* os.replace(partial_path, destination): fails if the name is gone.
Publish(n) ==
    LET t == request[n].tid IN
    /\ spc[n] = "verified"
    /\ IF partial[t] = None
       THEN Leave(n) /\ UNCHANGED <<partial, dest, outcome>>
       ELSE /\ dest' = partial[t]
            /\ partial' = [partial EXCEPT ![t] = None]
            /\ outcome' = [outcome EXCEPT ![t] = "published"]
            /\ spc' = [spc EXCEPT ![n] = "published"]
    /\ UNCHANGED <<clientVars, netVars, nxt, cur, fd, pos, file, synced, ckpt, faults, edits>>

\* state_path.unlink once the file is published; the acknowledgement follows.
RemoveCheckpoint(n) ==
    /\ spc[n] = "published"
    /\ ckpt' = [ckpt EXCEPT ![request[n].tid] = None]
    /\ spc' = [spc EXCEPT ![n] = "cleared"]
    /\ UNCHANGED <<clientVars, netVars, nxt, cur, fd, pos, file, synced, partial, dest, modelVars>>

Acknowledge(n) ==
    LET h == request[n] IN
    /\ spc[n] = "cleared"
    /\ down' = [down EXCEPT ![n] = Append(@, Ack(h.digest, h.tid))]
    /\ Leave(n)
    /\ UNCHANGED <<clientVars, request, up, nxt, cur, fd, pos, diskVars, modelVars>>

\* _discard_server_state: the partial file first, the checkpoint second.
DiscardPartial(n) ==
    LET t == request[n].tid IN
    /\ spc[n] = "rejected"
    /\ partial' = [partial EXCEPT ![t] = None]
    /\ outcome' = [outcome EXCEPT ![t] = "discarded"]
    /\ spc' = [spc EXCEPT ![n] = "discarding"]
    /\ UNCHANGED <<clientVars, netVars, nxt, cur, fd, pos, file, synced, ckpt, dest, faults, edits>>

DiscardCheckpoint(n) ==
    /\ spc[n] = "discarding"
    /\ ckpt' = [ckpt EXCEPT ![request[n].tid] = None]
    /\ Leave(n)
    /\ UNCHANGED <<clientVars, netVars, nxt, cur, fd, pos, file, synced, partial, dest, modelVars>>

\* The peer is gone and everything it sent has been consumed.
ReachEndOfInput(n) ==
    /\ spc[n] = "receiving" /\ up[n] = <<>> /\ ~Attached(n)
    /\ Leave(n)
    /\ UNCHANGED <<clientVars, netVars, nxt, cur, fd, pos, diskVars, modelVars>>
-----------------------------------------------------------------------------
(* Faults and edits: each is counted against a bound. *)

Fault == faults < MaxFaults /\ faults' = faults + 1 /\ UNCHANGED <<outcome, edits>>

\* The client process is killed, times out or loses its connection.
ClientAbort(c) ==
    /\ cpc[c] \notin {"idle", "done"}
    /\ Give(c)
    /\ Fault
    /\ UNCHANGED <<source, size, hashed, sent, saved, netVars, handlerVars, diskVars>>

\* A reset or timed out connection, or an OSError of a file operation, ends
\* one handler; nothing is cleaned up.
HandlerAbort(n) ==
    /\ Active(n)
    /\ Leave(n)
    /\ Fault
    /\ UNCHANGED <<clientVars, netVars, nxt, cur, fd, pos, diskVars>>

\* The server process is killed; it is restarted on the same directories.
EndAllHandlers ==
    spc' = [n \in Conns |-> IF spc[n] = "none" THEN "none" ELSE "closed"]

ServerCrash ==
    /\ \E n \in Conns : spc[n] \notin {"none", "closed"}
    /\ EndAllHandlers
    /\ Fault
    /\ UNCHANGED <<clientVars, netVars, nxt, cur, fd, pos, diskVars>>

\* What a checkpoint file may hold after power is lost: the directory is not
\* fsynced after os.replace, so any earlier version may be the one that
\* survives.  That the name exists at all is taken as durable, here as for
\* the partial file and the destination.
OlderCheckpoints(k) ==
    {[k EXCEPT !.next = i, !.bytes = ExpectedBytes(i, k.size, FrameSize)] :
        i \in 0 .. k.next}

\* Power is lost: unsynced data is gone.
PowerLoss ==
    /\ EndAllHandlers
    /\ file' = synced
    /\ \E t \in Conns :
        \/ UNCHANGED ckpt
        \/ /\ ckpt[t] # None
           /\ \E k \in OlderCheckpoints(ckpt[t]) : ckpt' = [ckpt EXCEPT ![t] = k]
    /\ Fault
    /\ UNCHANGED <<clientVars, netVars, nxt, cur, fd, pos, synced, partial, dest>>

\* Another program writes the source in place.
EditSource(c) ==
    /\ edits < MaxEdits
    /\ \E s \in Contents \ {source[c]} : source' = [source EXCEPT ![c] = s]
    /\ edits' = edits + 1
    /\ UNCHANGED <<cpc, size, hashed, conn, sent, saved, netVars, handlerVars, diskVars,
                   outcome, faults>>
-----------------------------------------------------------------------------
Init ==
    /\ source \in [Clients -> Contents]
    /\ cpc = [c \in Clients |-> "idle"]
    /\ size = [c \in Clients |-> 0]
    /\ hashed = [c \in Clients |-> <<>>]
    /\ conn = [c \in Clients |-> None]
    /\ sent = [c \in Clients |-> 0]
    /\ saved = [c \in Clients |-> None]
    /\ request = [n \in Conns |-> None]
    /\ up = [n \in Conns |-> <<>>]
    /\ down = [n \in Conns |-> <<>>]
    /\ spc = [n \in Conns |-> "none"]
    /\ nxt = [n \in Conns |-> 0]
    /\ cur = [n \in Conns |-> 0]
    /\ fd = [n \in Conns |-> None]
    /\ pos = [n \in Conns |-> 0]
    /\ file = [n \in Conns |-> <<>>]
    /\ synced = [n \in Conns |-> <<>>]
    /\ partial = [n \in Conns |-> None]
    /\ ckpt = [n \in Conns |-> None]
    /\ dest = None
    /\ outcome = [n \in Conns |-> "open"]
    /\ faults = 0 /\ edits = 0

ClientStep(c) ==
    \/ Open(c) \/ HashOneBlock(c) \/ Connect(c) \/ RefuseChangedSource(c)
    \/ ReceiveStatus(c) \/ SendFrame(c) \/ AbandonShortSource(c) \/ SendFinal(c)
    \/ ReceiveAck(c) \/ ReceiveEnd(c)

HandlerStep(n) ==
    \/ Accept(n) \/ DropQueued(n) \/ CreatePartial(n) \/ WriteFirstCheckpoint(n) \/ LoadCheckpoint(n)
    \/ RejectRequest(n) \/ RollBack(n) \/ RefuseShortPartial(n) \/ SendStatus(n)
    \/ ReceiveFrame(n) \/ SyncFrame(n) \/ AdvanceCheckpoint(n) \/ ReceiveFinal(n)
    \/ Rehash(n) \/ Publish(n) \/ RemoveCheckpoint(n) \/ Acknowledge(n)
    \/ DiscardPartial(n) \/ DiscardCheckpoint(n) \/ ReachEndOfInput(n)

Next ==
    \/ \E c \in Clients : ClientStep(c) \/ ClientAbort(c) \/ EditSource(c)
    \/ \E n \in Conns : HandlerStep(n) \/ HandlerAbort(n)
    \/ ServerCrash
    \/ PowerLoss

Spec == Init /\ [][Next]_vars
-----------------------------------------------------------------------------
(* Properties. *)

ClientPCs  == {"idle", "hashing", "waiting", "streaming", "finishing", "done"}
HandlerPCs == Closed \cup
    {"accepted", "created", "loaded", "admitted", "receiving", "written", "synced",
     "complete", "verified", "rejected", "published", "cleared",
     "discarding"}

\* The type of every variable.
ClientTypes ==
    /\ source \in [Clients -> Seq(Byte)]
    /\ cpc \in [Clients -> ClientPCs]
    /\ size \in [Clients -> Nat]
    /\ hashed \in [Clients -> Seq(Byte)]
    /\ conn \in [Clients -> Conns \cup {None}]
    /\ sent \in [Clients -> Nat]
    /\ saved \in [Clients -> Saves \cup {None}]
NetTypes ==
    /\ request \in [Conns -> Headers \cup {None}]
    /\ up \in [Conns -> Seq(UpMsgs)]
    /\ down \in [Conns -> Seq(DownMsgs)]
HandlerTypes ==
    /\ spc \in [Conns -> HandlerPCs]
    /\ nxt \in [Conns -> Nat]
    /\ cur \in [Conns -> Nat]
    /\ fd \in [Conns -> Conns \cup {None}]
    /\ pos \in [Conns -> Nat]
DiskTypes ==
    /\ file \in [Conns -> Seq(Byte)]
    /\ synced \in [Conns -> Seq(Byte)]
    /\ partial \in [Conns -> Conns \cup {None}]
    /\ ckpt \in [Conns -> Ckpts \cup {None}]
    /\ dest \in Conns \cup {None}
ModelTypes ==
    /\ outcome \in [Conns -> {"open", "published", "discarded"}]
    /\ faults \in 0 .. MaxFaults
    /\ edits \in 0 .. MaxEdits
TypeOK == ClientTypes /\ NetTypes /\ HandlerTypes /\ DiskTypes /\ ModelTypes

\* The destination never holds a truncated, torn or partly written file: it
\* is byte for byte the content whose digest the sender of that transfer
\* announced, and it is already on stable storage (resume.py: final record,
\* fsync, re-hash, os.replace).
PublishedVerified ==
    dest # None => /\ request[dest] # None
                   /\ file[dest] = request[dest].digest
                   /\ synced[dest] = file[dest]

\* A checkpoint never covers bytes that a power loss could take back, and,
\* as long as nobody edited a source, the bytes it covers are the prefix of
\* the announced content (resume.py: write, fsync, then the checkpoint).
CheckpointDurable ==
    \A t \in Conns :
        ckpt[t] # None /\ partial[t] # None =>
            LET k == ckpt[t] s == synced[partial[t]] IN
            /\ k.bytes <= Len(s)
            /\ edits = 0 => SubSeq(s, 1, k.bytes) = SubSeq(k.digest, 1, k.bytes)

\* What a RESUME of transfer t needs to find on the server's disk.
Resumable(t) ==
    /\ ckpt[t] # None /\ partial[t] # None
    /\ ckpt[t].bytes <= Len(file[partial[t]])

\* A ticket the client has stored is honoured until the transfer is over:
\* across crashes and lost connections on both sides the server can go on
\* from its checkpoint (resume.py: the first checkpoint precedes the status).
ResumableUntilFinished ==
    \A c \in Clients :
        saved[c] # None /\ outcome[saved[c].tid] = "open" => Resumable(saved[c].tid)

\* Checkpointed frames are never orphaned: some client holds the ticket that
\* resumes them (resume.py: "Persist opaque resume authorization before the
\* first frame").
ProgressHasOwner ==
    \A t \in Conns :
        ckpt[t] # None /\ ckpt[t].next > 0 =>
            \E c \in Clients : saved[c] # None /\ saved[c].tid = t

\* A sender that gets its receipt sent exactly what it hashed, and the whole
\* of it was published before (resume.py: acknowledgement after os.replace).
ReceiptMeansPublished ==
    [][\A c \in Clients :
        cpc[c] # "done" /\ cpc'[c] = "done" =>
            LET t == request[conn[c]].tid IN
            outcome[t] = "published" /\ file[t] = hashed[c]]_vars

\* A published file is never modified in place, and without overwrite it is
\* never replaced, whatever other transfers to the same name are going on.
DestinationKept ==
    [][dest # None =>
        \/ dest' = dest /\ file'[dest] = file[dest]
        \/ Overwrite /\ dest' \notin {None, dest}]_vars

\* The whole transfer implements the abstract one: one step makes the
\* destination appear, receipts follow deliveries.
Abstract == INSTANCE AbstractTransfer WITH
    offers    <- {request[n].digest : n \in Used},
    delivered <- {request[t].digest : t \in {u \in Conns : outcome[u] = "published"}},
    place     <- IF dest = None THEN None ELSE file[dest],
    receipt   <- [c \in Clients |-> IF cpc[c] = "done" THEN hashed[c] ELSE None]
ImplementsAbstract == Abstract!Spec
-----------------------------------------------------------------------------
(* The inductive invariant of a single-threaded server. *)

\* A running call holds a connection whose header was sent, every handler
\* has a header, a NEW transfer is named after its connection, and a handler
\* that receives frames has a descriptor.
CallsHaveHeaders ==
    \A c \in Clients :
        cpc[c] \in {"waiting", "streaming", "finishing"} =>
            conn[c] \in Conns /\ request[conn[c]] # None
HandlersHaveHeaders == \A n \in Conns : spc[n] = "none" <=> request[n] = None
NewIsFresh ==
    \A n \in Conns :
        request[n] # None => (request[n].mode = "new" => request[n].tid = n)
DescriptorsOpen ==
    \A n \in Conns : spc[n] \in {"receiving", "written", "synced"} => fd[n] # None
Connected == CallsHaveHeaders /\ HandlersHaveHeaders /\ NewIsFresh /\ DescriptorsOpen

\* Without threads, at most one handler runs.
OneHandler ==
    Concurrent \/ \A m, n \in Conns : Active(m) /\ Active(n) => m = n

\* An inode has one name at most, and belongs to a transfer that was started.
Started(t) ==
    /\ spc[t] \notin {"none", "queued", "accepted"}
    /\ request[t].mode = "new"
NamesDisjoint ==
    /\ \A t \in Conns : partial[t] \in {None, t}
    /\ \A t \in Conns : partial[t] = t \/ dest = t => Started(t)
    /\ dest # None => partial[dest] = None

\* Checkpoints and admitted handlers agree with the header that started the
\* transfer.
DigestsAgree ==
    /\ \A t \in Conns : ckpt[t] # None =>
        request[t] # None /\ ckpt[t].digest = request[t].digest
    /\ \A n \in Conns : Active(n) /\ spc[n] # "accepted" =>
        LET t == request[n].tid IN
        request[t] # None /\ request[n].digest = request[t].digest

\* What a handler has done to its partial file cannot have been undone.
HandlerOwnsPartial ==
    \A n \in Conns :
        LET t == request[n].tid IN
        /\ spc[n] \in {"receiving", "written", "synced"} => fd[n] = t /\ partial[t] = t
        /\ spc[n] \in {"complete", "verified"} => partial[t] = t /\ synced[t] = file[t]
        /\ spc[n] = "verified" => file[t] = request[n].digest

\* The destination that was free when a transfer was admitted still is.
Admitted == {"created", "admitted", "receiving", "written", "synced", "complete", "verified"}
RoomForOne == \A n \in Conns : spc[n] \in Admitted => Overwrite \/ dest = None

\* A single-threaded server admits transfers, stores their frames and
\* publishes them without one handler undoing the work or the checks of
\* another (network.py serve_once, resume.py).
SequentialInv ==
    /\ Connected /\ OneHandler /\ NamesDisjoint /\ DigestsAgree
    /\ HandlerOwnsPartial /\ RoomForOne /\ PublishedVerified
-----------------------------------------------------------------------------
(* Fairness.  Every step of a running call or handler is taken: blocking   *)
(* reads and writes have timeouts, and a closed peer is noticed.  That the *)
(* user calls again after a failure is an assumption of its own.           *)
Fairness ==
    /\ \A c \in Clients : WF_vars(ClientStep(c))
    /\ \A n \in Conns : WF_vars(HandlerStep(n))

FairSpec == Spec /\ Fairness

\* Every call of send_resumable_file returns or raises.
AttemptEnds ==
    \A c \in Clients : cpc[c] \notin {"idle", "done"} ~> cpc[c] \in {"idle", "done"}

\* A client that keeps retrying an unedited source gets it published, whatever
\* crashes and disconnects came before (checked where MaxFaults < MaxAttempts,
\* so that one attempt meets no fault, and MaxEdits = 0).
Delivered == <>(dest # None)

\* Documented promise: a transfer that was interrupted can be continued.  A
\* client that is not running and still holds a ticket finds its transfer
\* resumable once no handler is running.
IdleTicketResumable ==
    \A c \in Clients :
        /\ cpc[c] = "idle" /\ saved[c] # None
        /\ \A n \in Conns : ~Active(n)
        => Resumable(saved[c].tid)
=============================================================================
