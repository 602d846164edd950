----------------------------- MODULE KrpTransfer -----------------------------
(***************************************************************************)
(* The resumable transfer of wire format v0.5 (secure/krp_transfer.py):    *)
(* the protocol of ResumableTransfer with every sealed frame permuted by   *)
(* the keyed layout of krp.py.  This module looks at what that one takes   *)
(* for granted: session keys and nonces that are new on every connection,  *)
(* the secret that tickets are made with, which servers share on disk, and *)
(* directories whose changes reach stable storage later than the call that *)
(* made them.                                                              *)
(*                                                                         *)
(* One server, Main, serves connections one at a time; every other server  *)
(* runs on the same state directory and serves other transfers: only the   *)
(* secret it loads or creates is modelled.  Connection n has session key n *)
(* and nonce base n; a transfer and its partial file are named after the   *)
(* connection that created them.  A digest is the content it was computed  *)
(* from.  Opening and hashing a source is one step here, and a raw write   *)
(* stores all it is given.                                                 *)
(***************************************************************************)
EXTENDS KrpLayout, FiniteSets

CONSTANTS
    Clients,          \* senders of a file with the same basename
    Contents,         \* what a source may hold
    FrameSize,        \* payload bytes of a full frame
    TagSize,          \* bytes the authentication tag adds
    BlockSize,        \* bytes of a permuted block
    RoundTable(_, _), \* round values of the layout under a key and a context
    Main, Others,     \* the server of the transfers, and those beside it
    Overwrite,        \* SecureServer(overwrite=...)
    InterruptAfter,   \* _interrupt_once_after_frames, or None
    MaxAttempts,      \* bound: connections
    MaxFaults,        \* bound: aborts, crashes and power losses
    MaxEdits,         \* bound: in-place modifications of a source
    MaxSecrets,       \* bound: secrets drawn
    None

Servers == {Main} \cup Others
Conns   == 1 .. MaxAttempts
Secrets == 1 .. MaxSecrets
Unset   == 0                    \* no secret, or a file that holds none

\* Headers with their request records, and checkpoint files.
Tickets == Nat \X Conns \X Seq(Nat)
Headers == [mode : {"new", "resume"}, tid : Conns, nonce : Conns, digest : Seq(Nat),
            ticket : Tickets \cup {<<>>}]
Ckpts   == [tid : Conns, digest : Seq(Nat), next : Nat, bytes : Nat]

\* Complete blocks of the ciphertext of len bytes.
FrameBlocks(len) == (len + TagSize) \div BlockSize

ASSUME KrpConstants ==
    /\ Contents \subseteq Seq(Nat)
    /\ FrameSize \in Nat \ {0} /\ TagSize \in Nat /\ BlockSize \in Nat \ {0}
    /\ Main \notin Others /\ Overwrite \in BOOLEAN
    /\ InterruptAfter \in Nat \cup {None}
    /\ MaxAttempts \in Nat /\ MaxFaults \in Nat /\ MaxEdits \in Nat /\ MaxSecrets \in Nat
    /\ None \notin Nat /\ None \notin Headers /\ None \notin Ckpts

\* What the HMAC gives under the keys and for the frames of this system.
ASSUME KrpRounds ==
    \A key \in Conns \X Conns, t, m \in Conns, len \in 1 .. FrameSize, x \in Contents :
        FrameBlocks(len) > 1 =>
            \A number \in 0 .. FrameCount(Len(x), FrameSize) :
                RoundValues(RoundTable(key, <<t, m, number>>), HalfBits(FrameBlocks(len)))

VARIABLES
    source,     \* source[c]: content of the file c sends
    cpc,        \* cpc[c]: where the call of send_krp_resumable_file stands
    digest,     \* digest[c]: what the call hashed
    conn,       \* conn[c]: the connection c holds, or None
    sent,       \* sent[c]: offset of the next byte to send
    first,      \* first[c]: frame the status told c to start at
    saved,      \* saved[c]: the client's state file, or None
    request,    \* request[n]: header and request record of n, or None
    up, down,   \* up[n], down[n]: messages to and from the server
    closed,     \* connections the server has shut
    hconn,      \* the connection Main serves, or None
    hpc,        \* where its handler stands
    start,      \* the frame it told the client to start at
    nxt, cur,   \* next frame and byte expected
    triggered,  \* _interruption_triggered
    held,       \* held[s]: _resume_secret of server s, or Unset
    spc,        \* spc[s]: where _load_or_create_server_secret of s stands
    mine,       \* mine[s]: the secret s has drawn and is storing
    drawn,      \* how many secrets have been drawn: no two are the same
    text,       \* text[i]: the secret inode i holds, or Unset
    stored,     \* stored[i]: what stable storage holds of it
    file,       \* file[t]: content of the inode created for transfer t
    synced,     \* synced[t]: what stable storage holds of it
    dir,        \* names on disk as every process sees them
    journal,    \* the state of the names that a power loss leaves
    delivered,  \* transfers whose file has been at the destination (history)
    faults, edits

clientVars  == <<source, cpc, digest, conn, sent, first, saved>>
netVars     == <<request, up, down, closed>>
handlerVars == <<hconn, hpc, start, nxt, cur, triggered>>
secretVars  == <<held, spc, mine, drawn, text, stored>>
dataVars    == <<file, synced>>
nameVars    == <<dir, journal>>
modelVars   == <<delivered, faults, edits>>
vars == <<clientVars, netVars, handlerVars, secretVars, dataVars, nameVars, modelVars>>
-----------------------------------------------------------------------------
(* Keys, tickets and sealed frames.                                        *)

Size(h)  == Len(h.digest)
Count(h) == FrameCount(Size(h), FrameSize)

\* HMAC over the stable header fields: the nonce base is not among them.
Ticket(secret, h) == <<secret, h.tid, h.digest>>

\* HKDF of the session key, salted with the transfer identifier.
TransferKey(n, h) == <<n, h.tid>>

\* What ties a sealed frame to its place: key, nonce, and the header, status
\* and frame record in the associated data.
Binding(n, h, from, number, len) ==
    [key |-> TransferKey(n, h), nonce |-> <<h.nonce, number>>,
     aad |-> <<h.tid, from, number, len>>]

\* The layout of a ciphertext of len + TagSize bytes under frame_context.
FrameLayout(n, h, number, len) ==
    Layout(FrameBlocks(len),
           RoundTable(TransferKey(n, h), <<h.tid, h.nonce, number>>))

\* The bytes of a ciphertext, in order.
Cells(len) == [p \in 1 .. len + TagSize |-> p]

\* Mutant: the context counts the frames of this attempt.
SealFromStart(n, h, from, number, data) ==
    [kind |-> "frame", number |-> number, len |-> Len(data),
     bound |-> Binding(n, h, from, number, Len(data)), data |-> data,
     cells |-> PermuteBlocks(Cells(Len(data)), BlockSize,
                             FrameLayout(n, h, number - from, Len(data)))]
Seal(n, h, from, number, data) ==
    [kind |-> "frame", number |-> number, len |-> Len(data),
     bound |-> Binding(n, h, from, number, Len(data)), data |-> data,
     cells |-> PermuteBlocks(Cells(Len(data)), BlockSize,
                             FrameLayout(n, h, number, Len(data)))]

\* The tag verifies: the ciphertext is whole and in order, and was sealed for
\* this place under this key.
Opens(n, h, from, number, m) ==
    /\ RestoreBlocks(m.cells, BlockSize, FrameLayout(n, h, number, m.len)) = Cells(m.len)
    /\ m.bound = Binding(n, h, from, number, m.len)

Status(i, b, ticket) == [kind |-> "status", next |-> i, bytes |-> b, ticket |-> ticket]
Final(d)  == [kind |-> "final", digest |-> d]
Ack(d, t) == [kind |-> "ack", digest |-> d, tid |-> t]

Used == {n \in Conns : request[n] # None}
Attached(n) == \E c \in Clients : conn[c] = n
-----------------------------------------------------------------------------
(* The client: send_krp_resumable_file.                                    *)

\* The call raises; its state file stays.
Give(c) == /\ cpc' = [cpc EXCEPT ![c] = "idle"]
           /\ conn' = [conn EXCEPT ![c] = None]

Hash(c) ==
    /\ cpc[c] \in {"idle", "done"} /\ Used # Conns
    /\ digest' = [digest EXCEPT ![c] = source[c]]
    /\ cpc' = [cpc EXCEPT ![c] = "hashed"]
    /\ UNCHANGED <<source, conn, sent, first, saved, netVars, handlerVars, secretVars,
                   dataVars, nameVars, modelVars>>

\* A NEW request carries a fresh identifier and the zero ticket, a RESUME
\* those of the state file; the nonce base is fresh in both.
RequestOn(c, n) ==
    IF saved[c] = None
    THEN [mode |-> "new", tid |-> n, nonce |-> n, digest |-> digest[c], ticket |-> <<>>]
    ELSE [mode |-> "resume", tid |-> saved[c].tid, nonce |-> n, digest |-> digest[c],
          ticket |-> saved[c].ticket]

Connect(c) ==
    /\ cpc[c] = "hashed"
    /\ saved[c] # None => saved[c].digest = digest[c]
    /\ \E n \in Conns \ Used :
        /\ \A m \in Conns \ Used : n <= m
        /\ request' = [request EXCEPT ![n] = RequestOn(c, n)]
        /\ conn' = [conn EXCEPT ![c] = n]
    /\ cpc' = [cpc EXCEPT ![c] = "waiting"]
    /\ UNCHANGED <<source, digest, sent, first, saved, up, down, closed, handlerVars,
                   secretVars, dataVars, nameVars, modelVars>>

RefuseChangedSource(c) ==
    /\ cpc[c] = "hashed"
    /\ saved[c] # None /\ saved[c].digest # digest[c]
    /\ Give(c)
    /\ UNCHANGED <<source, digest, sent, first, saved, netVars, handlerVars, secretVars,
                   dataVars, nameVars, modelVars>>

\* The status is checked and the ticket stored before the first frame.
ReceiveStatus(c) ==
    LET n == conn[c] h == request[n] m == Head(down[n]) IN
    /\ cpc[c] = "waiting" /\ down[n] # <<>> /\ m.kind = "status"
    /\ m.next <= Count(h) /\ m.bytes = ExpectedBytes(m.next, Size(h), FrameSize)
    /\ h.mode = "resume" => m.ticket = h.ticket
    /\ down' = [down EXCEPT ![n] = Tail(@)]
    /\ saved' = [saved EXCEPT ![c] = [tid |-> h.tid, digest |-> h.digest, ticket |-> m.ticket]]
    /\ sent' = [sent EXCEPT ![c] = m.bytes]
    /\ first' = [first EXCEPT ![c] = m.next]
    /\ cpc' = [cpc EXCEPT ![c] = "streaming"]
    /\ UNCHANGED <<source, digest, conn, request, up, closed, handlerVars, secretVars,
                   dataVars, nameVars, modelVars>>

Due(c)  == FrameLen(sent[c], Size(request[conn[c]]), FrameSize)
Read(c) == ReadAt(source[c], sent[c], Due(c))

Number(c) == sent[c] \div FrameSize

\* The source still has the bytes, and every block finds its target.
Sealable(c) ==
    /\ Len(Read(c)) = Due(c)
    /\ Found(FrameLayout(conn[c], request[conn[c]], Number(c), Due(c)), FrameBlocks(Due(c)))

SendFrame(c) ==
    LET n == conn[c] h == request[n] IN
    /\ cpc[c] = "streaming" /\ sent[c] < Size(h)
    /\ Sealable(c)
    /\ up' = [up EXCEPT ![n] = Append(@, Seal(n, h, first[c], Number(c), Read(c)))]
    /\ sent' = [sent EXCEPT ![c] = @ + Due(c)]
    /\ UNCHANGED <<source, cpc, digest, conn, first, saved, request, down, closed,
                   handlerVars, secretVars, dataVars, nameVars, modelVars>>

\* The source has become shorter than it was, or a walk meets its limit.
AbandonFrame(c) ==
    /\ cpc[c] = "streaming" /\ sent[c] < Size(request[conn[c]])
    /\ ~Sealable(c)
    /\ Give(c)
    /\ UNCHANGED <<source, digest, sent, first, saved, netVars, handlerVars, secretVars,
                   dataVars, nameVars, modelVars>>

SendFinal(c) ==
    LET n == conn[c] h == request[n] IN
    /\ cpc[c] = "streaming" /\ sent[c] = Size(h)
    /\ up' = [up EXCEPT ![n] = Append(@, Final(h.digest))]
    /\ cpc' = [cpc EXCEPT ![c] = "finishing"]
    /\ UNCHANGED <<source, digest, conn, sent, first, saved, request, down, closed,
                   handlerVars, secretVars, dataVars, nameVars, modelVars>>

ReceiveAck(c) ==
    LET n == conn[c] h == request[n] m == Head(down[n]) IN
    /\ cpc[c] = "finishing" /\ down[n] # <<>> /\ m.kind = "ack"
    /\ m.tid = h.tid /\ m.digest = h.digest
    /\ down' = [down EXCEPT ![n] = Tail(@)]
    /\ saved' = [saved EXCEPT ![c] = None]
    /\ cpc' = [cpc EXCEPT ![c] = "done"]
    /\ conn' = [conn EXCEPT ![c] = None]
    /\ UNCHANGED <<source, digest, sent, first, request, up, closed, handlerVars,
                   secretVars, dataVars, nameVars, modelVars>>

\* Mutant: the end of the connection is taken for the acknowledgement.
EndIsSuccess(c) ==
    /\ cpc[c] \in {"waiting", "streaming", "finishing"}
    /\ conn[c] \in closed /\ down[conn[c]] = <<>>
    /\ cpc' = [cpc EXCEPT ![c] = IF @ = "finishing" THEN "done" ELSE "idle"]
    /\ conn' = [conn EXCEPT ![c] = None]
    /\ UNCHANGED <<source, digest, sent, first, saved, netVars, handlerVars, secretVars,
                   dataVars, nameVars, modelVars>>
\* An error record, or the end of the connection.
ReceiveEnd(c) ==
    /\ cpc[c] \in {"waiting", "streaming", "finishing"}
    /\ conn[c] \in closed /\ down[conn[c]] = <<>>
    /\ Give(c)
    /\ UNCHANGED <<source, digest, sent, first, saved, netVars, handlerVars, secretVars,
                   dataVars, nameVars, modelVars>>
-----------------------------------------------------------------------------
(* The secret: _load_or_create_server_secret of server s.  Main runs it in *)
(* the handler of its first connection; another server when it likes.      *)

SecretUnheld(s) == IF s = Main THEN hpc = "accepted" ELSE TRUE

\* The handler of Main ends with an exception: its connection is shut.
Leave == /\ hpc' = "idle" /\ hconn' = None
         /\ closed' = closed \cup {hconn}

SecretError(s) ==
    /\ spc' = [spc EXCEPT ![s] = "idle"]
    /\ IF s = Main THEN Leave ELSE UNCHANGED <<hpc, hconn, closed>>

\* path.exists(): read it, or go on to create it.
FindSecret(s) ==
    /\ held[s] = Unset /\ spc[s] = "idle" /\ SecretUnheld(s)
    /\ spc' = [spc EXCEPT ![s] = IF dir.secret = None THEN "absent" ELSE "found"]
    /\ UNCHANGED <<clientVars, netVars, handlerVars, held, mine, drawn, text, stored, dataVars,
                   nameVars, modelVars>>

ReadSecret(s) ==
    /\ spc[s] = "found" /\ dir.secret # None /\ text[dir.secret] # Unset
    /\ held' = [held EXCEPT ![s] = text[dir.secret]]
    /\ spc' = [spc EXCEPT ![s] = "idle"]
    /\ UNCHANGED <<clientVars, netVars, handlerVars, mine, drawn, text, stored, dataVars,
                   nameVars, modelVars>>

\* The file is gone again, or its length is not that of a secret.
RefuseSecret(s) ==
    /\ spc[s] = "found" /\ (dir.secret # None => text[dir.secret] = Unset)
    /\ SecretError(s)
    /\ UNCHANGED <<clientVars, request, up, down, start, nxt, cur, triggered, held, mine,
                   drawn, text, stored, dataVars, nameVars, modelVars>>

\* Mutant: O_EXCL is lost, so that an existing file is opened.
CreateShared(s) ==
    /\ spc[s] = "absent" /\ drawn < MaxSecrets
    /\ drawn' = drawn + 1
    /\ mine' = [mine EXCEPT ![s] = drawn + 1]
    /\ dir' = IF dir.secret = None THEN [dir EXCEPT !.secret = drawn + 1] ELSE dir
    /\ spc' = [spc EXCEPT ![s] = "created"]
    /\ UNCHANGED <<clientVars, netVars, handlerVars, held, text, stored, dataVars, journal,
                   modelVars>>
\* A secret is drawn and its file created, which must not exist yet.
CreateSecret(s) ==
    /\ spc[s] = "absent" /\ dir.secret = None /\ drawn < MaxSecrets
    /\ drawn' = drawn + 1
    /\ mine' = [mine EXCEPT ![s] = drawn + 1]
    /\ dir' = [dir EXCEPT !.secret = drawn + 1]
    /\ spc' = [spc EXCEPT ![s] = "created"]
    /\ UNCHANGED <<clientVars, netVars, handlerVars, held, text, stored, dataVars, journal,
                   modelVars>>

\* O_EXCL: somebody else has created it.
LoseSecretRace(s) ==
    /\ spc[s] = "absent" /\ dir.secret # None
    /\ SecretError(s)
    /\ UNCHANGED <<clientVars, request, up, down, start, nxt, cur, triggered, held, mine,
                   drawn, text, stored, dataVars, nameVars, modelVars>>

Storing == {"created", "written"}

\* The bytes are written: every process reads them from now on.
WriteSecret(s) ==
    /\ spc[s] = "created"
    /\ text' = [text EXCEPT ![dir.secret] = mine[s]]
    /\ spc' = [spc EXCEPT ![s] = "written"]
    /\ UNCHANGED <<clientVars, netVars, handlerVars, held, mine, drawn, stored, dataVars,
                   nameVars, modelVars>>

\* They are on stable storage, and the server keeps what it wrote.
SyncSecret(s) ==
    /\ spc[s] = "written"
    /\ stored' = [stored EXCEPT ![dir.secret] = text[dir.secret]]
    /\ held' = [held EXCEPT ![s] = mine[s]]
    /\ mine' = [mine EXCEPT ![s] = Unset]
    /\ spc' = [spc EXCEPT ![s] = "idle"]
    /\ UNCHANGED <<clientVars, netVars, handlerVars, drawn, text, dataVars, nameVars, modelVars>>

\* The write or the fsync fails (no space left): the name is unlinked, whoever
\* has read the secret under it.
FailSecret(s) ==
    /\ spc[s] \in Storing /\ faults < MaxFaults
    /\ dir' = [dir EXCEPT !.secret = None]
    /\ mine' = [mine EXCEPT ![s] = Unset]
    /\ SecretError(s)
    /\ faults' = faults + 1
    /\ UNCHANGED <<clientVars, request, up, down, start, nxt, cur, triggered, held, drawn, text,
                   stored, dataVars, journal, delivered, edits>>
-----------------------------------------------------------------------------
(* The server: receive_krp_after_magic, one connection at a time.          *)

H == request[hconn]
ServerTicket == Ticket(held[Main], H)

Accept(n) ==
    /\ hpc = "idle" /\ n \in Used \ closed /\ Attached(n)
    /\ hconn' = n /\ hpc' = "accepted"
    /\ UNCHANGED <<clientVars, netVars, start, nxt, cur, triggered, secretVars, dataVars,
                   nameVars, modelVars>>

\* The handshake fails: the client is no longer there.
DropQueued(n) ==
    /\ hpc = "idle" /\ n \in Used \ closed /\ ~Attached(n)
    /\ closed' = closed \cup {n}
    /\ UNCHANGED <<clientVars, request, up, down, handlerVars, secretVars, dataVars, nameVars,
                   modelVars>>

Taken == dir.dest # None /\ ~Overwrite

\* The ticket is computed before the request is looked at.
Deciding == hpc = "accepted" /\ held[Main] # Unset

NewAllowed == H.ticket = <<>> /\ dir.ckpt[H.tid] = None /\ ~Taken

\* _validate_server_state up to the size of the partial file.
StateValid ==
    LET k == dir.ckpt[H.tid] IN
    /\ k # None /\ k.digest = H.digest
    /\ k.next <= Count(H) /\ k.bytes = ExpectedBytes(k.next, Size(H), FrameSize)
    /\ H.tid \in dir.partial /\ k.bytes <= Len(file[H.tid])
ResumeAllowed == H.ticket = ServerTicket /\ StateValid

\* NEW: an empty partial file.
CreatePartial ==
    /\ Deciding /\ H.mode = "new" /\ NewAllowed
    /\ dir' = [dir EXCEPT !.partial = @ \cup {H.tid}]
    /\ file' = [file EXCEPT ![H.tid] = <<>>]
    /\ synced' = [synced EXCEPT ![H.tid] = <<>>]
    /\ nxt' = 0 /\ cur' = 0
    /\ hpc' = "created"
    /\ UNCHANGED <<clientVars, netVars, hconn, start, triggered, secretVars, journal, modelVars>>

CheckpointOf(h, i, b) == [tid |-> h.tid, digest |-> h.digest, next |-> i, bytes |-> b]

WriteFirstCheckpoint ==
    /\ hpc = "created"
    /\ dir' = [dir EXCEPT !.ckpt[H.tid] = CheckpointOf(H, 0, 0)]
    /\ hpc' = "admitted"
    /\ UNCHANGED <<clientVars, netVars, hconn, start, nxt, cur, triggered, secretVars,
                   dataVars, journal, modelVars>>

\* RESUME: bytes beyond the checkpoint are cut off, durably; the destination
\* is looked at last.
Resume ==
    LET k == dir.ckpt[H.tid] cut == TruncateTo(file[H.tid], k.bytes) IN
    /\ Deciding /\ H.mode = "resume" /\ ResumeAllowed
    /\ IF Len(file[H.tid]) > k.bytes
       THEN /\ file' = [file EXCEPT ![H.tid] = cut]
            /\ synced' = [synced EXCEPT ![H.tid] = cut]
       ELSE UNCHANGED dataVars
    /\ IF Taken THEN Leave /\ UNCHANGED <<nxt, cur>>
       ELSE /\ nxt' = k.next /\ cur' = k.bytes
            /\ hpc' = "admitted" /\ UNCHANGED <<hconn, closed>>
    /\ UNCHANGED <<clientVars, request, up, down, start, triggered, secretVars, nameVars,
                   modelVars>>

Reject ==
    /\ Deciding
    /\ \/ H.mode = "new" /\ ~NewAllowed
       \/ H.mode = "resume" /\ ~ResumeAllowed
    /\ Leave
    /\ UNCHANGED <<clientVars, request, up, down, start, nxt, cur, triggered, secretVars,
                   dataVars, nameVars, modelVars>>

SendStatus ==
    /\ hpc = "admitted"
    /\ down' = [down EXCEPT ![hconn] = Append(@, Status(nxt, cur, ServerTicket))]
    /\ start' = nxt
    /\ hpc' = "receiving"
    /\ UNCHANGED <<clientVars, request, up, closed, hconn, nxt, cur, triggered, secretVars,
                   dataVars, nameVars, modelVars>>

Incoming == up[hconn] # <<>>
FrameIn  == hpc = "receiving" /\ Incoming /\ Head(up[hconn]).kind = "frame"

\* Order, length and tag of the next frame.
Acceptable(m) ==
    /\ nxt < Count(H) /\ m.number = nxt
    /\ m.len = FrameLen(cur, Size(H), FrameSize)
    /\ Opens(hconn, H, start, nxt, m)

ReceiveFrame ==
    LET m == Head(up[hconn]) IN
    /\ FrameIn /\ Acceptable(m)
    /\ up' = [up EXCEPT ![hconn] = Tail(@)]
    /\ file' = [file EXCEPT ![H.tid] = WriteAt(@, cur, m.data, 0)]
    /\ cur' = cur + m.len
    /\ nxt' = nxt + 1
    /\ hpc' = "written"
    /\ UNCHANGED <<clientVars, request, down, closed, hconn, start, triggered, secretVars,
                   synced, nameVars, modelVars>>

SyncFrame ==
    /\ hpc = "written"
    /\ synced' = [synced EXCEPT ![H.tid] = file[H.tid]]
    /\ hpc' = "synced"
    /\ UNCHANGED <<clientVars, netVars, hconn, start, nxt, cur, triggered, secretVars, file,
                   nameVars, modelVars>>

Interrupts == InterruptAfter # None /\ ~triggered /\ nxt >= InterruptAfter

\* Mutant: the checkpoint is advanced before the data is on stable storage.
CheckpointFirst ==
    /\ hpc = "written"
    /\ dir' = [dir EXCEPT !.ckpt[H.tid] = CheckpointOf(H, nxt, cur)]
    /\ hpc' = "receiving"
    /\ UNCHANGED <<clientVars, netVars, hconn, start, nxt, cur, triggered, secretVars,
                   dataVars, journal, modelVars>>
\* The checkpoint is replaced; the simulated interruption follows it.
AdvanceCheckpoint ==
    /\ hpc = "synced"
    /\ dir' = [dir EXCEPT !.ckpt[H.tid] = CheckpointOf(H, nxt, cur)]
    /\ IF Interrupts THEN triggered' = TRUE /\ Leave
       ELSE hpc' = "receiving" /\ UNCHANGED <<triggered, hconn, closed>>
    /\ UNCHANGED <<clientVars, request, up, down, start, nxt, cur, secretVars, dataVars,
                   journal, modelVars>>

ReceiveFinal ==
    LET m == Head(up[hconn]) IN
    /\ hpc = "receiving" /\ nxt = Count(H) /\ cur = Size(H)
    /\ Incoming /\ m.kind = "final" /\ m.digest = H.digest
    /\ up' = [up EXCEPT ![hconn] = Tail(@)]
    /\ synced' = [synced EXCEPT ![H.tid] = file[H.tid]]
    /\ hpc' = "complete"
    /\ UNCHANGED <<clientVars, request, down, closed, hconn, start, nxt, cur, triggered,
                   secretVars, file, nameVars, modelVars>>

\* Mutant: the length is compared.
IntactByLength == Len(file[H.tid]) = Size(H)
\* The whole partial file is hashed again.
Intact == file[H.tid] = H.digest

Rehash ==
    /\ hpc = "complete"
    /\ hpc' = IF Intact THEN "verified" ELSE "rejected"
    /\ UNCHANGED <<clientVars, netVars, hconn, start, nxt, cur, triggered, secretVars,
                   dataVars, nameVars, modelVars>>

\* os.replace(partial_path, destination).
Publish ==
    /\ hpc = "verified"
    /\ dir' = [dir EXCEPT !.dest = H.tid, !.partial = @ \ {H.tid}]
    /\ delivered' = delivered \cup {H.tid}
    /\ hpc' = "published"
    /\ UNCHANGED <<clientVars, netVars, hconn, start, nxt, cur, triggered, secretVars,
                   dataVars, journal, faults, edits>>

RemoveCheckpoint ==
    /\ hpc = "published"
    /\ dir' = [dir EXCEPT !.ckpt[H.tid] = None]
    /\ hpc' = "cleared"
    /\ UNCHANGED <<clientVars, netVars, hconn, start, nxt, cur, triggered, secretVars,
                   dataVars, journal, modelVars>>

Acknowledge ==
    /\ hpc = "cleared"
    /\ down' = [down EXCEPT ![hconn] = Append(@, Ack(H.digest, H.tid))]
    /\ Leave
    /\ UNCHANGED <<clientVars, request, up, start, nxt, cur, triggered, secretVars,
                   dataVars, nameVars, modelVars>>

\* _discard_server_state: the partial file, then its checkpoint.
DiscardPartial ==
    /\ hpc = "rejected"
    /\ dir' = [dir EXCEPT !.partial = @ \ {H.tid}]
    /\ hpc' = "discarding"
    /\ UNCHANGED <<clientVars, netVars, hconn, start, nxt, cur, triggered, secretVars,
                   dataVars, journal, modelVars>>

DiscardCheckpoint ==
    /\ hpc = "discarding"
    /\ dir' = [dir EXCEPT !.ckpt[H.tid] = None]
    /\ Leave
    /\ UNCHANGED <<clientVars, request, up, down, start, nxt, cur, triggered, secretVars,
                   dataVars, journal, modelVars>>

\* The peer is gone and what it sent has been consumed.
ReachEndOfInput ==
    /\ hpc = "receiving" /\ ~Incoming /\ ~Attached(hconn)
    /\ Leave
    /\ UNCHANGED <<clientVars, request, up, down, start, nxt, cur, triggered, secretVars,
                   dataVars, nameVars, modelVars>>
-----------------------------------------------------------------------------
(* Faults.                                                                 *)

Fault == faults < MaxFaults /\ faults' = faults + 1 /\ UNCHANGED <<delivered, edits>>

ClientAbort(c) ==
    /\ cpc[c] \notin {"idle", "done"}
    /\ Give(c)
    /\ Fault
    /\ UNCHANGED <<source, digest, sent, first, saved, netVars, handlerVars, secretVars,
                   dataVars, nameVars>>

\* An error of a socket or of a file operation past the secret ends the handler.
HandlerAbort ==
    /\ hpc \notin {"idle", "accepted"}
    /\ Leave
    /\ Fault
    /\ UNCHANGED <<clientVars, request, up, down, start, nxt, cur, triggered, secretVars,
                   dataVars, nameVars>>

\* A process is killed, and started again on the same directories.  What was
\* on its way to Main is lost with it.
Forget(S) ==
    /\ held' = [s \in Servers |-> IF s \in S THEN Unset ELSE held[s]]
    /\ spc'  = [s \in Servers |-> IF s \in S THEN "idle" ELSE spc[s]]
    /\ mine' = [s \in Servers |-> IF s \in S THEN Unset ELSE mine[s]]
    /\ IF Main \in S
       THEN /\ hpc' = "idle" /\ hconn' = None
            /\ closed' = Used /\ triggered' = FALSE
       ELSE UNCHANGED <<hpc, hconn, closed, triggered>>

ServerCrash(s) ==
    /\ held[s] # Unset \/ spc[s] # "idle"
    /\ Forget({s})
    /\ Fault
    /\ UNCHANGED <<clientVars, request, up, down, start, nxt, cur, drawn, text, stored, dataVars,
                   nameVars>>

\* Power is lost: unsynced data is gone, and so are the changes of names that
\* had not reached the journal.  A secret that was written may have been kept.
PowerLoss ==
    /\ Forget(Servers)
    /\ file' = synced
    /\ \E kept \in SUBSET Secrets :
           text' = [x \in Secrets |-> IF x \in kept THEN text[x] ELSE stored[x]]
    /\ dir' = journal
    /\ Fault
    /\ UNCHANGED <<clientVars, request, up, down, start, nxt, cur, drawn, stored, synced, journal>>

\* The file system writes the names back when it likes: no directory is
\* fsynced after os.replace.  Names reach the disk in the order they changed.
WriteBack ==
    /\ journal # dir
    /\ journal' = dir
    /\ UNCHANGED <<clientVars, netVars, handlerVars, secretVars, dataVars, dir, modelVars>>

EditSource(c) ==
    /\ edits < MaxEdits
    /\ \E x \in Contents \ {source[c]} : source' = [source EXCEPT ![c] = x]
    /\ edits' = edits + 1
    /\ UNCHANGED <<cpc, digest, conn, sent, first, saved, netVars, handlerVars, secretVars,
                   dataVars, nameVars, delivered, faults>>
-----------------------------------------------------------------------------
NoNames == [partial |-> {}, ckpt |-> [t \in Conns |-> None], secret |-> None, dest |-> None]

Init ==
    /\ source \in [Clients -> Contents]
    /\ cpc = [c \in Clients |-> "idle"]
    /\ digest = [c \in Clients |-> <<>>]
    /\ conn = [c \in Clients |-> None]
    /\ sent = [c \in Clients |-> 0]
    /\ first = [c \in Clients |-> 0]
    /\ saved = [c \in Clients |-> None]
    /\ request = [n \in Conns |-> None]
    /\ up = [n \in Conns |-> <<>>]
    /\ down = [n \in Conns |-> <<>>]
    /\ closed = {}
    /\ hconn = None /\ hpc = "idle" /\ start = 0 /\ nxt = 0 /\ cur = 0 /\ triggered = FALSE
    /\ held = [s \in Servers |-> Unset]
    /\ spc = [s \in Servers |-> "idle"]
    /\ mine = [s \in Servers |-> Unset]
    /\ drawn = 0
    /\ text = [x \in Secrets |-> Unset] /\ stored = [x \in Secrets |-> Unset]
    /\ file = [t \in Conns |-> <<>>]
    /\ synced = [t \in Conns |-> <<>>]
    /\ dir = NoNames /\ journal = NoNames
    /\ delivered = {} /\ faults = 0 /\ edits = 0

ClientStep(c) ==
    \/ Hash(c) \/ Connect(c) \/ RefuseChangedSource(c) \/ ReceiveStatus(c) \/ SendFrame(c)
    \/ AbandonFrame(c) \/ SendFinal(c) \/ ReceiveAck(c) \/ ReceiveEnd(c)

SecretStep(s) ==
    \/ FindSecret(s) \/ ReadSecret(s) \/ RefuseSecret(s) \/ CreateSecret(s)
    \/ LoseSecretRace(s) \/ WriteSecret(s) \/ SyncSecret(s) \/ FailSecret(s)

HandlerStep ==
    \/ \E n \in Conns : Accept(n) \/ DropQueued(n)
    \/ CreatePartial \/ WriteFirstCheckpoint \/ Resume \/ Reject \/ SendStatus
    \/ ReceiveFrame \/ SyncFrame \/ AdvanceCheckpoint \/ ReceiveFinal \/ Rehash \/ Publish
    \/ RemoveCheckpoint \/ Acknowledge \/ DiscardPartial \/ DiscardCheckpoint
    \/ ReachEndOfInput

Next ==
    \/ \E c \in Clients : ClientStep(c) \/ ClientAbort(c) \/ EditSource(c)
    \/ \E s \in Servers : SecretStep(s) \/ ServerCrash(s)
    \/ HandlerStep \/ HandlerAbort
    \/ PowerLoss \/ WriteBack

Spec == Init /\ [][Next]_vars
-----------------------------------------------------------------------------
(* Properties. *)

\* The published file is byte for byte what the sender of that transfer
\* announced, on stable storage, now and after a power loss (re-hash, fsync,
\* os.replace).
PublishedVerified ==
    \A d \in {dir, journal} :
        d.dest # None => /\ file[d.dest] = request[d.dest].digest
                         /\ synced[d.dest] = file[d.dest]

\* A checkpoint never covers bytes a power loss takes back, in whatever state
\* that leaves the directories; and unless a source was edited, the bytes it
\* covers are those announced (write, fsync, then the checkpoint).
CheckpointBacked ==
    \A d \in {dir, journal}, t \in Conns :
        d.ckpt[t] # None /\ t \in d.partial =>
            LET k == d.ckpt[t] IN
            /\ k.bytes <= Len(synced[t])
            /\ edits = 0 => SubSeq(synced[t], 1, k.bytes) = SubSeq(k.digest, 1, k.bytes)

\* Both ends derive key, nonce, associated data and layout alike on every
\* connection, the resumed ones too: no frame a client sends is refused.
HonestFramesAccepted == FrameIn => Acceptable(Head(up[hconn]))

\* A secret is settled once the fsync of its file has returned.
Settled(x) == \E i \in Secrets : stored[i] = x
OnDisk(x)  == dir.secret # None /\ text[dir.secret] = x

\* A settled secret is the one on disk for every server that holds it, for every
\* ticket made with it in a state file and for every ticket presented, as long as
\* there is a checkpoint to resume: two servers that start together, one that
\* reads what the other has not synced yet, a failed write or fsync, and a power
\* loss that takes the name back included.
TicketsVerify ==
    /\ \A s \in Servers : held[s] # Unset /\ Settled(held[s]) => OnDisk(held[s])
    /\ \A c \in Clients :
        saved[c] # None /\ dir.ckpt[saved[c].tid] # None /\ Settled(saved[c].ticket[1]) =>
            OnDisk(saved[c].ticket[1])
    /\ \A n \in Used :
        /\ request[n].mode = "resume" /\ dir.ckpt[request[n].tid] # None
        /\ Settled(request[n].ticket[1])
        => Ticket(text[dir.secret], request[n]) = request[n].ticket

\* tests/test_resume.py:281, test_resume_state_survives_server_restart: a client
\* that resumes from its state file is not refused for its ticket, whichever
\* process serves it now, where checkpoint and partial file are there.
StateSurvivesRestart ==
    Deciding /\ H.mode = "resume" /\ StateValid => H.ticket = ServerTicket

\* The transfer implements the abstract one: the rename makes the destination
\* appear whole, nothing else changes it but a power loss that takes the name
\* back, and who gets a receipt has delivered what it hashed, in this call or
\* on an earlier connection.
Abstract == INSTANCE AbstractDelivery WITH
    offers    <- {request[n].digest : n \in Used},
    delivered <- {request[t].digest : t \in delivered},
    place     <- IF dir.dest = None THEN None ELSE file[dir.dest],
    stable    <- IF journal.dest = None THEN None ELSE file[journal.dest],
    receipt   <- [c \in Clients |-> IF cpc[c] = "done" THEN digest[c] ELSE None]
ImplementsAbstract == Abstract!DeliverySpec
=============================================================================
