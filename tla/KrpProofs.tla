----------------------------- MODULE KrpProofs -----------------------------
(***************************************************************************)
(* The KRP transfer, for all constants.  What the server publishes is      *)
(* verified and durable in every state of the directories that a power     *)
(* loss can leave.  The servers of a directory agree on a secret that has  *)
(* settled, and a ticket made with it stands as long as there is a         *)
(* checkpoint to resume.  No frame a                                       *)
(* client sends is refused: the handler is always at the first of those on *)
(* their way, and they follow each other.  A checkpoint covers synced,     *)
(* announced bytes in the directory and in what a power loss leaves of it. *)
(* That the permuted ciphertext is restored rests on KrpLayoutProofs.      *)
(* And every step of the transfer is one of AbstractDelivery, or stutters. *)
(***************************************************************************)
EXTENDS KrpTransfer, FormatProofs

(* The transfer: what its variables hold. *)

Saves    == [tid : Conns, digest : Seq(Nat), ticket : Tickets]
DownMsgs == [kind : {"status"}, next : Nat, bytes : Nat, ticket : Tickets]
              \cup [kind : {"ack"}, digest : Seq(Nat), tid : Conns]
NameSets == [partial : SUBSET Conns, ckpt : [Conns -> Ckpts \cup {None}],
             secret : Secrets \cup {None}, dest : Conns \cup {None}]

Calling    == {"waiting", "streaming", "finishing"}
HandlerPCs == {"idle", "accepted", "created", "admitted", "receiving", "written", "synced",
               "complete", "verified", "rejected", "published", "cleared", "discarding"}
SecretPCs  == {"idle", "found", "absent"} \cup Storing

ClientTypes ==
    /\ source \in [Clients -> Seq(Nat)] /\ digest \in [Clients -> Seq(Nat)]
    /\ cpc \in [Clients -> {"idle", "hashed", "done"} \cup Calling]
    /\ conn \in [Clients -> Conns \cup {None}] /\ saved \in [Clients -> Saves \cup {None}]

NetTypes ==
    /\ request \in [Conns -> Headers \cup {None}] /\ down \in [Conns -> Seq(DownMsgs)]
    /\ closed \in SUBSET Conns

HandlerTypes ==
    /\ hconn \in Conns \cup {None} /\ hpc \in HandlerPCs
    /\ nxt \in Nat /\ cur \in Nat

SecretTypes ==
    /\ held \in [Servers -> Nat] /\ spc \in [Servers -> SecretPCs] /\ mine \in [Servers -> Nat]
    /\ drawn \in Nat /\ text \in [Secrets -> Nat] /\ stored \in [Secrets -> Nat]

DiskTypes ==
    /\ DOMAIN file = Conns /\ DOMAIN synced = Conns
    /\ dir \in NameSets /\ journal \in NameSets

KrpTypes == ClientTypes /\ NetTypes /\ HandlerTypes /\ SecretTypes /\ DiskTypes

\* A handler past the decision, and one that receives into a partial file.
Decided == hpc \notin {"idle", "accepted"}
Placed  == {"created", "admitted", "receiving", "written", "synced", "complete", "verified"}

\* Who is connected to whom; where the handler stands in its file.
Connected ==
    /\ \A c \in Clients : cpc[c] \in Calling => conn[c] \in Used
    /\ \A n \in Used : request[n].mode = "new" => request[n].tid = n
    /\ closed \subseteq Used
    /\ hpc # "idle" => hconn \in Used \ closed
    /\ Decided => held[Main] # Unset /\ nxt <= Count(H)
                    /\ cur = ExpectedBytes(nxt, Size(H), FrameSize)
    /\ spc[Main] # "idle" => hpc = "accepted" /\ held[Main] = Unset

Shape == KrpTypes /\ Connected

LEMMA InitShape == Init => Shape
<1> SUFFICES ASSUME Init
             PROVE  Shape
  OBVIOUS
<1>1. ClientTypes /\ NetTypes /\ HandlerTypes /\ SecretTypes
  BY KrpConstants DEF Init, ClientTypes, NetTypes, HandlerTypes, SecretTypes, HandlerPCs,
     SecretPCs, Unset
<1>2. DiskTypes
  BY DEF Init, DiskTypes, NoNames, NameSets
<1>3. Connected
  BY DEF Init, Connected, Calling, Used, Decided, Servers
<1> QED
  BY <1>1, <1>2, <1>3 DEF Shape, KrpTypes

\* The parts of a header.
LEMMA HeaderParts ==
    ASSUME NEW h \in Headers
    PROVE  /\ h.mode \in {"new", "resume"} /\ h.tid \in Conns /\ h.digest \in Seq(Nat)
           /\ h.ticket \in Tickets \cup {<<>>}
           /\ Size(h) \in Nat /\ Count(h) \in Nat
<1>1. /\ h.mode \in {"new", "resume"} /\ h.tid \in Conns /\ h.digest \in Seq(Nat)
      /\ h.ticket \in Tickets \cup {<<>>}
  BY DEF Headers
<1>2. Size(h) \in Nat
  BY <1>1 DEF Size
<1>3. Count(h) \in Nat
  BY <1>2, FrameCountBounds, KrpConstants DEF Count
<1> QED
  BY <1>1, <1>2, <1>3

LEMMA UsedHeader ==
    ASSUME Shape, NEW n \in Used
    PROVE  n \in Conns /\ request[n] \in Headers
BY DEF Shape, KrpTypes, NetTypes, Used

\* A busy handler serves a connection it has not shut, whose header is known.
LEMMA ServedHeader ==
    ASSUME Shape, hpc # "idle"
    PROVE  /\ hconn \in Used /\ hconn \in Conns /\ hconn \notin closed
           /\ H \in Headers /\ H.tid \in Conns /\ H.digest \in Seq(Nat)
           /\ Size(H) \in Nat /\ Count(H) \in Nat
<1>1. hconn \in Used /\ hconn \notin closed
  BY DEF Shape, Connected
<1> QED
  BY <1>1, UsedHeader, HeaderParts DEF H

ClientMoves(c) == ClientStep(c) \/ ClientAbort(c) \/ EditSource(c)

\* A client changes nothing on the server's side; it announces a header once.
LEMMA ClientReach ==
    ASSUME Shape, NEW c \in Clients, ClientMoves(c)
    PROVE  /\ UNCHANGED <<closed, handlerVars, secretVars, dataVars, nameVars>>
           /\ request' \in [Conns -> Headers \cup {None}]
           /\ \A n \in Used : n \in Used' /\ request'[n] = request[n]
           /\ \A n \in Used' : request'[n].mode = "new" => request'[n].tid = n
<1>1. CASE Connect(c)
  <2>1. PICK n \in Conns \ Used :
            /\ request' = [request EXCEPT ![n] = RequestOn(c, n)]
            /\ cpc[c] = "hashed"
            /\ UNCHANGED <<closed, handlerVars, secretVars, dataVars, nameVars>>
    BY <1>1 DEF Connect
  <2>2. RequestOn(c, n) \in Headers /\ (RequestOn(c, n).mode = "new" => RequestOn(c, n).tid = n)
    <3>1. digest[c] \in Seq(Nat) /\ saved[c] \in Saves \cup {None}
      BY DEF Shape, KrpTypes, ClientTypes
    <3>2. CASE saved[c] = None
      BY <3>1, <3>2 DEF RequestOn, Headers
    <3>3. CASE saved[c] # None
      <4>1. saved[c].tid \in Conns /\ saved[c].ticket \in Tickets
        BY <3>1, <3>3 DEF Saves
      <4> QED
        BY <3>1, <3>3, <4>1 DEF RequestOn, Headers
    <3> QED
      BY <3>2, <3>3
  <2>3. request \in [Conns -> Headers \cup {None}]
    BY DEF Shape, KrpTypes, NetTypes
  <2>4. \A m \in Conns : request'[m] = IF m = n THEN RequestOn(c, n) ELSE request[m]
    BY <2>1, <2>3
  <2>5. \A m \in Used : m # n /\ m \in Conns /\ request'[m] = request[m]
    BY <2>1, <2>4 DEF Used
  <2>6. \A m \in Used' : request'[m].mode = "new" => request'[m].tid = m
    <3>1. \A m \in Used' : m = n \/ m \in Used
      BY <2>4 DEF Used
    <3> QED
      BY <3>1, <2>2, <2>4, <2>5 DEF Shape, Connected
  <2>7. \A m \in Used : m \in Used'
    BY <2>5 DEF Used
  <2> QED
    BY <2>1, <2>2, <2>3, <2>5, <2>6, <2>7
<1>2. CASE ~Connect(c)
  <2>1. UNCHANGED <<request, closed, handlerVars, secretVars, dataVars, nameVars>>
    BY <1>2 DEF ClientMoves, ClientStep, Hash, RefuseChangedSource, ReceiveStatus, SendFrame,
       AbandonFrame, SendFinal, ReceiveAck, ReceiveEnd, ClientAbort, EditSource, netVars
  <2> QED
    BY <2>1 DEF Shape, KrpTypes, NetTypes, Connected, Used
<1> QED
  BY <1>1, <1>2

\* What a client does to its own state and to the answers it reads.
LEMMA ClientOwn ==
    ASSUME Shape, NEW c \in Clients, ClientMoves(c)
    PROVE  /\ ClientTypes' /\ down' \in [Conns -> Seq(DownMsgs)]
           /\ \A d \in Clients : cpc'[d] \in Calling => conn'[d] \in Used'
<1>1. /\ ClientTypes /\ request \in [Conns -> Headers \cup {None}]
      /\ down \in [Conns -> Seq(DownMsgs)]
      /\ \A d \in Clients : cpc[d] \in Calling => conn[d] \in Used
  BY DEF Shape, KrpTypes, NetTypes, Connected
<1>2. \A n \in Used : n \in Used'
  BY ClientReach
<1>3. \A n \in Conns : down[n] # <<>> => Head(down[n]) \in DownMsgs /\ Tail(down[n]) \in Seq(DownMsgs)
  BY <1>1
<1>4. CASE Hash(c)
  <2>1. source[c] \in Seq(Nat)
    BY <1>1 DEF ClientTypes
  <2> QED
    BY <1>1, <1>2, <1>4, <2>1 DEF Hash, ClientTypes, netVars, Calling
<1>5. CASE Connect(c)
  <2>1. PICK n \in Conns \ Used :
            /\ request' = [request EXCEPT ![n] = RequestOn(c, n)]
            /\ conn' = [conn EXCEPT ![c] = n]
    BY <1>5 DEF Connect
  <2>2. n \in Used'
    <3>1. request'[n] = RequestOn(c, n)
      BY <1>1, <2>1
    <3>2. RequestOn(c, n) # None
      <4>1. digest[c] \in Seq(Nat) /\ saved[c] \in Saves \cup {None}
        BY <1>1 DEF ClientTypes
      <4>2. CASE saved[c] = None
        BY <4>1, <4>2, KrpConstants DEF RequestOn, Headers
      <4>3. CASE saved[c] # None
        <5>1. saved[c].tid \in Conns /\ saved[c].ticket \in Tickets
          BY <4>1, <4>3 DEF Saves
        <5> QED
          BY <4>1, <4>3, <5>1, KrpConstants DEF RequestOn, Headers
      <4> QED
        BY <4>2, <4>3
    <3> QED
      BY <3>1, <3>2 DEF Used
  <2> QED
    BY <1>1, <1>2, <1>5, <2>1, <2>2 DEF Connect, ClientTypes, Calling
<1>6. CASE ReceiveStatus(c)
  <2>1. conn[c] \in Used /\ conn[c] \in Conns /\ request[conn[c]] \in Headers
    BY <1>1, <1>6, UsedHeader DEF ReceiveStatus, Calling, Used
  <2>2. Head(down[conn[c]]).ticket \in Tickets
    BY <1>3, <1>6, <2>1 DEF ReceiveStatus, DownMsgs
  <2>3. request[conn[c]].tid \in Conns /\ request[conn[c]].digest \in Seq(Nat)
    BY <2>1, HeaderParts
  <2>4. down' \in [Conns -> Seq(DownMsgs)]
    BY <1>1, <1>3, <1>6, <2>1 DEF ReceiveStatus
  <2>5. saved' \in [Clients -> Saves \cup {None}]
    <3>1. [tid |-> request[conn[c]].tid, digest |-> request[conn[c]].digest,
           ticket |-> Head(down[conn[c]]).ticket] \in Saves
      BY <2>2, <2>3 DEF Saves
    <3> QED
      BY <1>1, <1>6, <3>1 DEF ReceiveStatus, ClientTypes
  <2> QED
    BY <1>1, <1>2, <1>6, <2>1, <2>4, <2>5 DEF ReceiveStatus, ClientTypes, Calling
<1>7. CASE SendFrame(c)
  BY <1>1, <1>2, <1>7 DEF SendFrame, ClientTypes
<1>8. CASE SendFinal(c)
  BY <1>1, <1>2, <1>8 DEF SendFinal, ClientTypes, Calling
<1>9. CASE ReceiveAck(c)
  <2>1. conn[c] \in Used /\ conn[c] \in Conns
    BY <1>1, <1>9 DEF ReceiveAck, Calling, Used
  <2>2. down' \in [Conns -> Seq(DownMsgs)]
    BY <1>1, <1>3, <1>9, <2>1 DEF ReceiveAck
  <2> QED
    BY <1>1, <1>2, <1>9, <2>2 DEF ReceiveAck, ClientTypes, Calling
<1>10. CASE Give(c) /\ UNCHANGED <<source, digest, saved, down>>
  BY <1>1, <1>2, <1>10 DEF Give, ClientTypes, Calling
<1>11. CASE EditSource(c)
  <2>1. source' \in [Clients -> Seq(Nat)]
    BY <1>1, <1>11, KrpConstants DEF EditSource, ClientTypes
  <2> QED
    BY <1>1, <1>2, <1>11, <2>1 DEF EditSource, ClientTypes, netVars
<1> QED
  BY <1>4, <1>5, <1>6, <1>7, <1>8, <1>9, <1>10, <1>11 DEF ClientMoves, ClientStep,
     RefuseChangedSource, AbandonFrame, ReceiveEnd, ClientAbort, netVars

LEMMA ClientShape ==
    ASSUME Shape, NEW c \in Clients, ClientMoves(c)
    PROVE  Shape' /\ (hpc # "idle" => H' = H)
<1>1. /\ UNCHANGED <<closed, handlerVars, secretVars, dataVars, nameVars>>
      /\ request' \in [Conns -> Headers \cup {None}]
      /\ \A n \in Used : n \in Used' /\ request'[n] = request[n]
      /\ \A n \in Used' : request'[n].mode = "new" => request'[n].tid = n
  BY ClientReach
<1>2. /\ ClientTypes' /\ down' \in [Conns -> Seq(DownMsgs)]
      /\ \A d \in Clients : cpc'[d] \in Calling => conn'[d] \in Used'
  BY ClientOwn
<1>3. KrpTypes'
  BY <1>1, <1>2 DEF Shape, KrpTypes, NetTypes, HandlerTypes, SecretTypes, DiskTypes,
     handlerVars, secretVars, dataVars, nameVars
<1>4. hpc # "idle" => H' = H
  BY <1>1, ServedHeader DEF H, handlerVars
<1>5. Connected'
  <2>1. closed' \subseteq Used' /\ (hpc' # "idle" => hconn' \in Used' \ closed')
    BY <1>1, ServedHeader DEF Shape, Connected, handlerVars
  <2>2. Decided' => held'[Main] # Unset /\ nxt' <= Count(H')
                       /\ cur' = ExpectedBytes(nxt', Size(H'), FrameSize)
    BY <1>1, <1>4 DEF Shape, Connected, Decided, handlerVars, secretVars
  <2>3. spc'[Main] # "idle" => hpc' = "accepted" /\ held'[Main] = Unset
    BY <1>1 DEF Shape, Connected, handlerVars, secretVars
  <2>4. Count(H)' = Count(H') /\ Size(H)' = Size(H')
    BY DEF Count, Size
  <2> QED
    BY <1>1, <1>2, <2>1, <2>2, <2>3, <2>4 DEF Connected
<1> QED
  BY <1>3, <1>4, <1>5 DEF Shape

\* The names of transfers stay; the name of the secret may change.
TransferNamesStay ==
    /\ dir'.partial = dir.partial /\ dir'.ckpt = dir.ckpt /\ dir'.dest = dir.dest
    /\ UNCHANGED <<dataVars, journal>>

HandlerStays == UNCHANGED <<hpc, hconn, closed>>

\* Looking for, reading, creating or failing to create the secret.
LEMMA SecretReach ==
    ASSUME Shape, NEW s \in Servers, SecretStep(s)
    PROVE  /\ UNCHANGED <<clientVars, request, up, down, start, nxt, cur, triggered>>
           /\ HandlerStays \/ (Leave /\ s = Main /\ hpc = "accepted")
           /\ TransferNamesStay /\ dir' \in NameSets
<1>1. dir \in NameSets /\ (spc[Main] # "idle" => hpc = "accepted")
  BY DEF Shape, KrpTypes, DiskTypes, Connected
<1> USE DEF netVars, handlerVars, dataVars, nameVars, TransferNamesStay, HandlerStays
<1>2. CASE FindSecret(s)
  BY <1>1, <1>2 DEF FindSecret
<1>3. CASE ReadSecret(s)
  BY <1>1, <1>3 DEF ReadSecret
<1>4. CASE RefuseSecret(s)
  BY <1>1, <1>4 DEF RefuseSecret, SecretError
<1>5. CASE CreateSecret(s)
  <2>1. dir' = [dir EXCEPT !.secret = drawn + 1] /\ drawn + 1 \in Secrets
    BY <1>5, KrpConstants DEF CreateSecret, Secrets, Shape, KrpTypes, SecretTypes
  <2>2. dir' \in NameSets /\ dir'.partial = dir.partial /\ dir'.ckpt = dir.ckpt
        /\ dir'.dest = dir.dest
    BY <1>1, <2>1 DEF NameSets
  <2> QED
    BY <1>5, <2>2 DEF CreateSecret
<1>6. CASE LoseSecretRace(s)
  BY <1>1, <1>6 DEF LoseSecretRace, SecretError
<1>7. CASE WriteSecret(s) \/ SyncSecret(s)
  BY <1>1, <1>7 DEF WriteSecret, SyncSecret
<1>8. CASE FailSecret(s)
  <2>1. dir' \in NameSets /\ dir'.partial = dir.partial /\ dir'.ckpt = dir.ckpt
        /\ dir'.dest = dir.dest
    BY <1>1, <1>8 DEF FailSecret, NameSets
  <2> QED
    BY <1>1, <1>8, <2>1 DEF FailSecret, SecretError, Storing
<1> QED
  BY <1>2, <1>3, <1>4, <1>5, <1>6, <1>7, <1>8 DEF SecretStep

LEMMA SecretOwn ==
    ASSUME Shape, NEW s \in Servers, SecretStep(s)
    PROVE  /\ SecretTypes'
           /\ held'[Main] = Unset => held[Main] = Unset
           /\ spc'[Main] # "idle" =>
                hpc = "accepted" /\ held'[Main] = Unset /\ (s # Main \/ HandlerStays)
<1>1. /\ SecretTypes /\ (dir.secret # None => dir.secret \in Secrets)
      /\ (spc[Main] # "idle" => hpc = "accepted" /\ held[Main] = Unset)
  BY DEF Shape, KrpTypes, DiskTypes, NameSets, Connected
<1>2. Main \in Servers /\ \A x \in Secrets : x \in Nat
  BY DEF Servers, Secrets
<1> USE <1>1, <1>2 DEF SecretTypes, SecretPCs, Storing, Unset
<1>3. CASE FindSecret(s)
  BY <1>3 DEF FindSecret, HandlerStays, netVars, handlerVars, SecretUnheld
<1>4. CASE ReadSecret(s)
  BY <1>4 DEF ReadSecret, HandlerStays, netVars, handlerVars
<1>5. CASE RefuseSecret(s)
  BY <1>5 DEF RefuseSecret, SecretError
<1>6. CASE CreateSecret(s)
  BY <1>6 DEF CreateSecret, HandlerStays, netVars, handlerVars
<1>7. CASE LoseSecretRace(s)
  BY <1>7 DEF LoseSecretRace, SecretError
<1>8. CASE WriteSecret(s)
  BY <1>8 DEF WriteSecret, HandlerStays, netVars, handlerVars
<1>9. CASE SyncSecret(s)
  <2>1. mine[s] \in Nat
    OBVIOUS
  <2>2. stored' \in [Secrets -> Nat]
    BY <1>9, <2>1 DEF SyncSecret
  <2>3. CASE mine[s] = 0 /\ s = Main
    BY <1>9, <2>2, <2>3 DEF SyncSecret
  <2>4. CASE ~(mine[s] = 0 /\ s = Main)
    BY <1>9, <2>2, <2>4 DEF SyncSecret
  <2> QED BY <2>3, <2>4
<1>10. CASE FailSecret(s)
  BY <1>10 DEF FailSecret, SecretError
<1> QED
  BY <1>3, <1>4, <1>5, <1>6, <1>7, <1>8, <1>9, <1>10 DEF SecretStep

\* The handler ends: its connection joins those that are shut.
LEMMA LeaveConnected ==
    ASSUME Shape, hpc # "idle", Leave, UNCHANGED <<cpc, conn, request>>, spc'[Main] = "idle"
    PROVE  Connected' /\ closed' \in SUBSET Conns /\ hpc' = "idle" /\ hconn' = None
<1>1. Used' = Used
  BY DEF Used
<1>2. hconn \in Used /\ Used \subseteq Conns
  BY ServedHeader DEF Used
<1>3. Decided' = FALSE
  BY DEF Leave, Decided
<1> QED
  BY <1>1, <1>2, <1>3 DEF Shape, KrpTypes, NetTypes, Connected, Leave

LEMMA SecretShape ==
    ASSUME Shape, NEW s \in Servers, SecretStep(s)
    PROVE  Shape'
<1>1. /\ UNCHANGED <<clientVars, request, up, down, start, nxt, cur, triggered>>
      /\ HandlerStays \/ (Leave /\ s = Main /\ hpc = "accepted")
      /\ TransferNamesStay /\ dir' \in NameSets
  BY SecretReach
<1>2. /\ SecretTypes'
      /\ held'[Main] = Unset => held[Main] = Unset
      /\ spc'[Main] # "idle" =>
           hpc = "accepted" /\ held'[Main] = Unset /\ (s # Main \/ HandlerStays)
  BY SecretOwn
<1>3. ClientTypes' /\ DiskTypes'
  BY <1>1 DEF Shape, KrpTypes, ClientTypes, DiskTypes, TransferNamesStay, dataVars, clientVars
<1>4. CASE HandlerStays
  <2>1. NetTypes' /\ HandlerTypes'
    BY <1>1, <1>4 DEF Shape, KrpTypes, NetTypes, HandlerTypes, HandlerStays
  <2>2. H' = H /\ Used' = Used /\ Decided' = Decided
    BY <1>1, <1>4 DEF H, Used, Decided, HandlerStays
  <2>3. Count(H)' = Count(H) /\ Size(H)' = Size(H)
    BY <2>2 DEF Count, Size
  <2>4. Connected'
    BY <1>1, <1>2, <1>4, <2>2, <2>3 DEF Shape, Connected, HandlerStays, clientVars
  <2> QED
    BY <1>2, <1>3, <2>1, <2>4 DEF Shape, KrpTypes
<1>5. CASE ~HandlerStays
  <2>1. spc'[Main] = "idle" /\ hpc # "idle" /\ Leave
    BY <1>1, <1>2, <1>5
  <2>2. Connected' /\ closed' \in SUBSET Conns /\ hpc' = "idle" /\ hconn' = None
    BY <1>1, <2>1, LeaveConnected DEF clientVars
  <2> QED
    BY <1>1, <1>2, <1>3, <2>2 DEF Shape, KrpTypes, NetTypes, HandlerTypes, HandlerPCs
<1> QED
  BY <1>4, <1>5

\* Handlers leave the senders, the requests and the secrets alone.
LEMMA HandlerReach ==
    ASSUME HandlerStep \/ HandlerAbort
    PROVE  UNCHANGED <<clientVars, request, secretVars, journal>> /\ Used' = Used
<1>1. UNCHANGED <<clientVars, request, secretVars, journal>>
  <2>1. CASE \E n \in Conns : Accept(n) \/ DropQueued(n)
    BY <2>1 DEF Accept, DropQueued, netVars, nameVars
  <2>2. CASE CreatePartial \/ WriteFirstCheckpoint \/ Resume \/ Reject \/ SendStatus
    BY <2>2 DEF CreatePartial, WriteFirstCheckpoint, Resume, Reject, SendStatus, netVars, nameVars
  <2>3. CASE ReceiveFrame \/ SyncFrame \/ AdvanceCheckpoint \/ ReceiveFinal \/ Rehash
    BY <2>3 DEF ReceiveFrame, SyncFrame, AdvanceCheckpoint, ReceiveFinal, Rehash, netVars, nameVars
  <2>4. CASE Publish \/ RemoveCheckpoint \/ Acknowledge \/ DiscardPartial \/ DiscardCheckpoint
    BY <2>4 DEF Publish, RemoveCheckpoint, Acknowledge, DiscardPartial, DiscardCheckpoint,
       netVars, nameVars
  <2>5. CASE ReachEndOfInput \/ HandlerAbort
    BY <2>5 DEF ReachEndOfInput, HandlerAbort, nameVars
  <2> QED
    BY <2>1, <2>2, <2>3, <2>4, <2>5 DEF HandlerStep
<1> QED
  BY <1>1 DEF Used

\* A checkpoint is well formed.
LEMMA CheckpointType ==
    ASSUME NEW h \in Headers, NEW i \in Nat, NEW b \in Nat
    PROVE  CheckpointOf(h, i, b) \in Ckpts
BY HeaderParts DEF CheckpointOf, Ckpts

\* Every handler step leaves the directory well formed.
LEMMA HandlerDisk ==
    ASSUME Shape, HandlerStep \/ HandlerAbort
    PROVE  DiskTypes'
<1>1. /\ DOMAIN file = Conns /\ DOMAIN synced = Conns /\ dir \in NameSets /\ journal \in NameSets
      /\ nxt \in Nat /\ cur \in Nat /\ journal' = journal
  BY HandlerReach DEF Shape, KrpTypes, DiskTypes, HandlerTypes
<1>2. hpc # "idle" => H \in Headers /\ H.tid \in Conns
  BY ServedHeader
<1>3. DOMAIN file' = Conns /\ DOMAIN synced' = Conns
  <2>1. CASE \E n \in Conns : Accept(n) \/ DropQueued(n)
    BY <1>1, <2>1 DEF Accept, DropQueued, dataVars
  <2>2. CASE CreatePartial \/ WriteFirstCheckpoint \/ Resume \/ Reject \/ SendStatus
    BY <1>1, <2>2 DEF CreatePartial, WriteFirstCheckpoint, Resume, Reject, SendStatus, dataVars
  <2>3. CASE ReceiveFrame \/ SyncFrame \/ AdvanceCheckpoint \/ ReceiveFinal \/ Rehash
    BY <1>1, <2>3 DEF ReceiveFrame, SyncFrame, AdvanceCheckpoint, ReceiveFinal, Rehash, dataVars
  <2>4. CASE Publish \/ RemoveCheckpoint \/ Acknowledge \/ DiscardPartial \/ DiscardCheckpoint
    BY <1>1, <2>4 DEF Publish, RemoveCheckpoint, Acknowledge, DiscardPartial, DiscardCheckpoint,
       dataVars
  <2>5. CASE ReachEndOfInput \/ HandlerAbort
    BY <1>1, <2>5 DEF ReachEndOfInput, HandlerAbort, dataVars
  <2> QED
    BY <2>1, <2>2, <2>3, <2>4, <2>5 DEF HandlerStep
<1>4. dir' \in NameSets
  <2>1. CASE UNCHANGED dir
    BY <1>1, <2>1
  <2>2. CASE CreatePartial
    BY <1>1, <1>2, <2>2 DEF CreatePartial, Deciding, NameSets
  <2>3. CASE WriteFirstCheckpoint \/ AdvanceCheckpoint
    <3>1. PICK k \in Ckpts : dir' = [dir EXCEPT !.ckpt[H.tid] = k]
      BY <1>1, <1>2, <2>3, CheckpointType DEF WriteFirstCheckpoint, AdvanceCheckpoint
    <3> QED
      BY <1>1, <3>1 DEF NameSets
  <2>4. CASE Publish \/ DiscardPartial
    BY <1>1, <1>2, <2>4 DEF Publish, DiscardPartial, NameSets
  <2>5. CASE RemoveCheckpoint \/ DiscardCheckpoint
    BY <1>1, <2>5 DEF RemoveCheckpoint, DiscardCheckpoint, NameSets
  <2>6. CASE \E n \in Conns : Accept(n) \/ DropQueued(n)
    BY <2>1, <2>6 DEF Accept, DropQueued, nameVars
  <2>7. CASE Resume \/ Reject \/ SendStatus \/ ReceiveFrame \/ SyncFrame \/ ReceiveFinal
    BY <2>1, <2>7 DEF Resume, Reject, SendStatus, ReceiveFrame, SyncFrame, ReceiveFinal, nameVars
  <2>8. CASE Rehash \/ Acknowledge \/ ReachEndOfInput \/ HandlerAbort
    BY <2>1, <2>8 DEF Rehash, Acknowledge, ReachEndOfInput, HandlerAbort, nameVars
  <2> QED
    BY <2>2, <2>3, <2>4, <2>5, <2>6, <2>7, <2>8 DEF HandlerStep
<1> QED
  BY <1>1, <1>3, <1>4 DEF DiskTypes

\* The answers it writes are well formed.
LEMMA HandlerDown ==
    ASSUME Shape, HandlerStep \/ HandlerAbort
    PROVE  down' \in [Conns -> Seq(DownMsgs)]
<1>1. down \in [Conns -> Seq(DownMsgs)] /\ nxt \in Nat /\ cur \in Nat /\ held[Main] \in Nat
  BY DEF Shape, KrpTypes, NetTypes, HandlerTypes, SecretTypes, Servers
<1>2. hpc # "idle" => hconn \in Conns /\ H.tid \in Conns /\ H.digest \in Seq(Nat)
  BY ServedHeader
<1>3. CASE UNCHANGED down
  BY <1>1, <1>3
<1>4. CASE SendStatus
  <2>1. Status(nxt, cur, ServerTicket) \in DownMsgs
    BY <1>1, <1>2, <1>4 DEF SendStatus, Status, ServerTicket, Ticket, DownMsgs, Tickets
  <2> QED
    BY <1>1, <1>2, <1>4, <2>1 DEF SendStatus
<1>5. CASE Acknowledge
  <2>1. Ack(H.digest, H.tid) \in DownMsgs
    BY <1>2, <1>5 DEF Acknowledge, Ack, DownMsgs
  <2> QED
    BY <1>1, <1>2, <1>5, <2>1 DEF Acknowledge
<1>6. CASE \E n \in Conns : Accept(n) \/ DropQueued(n)
  BY <1>3, <1>6 DEF Accept, DropQueued, netVars
<1>7. CASE CreatePartial \/ WriteFirstCheckpoint \/ Resume \/ Reject \/ ReceiveFrame \/ SyncFrame
  BY <1>3, <1>7 DEF CreatePartial, WriteFirstCheckpoint, Resume, Reject, ReceiveFrame, SyncFrame,
     netVars
<1>8. CASE AdvanceCheckpoint \/ ReceiveFinal \/ Rehash \/ Publish \/ RemoveCheckpoint
  BY <1>3, <1>8 DEF AdvanceCheckpoint, ReceiveFinal, Rehash, Publish, RemoveCheckpoint, netVars
<1>9. CASE DiscardPartial \/ DiscardCheckpoint \/ ReachEndOfInput \/ HandlerAbort
  BY <1>3, <1>9 DEF DiscardPartial, DiscardCheckpoint, ReachEndOfInput, HandlerAbort, netVars
<1> QED
  BY <1>4, <1>5, <1>6, <1>7, <1>8, <1>9 DEF HandlerStep

\* Frame i of the file the handler serves starts at byte b.
AtFrame(i, b) == i \in Nat /\ b \in Nat /\ i <= Count(H) /\ b = ExpectedBytes(i, Size(H), FrameSize)

\* A handler past the secret goes on where the next frame belongs, or leaves.
GoesOn ==
    /\ hpc # "idle" /\ spc[Main] = "idle" /\ held[Main] # Unset
    /\ UNCHANGED <<hconn, closed>> /\ hpc' \in HandlerPCs /\ Decided' /\ AtFrame(nxt', cur')
LeavesFor ==
    hpc # "idle" /\ spc[Main] = "idle" /\ Leave /\ UNCHANGED <<nxt, cur>>

LEMMA Placing ==
    ASSUME Shape, hpc # "idle"
    PROVE  /\ Decided => AtFrame(nxt, cur) /\ held[Main] # Unset /\ spc[Main] = "idle"
           /\ Deciding => held[Main] # Unset /\ spc[Main] = "idle"
           /\ AtFrame(0, 0)
<1>1. H \in Headers /\ Size(H) \in Nat /\ Count(H) \in Nat /\ nxt \in Nat /\ cur \in Nat
  BY ServedHeader DEF Shape, KrpTypes, HandlerTypes
<1>2. Decided => AtFrame(nxt, cur) /\ held[Main] # Unset /\ spc[Main] = "idle"
  BY <1>1 DEF Shape, Connected, AtFrame, Decided
<1>3. Deciding => held[Main] # Unset /\ spc[Main] = "idle"
  BY DEF Shape, Connected, Deciding
<1>4. AtFrame(0, 0)
  <2>1. Count(H) = 0 => Size(H) = 0
    <3>1. Size(H) <= FrameCount(Size(H), FrameSize) * FrameSize
      BY <1>1, FrameCountBounds, KrpConstants
    <3> QED
      BY <1>1, <3>1, KrpConstants DEF Count
  <2>2. 0 <= Count(H) /\ 0 = 0 * FrameSize
    BY <1>1, KrpConstants
  <2> QED
    BY <1>1, <2>1, <2>2 DEF AtFrame, ExpectedBytes, Count
<1> QED
  BY <1>2, <1>3, <1>4

LEMMA HandlerCourse ==
    ASSUME Shape, HandlerStep \/ HandlerAbort, ~\E n \in Conns : Accept(n) \/ DropQueued(n)
    PROVE  GoesOn \/ LeavesFor
<1>1. CASE CreatePartial
  <2>1. AtFrame(nxt', cur')
    BY <1>1, Placing DEF CreatePartial, Deciding
  <2> QED
    BY <1>1, <2>1, Placing DEF CreatePartial, Deciding, GoesOn, Decided, HandlerPCs, netVars
<1>2. CASE Reject
  BY <1>2, Placing DEF Reject, Deciding, LeavesFor
<1>3. CASE Resume
  <2>1. hpc # "idle" /\ spc[Main] = "idle" /\ held[Main] # Unset
    BY <1>3, Placing DEF Resume, Deciding
  <2>2. CASE Taken
    BY <1>3, <2>1, <2>2 DEF Resume, LeavesFor
  <2>3. CASE ~Taken
    <3>1. PICK k \in Ckpts : /\ k = dir.ckpt[H.tid]
                             /\ k.next <= Count(H)
                             /\ k.bytes = ExpectedBytes(k.next, Size(H), FrameSize)
      <4>1. H.tid \in Conns /\ dir \in NameSets
        BY <2>1, ServedHeader DEF Shape, KrpTypes, DiskTypes
      <4>2. dir.ckpt[H.tid] \in Ckpts
        BY <1>3, <4>1 DEF Resume, ResumeAllowed, StateValid, NameSets
      <4> QED
        BY <1>3, <4>2 DEF Resume, ResumeAllowed, StateValid
    <3>2. k.next \in Nat /\ k.bytes \in Nat
      BY DEF Ckpts
    <3>3. AtFrame(nxt', cur')
      BY <1>3, <2>3, <3>1, <3>2 DEF Resume, AtFrame
    <3> QED
      BY <1>3, <2>1, <2>3, <3>3 DEF Resume, GoesOn, Decided, HandlerPCs
  <2> QED
    BY <2>2, <2>3
<1>4. CASE ReceiveFrame
  <2>1. hpc = "receiving" /\ nxt < Count(H) /\ Head(up[hconn]).len = FrameLen(cur, Size(H), FrameSize)
    BY <1>4 DEF ReceiveFrame, FrameIn, Acceptable
  <2>2. hpc # "idle" /\ spc[Main] = "idle" /\ held[Main] # Unset /\ AtFrame(nxt, cur)
    BY <2>1, Placing DEF Decided
  <2>3. Size(H) \in Nat /\ Count(H) \in Nat /\ nxt \in Nat /\ cur \in Nat
    BY <2>2, ServedHeader DEF AtFrame
  <2>4. /\ cur < Size(H)
        /\ ExpectedBytes(nxt + 1, Size(H), FrameSize) = cur + FrameLen(cur, Size(H), FrameSize)
    BY <2>1, <2>2, <2>3, ExpectedBytesStep, KrpConstants DEF AtFrame, Count
  <2>5. FrameLen(cur, Size(H), FrameSize) \in Nat
    BY <2>3, <2>4, KrpConstants DEF FrameLen, Least
  <2>6. AtFrame(nxt', cur')
    <3>1. nxt' = nxt + 1 /\ cur' = cur + FrameLen(cur, Size(H), FrameSize)
      BY <1>4, <2>1 DEF ReceiveFrame
    <3>2. nxt + 1 \in Nat /\ nxt + 1 <= Count(H)
      BY <2>1, <2>3
    <3>3. cur + FrameLen(cur, Size(H), FrameSize) \in Nat
      BY <2>3, <2>5
    <3> QED
      BY <2>4, <3>1, <3>2, <3>3 DEF AtFrame
  <2> QED
    BY <1>4, <2>2, <2>6 DEF ReceiveFrame, GoesOn, Decided, HandlerPCs
<1>5. CASE Decided /\ hpc' \in HandlerPCs /\ Decided' /\ UNCHANGED <<hconn, closed, nxt, cur>>
  <2>1. AtFrame(nxt', cur')
    BY <1>5, Placing DEF Decided
  <2> QED
    BY <1>5, <2>1, Placing DEF GoesOn, Decided
<1>6. CASE Decided /\ Leave /\ UNCHANGED <<nxt, cur>>
  BY <1>6, Placing DEF LeavesFor, Decided
<1>7. CASE WriteFirstCheckpoint \/ SendStatus \/ SyncFrame \/ ReceiveFinal
  BY <1>5, <1>7 DEF WriteFirstCheckpoint, SendStatus, SyncFrame, ReceiveFinal, netVars,
     Decided, HandlerPCs
<1>8. CASE Rehash \/ Publish \/ RemoveCheckpoint \/ DiscardPartial
  BY <1>5, <1>8 DEF Rehash, Publish, RemoveCheckpoint, DiscardPartial, netVars, Decided, HandlerPCs
<1>9. CASE AdvanceCheckpoint
  BY <1>5, <1>6, <1>9 DEF AdvanceCheckpoint, Decided, HandlerPCs
<1>10. CASE Acknowledge \/ DiscardCheckpoint \/ ReachEndOfInput \/ HandlerAbort
  BY <1>6, <1>10 DEF Acknowledge, DiscardCheckpoint, ReachEndOfInput, HandlerAbort, Decided
<1> QED
  BY <1>1, <1>2, <1>3, <1>4, <1>7, <1>8, <1>9, <1>10 DEF HandlerStep

LEMMA HandlerShape ==
    ASSUME Shape, HandlerStep \/ HandlerAbort
    PROVE  Shape' /\ (GoesOn => H' = H)
<1>1. UNCHANGED <<clientVars, request, secretVars, journal>> /\ Used' = Used
  BY HandlerReach
<1>2. ClientTypes' /\ SecretTypes' /\ DiskTypes' /\ down' \in [Conns -> Seq(DownMsgs)]
  BY <1>1, HandlerDisk, HandlerDown DEF Shape, KrpTypes, ClientTypes, SecretTypes, clientVars,
     secretVars
<1>3. request' \in [Conns -> Headers \cup {None}]
  BY <1>1 DEF Shape, KrpTypes, NetTypes
<1>4. GoesOn => H' = H /\ Count(H)' = Count(H) /\ Size(H)' = Size(H)
  BY <1>1 DEF GoesOn, H, Count, Size
<1>5. CASE GoesOn
  <2>1. hconn \in Conns /\ hconn \in Used \ closed
    BY <1>5, ServedHeader DEF GoesOn
  <2>2. NetTypes' /\ HandlerTypes'
    BY <1>2, <1>3, <1>5, <2>1 DEF Shape, KrpTypes, NetTypes, HandlerTypes, GoesOn, AtFrame
  <2>3. Connected'
    BY <1>1, <1>4, <1>5, <2>1 DEF Shape, Connected, GoesOn, AtFrame, clientVars, secretVars
  <2> QED
    BY <1>2, <1>4, <1>5, <2>2, <2>3 DEF Shape, KrpTypes
<1>6. CASE LeavesFor
  <2>1. Connected' /\ closed' \in SUBSET Conns /\ hpc' = "idle" /\ hconn' = None
    BY <1>1, <1>6, LeaveConnected DEF LeavesFor, clientVars, secretVars
  <2>2. NetTypes' /\ HandlerTypes' /\ ~GoesOn
    BY <1>2, <1>3, <1>6, <2>1 DEF Shape, KrpTypes, NetTypes, HandlerTypes, LeavesFor, HandlerPCs,
       GoesOn, Decided
  <2> QED
    BY <1>2, <2>1, <2>2 DEF Shape, KrpTypes
<1>7. ASSUME NEW n \in Conns, Accept(n) \/ DropQueued(n)
      PROVE  Shape' /\ ~GoesOn
  <2>1. hpc = "idle" /\ n \in Used \ closed /\ UNCHANGED <<nxt, cur>>
    BY <1>7 DEF Accept, DropQueued, handlerVars
  <2>2. NetTypes' /\ HandlerTypes'
    BY <1>2, <1>3, <1>7, <2>1 DEF Shape, KrpTypes, NetTypes, HandlerTypes, HandlerPCs, Accept,
       DropQueued, netVars, handlerVars
  <2>3. ~Decided'
    BY <1>7, <2>1 DEF Accept, DropQueued, handlerVars, Decided
  <2>4. Connected'
    BY <1>1, <1>7, <2>1, <2>3 DEF Shape, Connected, Accept, DropQueued, clientVars, secretVars,
       netVars, handlerVars
  <2> QED
    BY <1>2, <2>1, <2>2, <2>4 DEF Shape, KrpTypes, GoesOn
<1> QED
  BY <1>4, <1>5, <1>6, <1>7, HandlerCourse

\* A process dies, or all of them do: what remains is well formed.
LEMMA FaultShape ==
    ASSUME Shape, PowerLoss \/ (\E s \in Servers : ServerCrash(s))
    PROVE  /\ Shape' /\ UNCHANGED <<request, synced, journal>>
           /\ HandlerStays \/ (hpc' = "idle" /\ hconn' = None /\ closed' = Used)
<1>1. PICK S \in SUBSET Servers : Forget(S)
  BY DEF PowerLoss, ServerCrash
<1>2. /\ UNCHANGED <<clientVars, request, up, down, start, nxt, cur, drawn, stored, synced, journal>>
      /\ (UNCHANGED <<dir, file>> \/ (dir' = journal /\ file' = synced))
  BY DEF PowerLoss, ServerCrash, dataVars, nameVars
<1>3. Used' = Used /\ Used \subseteq Conns
  BY <1>2 DEF Used
<1>4. ClientTypes' /\ DiskTypes' /\ SecretTypes'
  <2>1. ClientTypes' /\ DiskTypes'
    BY <1>2 DEF Shape, KrpTypes, ClientTypes, DiskTypes, clientVars
  <2>2. /\ held \in [Servers -> Nat] /\ spc \in [Servers -> SecretPCs]
        /\ mine \in [Servers -> Nat] /\ drawn' \in Nat
        /\ text \in [Secrets -> Nat] /\ stored \in [Secrets -> Nat] /\ stored' = stored
    BY <1>2 DEF Shape, KrpTypes, SecretTypes
  <2>3. held' \in [Servers -> Nat] /\ spc' \in [Servers -> SecretPCs] /\ mine' \in [Servers -> Nat]
    BY <1>1, <2>2 DEF Forget, SecretPCs, Unset
  <2>4. text' \in [Secrets -> Nat]
    BY <2>2 DEF PowerLoss, ServerCrash
  <2> QED
    BY <2>1, <2>2, <2>3, <2>4 DEF SecretTypes
<1>5. CASE Main \in S
  <2>1. hpc' = "idle" /\ hconn' = None /\ closed' = Used /\ spc'[Main] = "idle"
    BY <1>1, <1>5 DEF Forget, Servers
  <2>2. NetTypes' /\ HandlerTypes'
    BY <1>2, <1>3, <2>1 DEF Shape, KrpTypes, NetTypes, HandlerTypes, HandlerPCs
  <2>3. Connected'
    BY <1>2, <1>3, <2>1 DEF Shape, Connected, Decided, clientVars
  <2> QED
    BY <1>2, <1>4, <2>1, <2>2, <2>3 DEF Shape, KrpTypes
<1>6. CASE Main \notin S
  <2>1. HandlerStays /\ held'[Main] = held[Main] /\ spc'[Main] = spc[Main]
    BY <1>1, <1>6 DEF Forget, Servers, HandlerStays
  <2>2. NetTypes' /\ HandlerTypes'
    BY <1>2, <2>1 DEF Shape, KrpTypes, NetTypes, HandlerTypes, HandlerStays
  <2>3. H' = H /\ Decided' = Decided /\ Count(H)' = Count(H) /\ Size(H)' = Size(H)
    BY <1>2, <2>1 DEF H, Decided, Count, Size, HandlerStays
  <2>4. Connected'
    BY <1>2, <1>3, <2>1, <2>3 DEF Shape, Connected, HandlerStays, clientVars
  <2> QED
    BY <1>2, <1>4, <2>1, <2>2, <2>4 DEF Shape, KrpTypes
<1> QED
  BY <1>5, <1>6

\* The names reach the journal.
LEMMA WriteBackShape ==
    ASSUME Shape, WriteBack
    PROVE  Shape'
<1>1. UNCHANGED <<clientVars, netVars, handlerVars, secretVars, dataVars, dir>> /\ journal' = dir
  BY DEF WriteBack
<1>2. KrpTypes'
  BY <1>1 DEF Shape, KrpTypes, ClientTypes, NetTypes, HandlerTypes, SecretTypes, DiskTypes,
     clientVars, netVars, handlerVars, secretVars, dataVars
<1>3. Used' = Used /\ H' = H /\ Decided' = Decided /\ Count(H)' = Count(H) /\ Size(H)' = Size(H)
  BY <1>1 DEF Used, H, Decided, Count, Size, netVars, handlerVars
<1>4. Connected'
  BY <1>1, <1>3 DEF Shape, Connected, clientVars, netVars, handlerVars, secretVars
<1> QED
  BY <1>2, <1>4 DEF Shape
-----------------------------------------------------------------------------
(* The names on disk, and what is behind them. *)

\* The transfer t has been admitted once, by a handler that runs or has left.
Begun(t) == t \in Used /\ (t \in closed \/ (t = hconn /\ Decided))

Named(d, t) == t \in d.partial \/ d.ckpt[t] # None \/ d.dest = t

\* A name stands for a transfer that has begun; a checkpoint carries its
\* digest; a published inode is verified, synced and no longer a partial file.
NamesTrue(d) ==
    /\ \A t \in Conns : Named(d, t) => Begun(t)
    /\ \A t \in Conns : d.ckpt[t] # None => d.ckpt[t].digest = request[t].digest
    /\ d.dest # None => /\ d.dest \notin d.partial /\ d.dest \notin dir.partial
                        /\ file[d.dest] = request[d.dest].digest
                        /\ synced[d.dest] = file[d.dest]

\* What the handler knows of the transfer it serves.
Serving ==
    /\ Decided => Begun(H.tid) /\ H.digest = request[H.tid].digest
    /\ hpc \in Placed => H.tid \in dir.partial
    /\ hpc \in {"complete", "verified"} => synced[H.tid] = file[H.tid]
    /\ hpc = "verified" => file[H.tid] = H.digest

VerifiedInv == Shape /\ NamesTrue(dir) /\ NamesTrue(journal) /\ Serving

LEMMA InitVerified == Init => VerifiedInv
<1> SUFFICES ASSUME Init
             PROVE  VerifiedInv
  OBVIOUS
<1>1. NamesTrue(dir) /\ NamesTrue(journal)
  <2>1. \A t \in Conns : t # None
    BY KrpConstants DEF Conns
  <2>2. \A t \in Conns : ~Named(dir, t) /\ ~Named(journal, t)
    BY <2>1 DEF Init, NoNames, Named
  <2>3. \A t \in Conns : dir.ckpt[t] = None /\ journal.ckpt[t] = None
    BY DEF Init, NoNames
  <2>4. dir.dest = None /\ journal.dest = None
    BY DEF Init, NoNames
  <2> QED
    BY <2>2, <2>3, <2>4 DEF NamesTrue
<1>2. Serving
  BY DEF Init, Serving, Decided, Placed
<1> QED
  BY <1>1, <1>2, InitShape DEF VerifiedInv

\* A transfer that has begun stays so, with the header it was given.
LEMMA BegunStays ==
    ASSUME Shape, Next
    PROVE  \A t \in Conns : Begun(t) => Begun(t)' /\ request'[t] = request[t]
<1>1. CASE \E c \in Clients : ClientMoves(c)
  <2>1. /\ UNCHANGED <<closed, handlerVars>>
        /\ \A n \in Used : n \in Used' /\ request'[n] = request[n]
    BY <1>1, ClientReach
  <2>2. Decided' = Decided /\ hconn' = hconn
    BY <2>1 DEF Decided, handlerVars
  <2> QED
    BY <2>1, <2>2 DEF Begun
<1>2. CASE \E s \in Servers : SecretStep(s)
  <2>1. UNCHANGED request /\ (HandlerStays \/ (Leave /\ hpc = "accepted"))
    BY <1>2, SecretReach
  <2>2. Used' = Used
    BY <2>1 DEF Used
  <2> QED
    BY <2>1, <2>2 DEF Begun, Decided, HandlerStays, Leave
<1>3. CASE HandlerStep \/ HandlerAbort
  <2>1. UNCHANGED request /\ Used' = Used
    BY <1>3, HandlerReach
  <2>2. CASE GoesOn
    BY <2>1, <2>2 DEF GoesOn, Begun
  <2>3. CASE LeavesFor
    BY <2>1, <2>3 DEF LeavesFor, Leave, Begun
  <2>4. CASE \E n \in Conns : Accept(n) \/ DropQueued(n)
    <3>1. hpc = "idle" /\ closed \subseteq closed'
      BY <2>4 DEF Accept, DropQueued, netVars
    <3> QED
      BY <2>1, <3>1 DEF Begun, Decided
  <2> QED
    BY <1>3, <2>2, <2>3, <2>4, HandlerCourse
<1>4. CASE PowerLoss \/ \E s \in Servers : ServerCrash(s)
  <2>1. UNCHANGED request /\ (HandlerStays \/ closed' = Used)
    BY <1>4, FaultShape
  <2>2. Used' = Used
    BY <2>1 DEF Used
  <2> QED
    BY <2>1, <2>2 DEF Begun, Decided, HandlerStays
<1>5. CASE WriteBack
  BY <1>5 DEF WriteBack, Begun, Used, Decided, netVars, handlerVars
<1> QED
  BY <1>1, <1>2, <1>3, <1>4, <1>5 DEF Next, ClientMoves

\* Names and files that stay mean what they meant.
LEMMA NamesKept ==
    ASSUME VerifiedInv, Next, TransferNamesStay
    PROVE  NamesTrue(dir)' /\ NamesTrue(journal)'
<1>1. /\ dir'.partial = dir.partial /\ dir'.ckpt = dir.ckpt /\ dir'.dest = dir.dest
      /\ file' = file /\ synced' = synced /\ journal' = journal
  BY DEF TransferNamesStay, dataVars
<1>2. /\ \A t \in Conns : Begun(t) => Begun(t)' /\ request'[t] = request[t]
      /\ dir \in NameSets /\ journal \in NameSets
  BY BegunStays DEF VerifiedInv, Shape, KrpTypes, DiskTypes
<1>3. NamesTrue(dir)'
  <2>1. \A t \in Conns : Named(dir, t)' => Named(dir, t) /\ Begun(t)
    BY <1>1 DEF VerifiedInv, NamesTrue, Named
  <2>2. \A t \in Conns : dir'.ckpt[t] # None => dir'.ckpt[t].digest = request'[t].digest
    BY <1>1, <1>2, <2>1 DEF VerifiedInv, NamesTrue, Named
  <2>3. dir'.dest # None => /\ dir'.dest \notin dir'.partial
                            /\ file'[dir'.dest] = request'[dir'.dest].digest
                            /\ synced'[dir'.dest] = file'[dir'.dest]
    <3>1. dir.dest # None => dir.dest \in Conns /\ Named(dir, dir.dest)
      BY <1>2 DEF NameSets, Named
    <3> QED
      BY <1>1, <1>2, <3>1 DEF VerifiedInv, NamesTrue
  <2> QED
    BY <1>2, <2>1, <2>2, <2>3 DEF NamesTrue
<1>4. NamesTrue(journal)'
  <2>1. \A t \in Conns : Named(journal, t)' => Named(journal, t) /\ Begun(t)
    BY <1>1 DEF VerifiedInv, NamesTrue, Named
  <2>2. \A t \in Conns : journal'.ckpt[t] # None => journal'.ckpt[t].digest = request'[t].digest
    BY <1>1, <1>2, <2>1 DEF VerifiedInv, NamesTrue, Named
  <2>3. journal'.dest # None => /\ journal'.dest \notin journal'.partial
                                /\ journal'.dest \notin dir'.partial
                                /\ file'[journal'.dest] = request'[journal'.dest].digest
                                /\ synced'[journal'.dest] = file'[journal'.dest]
    <3>1. journal.dest # None => journal.dest \in Conns /\ Named(journal, journal.dest)
      BY <1>2 DEF NameSets, Named
    <3> QED
      BY <1>1, <1>2, <3>1 DEF VerifiedInv, NamesTrue
  <2> QED
    BY <1>2, <2>1, <2>2, <2>3 DEF NamesTrue
<1> QED
  BY <1>3, <1>4

\* The step changes the directory, or files, but no published one.
Untouched(d) ==
    d.dest # None => /\ d.dest \notin dir'.partial
                     /\ file'[d.dest] = file[d.dest] /\ synced'[d.dest] = synced[d.dest]

LEMMA JournalKept ==
    ASSUME VerifiedInv, Next, UNCHANGED journal, Untouched(journal)
    PROVE  NamesTrue(journal)'
<1>1. /\ \A t \in Conns : Begun(t) => Begun(t)' /\ request'[t] = request[t]
      /\ journal \in NameSets
  BY BegunStays DEF VerifiedInv, Shape, KrpTypes, DiskTypes
<1>2. \A t \in Conns : Named(journal, t)' => Named(journal, t) /\ Begun(t)
  BY DEF VerifiedInv, NamesTrue, Named
<1>3. \A t \in Conns : journal'.ckpt[t] # None => journal'.ckpt[t].digest = request'[t].digest
  BY <1>1, <1>2 DEF VerifiedInv, NamesTrue, Named
<1>4. journal'.dest # None => /\ journal'.dest \notin journal'.partial
                              /\ journal'.dest \notin dir'.partial
                              /\ file'[journal'.dest] = request'[journal'.dest].digest
                              /\ synced'[journal'.dest] = file'[journal'.dest]
  <2>1. journal.dest # None => journal.dest \in Conns /\ Named(journal, journal.dest)
    BY <1>1 DEF NameSets, Named
  <2> QED
    BY <1>1, <2>1 DEF VerifiedInv, NamesTrue, Untouched
<1> QED
  BY <1>1, <1>2, <1>3, <1>4 DEF NamesTrue

\* Names that are added belong to the transfer being served.
LEMMA DirKept ==
    ASSUME VerifiedInv, Next, Untouched(dir), dir'.dest = dir.dest,
           \A t \in Conns : Named(dir, t)' => Named(dir, t) \/ Begun(t)',
           \A t \in Conns : dir'.ckpt[t] # dir.ckpt[t] /\ dir'.ckpt[t] # None =>
               dir'.ckpt[t].digest = request'[t].digest
    PROVE  NamesTrue(dir)'
<1>1. /\ \A t \in Conns : Begun(t) => Begun(t)' /\ request'[t] = request[t]
      /\ dir \in NameSets
  BY BegunStays DEF VerifiedInv, Shape, KrpTypes, DiskTypes
<1>2. \A t \in Conns : Named(dir, t) => Begun(t)
  BY DEF VerifiedInv, NamesTrue
<1>3. \A t \in Conns : Named(dir, t)' => Begun(t)'
  BY <1>1, <1>2
<1>4. \A t \in Conns : dir'.ckpt[t] # None => dir'.ckpt[t].digest = request'[t].digest
  <2>1. SUFFICES ASSUME NEW t \in Conns, dir'.ckpt[t] # None, dir'.ckpt[t] = dir.ckpt[t]
                 PROVE  dir'.ckpt[t].digest = request'[t].digest
    OBVIOUS
  <2>2. Begun(t) /\ dir.ckpt[t].digest = request[t].digest
    BY <1>2, <2>1 DEF VerifiedInv, NamesTrue, Named
  <2> QED
    BY <1>1, <2>1, <2>2
<1>5. dir'.dest # None => /\ dir'.dest \notin dir'.partial
                          /\ file'[dir'.dest] = request'[dir'.dest].digest
                          /\ synced'[dir'.dest] = file'[dir'.dest]
  <2>1. dir.dest # None => dir.dest \in Conns /\ Named(dir, dir.dest)
    BY <1>1 DEF NameSets, Named
  <2> QED
    BY <1>1, <1>2, <2>1 DEF VerifiedInv, NamesTrue, Untouched
<1> QED
  BY <1>3, <1>4, <1>5 DEF NamesTrue

\* A transfer that is not begun, or has a partial file, is published nowhere.
LEMMA OutOfReach ==
    ASSUME VerifiedInv, NEW t \in Conns, ~Begun(t) \/ t \in dir.partial
    PROVE  dir.dest # t /\ journal.dest # t
<1>1. t # None
  BY KrpConstants DEF Conns
<1> QED
  BY <1>1 DEF VerifiedInv, NamesTrue, Named

\* What holds of the transfer that is served when its files are touched.
LEMMA ServedTransfer ==
    ASSUME VerifiedInv, hpc # "idle"
    PROVE  /\ H.tid \in Conns /\ H.tid # None
           /\ Decided => Begun(H.tid) /\ H.digest = request[H.tid].digest
           /\ hpc \in Placed => H.tid \in dir.partial
           /\ H.mode = "new" => H.tid = hconn
           /\ hpc = "accepted" => ~Begun(hconn)
<1>1. H.tid \in Conns /\ hconn \in Used /\ hconn \notin closed
  BY ServedHeader DEF VerifiedInv
<1>2. H.tid # None
  BY <1>1, KrpConstants DEF Conns
<1>3. H.mode = "new" => H.tid = hconn
  BY <1>1 DEF VerifiedInv, Shape, Connected, H
<1>4. hpc = "accepted" => ~Begun(hconn)
  BY <1>1 DEF Begun, Decided
<1> QED
  BY <1>1, <1>2, <1>3, <1>4 DEF VerifiedInv, Serving

\* CreatePartial: the partial file is that of the new transfer.
LEMMA CreatePartialNames ==
    ASSUME VerifiedInv, Next, CreatePartial
    PROVE  /\ NamesTrue(dir)' /\ NamesTrue(journal)'
           /\ Begun(hconn)' /\ H.tid = hconn /\ H.tid \in dir'.partial
<1>1. hpc = "accepted" /\ H.mode = "new" /\ hconn' = hconn /\ Decided'
  BY DEF CreatePartial, Deciding, Decided
<1>2. H.tid = hconn /\ H.tid \in Conns /\ ~Begun(hconn)
  BY <1>1, ServedTransfer
<1>3. Begun(hconn)'
  <2>1. hconn \in Used'
    BY <1>1, ServedHeader, HandlerReach DEF VerifiedInv, HandlerStep
  <2> QED
    BY <1>1, <2>1 DEF Begun
<1>4. /\ dir'.partial = dir.partial \cup {H.tid} /\ dir'.ckpt = dir.ckpt /\ dir'.dest = dir.dest
      /\ \A t \in Conns : t # H.tid => file'[t] = file[t] /\ synced'[t] = synced[t]
      /\ journal' = journal
  <2>1. dir \in NameSets /\ DOMAIN file = Conns /\ DOMAIN synced = Conns
    BY DEF VerifiedInv, Shape, KrpTypes, DiskTypes
  <2> QED
    BY <2>1 DEF CreatePartial, NameSets
<1>5. dir.dest # H.tid /\ journal.dest # H.tid
  BY <1>2, OutOfReach
<1>6. Untouched(dir) /\ Untouched(journal)
  <2>1. /\ dir.dest # None => dir.dest \in Conns /\ dir.dest \notin dir.partial
        /\ journal.dest # None => journal.dest \in Conns /\ journal.dest \notin dir.partial
    BY DEF VerifiedInv, Shape, KrpTypes, DiskTypes, NameSets, NamesTrue
  <2> QED
    BY <1>4, <1>5, <2>1 DEF Untouched
<1>7. \A t \in Conns : Named(dir, t)' => Named(dir, t) \/ Begun(t)'
  <2>1. SUFFICES ASSUME NEW t \in Conns, Named(dir, t)', t = hconn
                 PROVE  Begun(t)'
    BY <1>2, <1>4 DEF Named
  <2>2. t \in Used'
    BY <1>1, <1>3, <2>1 DEF Begun
  <2> QED
    BY <1>1, <2>1, <2>2 DEF Begun
<1>8. NamesTrue(dir)' /\ NamesTrue(journal)'
  BY <1>4, <1>6, <1>7, DirKept, JournalKept
<1> QED
  BY <1>2, <1>3, <1>4, <1>8

\* A checkpoint is that of the transfer being served.
LEMMA CheckpointNames ==
    ASSUME VerifiedInv, Next, WriteFirstCheckpoint \/ AdvanceCheckpoint
    PROVE  NamesTrue(dir)' /\ NamesTrue(journal)' /\ dir'.partial = dir.partial
<1>1. Decided /\ hpc # "idle"
  BY DEF WriteFirstCheckpoint, AdvanceCheckpoint, Decided
<1>2. PICK t \in Conns : t = H.tid /\ Begun(t) /\ H.digest = request[t].digest
  BY <1>1, ServedTransfer
<1>3. Begun(t)' /\ request'[t] = request[t]
  BY <1>2, BegunStays DEF VerifiedInv
<1>4. /\ dir'.partial = dir.partial /\ dir'.dest = dir.dest
      /\ \A u \in Conns : u # t => dir'.ckpt[u] = dir.ckpt[u]
      /\ dir'.ckpt[t].digest = H.digest
      /\ UNCHANGED <<file, synced, journal>>
  <2>1. dir \in NameSets
    BY DEF VerifiedInv, Shape, KrpTypes, DiskTypes
  <2>2. PICK k : k.digest = H.digest /\ dir' = [dir EXCEPT !.ckpt[t] = k]
    BY <1>2 DEF WriteFirstCheckpoint, AdvanceCheckpoint, CheckpointOf
  <2>3. dir'.partial = dir.partial /\ dir'.dest = dir.dest /\ dir'.ckpt = [dir.ckpt EXCEPT ![t] = k]
    BY <2>1, <2>2 DEF NameSets
  <2>4. DOMAIN dir.ckpt = Conns
    BY <2>1 DEF NameSets
  <2> QED
    BY <2>2, <2>3, <2>4 DEF WriteFirstCheckpoint, AdvanceCheckpoint, dataVars
<1>5. Untouched(dir) /\ Untouched(journal)
  BY <1>4 DEF VerifiedInv, NamesTrue, Untouched
<1>6. \A u \in Conns : Named(dir, u)' => Named(dir, u) \/ u = t
  BY <1>4 DEF Named
<1>7. \A u \in Conns : Named(dir, u)' => Named(dir, u) \/ Begun(u)'
  BY <1>3, <1>6
<1>8. \A u \in Conns : dir'.ckpt[u] # dir.ckpt[u] /\ dir'.ckpt[u] # None =>
          dir'.ckpt[u].digest = request'[u].digest
  BY <1>2, <1>3, <1>4
<1> QED
  BY <1>4, <1>5, <1>7, <1>8, DirKept, JournalKept

\* Frames, truncations and fsyncs reach no published file.
LEMMA PartialNames ==
    ASSUME VerifiedInv, Next, ReceiveFrame \/ SyncFrame \/ ReceiveFinal \/ Resume
    PROVE  NamesTrue(dir)' /\ NamesTrue(journal)'
<1>1. hpc # "idle" /\ H.tid \in dir.partial
  <2>1. CASE Resume
    BY <2>1 DEF Resume, Deciding, ResumeAllowed, StateValid
  <2>2. CASE ReceiveFrame \/ SyncFrame \/ ReceiveFinal
    BY <2>2, ServedTransfer DEF ReceiveFrame, FrameIn, SyncFrame, ReceiveFinal, Placed
  <2> QED
    BY <2>1, <2>2
<1>2. PICK t \in Conns : t = H.tid /\ t \in dir.partial
  BY <1>1, ServedTransfer
<1>3. UNCHANGED nameVars /\ \A u \in Conns : u # t => file'[u] = file[u] /\ synced'[u] = synced[u]
  <2>1. DOMAIN file = Conns /\ DOMAIN synced = Conns
    BY DEF VerifiedInv, Shape, KrpTypes, DiskTypes
  <2>2. CASE Resume
    BY <1>2, <2>1, <2>2 DEF Resume, dataVars
  <2>3. CASE ReceiveFrame
    BY <1>2, <2>1, <2>3 DEF ReceiveFrame
  <2>4. CASE SyncFrame \/ ReceiveFinal
    BY <1>2, <2>1, <2>4 DEF SyncFrame, ReceiveFinal
  <2> QED
    BY <2>2, <2>3, <2>4
<1>4. dir' = dir /\ journal' = journal
  BY <1>3 DEF nameVars
<1>5. dir.dest # t /\ journal.dest # t
  BY <1>2, OutOfReach
<1>6. Untouched(dir) /\ Untouched(journal)
  <2>1. /\ dir.dest # None => dir.dest \in Conns /\ dir.dest \notin dir.partial
        /\ journal.dest # None => journal.dest \in Conns /\ journal.dest \notin dir.partial
    BY DEF VerifiedInv, Shape, KrpTypes, DiskTypes, NameSets, NamesTrue
  <2> QED
    BY <1>3, <1>4, <1>5, <2>1 DEF Untouched
<1>7. \A u \in Conns : Named(dir, u)' => Named(dir, u)
  BY <1>4 DEF Named
<1> QED
  BY <1>4, <1>6, <1>7, DirKept, JournalKept

\* Names that only go away.
LEMMA RemovalNames ==
    ASSUME VerifiedInv, Next, RemoveCheckpoint \/ DiscardPartial \/ DiscardCheckpoint
    PROVE  NamesTrue(dir)' /\ NamesTrue(journal)'
<1>1. /\ dir'.partial \subseteq dir.partial /\ dir'.dest = dir.dest
      /\ \A u \in Conns : dir'.ckpt[u] = dir.ckpt[u] \/ dir'.ckpt[u] = None
      /\ UNCHANGED <<file, synced, journal>>
  <2>1. dir \in NameSets
    BY DEF VerifiedInv, Shape, KrpTypes, DiskTypes
  <2>2. CASE RemoveCheckpoint \/ DiscardCheckpoint
    <3>1. /\ dir'.partial = dir.partial /\ dir'.dest = dir.dest
          /\ dir'.ckpt = [dir.ckpt EXCEPT ![H.tid] = None] /\ DOMAIN dir.ckpt = Conns
      BY <2>1, <2>2 DEF RemoveCheckpoint, DiscardCheckpoint, NameSets
    <3> QED
      BY <2>2, <3>1 DEF RemoveCheckpoint, DiscardCheckpoint, dataVars
  <2>3. CASE DiscardPartial
    BY <2>1, <2>3 DEF DiscardPartial, dataVars, NameSets
  <2> QED
    BY <2>2, <2>3
<1>2. Untouched(dir) /\ Untouched(journal)
  BY <1>1 DEF VerifiedInv, NamesTrue, Untouched
<1>3. \A u \in Conns : Named(dir, u)' => Named(dir, u)
  BY <1>1 DEF Named
<1> QED
  BY <1>1, <1>2, <1>3, DirKept, JournalKept

\* os.replace: what was verified takes the place of what was published.
LEMMA PublishNames ==
    ASSUME VerifiedInv, Next, Publish
    PROVE  NamesTrue(dir)' /\ NamesTrue(journal)'
<1>1. hpc = "verified" /\ UNCHANGED <<file, synced, journal, request>>
  BY DEF Publish, dataVars, netVars
<1>2. PICK t \in Conns : t = H.tid /\ Begun(t) /\ H.digest = request[t].digest
  BY <1>1, ServedTransfer DEF Decided
<1>3. file[t] = request[t].digest /\ synced[t] = file[t]
  BY <1>1, <1>2 DEF VerifiedInv, Serving
<1>4. dir'.dest = t /\ dir'.partial = dir.partial \ {t} /\ dir'.ckpt = dir.ckpt
  <2>1. dir \in NameSets
    BY DEF VerifiedInv, Shape, KrpTypes, DiskTypes
  <2> QED
    BY <1>2, <2>1 DEF Publish, NameSets
<1>5. \A u \in Conns : Begun(u) => Begun(u)'
  BY BegunStays DEF VerifiedInv
<1>6. \A u \in Conns : Named(dir, u)' => Begun(u)'
  <2>1. \A u \in Conns : Named(dir, u)' => Named(dir, u) \/ u = t
    BY <1>4 DEF Named
  <2> QED
    BY <1>2, <1>5, <2>1 DEF VerifiedInv, NamesTrue
<1>7. NamesTrue(dir)'
  <2>1. \A u \in Conns : dir'.ckpt[u] # None => dir'.ckpt[u].digest = request'[u].digest
    BY <1>1, <1>4 DEF VerifiedInv, NamesTrue
  <2> QED
    BY <1>1, <1>3, <1>4, <1>6, <2>1 DEF NamesTrue
<1>8. Untouched(journal)
  BY <1>1, <1>4 DEF VerifiedInv, NamesTrue, Untouched
<1> QED
  BY <1>1, <1>7, <1>8, JournalKept

\* Every other step of a handler leaves names and files alone.
LEMMA QuietHandler ==
    ASSUME \/ \E n \in Conns : Accept(n) \/ DropQueued(n)
           \/ Reject \/ SendStatus \/ Rehash \/ Acknowledge \/ ReachEndOfInput \/ HandlerAbort
    PROVE  TransferNamesStay
<1>1. UNCHANGED <<dataVars, nameVars>>
  <2>1. CASE \E n \in Conns : Accept(n) \/ DropQueued(n)
    BY <2>1 DEF Accept, DropQueued
  <2>2. CASE Reject \/ SendStatus \/ Rehash
    BY <2>2 DEF Reject, SendStatus, Rehash
  <2>3. CASE Acknowledge \/ ReachEndOfInput \/ HandlerAbort
    BY <2>3 DEF Acknowledge, ReachEndOfInput, HandlerAbort
  <2> QED
    BY <2>1, <2>2, <2>3
<1> QED
  BY <1>1 DEF TransferNamesStay, nameVars

LEMMA HandlerNames ==
    ASSUME VerifiedInv, Next, HandlerStep \/ HandlerAbort
    PROVE  NamesTrue(dir)' /\ NamesTrue(journal)'
BY QuietHandler, NamesKept, CreatePartialNames, CheckpointNames, PartialNames, RemovalNames,
   PublishNames DEF HandlerStep

\* The handler keeps track of its transfer.
LEMMA ServingDecided ==
    ASSUME VerifiedInv, Next, HandlerStep \/ HandlerAbort, GoesOn
    PROVE  (Begun(H.tid) /\ H.digest = request[H.tid].digest)'
<1>1. H' = H /\ hpc # "idle"
  BY HandlerShape DEF VerifiedInv, GoesOn
<1>2. PICK t \in Conns : t = H.tid
  BY <1>1, ServedTransfer
<1>3. CASE CreatePartial
  <2>1. Begun(hconn)' /\ H.tid = hconn /\ hconn' = hconn /\ request' = request
    BY <1>3, CreatePartialNames DEF CreatePartial, netVars
  <2>2. Begun(t)'
    BY <1>2, <2>1 DEF Begun
  <2>3. H.digest = request[t].digest
    BY <1>2, <2>1 DEF H
  <2> QED
    BY <1>1, <1>2, <2>1, <2>2, <2>3 DEF Begun
<1>4. CASE ~CreatePartial
  <2>1. Begun(t) /\ H.digest = request[t].digest
    <3>1. CASE Decided
      BY <1>1, <1>2, <3>1, ServedTransfer
    <3>2. CASE Resume
      <4>1. /\ t \in dir.partial /\ dir.ckpt[t] # None
            /\ dir.ckpt[t].digest = H.digest
        BY <1>2, <3>2 DEF Resume, ResumeAllowed, StateValid
      <4> QED
        BY <4>1 DEF VerifiedInv, NamesTrue, Named
    <3>3. CASE ~Decided /\ ~Resume
      <4>1. ~\E n \in Conns : Accept(n) \/ DropQueued(n)
        BY <1>1 DEF Accept, DropQueued
      <4>2. ~Reject
        BY DEF GoesOn, Reject, Leave, Decided
      <4> QED
        BY <1>4, <3>3, <4>1, <4>2 DEF HandlerStep, Decided, WriteFirstCheckpoint, SendStatus,
           ReceiveFrame, FrameIn, SyncFrame, AdvanceCheckpoint, ReceiveFinal, Rehash, Publish,
           RemoveCheckpoint, Acknowledge, DiscardPartial, DiscardCheckpoint, ReachEndOfInput,
           HandlerAbort
    <3> QED
      BY <3>1, <3>2, <3>3
  <2>2. Begun(t)' /\ request'[t] = request[t]
    BY <2>1, BegunStays DEF VerifiedInv
  <2> QED
    BY <1>1, <1>2, <2>1, <2>2 DEF Begun
<1> QED
  BY <1>3, <1>4

LEMMA ServingPlaced ==
    ASSUME VerifiedInv, Next, HandlerStep \/ HandlerAbort, GoesOn
    PROVE  hpc' \in Placed => H'.tid \in dir'.partial
<1>1. H' = H /\ hpc # "idle" /\ (hpc \in Placed => H.tid \in dir.partial)
  BY HandlerShape, ServedTransfer DEF VerifiedInv, GoesOn
<1>2. CASE CreatePartial
  BY <1>1, <1>2, CreatePartialNames
<1>3. CASE Resume
  BY <1>1, <1>3 DEF Resume, ResumeAllowed, StateValid, nameVars
<1>4. CASE WriteFirstCheckpoint \/ AdvanceCheckpoint
  BY <1>1, <1>4, CheckpointNames DEF WriteFirstCheckpoint, AdvanceCheckpoint, Placed
<1>5. CASE SendStatus \/ ReceiveFrame \/ SyncFrame \/ ReceiveFinal \/ Rehash
  BY <1>1, <1>5 DEF SendStatus, ReceiveFrame, FrameIn, SyncFrame, ReceiveFinal, Rehash, Placed,
     nameVars
<1>6. CASE Publish \/ RemoveCheckpoint \/ DiscardPartial
  BY <1>6 DEF Publish, RemoveCheckpoint, DiscardPartial, Placed
<1>7. ~(Reject \/ Acknowledge \/ DiscardCheckpoint \/ ReachEndOfInput \/ HandlerAbort)
  BY DEF GoesOn, Reject, Acknowledge, DiscardCheckpoint, ReachEndOfInput, HandlerAbort, Leave,
     Decided
<1>8. ~\E n \in Conns : Accept(n) \/ DropQueued(n)
  BY <1>1 DEF Accept, DropQueued
<1> QED
  BY <1>2, <1>3, <1>4, <1>5, <1>6, <1>7, <1>8 DEF HandlerStep

LEMMA ServingVerified ==
    ASSUME VerifiedInv, Next, HandlerStep \/ HandlerAbort, GoesOn, H' = H
    PROVE  /\ hpc' \in {"complete", "verified"} => synced'[H.tid] = file'[H.tid]
           /\ hpc' = "verified" => file'[H.tid] = H.digest
<1>1. CASE ReceiveFinal
  <2>1. hpc # "idle"
    BY DEF GoesOn
  <2>2. H.tid \in Conns /\ DOMAIN synced = Conns
    BY <2>1, ServedTransfer DEF VerifiedInv, Shape, KrpTypes, DiskTypes
  <2> QED
    BY <1>1, <2>2 DEF ReceiveFinal
<1>2. CASE Rehash
  BY <1>2 DEF Rehash, Intact, VerifiedInv, Serving, dataVars
<1>3. CASE CreatePartial \/ WriteFirstCheckpoint \/ SendStatus \/ ReceiveFrame \/ SyncFrame
  BY <1>3 DEF CreatePartial, WriteFirstCheckpoint, SendStatus, ReceiveFrame, SyncFrame
<1>4. CASE Resume
  BY <1>4 DEF Resume, Leave
<1>5. CASE AdvanceCheckpoint
  BY <1>5 DEF AdvanceCheckpoint, Leave
<1>6. CASE Publish \/ RemoveCheckpoint \/ DiscardPartial
  BY <1>6 DEF Publish, RemoveCheckpoint, DiscardPartial
<1>7. ~(Reject \/ Acknowledge \/ DiscardCheckpoint \/ ReachEndOfInput \/ HandlerAbort)
  BY DEF GoesOn, Reject, Acknowledge, DiscardCheckpoint, ReachEndOfInput, HandlerAbort, Leave,
     Decided
<1>8. ~\E n \in Conns : Accept(n) \/ DropQueued(n)
  BY DEF Accept, DropQueued, GoesOn
<1> QED
  BY <1>1, <1>2, <1>3, <1>4, <1>5, <1>6, <1>7, <1>8 DEF HandlerStep

\* A handler that is idle or undecided claims nothing.
LEMMA NothingServed ==
    ASSUME hpc' \in {"idle", "accepted"}
    PROVE  Serving'
BY DEF Serving, Decided, Placed

LEMMA HandlerServing ==
    ASSUME VerifiedInv, Next, HandlerStep \/ HandlerAbort
    PROVE  Serving'
<1>1. CASE GoesOn
  <2>1. H' = H
    BY <1>1, HandlerShape DEF VerifiedInv
  <2> QED
    BY <1>1, <2>1, ServingDecided, ServingPlaced, ServingVerified DEF Serving
<1>2. CASE LeavesFor
  BY <1>2, NothingServed DEF LeavesFor, Leave
<1>3. CASE \E n \in Conns : Accept(n) \/ DropQueued(n)
  BY <1>3, NothingServed DEF Accept, DropQueued, handlerVars
<1> QED
  BY <1>1, <1>2, <1>3, HandlerCourse DEF VerifiedInv

LEMMA ServingKept ==
    ASSUME VerifiedInv, Next, TransferNamesStay, HandlerStays, hpc # "idle" => H' = H
    PROVE  Serving'
<1>1. /\ dir'.partial = dir.partial /\ file' = file /\ synced' = synced
      /\ hpc' = hpc /\ Decided' = Decided
  BY DEF TransferNamesStay, HandlerStays, dataVars, Decided
<1>2. CASE hpc = "idle"
  BY <1>1, <1>2, NothingServed
<1>3. CASE hpc # "idle"
  <2>1. H' = H
    BY <1>3
  <2>2. PICK t \in Conns : t = H.tid
    BY <1>3, ServedTransfer
  <2>3. Decided => Begun(t)' /\ H'.digest = request'[t].digest
    BY <2>1, <2>2, BegunStays DEF VerifiedInv, Serving
  <2>4. Decided' => Begun(H.tid)' /\ H'.digest = request'[H'.tid].digest
    BY <1>1, <2>1, <2>2, <2>3 DEF Begun
  <2>5. /\ hpc' \in Placed => H'.tid \in dir'.partial
        /\ hpc' \in {"complete", "verified"} => synced'[H'.tid] = file'[H'.tid]
        /\ hpc' = "verified" => file'[H'.tid] = H'.digest
    BY <1>1, <2>1 DEF VerifiedInv, Serving
  <2> QED
    BY <2>4, <2>5 DEF Serving
<1> QED
  BY <1>2, <1>3

\* Power is lost: what the journal names was already true of it.
LEMMA PowerLossNames ==
    ASSUME VerifiedInv, Next, PowerLoss
    PROVE  NamesTrue(dir)' /\ NamesTrue(journal)'
<1>1. dir' = journal /\ file' = synced /\ UNCHANGED <<synced, journal>>
  BY DEF PowerLoss
<1>2. /\ \A t \in Conns : Begun(t) => Begun(t)' /\ request'[t] = request[t]
      /\ journal \in NameSets
  BY BegunStays DEF VerifiedInv, Shape, KrpTypes, DiskTypes
<1>3. \A t \in Conns : Named(journal, t) => Begun(t)' /\ request'[t] = request[t]
  BY <1>2 DEF VerifiedInv, NamesTrue
<1>4. \A t \in Conns : journal.ckpt[t] # None => journal.ckpt[t].digest = request'[t].digest
  BY <1>3 DEF VerifiedInv, NamesTrue, Named
<1>5. journal.dest # None => /\ journal.dest \notin journal.partial
                             /\ synced[journal.dest] = request'[journal.dest].digest
  <2>1. journal.dest # None => journal.dest \in Conns /\ Named(journal, journal.dest)
    BY <1>2 DEF NameSets, Named
  <2> QED
    BY <1>3, <2>1 DEF VerifiedInv, NamesTrue
<1>6. \A t \in Conns : (Named(dir, t)' => Named(journal, t)) /\ (Named(journal, t)' => Named(journal, t))
  BY <1>1 DEF Named
<1> QED
  BY <1>1, <1>3, <1>4, <1>5, <1>6 DEF NamesTrue

LEMMA WriteBackNames ==
    ASSUME VerifiedInv, Next, WriteBack
    PROVE  NamesTrue(dir)' /\ NamesTrue(journal)'
<1>1. UNCHANGED <<dir, file, synced, request>> /\ journal' = dir
  BY DEF WriteBack, netVars, dataVars
<1>2. \A t \in Conns : Named(dir, t) => Begun(t)'
  BY BegunStays DEF VerifiedInv, NamesTrue
<1>3. \A t \in Conns : (Named(dir, t)' => Named(dir, t)) /\ (Named(journal, t)' => Named(dir, t))
  BY <1>1 DEF Named
<1>4. NamesTrue(dir)
  BY DEF VerifiedInv
<1> QED
  BY <1>1, <1>2, <1>3, <1>4 DEF NamesTrue

LEMMA VerifiedStep == VerifiedInv /\ [Next]_vars => VerifiedInv'
<1> SUFFICES ASSUME VerifiedInv, [Next]_vars
             PROVE  VerifiedInv'
  OBVIOUS
<1>1. CASE Next /\ \E c \in Clients : ClientMoves(c)
  <2>1. Shape' /\ (hpc # "idle" => H' = H)
    BY <1>1, ClientShape DEF VerifiedInv
  <2>2. TransferNamesStay /\ HandlerStays
    BY <1>1, ClientReach DEF VerifiedInv, TransferNamesStay, HandlerStays, handlerVars, nameVars
  <2> QED
    BY <1>1, <2>1, <2>2, NamesKept, ServingKept DEF VerifiedInv
<1>2. CASE Next /\ \E s \in Servers : SecretStep(s)
  <2>1. Shape'
    BY <1>2, SecretShape DEF VerifiedInv
  <2>2. TransferNamesStay /\ UNCHANGED request /\ (HandlerStays \/ hpc' = "idle")
    BY <1>2, SecretReach DEF VerifiedInv, Leave
  <2>3. HandlerStays => H' = H
    BY <2>2 DEF HandlerStays, H
  <2> QED
    BY <1>2, <2>1, <2>2, <2>3, NamesKept, ServingKept, NothingServed DEF VerifiedInv
<1>3. CASE Next /\ (HandlerStep \/ HandlerAbort)
  BY <1>3, HandlerShape, HandlerNames, HandlerServing DEF VerifiedInv
<1>4. CASE Next /\ \E s \in Servers : ServerCrash(s)
  <2>1. Shape' /\ UNCHANGED request /\ (HandlerStays \/ hpc' = "idle")
    BY <1>4, FaultShape DEF VerifiedInv
  <2>2. TransferNamesStay
    BY <1>4 DEF ServerCrash, TransferNamesStay, nameVars
  <2>3. HandlerStays => H' = H
    BY <2>1 DEF HandlerStays, H
  <2> QED
    BY <1>4, <2>1, <2>2, <2>3, NamesKept, ServingKept, NothingServed DEF VerifiedInv
<1>5. CASE Next /\ PowerLoss
  <2>1. hpc' = "idle"
    BY <1>5 DEF PowerLoss, Forget, Servers
  <2> QED
    BY <1>5, <2>1, FaultShape, PowerLossNames, NothingServed DEF VerifiedInv
<1>6. CASE Next /\ WriteBack
  <2>1. HandlerStays /\ H' = H /\ UNCHANGED <<dir, file, synced, request>>
    BY <1>6 DEF WriteBack, HandlerStays, H, netVars, handlerVars, dataVars
  <2>2. Serving'
    <3>1. Decided' = Decided /\ \A t \in Conns : Begun(t) => Begun(t)'
      BY <1>6, <2>1, BegunStays DEF VerifiedInv, HandlerStays, Decided
    <3>2. CASE hpc = "idle"
      BY <2>1, <3>2, NothingServed DEF HandlerStays
    <3>3. CASE hpc # "idle"
      <4>1. PICK t \in Conns : t = H.tid
        BY <3>3, ServedTransfer
      <4>2. Decided' => Begun(H.tid)'
        BY <2>1, <3>1, <4>1 DEF VerifiedInv, Serving, Begun
      <4> QED
        BY <2>1, <3>1, <4>2 DEF VerifiedInv, Serving, HandlerStays
    <3> QED
      BY <3>2, <3>3
  <2> QED
    BY <1>6, <2>2, WriteBackShape, WriteBackNames DEF VerifiedInv
<1>7. CASE UNCHANGED vars
  <2>1. KrpTypes'
    BY <1>7 DEF VerifiedInv, Shape, KrpTypes, ClientTypes, NetTypes, HandlerTypes, SecretTypes,
       DiskTypes, vars, clientVars, netVars, handlerVars, secretVars, dataVars, nameVars
  <2>2. Used' = Used /\ H' = H /\ Decided' = Decided /\ Count(H)' = Count(H) /\ Size(H)' = Size(H)
    BY <1>7 DEF Used, H, Decided, Count, Size, vars, netVars, handlerVars
  <2>3. Connected'
    BY <1>7, <2>2 DEF VerifiedInv, Shape, Connected, vars, clientVars, netVars, handlerVars,
       secretVars
  <2>4. NamesTrue(dir)' /\ NamesTrue(journal)' /\ Serving'
    BY <1>7, <2>2 DEF VerifiedInv, NamesTrue, Named, Begun, Serving, vars, netVars, handlerVars,
       dataVars, nameVars
  <2> QED
    BY <2>1, <2>3, <2>4 DEF VerifiedInv, Shape
<1> QED
  BY <1>1, <1>2, <1>3, <1>4, <1>5, <1>6, <1>7 DEF Next, ClientMoves

\* Whatever a power loss leaves, the file at the destination is the one its
\* sender announced, and it is on stable storage (re-hash, fsync, os.replace).
THEOREM PublishedStaysVerified == Spec => []PublishedVerified
<1>1. VerifiedInv => PublishedVerified
  BY DEF VerifiedInv, NamesTrue, PublishedVerified
<1> QED
  BY <1>1, InitVerified, VerifiedStep, PTL DEF Spec
-----------------------------------------------------------------------------
(* The secret on disk, and the tickets made with it. *)

Drawn == 1 .. drawn
HasSecret(d, x) == d.secret # None /\ text[d.secret] = x

\* The secret x has settled, or its creator may still settle it; once neither is
\* so, it never will be.
Alive(x) == Settled(x) \/ \E s \in Servers : spc[s] \in Storing /\ mine[s] = x

SecretStands(d, x) == Alive(x) => HasSecret(d, x)

\* Inode x holds secret x or nothing, and a file that was synced reads as it was.
SecretFiles ==
    \A x \in Secrets : /\ text[x] \in {Unset, x} /\ stored[x] \in {Unset, text[x]}
                       /\ text[x] # Unset => x <= drawn

\* What a server holds was drawn, and is on disk unless it is lost for good.
SecretsHeld == \A s \in Servers : held[s] # Unset => held[s] \in Drawn /\ SecretStands(dir, held[s])

\* A creator is alone, and nothing of its file has settled.
SecretMakers ==
    /\ \A s \in Servers : spc[s] \in Storing =>
          /\ mine[s] \in Secrets \cap Drawn /\ dir.secret = mine[s]
          /\ stored[mine[s]] = Unset
          /\ text[mine[s]] = IF spc[s] = "created" THEN Unset ELSE mine[s]
    /\ \A s, u \in Servers : spc[s] \in Storing /\ spc[u] \in Storing => s = u

SecretsTrue == SecretFiles /\ SecretsHeld /\ SecretMakers

\* Unless it is lost, the secret x is on every disk that has a checkpoint of t.
Backs(x, t) ==
    /\ dir.ckpt[t] # None => SecretStands(dir, x)
    /\ journal.ckpt[t] # None => SecretStands(journal, x)

\* No first checkpoint of t is still to come.
Issued(t) == t \in closed \/ (t = hconn /\ Decided /\ hpc # "created")

Granted(k, t, d) == k = <<k[1], t, d>> /\ k[1] \in Drawn /\ Issued(t) /\ Backs(k[1], t)

\* The transfer being served has a checkpoint, made under the server's secret.
HandlerTickets ==
    /\ hpc = "created" => /\ H.mode = "new"
                          /\ dir.ckpt[H.tid] = None /\ journal.ckpt[H.tid] = None
    /\ Decided => Backs(held[Main], H.tid)
    /\ Decided /\ hpc # "created" => Issued(H.tid)
    /\ hpc \in Placed /\ hpc # "created" => dir.ckpt[H.tid] # None

\* The tickets of the state files.
SavedGranted(c) ==
    saved[c] # None => Granted(saved[c].ticket, saved[c].tid, saved[c].digest)

\* The tickets presented.
ShownGranted(n) ==
    request[n].mode = "resume" =>
        Granted(request[n].ticket, request[n].tid, request[n].digest)

\* The tickets on their way in a status.
StatusGranted(n) ==
    \A i \in 1 .. Len(down[n]) : down[n][i].kind = "status" =>
        n \in Used /\ Granted(down[n][i].ticket, request[n].tid, request[n].digest)

TicketsTrue ==
    /\ \A c \in Clients : SavedGranted(c)
    /\ \A n \in Used : ShownGranted(n)
    /\ \A n \in Conns : StatusGranted(n)

TicketInv == VerifiedInv /\ SecretsTrue /\ HandlerTickets /\ TicketsTrue

LEMMA InitTickets == Init => TicketInv
<1> SUFFICES ASSUME Init
             PROVE  TicketInv
  OBVIOUS
<1>1. SecretsTrue
  BY DEF Init, SecretsTrue, SecretFiles, SecretsHeld, SecretMakers, Storing, Unset
<1>3. HandlerTickets
  BY DEF Init, HandlerTickets, Decided, Placed
<1>2. TicketsTrue
  BY DEF Init, TicketsTrue, SavedGranted, ShownGranted, StatusGranted, Used
<1> QED
  BY <1>1, <1>2, <1>3, InitVerified DEF TicketInv

\* What the secrets are, of the types they have.
LEMMA SecretKinds ==
    ASSUME TicketInv
    PROVE  /\ held \in [Servers -> Nat] /\ spc \in [Servers -> SecretPCs] /\ mine \in [Servers -> Nat]
           /\ drawn \in Nat /\ text \in [Secrets -> Nat] /\ stored \in [Secrets -> Nat]
           /\ dir \in NameSets /\ journal \in NameSets
           /\ \A x \in Secrets : x \in Nat /\ x # Unset /\ x # None
BY KrpConstants DEF TicketInv, VerifiedInv, Shape, KrpTypes, SecretTypes, DiskTypes, Secrets, Unset

\* A secret that has settled is in the inode of its number.
LEMMA SettledIs ==
    ASSUME TicketInv, NEW x \in Drawn
    PROVE  Settled(x) <=> x \in Secrets /\ stored[x] = x
BY SecretKinds DEF TicketInv, SecretsTrue, SecretFiles, Settled, Drawn, Unset

\* A disk that holds a secret has it under its name.
LEMMA HeldUnderName ==
    ASSUME TicketInv, NEW d \in NameSets, NEW x \in Drawn, HasSecret(d, x)
    PROVE  d.secret = x /\ x \in Secrets /\ text[x] = x
BY SecretKinds DEF TicketInv, SecretsTrue, SecretFiles, HasSecret, Drawn, NameSets, Unset

\* Secrets are drawn, never taken back.
LEMMA DrawnGrows ==
    ASSUME TicketInv, Next
    PROVE  drawn \in Nat /\ drawn' \in Nat /\ drawn <= drawn' /\ \A x \in Drawn : x \in Drawn'
<1>1. drawn \in Nat
  BY SecretKinds
<1>2. drawn' = drawn \/ drawn' = drawn + 1
  <2>1. CASE \E c \in Clients : ClientMoves(c)
    BY <2>1, ClientReach DEF TicketInv, VerifiedInv, secretVars
  <2>2. CASE \E s \in Servers : SecretStep(s)
    BY <2>2 DEF SecretStep, FindSecret, ReadSecret, RefuseSecret, CreateSecret, LoseSecretRace,
       WriteSecret, SyncSecret, FailSecret
  <2>3. CASE HandlerStep \/ HandlerAbort
    BY <2>3, HandlerReach DEF secretVars
  <2>4. CASE PowerLoss \/ WriteBack \/ \E s \in Servers : ServerCrash(s)
    BY <2>4 DEF PowerLoss, WriteBack, ServerCrash, secretVars
  <2> QED
    BY <2>1, <2>2, <2>3, <2>4 DEF Next, ClientMoves
<1> QED
  BY <1>1, <1>2 DEF Drawn

\* A secret that was drawn is not called back to life by a server that looks for
\* one, and none that is alive is lost from a disk meanwhile.
LEMMA SecretDisk ==
    ASSUME TicketInv, NEW s \in Servers, SecretStep(s)
    PROVE  \A x \in Drawn : /\ Alive(x)' => Alive(x)
                            /\ SecretStands(dir, x) => SecretStands(dir, x)'
                            /\ SecretStands(journal, x) => SecretStands(journal, x)'
<1>1. journal' = journal
  BY SecretReach DEF TicketInv, VerifiedInv, TransferNamesStay
<1>2. /\ SecretFiles /\ SecretMakers
  BY DEF TicketInv, SecretsTrue
<1>3. SUFFICES ASSUME NEW x \in Drawn
               PROVE  /\ Alive(x)' => Alive(x)
                      /\ SecretStands(dir, x) => SecretStands(dir, x)'
                      /\ SecretStands(journal, x) => SecretStands(journal, x)'
  OBVIOUS
<1>4. x \in Nat \ {Unset} /\ x <= drawn
  BY SecretKinds DEF Drawn, Unset
<1>5. CASE FindSecret(s) \/ ReadSecret(s) \/ RefuseSecret(s) \/ LoseSecretRace(s)
  <2>1. UNCHANGED <<dir, mine, text, stored>>
    BY <1>5 DEF FindSecret, ReadSecret, RefuseSecret, LoseSecretRace, nameVars
  <2>2. spc'[s] \notin Storing /\ \A u \in Servers : u # s => spc'[u] = spc[u]
    BY <1>5, SecretKinds DEF FindSecret, ReadSecret, RefuseSecret, LoseSecretRace, SecretError, Storing
  <2>3. Alive(x)' => Alive(x)
    BY <2>1, <2>2 DEF Alive, Settled
  <2> QED
    BY <1>1, <2>1, <2>3 DEF SecretStands, HasSecret
<1>6. CASE CreateSecret(s)
  <2>1. UNCHANGED <<text, stored>> /\ dir.secret = None
    BY <1>6 DEF CreateSecret
  <2>2. mine'[s] # x /\ \A u \in Servers : u # s => spc'[u] = spc[u] /\ mine'[u] = mine[u]
    BY <1>4, <1>6, SecretKinds DEF CreateSecret
  <2>3. Alive(x)' => Alive(x)
    BY <2>1, <2>2 DEF Alive, Settled
  <2>4. SecretStands(dir, x) => ~Alive(x)
    BY <2>1 DEF SecretStands, HasSecret
  <2> QED
    BY <1>1, <2>1, <2>3, <2>4 DEF SecretStands, HasSecret
<1>7. CASE WriteSecret(s)
  <2>1. /\ dir' = dir /\ mine' = mine /\ stored' = stored
        /\ \A y \in Secrets : y # dir.secret => text'[y] = text[y]
    BY <1>7, SecretKinds DEF WriteSecret, nameVars
  <2>2. spc[s] \in Storing /\ \A u \in Servers : u # s => spc'[u] = spc[u]
    BY <1>7, SecretKinds DEF WriteSecret, Storing
  <2>3. Alive(x)' => Alive(x)
    BY <2>1, <2>2 DEF Alive, Settled
  <2>4. dir.secret \in Secrets /\ text[dir.secret] = Unset
    BY <1>2, <1>7, <2>2 DEF WriteSecret, SecretMakers
  <2>5. HasSecret(dir, x) => FALSE
    BY <1>4, <2>4 DEF HasSecret
  <2>6. HasSecret(journal, x) => HasSecret(journal, x)'
    BY <1>1, <1>4, <2>1, <2>4, HeldUnderName, SecretKinds DEF HasSecret
  <2> QED
    BY <2>3, <2>5, <2>6 DEF SecretStands
<1>8. CASE SyncSecret(s)
  <2>1. UNCHANGED <<dir, text>>
    BY <1>8 DEF SyncSecret, nameVars
  <2>2. /\ spc[s] \in Storing /\ dir.secret = mine[s] /\ text[dir.secret] = mine[s]
        /\ dir.secret \in Secrets
    BY <1>2, <1>8 DEF SyncSecret, SecretMakers, Storing
  <2>3. \A y \in Secrets : stored'[y] = x => stored[y] = x \/ mine[s] = x
    BY <1>8, <2>2, SecretKinds DEF SyncSecret
  <2>4. \A u \in Servers : spc'[u] \in Storing => spc[u] \in Storing /\ mine'[u] = mine[u]
    BY <1>8, SecretKinds DEF SyncSecret, Storing
  <2>5. Alive(x)' => Alive(x)
    BY <2>2, <2>3, <2>4 DEF Alive, Settled
  <2> QED
    BY <1>1, <2>1, <2>5 DEF SecretStands, HasSecret
<1>9. CASE FailSecret(s)
  <2>1. UNCHANGED <<text, stored>>
    BY <1>9 DEF FailSecret
  <2>2. spc[s] \in Storing /\ \A u \in Servers : spc'[u] \in Storing => spc[u] \in Storing /\ u # s
    BY <1>9, SecretKinds DEF FailSecret, SecretError, Storing
  <2>3. \A u \in Servers : spc'[u] \notin Storing
    BY <1>2, <2>2 DEF SecretMakers
  <2>4. Alive(x)' => Settled(x)
    BY <2>1, <2>3 DEF Alive, Settled
  <2>5. Settled(x) => x # dir.secret
    BY <1>2, <1>4, <2>2, SettledIs DEF SecretMakers
  <2>6. HasSecret(dir, x) => x = dir.secret
    BY SecretKinds, HeldUnderName
  <2> QED
    BY <1>1, <2>1, <2>4, <2>5, <2>6 DEF SecretStands, HasSecret, Alive
<1> QED
  BY <1>5, <1>6, <1>7, <1>8, <1>9 DEF SecretStep

\* What servers hold while one of them looks for its own.
LEMMA HeldKept ==
    ASSUME TicketInv, NEW s \in Servers, SecretStep(s)
    PROVE  SecretsHeld'
<1>1. SecretFiles /\ SecretsHeld /\ SecretMakers
  BY DEF TicketInv, SecretsTrue
<1>2. \A x \in Drawn : x \in Drawn'
  <2>1. Next
    BY DEF Next
  <2> QED
    BY <2>1, DrawnGrows
<1>3. \A u \in Servers : held[u] # Unset => held[u] \in Drawn' /\ SecretStands(dir, held[u])
  BY <1>1, <1>2 DEF SecretsHeld
<1>4. ASSUME NEW u \in Servers, held'[u] # Unset, held'[u] = held[u]
      PROVE  held'[u] \in Drawn' /\ SecretStands(dir, held[u])'
  <2>1. PICK x \in Drawn : x = held[u]
    BY <1>1, <1>4 DEF SecretsHeld
  <2>2. SecretStands(dir, x)'
    BY <1>3, <1>4, <2>1, SecretDisk
  <2>3. SecretStands(dir, held[u])'
    BY <1>4, <2>1, <2>2 DEF SecretStands, Alive, Settled, HasSecret
  <2> QED
    BY <1>2, <1>4, <2>1, <2>3
<1>5. CASE ReadSecret(s)
  <2>1. /\ \A u \in Servers : u # s => held'[u] = held[u]
        /\ dir.secret # None /\ dir.secret \in Secrets /\ held'[s] = text[dir.secret]
        /\ text[dir.secret] # Unset /\ UNCHANGED <<text, dir, drawn>>
    BY <1>5, SecretKinds DEF ReadSecret, nameVars, NameSets
  <2>2. held'[s] \in Drawn' /\ HasSecret(dir, held[s])'
    BY <1>1, <2>1, SecretKinds DEF SecretFiles, Drawn, HasSecret, Unset
  <2>3. held'[s] \in Drawn' /\ SecretStands(dir, held[s])'
    BY <2>2 DEF SecretStands
  <2> QED
    BY <1>4, <2>1, <2>3 DEF SecretsHeld
<1>6. CASE SyncSecret(s)
  <2>1. /\ \A u \in Servers : u # s => held'[u] = held[u]
        /\ held'[s] = mine[s] /\ UNCHANGED <<text, dir, drawn>>
    BY <1>6, SecretKinds DEF SyncSecret, nameVars
  <2>2. mine[s] \in Drawn /\ dir.secret = mine[s] /\ text[mine[s]] = mine[s] /\ mine[s] \in Secrets
    BY <1>1, <1>6 DEF SyncSecret, SecretMakers, Storing
  <2>3. held'[s] \in Drawn' /\ HasSecret(dir, held[s])'
    BY <2>1, <2>2, SecretKinds DEF HasSecret, Drawn
  <2>4. held'[s] \in Drawn' /\ SecretStands(dir, held[s])'
    BY <2>3 DEF SecretStands
  <2> QED
    BY <1>4, <2>1, <2>4 DEF SecretsHeld
<1>7. CASE ~ReadSecret(s) /\ ~SyncSecret(s)
  <2>1. UNCHANGED held
    BY <1>7 DEF SecretStep, FindSecret, RefuseSecret, CreateSecret, LoseSecretRace, WriteSecret,
       FailSecret
  <2> QED
    BY <1>4, <2>1 DEF SecretsHeld
<1> QED
  BY <1>5, <1>6, <1>7

LEMMA SecretsKept ==
    ASSUME TicketInv, NEW s \in Servers, SecretStep(s)
    PROVE  SecretsTrue'
<1>1. SecretFiles /\ SecretMakers
  BY DEF TicketInv, SecretsTrue
<1> SUFFICES SecretFiles' /\ SecretMakers'
  BY HeldKept DEF SecretsTrue
<1>2. CASE FindSecret(s) \/ ReadSecret(s) \/ RefuseSecret(s) \/ LoseSecretRace(s)
  <2>1. spc'[s] \notin Storing /\ \A u \in Servers : u # s => spc'[u] = spc[u]
    BY <1>2, SecretKinds DEF FindSecret, ReadSecret, RefuseSecret, LoseSecretRace, SecretError, Storing
  <2>2. UNCHANGED <<mine, drawn, text, stored, dir>>
    BY <1>2 DEF FindSecret, ReadSecret, RefuseSecret, LoseSecretRace, nameVars
  <2> QED
    BY <1>1, <2>1, <2>2 DEF SecretFiles, SecretMakers, Drawn
<1>3. CASE CreateSecret(s)
  <2>1. /\ drawn' = drawn + 1 /\ drawn + 1 \in Secrets /\ drawn \in Nat
        /\ mine' = [mine EXCEPT ![s] = drawn + 1] /\ UNCHANGED <<text, stored>>
        /\ dir.secret = None /\ dir'.secret = drawn + 1 /\ spc' = [spc EXCEPT ![s] = "created"]
    BY <1>3, KrpConstants, SecretKinds DEF CreateSecret, NameSets, Secrets
  <2>2. text[drawn + 1] = Unset /\ stored[drawn + 1] = Unset
    BY <1>1, <2>1 DEF SecretFiles
  <2>3. \A u \in Servers : spc[u] \notin Storing
    BY <1>1, <2>1, SecretKinds DEF SecretMakers
  <2>4. SecretFiles'
    BY <1>1, <2>1, SecretKinds DEF SecretFiles
  <2>5. SecretMakers'
    <3>1. \A u \in Servers : spc'[u] \in Storing => u = s
      BY <2>1, <2>3, SecretKinds
    <3>2. mine'[s] = drawn + 1 /\ spc'[s] = "created" /\ drawn + 1 \in Drawn'
      BY <2>1, SecretKinds DEF Drawn
    <3> QED
      BY <2>1, <2>2, <3>1, <3>2 DEF SecretMakers
  <2> QED
    BY <2>4, <2>5
<1>4. CASE WriteSecret(s)
  <2>1. /\ spc[s] = "created" /\ spc' = [spc EXCEPT ![s] = "written"]
        /\ text' = [text EXCEPT ![dir.secret] = mine[s]]
        /\ UNCHANGED <<mine, drawn, stored, dir>>
    BY <1>4 DEF WriteSecret, nameVars
  <2>2. /\ mine[s] \in Secrets \cap Drawn /\ dir.secret = mine[s] /\ stored[mine[s]] = Unset
        /\ \A u \in Servers : spc[u] \in Storing => u = s
    BY <1>1, <2>1 DEF SecretMakers, Storing
  <2>3. text'[mine[s]] = mine[s] /\ \A y \in Secrets : y # mine[s] => text'[y] = text[y]
    BY <2>1, <2>2, SecretKinds
  <2>4. SecretFiles'
    BY <1>1, <2>1, <2>2, <2>3 DEF SecretFiles, Drawn
  <2>5. \A u \in Servers : spc'[u] \in Storing => u = s /\ spc'[u] = "written"
    BY <2>1, <2>2, SecretKinds
  <2>6. SecretMakers'
    BY <2>1, <2>2, <2>3, <2>5 DEF SecretMakers, Drawn
  <2> QED
    BY <2>4, <2>6
<1>5. CASE SyncSecret(s) \/ FailSecret(s)
  <2>1. \A u \in Servers : spc[u] \in Storing => u = s
    BY <1>1, <1>5 DEF SyncSecret, FailSecret, SecretMakers, Storing
  <2>2. \A u \in Servers : spc'[u] \notin Storing
    BY <1>5, <2>1, SecretKinds DEF SyncSecret, FailSecret, SecretError, Storing
  <2>3. SecretMakers'
    BY <2>2 DEF SecretMakers
  <2>4. \A y \in Secrets : stored'[y] = stored[y] \/ stored'[y] = text[y]
    BY <1>5, SecretKinds DEF SyncSecret, FailSecret
  <2>5. UNCHANGED <<text, drawn>>
    BY <1>5 DEF SyncSecret, FailSecret
  <2>6. SecretFiles'
    BY <1>1, <2>4, <2>5 DEF SecretFiles
  <2> QED
    BY <2>3, <2>6
<1> QED
  BY <1>2, <1>3, <1>4, <1>5 DEF SecretStep

LEMMA SecretsSame ==
    ASSUME TicketInv, UNCHANGED secretVars, dir'.secret = dir.secret
    PROVE  SecretsTrue'
BY DEF TicketInv, SecretsTrue, SecretFiles, SecretsHeld, SecretMakers, SecretStands, Alive, Settled, HasSecret,
   Drawn, secretVars

\* What a crash forgets is not missed.
LEMMA SecretsForgotten ==
    ASSUME TicketInv, PowerLoss \/ (\E s \in Servers : ServerCrash(s))
    PROVE  SecretsTrue'
<1>1. SecretFiles /\ SecretsHeld /\ SecretMakers
  BY DEF TicketInv, SecretsTrue
<1>2. CASE PowerLoss
  <2>1. \A u \in Servers : held'[u] = Unset /\ spc'[u] \notin Storing
    BY <1>2 DEF PowerLoss, Forget, Storing
  <2>2. /\ \A y \in Secrets : text'[y] = text[y] \/ text'[y] = stored[y]
        /\ UNCHANGED <<stored, drawn>>
    BY <1>2 DEF PowerLoss
  <2>3. SecretFiles'
    BY <1>1, <2>2 DEF SecretFiles
  <2> QED
    BY <2>1, <2>3 DEF SecretsTrue, SecretsHeld, SecretMakers
<1>3. ASSUME NEW s \in Servers, ServerCrash(s)
      PROVE  SecretsTrue'
  <2>1. /\ \A u \in Servers : u # s => held'[u] = held[u] /\ spc'[u] = spc[u] /\ mine'[u] = mine[u]
        /\ held'[s] = Unset /\ spc'[s] \notin Storing
    BY <1>3 DEF ServerCrash, Forget, Storing
  <2>2. UNCHANGED <<drawn, text, stored, dir>>
    BY <1>3 DEF ServerCrash, nameVars
  <2>3. \A x : Alive(x)' => Alive(x)
    BY <2>1, <2>2 DEF Alive, Settled
  <2>4. SecretsHeld'
    BY <1>1, <2>1, <2>2, <2>3 DEF SecretsHeld, SecretStands, HasSecret, Drawn
  <2> QED
    BY <1>1, <2>1, <2>2, <2>4 DEF SecretsTrue, SecretFiles, SecretMakers, Drawn
<1> QED
  BY <1>2, <1>3

\* No handler touches the name of the secret.
LEMMA HandlerSecret ==
    ASSUME Shape, HandlerStep \/ HandlerAbort
    PROVE  dir'.secret = dir.secret
<1>1. dir \in NameSets
  BY DEF Shape, KrpTypes, DiskTypes
<1>2. CASE CreatePartial \/ WriteFirstCheckpoint \/ AdvanceCheckpoint \/ Publish
  BY <1>1, <1>2 DEF CreatePartial, WriteFirstCheckpoint, AdvanceCheckpoint, Publish, NameSets
<1>3. CASE RemoveCheckpoint \/ DiscardPartial \/ DiscardCheckpoint
  BY <1>1, <1>3 DEF RemoveCheckpoint, DiscardPartial, DiscardCheckpoint, NameSets
<1>4. CASE Resume \/ ReceiveFrame \/ SyncFrame \/ ReceiveFinal
  BY <1>4 DEF Resume, ReceiveFrame, SyncFrame, ReceiveFinal, nameVars
<1>5. CASE Reject \/ SendStatus \/ Rehash
  BY <1>5 DEF Reject, SendStatus, Rehash, nameVars
<1>6. CASE Acknowledge \/ ReachEndOfInput \/ HandlerAbort
  BY <1>6 DEF Acknowledge, ReachEndOfInput, HandlerAbort, nameVars
<1>7. CASE \E n \in Conns : Accept(n) \/ DropQueued(n)
  BY <1>7 DEF Accept, DropQueued, nameVars
<1> QED
  BY <1>2, <1>3, <1>4, <1>5, <1>6, <1>7 DEF HandlerStep

LEMMA SecretsStep ==
    ASSUME TicketInv, Next
    PROVE  SecretsTrue'
<1>1. CASE \E c \in Clients : ClientMoves(c)
  BY <1>1, ClientReach, SecretsSame DEF TicketInv, VerifiedInv, nameVars
<1>2. CASE \E s \in Servers : SecretStep(s)
  BY <1>2, SecretsKept
<1>3. CASE HandlerStep \/ HandlerAbort
  <2>1. UNCHANGED secretVars
    BY <1>3, HandlerReach
  <2>2. dir'.secret = dir.secret
    BY <1>3, HandlerSecret DEF TicketInv, VerifiedInv
  <2> QED
    BY <2>1, <2>2, SecretsSame
<1>4. CASE PowerLoss \/ \E s \in Servers : ServerCrash(s)
  BY <1>4, SecretsForgotten
<1>5. CASE WriteBack
  BY <1>5, SecretsSame DEF WriteBack
<1> QED
  BY <1>1, <1>2, <1>3, <1>4, <1>5 DEF Next, ClientMoves

\* Only a NEW transfer is at its first checkpoint.
LEMMA FirstCheckpointAhead ==
    ASSUME VerifiedInv, HandlerStep \/ HandlerAbort, GoesOn, hpc' = "created"
    PROVE  CreatePartial
<1>1. hpc # "idle"
  BY DEF GoesOn
<1>2. ~(\E n \in Conns : Accept(n) \/ DropQueued(n))
  BY <1>1 DEF Accept, DropQueued
<1>3. ~(WriteFirstCheckpoint \/ SendStatus \/ ReceiveFrame \/ SyncFrame \/ ReceiveFinal)
  BY DEF WriteFirstCheckpoint, SendStatus, ReceiveFrame, SyncFrame, ReceiveFinal
<1>4. ~(Resume \/ Reject \/ AdvanceCheckpoint \/ Rehash \/ Publish)
  BY DEF Resume, Reject, AdvanceCheckpoint, Rehash, Publish, Leave
<1>5. ~(RemoveCheckpoint \/ Acknowledge \/ DiscardPartial \/ DiscardCheckpoint)
  BY DEF RemoveCheckpoint, Acknowledge, DiscardPartial, DiscardCheckpoint, Leave
<1>6. ~(ReachEndOfInput \/ HandlerAbort)
  BY DEF ReachEndOfInput, HandlerAbort, Leave
<1> QED
  BY <1>2, <1>3, <1>4, <1>5, <1>6 DEF HandlerStep

LEMMA IssuedStays ==
    ASSUME VerifiedInv, Next
    PROVE  \A t \in Conns : Issued(t) => Issued(t)'
<1>1. CASE \E c \in Clients : ClientMoves(c)
  BY <1>1, ClientReach DEF VerifiedInv, Issued, Decided, handlerVars
<1>2. CASE \E s \in Servers : SecretStep(s)
  <2>1. HandlerStays \/ (Leave /\ hpc = "accepted")
    BY <1>2, SecretReach DEF VerifiedInv
  <2> QED
    BY <2>1 DEF Issued, Decided, HandlerStays, Leave
<1>3. CASE HandlerStep \/ HandlerAbort
  <2>1. CASE GoesOn
    <3>1. hpc' = "created" => hpc = "accepted"
      BY <1>3, <2>1, FirstCheckpointAhead DEF CreatePartial, Deciding
    <3> QED
      BY <2>1, <3>1 DEF GoesOn, Issued, Decided
  <2>2. CASE LeavesFor
    BY <2>2 DEF LeavesFor, Leave, Issued
  <2>3. CASE \E n \in Conns : Accept(n) \/ DropQueued(n)
    <3>1. hpc = "idle" /\ closed \subseteq closed'
      BY <2>3 DEF Accept, DropQueued, netVars
    <3> QED
      BY <3>1 DEF Issued, Decided
  <2> QED
    BY <1>3, <2>1, <2>2, <2>3, HandlerCourse DEF VerifiedInv
<1>4. CASE PowerLoss \/ \E s \in Servers : ServerCrash(s)
  <2>1. HandlerStays \/ closed' = Used
    BY <1>4, FaultShape DEF VerifiedInv
  <2>2. closed \subseteq Used /\ (hpc # "idle" => hconn \in Used)
    BY DEF VerifiedInv, Shape, Connected
  <2> QED
    BY <2>1, <2>2 DEF Issued, Decided, HandlerStays
<1>5. CASE WriteBack
  BY <1>5 DEF WriteBack, Issued, Decided, netVars, handlerVars
<1> QED
  BY <1>1, <1>2, <1>3, <1>4, <1>5 DEF Next, ClientMoves

\* No checkpoint appears for a transfer that has a ticket and had none.
LEMMA CheckpointsGoAway ==
    ASSUME TicketInv, HandlerStep \/ HandlerAbort
    PROVE  \A t \in Conns : Issued(t) /\ dir'.ckpt[t] # None => dir.ckpt[t] # None
<1>1. dir \in NameSets
  BY DEF TicketInv, VerifiedInv, Shape, KrpTypes, DiskTypes
<1>2. CASE WriteFirstCheckpoint \/ AdvanceCheckpoint
  <2>1. PICK k : dir' = [dir EXCEPT !.ckpt[H.tid] = k]
    BY <1>2 DEF WriteFirstCheckpoint, AdvanceCheckpoint
  <2>2. \A t \in Conns : t # H.tid => dir'.ckpt[t] = dir.ckpt[t]
    BY <1>1, <2>1 DEF NameSets
  <2>3. hpc # "idle"
    BY <1>2 DEF WriteFirstCheckpoint, AdvanceCheckpoint
  <2>4. CASE WriteFirstCheckpoint
    <3>1. H.tid = hconn /\ hpc = "created" /\ hconn \notin closed
      BY <2>3, <2>4, ServedHeader, ServedTransfer DEF WriteFirstCheckpoint, TicketInv,
         HandlerTickets, VerifiedInv
    <3> QED
      BY <2>2, <3>1 DEF Issued
  <2>5. CASE AdvanceCheckpoint
    <3>1. dir.ckpt[H.tid] # None
      BY <2>5 DEF AdvanceCheckpoint, TicketInv, HandlerTickets, Placed
    <3> QED
      BY <2>2, <3>1
  <2> QED
    BY <1>2, <2>4, <2>5
<1>3. CASE RemoveCheckpoint \/ DiscardCheckpoint
  <2>1. dir'.ckpt = [dir.ckpt EXCEPT ![H.tid] = None] /\ DOMAIN dir.ckpt = Conns
    BY <1>1, <1>3 DEF RemoveCheckpoint, DiscardCheckpoint, NameSets
  <2> QED
    BY <2>1
<1>4. CASE CreatePartial \/ Publish \/ DiscardPartial
  BY <1>1, <1>4 DEF CreatePartial, Publish, DiscardPartial, NameSets
<1>5. CASE Resume \/ ReceiveFrame \/ SyncFrame \/ ReceiveFinal
  BY <1>5 DEF Resume, ReceiveFrame, SyncFrame, ReceiveFinal, nameVars
<1>6. CASE \/ \E n \in Conns : Accept(n) \/ DropQueued(n)
           \/ Reject \/ SendStatus \/ Rehash \/ Acknowledge \/ ReachEndOfInput \/ HandlerAbort
  BY <1>6, QuietHandler DEF TransferNamesStay
<1> QED
  BY <1>2, <1>3, <1>4, <1>5, <1>6 DEF HandlerStep

\* Once issued, a ticket is backed by the same secret for good.
LEMMA BackedStays ==
    ASSUME TicketInv, Next
    PROVE  \A t \in Conns, x \in Drawn :
               Issued(t) /\ Backs(x, t) => x \in Drawn' /\ Issued(t)' /\ Backs(x, t)'
<1> SUFFICES ASSUME NEW t \in Conns, NEW x \in Drawn, Issued(t), Backs(x, t)
             PROVE  Backs(x, t)'
  BY IssuedStays, DrawnGrows DEF TicketInv
<1>1. CASE \E c \in Clients : ClientMoves(c)
  <2>1. UNCHANGED <<secretVars, nameVars>>
    BY <1>1, ClientReach DEF TicketInv, VerifiedInv
  <2> QED
    BY <2>1 DEF Backs, SecretStands, HasSecret, Alive, Settled, secretVars, nameVars
<1>2. CASE \E s \in Servers : SecretStep(s)
  <2>1. /\ SecretStands(dir, x) => SecretStands(dir, x)'
        /\ SecretStands(journal, x) => SecretStands(journal, x)'
    BY <1>2, SecretDisk
  <2>2. dir'.ckpt = dir.ckpt /\ journal' = journal
    BY <1>2, SecretReach DEF TicketInv, VerifiedInv, TransferNamesStay
  <2> QED
    BY <2>1, <2>2 DEF Backs
<1>3. CASE HandlerStep \/ HandlerAbort
  <2>1. dir'.secret = dir.secret /\ UNCHANGED <<secretVars, journal>>
    BY <1>3, HandlerSecret, HandlerReach DEF TicketInv, VerifiedInv
  <2>2. dir'.ckpt[t] # None => dir.ckpt[t] # None
    BY <1>3, CheckpointsGoAway
  <2> QED
    BY <2>1, <2>2 DEF Backs, SecretStands, HasSecret, Alive, Settled, secretVars
<1>4. CASE \E s \in Servers : ServerCrash(s)
  <2>1. PICK s \in Servers : ServerCrash(s)
    BY <1>4
  <2>2. /\ UNCHANGED <<text, stored, dir, journal>>
        /\ \A u \in Servers : spc'[u] \in Storing => spc[u] \in Storing /\ mine'[u] = mine[u]
    BY <2>1, SecretKinds DEF ServerCrash, Forget, Storing, nameVars
  <2>3. Alive(x)' => Alive(x)
    BY <2>2 DEF Alive, Settled
  <2> QED
    BY <2>2, <2>3 DEF Backs, SecretStands, HasSecret
<1>5. CASE PowerLoss
  <2>1. /\ UNCHANGED <<stored, journal>> /\ dir' = journal
        /\ \A u \in Servers : spc'[u] \notin Storing
        /\ \A y \in Secrets : text'[y] = text[y] \/ text'[y] = stored[y]
    BY <1>5 DEF PowerLoss, Forget, Storing
  <2>2. Alive(x)' => Settled(x)
    BY <2>1 DEF Alive, Settled
  <2>3. SecretStands(journal, x) => SecretStands(journal, x)'
    <3>1. SUFFICES ASSUME Settled(x), HasSecret(journal, x)
                   PROVE  HasSecret(journal, x)'
      BY <2>2 DEF SecretStands, Alive
    <3>2. journal.secret = x /\ x \in Secrets /\ text[x] = x
      BY <3>1, HeldUnderName, SecretKinds
    <3>3. stored[x] = x
      BY <3>1, SettledIs
    <3> QED
      BY <2>1, <3>1, <3>2, <3>3 DEF HasSecret
  <2>4. SecretStands(journal, x)' => SecretStands(dir, x)'
    BY <2>1 DEF SecretStands, HasSecret, Alive, Settled
  <2> QED
    BY <2>1, <2>3, <2>4 DEF Backs
<1>6. CASE WriteBack
  BY <1>6 DEF WriteBack, Backs, SecretStands, HasSecret, Alive, Settled, secretVars
<1> QED
  BY <1>1, <1>2, <1>3, <1>4, <1>5, <1>6 DEF Next, ClientMoves

LEMMA GrantedStays ==
    ASSUME TicketInv, Next, NEW k, NEW t \in Conns, NEW d, Granted(k, t, d)
    PROVE  Granted(k, t, d)'
BY BackedStays DEF Granted
-----------------------------------------------------------------------------
(* The handler's checkpoint. *)

\* Nothing about the server changes but what a secret does.
LEMMA HandlerTicketsKept ==
    ASSUME TicketInv, Next, HandlerStays, hpc # "idle" => H' = H,
           \A t \in Conns : dir'.ckpt[t] = dir.ckpt[t],
           UNCHANGED journal \/ journal' = dir,
           Decided => held'[Main] = held[Main]
    PROVE  HandlerTickets'
<1>1. hpc' = hpc /\ hconn' = hconn /\ closed' = closed /\ Decided' = Decided
  BY DEF HandlerStays, Decided
<1>2. CASE ~Decided
  BY <1>1, <1>2 DEF HandlerTickets, Decided, Placed
<1>3. CASE Decided
  <2>1. hpc # "idle" /\ H' = H
    BY <1>3 DEF Decided
  <2>2. PICK t \in Conns : t = H.tid
    BY <2>1, ServedTransfer DEF TicketInv
  <2>3. CASE hpc = "created"
    <3>1. dir'.ckpt[t] = None /\ journal'.ckpt[t] = None /\ H'.mode = "new"
      BY <2>1, <2>2, <2>3 DEF TicketInv, HandlerTickets
    <3> QED
      BY <1>1, <2>1, <2>2, <2>3, <3>1 DEF HandlerTickets, Backs
  <2>4. CASE hpc # "created"
    <3>1. PICK x \in Drawn : x = held[Main] /\ x = held'[Main]
      BY <1>3 DEF TicketInv, SecretsTrue, SecretsHeld, VerifiedInv, Shape, Connected, Servers
    <3>2. Issued(t) /\ Backs(x, t)
      BY <1>3, <2>2, <2>4, <3>1 DEF TicketInv, HandlerTickets
    <3>3. Issued(t)' /\ Backs(x, t)'
      BY <3>2, BackedStays
    <3>4. Issued(H.tid)' /\ Backs(held[Main], H.tid)'
      BY <2>1, <2>2, <3>1, <3>3 DEF Issued, Backs
    <3>5. hpc \in Placed => dir'.ckpt[H.tid] # None
      BY <2>2, <2>4 DEF TicketInv, HandlerTickets
    <3> QED
      BY <1>1, <2>1, <2>4, <3>4, <3>5 DEF HandlerTickets
  <2> QED
    BY <2>3, <2>4
<1> QED
  BY <1>2, <1>3

\* A handler with nothing decided has no checkpoint to keep.
LEMMA NoHandlerTickets ==
    ASSUME hpc' \in {"idle", "accepted"}
    PROVE  HandlerTickets'
BY DEF HandlerTickets, Decided, Placed

LEMMA ServerSecret ==
    ASSUME TicketInv
    PROVE  /\ held[Main] \in Nat
           /\ held[Main] # Unset => held[Main] \in Drawn /\ SecretStands(dir, held[Main])
BY DEF TicketInv, SecretsTrue, SecretsHeld, VerifiedInv, Shape, KrpTypes, SecretTypes, Servers

\* A new transfer has no checkpoint anywhere.
LEMMA CreatePartialTickets ==
    ASSUME TicketInv, Next, CreatePartial, H' = H
    PROVE  HandlerTickets'
<1>1. hpc' = "created" /\ hpc = "accepted" /\ H.mode = "new" /\ dir.ckpt[H.tid] = None
  BY DEF CreatePartial, Deciding, NewAllowed
<1>2. PICK t \in Conns : t = H.tid /\ t = hconn /\ ~Begun(t)
  BY <1>1, ServedTransfer DEF TicketInv
<1>3. journal.ckpt[t] = None
  BY <1>2 DEF TicketInv, VerifiedInv, NamesTrue, Named
<1>4. dir'.ckpt = dir.ckpt /\ journal' = journal
  <2>1. dir \in NameSets
    BY DEF TicketInv, VerifiedInv, Shape, KrpTypes, DiskTypes
  <2> QED
    BY <2>1 DEF CreatePartial, NameSets
<1> QED
  BY <1>1, <1>2, <1>3, <1>4 DEF HandlerTickets, Backs

\* The first checkpoint: the secret it stands under is the one on disk, or lost.
LEMMA FirstCheckpointTickets ==
    ASSUME TicketInv, Next, WriteFirstCheckpoint, H' = H
    PROVE  HandlerTickets'
<1>1. hpc = "created" /\ hpc' = "admitted" /\ hconn' = hconn /\ journal' = journal
      /\ UNCHANGED <<held, spc, mine, text, stored>>
  BY DEF WriteFirstCheckpoint, secretVars
<1>2. PICK t \in Conns : t = H.tid /\ t = hconn /\ journal.ckpt[t] = None
  BY <1>1, ServedTransfer DEF TicketInv, HandlerTickets
<1>3. dir'.secret = dir.secret
  BY HandlerSecret DEF HandlerStep, TicketInv, VerifiedInv
<1>4. held[Main] # Unset
  BY <1>1 DEF TicketInv, VerifiedInv, Shape, Connected, Decided
<1>5. dir'.ckpt[t] # None
  <2>1. dir \in NameSets /\ CheckpointOf(H, 0, 0) \in Ckpts
    BY <1>1, ServedHeader, CheckpointType DEF TicketInv, VerifiedInv, Shape, KrpTypes, DiskTypes
  <2>2. dir'.ckpt[t] = CheckpointOf(H, 0, 0)
    BY <1>2, <2>1 DEF WriteFirstCheckpoint, NameSets
  <2> QED
    BY <2>1, <2>2, KrpConstants
<1>6. SecretStands(dir, held[Main])'
  BY <1>1, <1>3, <1>4, ServerSecret DEF SecretStands, HasSecret, Alive, Settled
<1>7. Backs(held[Main], H.tid)'
  BY <1>1, <1>2, <1>6 DEF Backs
<1>8. Issued(H.tid)'
  BY <1>1, <1>2 DEF Issued, Decided
<1> QED
  BY <1>1, <1>2, <1>5, <1>7, <1>8 DEF HandlerTickets

\* A ticket that is accepted was granted by this server.
LEMMA TicketAccepted ==
    ASSUME TicketInv, Resume
    PROVE  Issued(H.tid) /\ Backs(held[Main], H.tid) /\ dir.ckpt[H.tid] # None
<1>1. hpc # "idle" /\ H.mode = "resume" /\ H.ticket = ServerTicket /\ dir.ckpt[H.tid] # None
  BY DEF Resume, Deciding, ResumeAllowed, StateValid
<1>2. hconn \in Used
  BY <1>1, ServedHeader DEF TicketInv, VerifiedInv
<1>3. Granted(H.ticket, H.tid, H.digest)
  BY <1>1, <1>2 DEF TicketInv, TicketsTrue, ShownGranted, H
<1>4. H.ticket[1] = held[Main]
  BY <1>1 DEF ServerTicket, Ticket
<1> QED
  BY <1>1, <1>3, <1>4 DEF Granted

LEMMA GoesOnTickets ==
    ASSUME TicketInv, Next, HandlerStep \/ HandlerAbort, GoesOn, H' = H
    PROVE  HandlerTickets'
<1>1. CASE CreatePartial
  BY <1>1, CreatePartialTickets
<1>2. CASE WriteFirstCheckpoint
  BY <1>2, FirstCheckpointTickets
<1>3. CASE ~CreatePartial /\ ~WriteFirstCheckpoint
  <2>1. hpc # "idle" /\ hpc' # "created" /\ held' = held
    BY <1>3, FirstCheckpointAhead, HandlerReach DEF GoesOn, TicketInv, secretVars
  <2>2. PICK t \in Conns : t = H.tid
    BY <2>1, ServedTransfer DEF TicketInv
  <2>3. PICK x \in Drawn : x = held[Main]
    BY ServerSecret DEF GoesOn
  <2>4. /\ Issued(t) /\ Backs(x, t)
        /\ hpc' \in Placed => dir'.ckpt[t] # None
    <3>1. CASE Resume
      BY <3>1, <2>2, <2>3, TicketAccepted DEF Resume, nameVars
    <3>2. CASE Decided /\ hpc # "created"
      <4>1. Issued(t) /\ Backs(x, t) /\ (hpc \in Placed => dir.ckpt[t] # None)
        BY <2>2, <2>3, <3>2 DEF TicketInv, HandlerTickets
      <4>2. CASE SendStatus \/ ReceiveFrame \/ SyncFrame \/ ReceiveFinal \/ Rehash
        BY <4>1, <4>2 DEF SendStatus, ReceiveFrame, FrameIn, SyncFrame, ReceiveFinal, Rehash,
           Placed, nameVars
      <4>3. CASE AdvanceCheckpoint
        <5>1. dir \in NameSets /\ CheckpointOf(H, nxt, cur) \in Ckpts
          BY <2>1, ServedHeader, CheckpointType DEF TicketInv, VerifiedInv, Shape, KrpTypes,
             HandlerTypes, DiskTypes
        <5>2. dir'.ckpt[t] = CheckpointOf(H, nxt, cur)
          BY <2>2, <4>3, <5>1 DEF AdvanceCheckpoint, NameSets
        <5> QED
          BY <4>1, <5>1, <5>2, KrpConstants
      <4>4. CASE Publish \/ RemoveCheckpoint \/ DiscardPartial
        BY <4>1, <4>4 DEF Publish, RemoveCheckpoint, DiscardPartial, Placed
      <4>5. CASE Resume \/ Reject \/ \E n \in Conns : Accept(n) \/ DropQueued(n)
        BY <3>2, <4>5 DEF Resume, Reject, Deciding, Accept, DropQueued, Decided
      <4>6. CASE Acknowledge \/ DiscardCheckpoint \/ ReachEndOfInput \/ HandlerAbort
        BY <4>6 DEF Acknowledge, DiscardCheckpoint, ReachEndOfInput, HandlerAbort, GoesOn, Leave,
           Decided
      <4> QED
        BY <1>3, <4>2, <4>3, <4>4, <4>5, <4>6 DEF HandlerStep
    <3>3. CASE ~Resume /\ ~(Decided /\ hpc # "created")
      <4>1. ~Reject /\ ~HandlerAbort
        BY DEF GoesOn, Reject, HandlerAbort, Leave, Decided
      <4>2. ~\E n \in Conns : Accept(n) \/ DropQueued(n)
        BY <2>1 DEF Accept, DropQueued
      <4> QED
        BY <1>3, <3>3, <4>1, <4>2 DEF HandlerStep, Decided, SendStatus,
           ReceiveFrame, FrameIn, SyncFrame, AdvanceCheckpoint, ReceiveFinal, Rehash, Publish,
           RemoveCheckpoint, Acknowledge, DiscardPartial, DiscardCheckpoint, ReachEndOfInput
    <3> QED
      BY <3>1, <3>2, <3>3
  <2>5. Issued(t)' /\ Backs(x, t)'
    BY <2>4, BackedStays
  <2>6. Issued(H.tid)' /\ Backs(held[Main], H.tid)'
    BY <2>1, <2>2, <2>3, <2>5 DEF Issued, Backs
  <2> QED
    BY <2>1, <2>2, <2>4, <2>6 DEF HandlerTickets
<1> QED
  BY <1>1, <1>2, <1>3

LEMMA HandlerTicketsStep ==
    ASSUME TicketInv, Next
    PROVE  HandlerTickets'
<1>1. CASE \E c \in Clients : ClientMoves(c)
  <2>1. hpc # "idle" => H' = H
    BY <1>1, ClientShape DEF TicketInv, VerifiedInv
  <2>2. HandlerStays /\ held' = held /\ dir' = dir /\ journal' = journal
    BY <1>1, ClientReach DEF TicketInv, VerifiedInv, HandlerStays, handlerVars, secretVars, nameVars
  <2> QED
    BY <2>1, <2>2, HandlerTicketsKept
<1>2. CASE \E s \in Servers : SecretStep(s)
  <2>1. PICK s \in Servers : SecretStep(s)
    BY <1>2
  <2>2. /\ UNCHANGED request
        /\ HandlerStays \/ (Leave /\ hpc = "accepted")
        /\ dir'.ckpt = dir.ckpt /\ journal' = journal
    BY <2>1, SecretReach DEF TicketInv, VerifiedInv, TransferNamesStay
  <2>3. Decided => held'[Main] = held[Main]
    <3>1. Decided => held[Main] # Unset /\ spc[Main] = "idle"
      BY DEF TicketInv, VerifiedInv, Shape, Connected, Decided
    <3>2. held \in [Servers -> Nat]
      BY DEF TicketInv, VerifiedInv, Shape, KrpTypes, SecretTypes
    <3>3. Decided => s # Main
      BY <2>1, <3>1 DEF SecretStep, FindSecret, ReadSecret, RefuseSecret, CreateSecret,
         LoseSecretRace, WriteSecret, SyncSecret, FailSecret, Storing
    <3> QED
      BY <2>1, <3>2, <3>3 DEF SecretStep, FindSecret, ReadSecret, RefuseSecret, CreateSecret,
         LoseSecretRace, WriteSecret, SyncSecret, FailSecret, Servers
  <2>4. CASE HandlerStays
    <3>1. H' = H
      BY <2>2, <2>4 DEF H, HandlerStays
    <3> QED
      BY <2>2, <2>3, <2>4, <3>1, HandlerTicketsKept
  <2>5. CASE Leave
    BY <2>5, NoHandlerTickets DEF Leave
  <2> QED
    BY <2>2, <2>4, <2>5
<1>3. CASE HandlerStep \/ HandlerAbort
  <2>1. CASE GoesOn
    BY <1>3, <2>1, HandlerShape, GoesOnTickets DEF TicketInv, VerifiedInv
  <2>2. CASE LeavesFor
    BY <2>2, NoHandlerTickets DEF LeavesFor, Leave
  <2>3. CASE \E n \in Conns : Accept(n) \/ DropQueued(n)
    BY <2>3, NoHandlerTickets DEF Accept, DropQueued, handlerVars
  <2> QED
    BY <1>3, <2>1, <2>2, <2>3, HandlerCourse DEF TicketInv, VerifiedInv
<1>4. CASE \E s \in Servers : ServerCrash(s)
  <2>1. PICK s \in Servers : ServerCrash(s)
    BY <1>4
  <2>2. CASE s = Main
    BY <2>1, <2>2, NoHandlerTickets DEF ServerCrash, Forget
  <2>3. CASE s # Main
    <3>1. HandlerStays /\ held'[Main] = held[Main] /\ UNCHANGED <<dir, journal, request>>
      BY <2>1, <2>3 DEF ServerCrash, Forget, HandlerStays, Servers, nameVars
    <3>2. H' = H
      BY <3>1 DEF H, HandlerStays
    <3> QED
      BY <3>1, <3>2, HandlerTicketsKept
  <2> QED
    BY <2>2, <2>3
<1>5. CASE PowerLoss
  <2>1. hpc' = "idle"
    BY <1>5 DEF PowerLoss, Forget, Servers
  <2> QED
    BY <2>1, NoHandlerTickets
<1>6. CASE WriteBack
  <2>1. HandlerStays /\ H' = H /\ held' = held /\ dir' = dir /\ journal' = dir
    BY <1>6 DEF WriteBack, HandlerStays, H, netVars, handlerVars, secretVars
  <2> QED
    BY <2>1, HandlerTicketsKept
<1> QED
  BY <1>1, <1>2, <1>3, <1>4, <1>5, <1>6 DEF Next, ClientMoves
-----------------------------------------------------------------------------
(* The tickets. *)

\* Headers stay as they were announced.
LEMMA HeadersStay ==
    ASSUME VerifiedInv, Next
    PROVE  \A n \in Used : n \in Used' /\ request'[n] = request[n]
<1>1. CASE \E c \in Clients : ClientMoves(c)
  BY <1>1, ClientReach DEF VerifiedInv
<1>2. CASE \E s \in Servers : SecretStep(s)
  BY <1>2, SecretReach DEF VerifiedInv, Used
<1>3. CASE HandlerStep \/ HandlerAbort
  BY <1>3, HandlerReach
<1>4. CASE PowerLoss \/ \E s \in Servers : ServerCrash(s)
  BY <1>4, FaultShape DEF VerifiedInv, Used
<1>5. CASE WriteBack
  BY <1>5 DEF WriteBack, netVars, Used
<1> QED
  BY <1>1, <1>2, <1>3, <1>4, <1>5 DEF Next, ClientMoves

LEMMA SavedStays ==
    ASSUME TicketInv, Next, NEW c \in Clients, saved'[c] = saved[c]
    PROVE  SavedGranted(c)'
<1>1. SUFFICES ASSUME saved[c] # None
               PROVE  Granted(saved[c].ticket, saved[c].tid, saved[c].digest)'
  BY DEF SavedGranted
<1>2. saved[c].tid \in Conns /\ Granted(saved[c].ticket, saved[c].tid, saved[c].digest)
  BY <1>1 DEF TicketInv, TicketsTrue, SavedGranted, VerifiedInv, Shape, KrpTypes, ClientTypes, Saves
<1>3. PICK k, d : k = saved[c].ticket /\ d = saved[c].digest
  OBVIOUS
<1>4. PICK t \in Conns : t = saved[c].tid
  BY <1>2
<1>5. Granted(k, t, d)'
  BY <1>2, <1>3, <1>4, GrantedStays
<1> QED
  BY <1>3, <1>4, <1>5 DEF Granted, Issued, Backs

LEMMA ShownStays ==
    ASSUME TicketInv, Next, NEW n \in Used
    PROVE  ShownGranted(n)'
<1>1. n \in Used' /\ request'[n] = request[n] /\ request[n].tid \in Conns
  BY HeadersStay, UsedHeader, HeaderParts DEF TicketInv, VerifiedInv
<1>2. SUFFICES ASSUME request[n].mode = "resume"
               PROVE  Granted(request[n].ticket, request[n].tid, request[n].digest)'
  BY <1>1 DEF ShownGranted
<1>3. Granted(request[n].ticket, request[n].tid, request[n].digest)
  BY <1>2 DEF TicketInv, TicketsTrue, ShownGranted
<1>4. PICK k, d : k = request[n].ticket /\ d = request[n].digest
  OBVIOUS
<1>5. PICK t \in Conns : t = request[n].tid
  BY <1>1
<1>6. Granted(k, t, d)'
  BY <1>3, <1>4, <1>5, GrantedStays
<1> QED
  BY <1>1, <1>4, <1>5, <1>6 DEF Granted, Issued, Backs

\* A message on its way keeps what it grants.
LEMMA MessageStays ==
    ASSUME TicketInv, Next, NEW n \in Conns, NEW j \in 1 .. Len(down[n]),
           down[n][j].kind = "status", NEW m, m = down[n][j]
    PROVE  n \in Used' /\ Granted(m.ticket, request[n].tid, request[n].digest)'
<1>1. n \in Used /\ Granted(m.ticket, request[n].tid, request[n].digest)
  BY DEF TicketInv, TicketsTrue, StatusGranted
<1>2. n \in Used' /\ request'[n] = request[n] /\ request[n].tid \in Conns
  BY <1>1, HeadersStay, UsedHeader, HeaderParts DEF TicketInv, VerifiedInv
<1>3. PICK d : d = request[n].digest
  OBVIOUS
<1>4. PICK t \in Conns : t = request[n].tid
  BY <1>2
<1>5. Granted(m.ticket, t, d)'
  BY <1>1, <1>3, <1>4, GrantedStays
<1> QED
  BY <1>2, <1>3, <1>4, <1>5 DEF Granted, Issued, Backs

\* The status on its way was there before, or says nothing of a ticket.
OldStatus(n) ==
    \A i \in 1 .. Len(down'[n]) :
        \/ down'[n][i].kind # "status"
        \/ \E j \in 1 .. Len(down[n]) : down'[n][i] = down[n][j]

LEMMA StatusStays ==
    ASSUME TicketInv, Next, NEW n \in Conns, OldStatus(n)
    PROVE  StatusGranted(n)'
<1>1. SUFFICES ASSUME NEW i \in 1 .. Len(down'[n]), down'[n][i].kind = "status"
               PROVE  n \in Used' /\ Granted(down[n][i].ticket, request[n].tid, request[n].digest)'
  BY DEF StatusGranted
<1>2. PICK j \in 1 .. Len(down[n]) : down'[n][i] = down[n][j]
  BY <1>1 DEF OldStatus
<1>3. PICK m : m = down[n][j]
  OBVIOUS
<1>4. n \in Used' /\ Granted(m.ticket, request[n].tid, request[n].digest)'
  BY <1>1, <1>2, <1>3, MessageStays
<1> QED
  BY <1>2, <1>3, <1>4 DEF Granted, Issued, Backs

\* Reading an answer, or adding one that is no status.
LEMMA OldStatusCases ==
    ASSUME TicketInv, NEW n \in Conns,
           \/ down'[n] = down[n]
           \/ down[n] # <<>> /\ down'[n] = Tail(down[n])
           \/ \E d, t : down'[n] = Append(down[n], Ack(d, t))
    PROVE  OldStatus(n)
<1>1. down[n] \in Seq(DownMsgs)
  BY DEF TicketInv, VerifiedInv, Shape, KrpTypes, NetTypes
<1>2. CASE down'[n] = down[n]
  BY <1>2 DEF OldStatus
<1>3. CASE down[n] # <<>> /\ down'[n] = Tail(down[n])
  <2>1. \A i \in 1 .. Len(down'[n]) :
            i + 1 \in 1 .. Len(down[n]) /\ down'[n][i] = down[n][i + 1]
    BY <1>1, <1>3
  <2> QED
    BY <2>1 DEF OldStatus
<1>4. CASE \E d, t : down'[n] = Append(down[n], Ack(d, t))
  <2>1. PICK d, t : down'[n] = Append(down[n], Ack(d, t))
    BY <1>4
  <2>2. PICK m : m = Ack(d, t)
    OBVIOUS
  <2>3. m.kind = "ack"
    BY <2>2 DEF Ack
  <2>4. \A i \in 1 .. Len(down'[n]) :
            down'[n][i] = m \/ (i \in 1 .. Len(down[n]) /\ down'[n][i] = down[n][i])
    BY <1>1, <2>1, <2>2
  <2> QED
    BY <2>3, <2>4 DEF OldStatus
<1> QED
  BY <1>2, <1>3, <1>4

\* The status of an admitted transfer grants the ticket the server stands by.
LEMMA StatusSent ==
    ASSUME TicketInv, Next, SendStatus
    PROVE  \A n \in Conns : StatusGranted(n)'
<1>1. hpc = "admitted" /\ hpc # "idle" /\ Decided /\ UNCHANGED request
  BY DEF SendStatus, Decided
<1>2. hconn \in Conns /\ hconn \in Used /\ H.tid \in Conns
  BY <1>1, ServedHeader DEF TicketInv, VerifiedInv
<1>3. PICK h \in Conns : h = hconn
  BY <1>2
<1>4. PICK t \in Conns : t = H.tid
  BY <1>2
<1>5. PICK k, d : k = ServerTicket /\ d = H.digest
  OBVIOUS
<1>6. Granted(k, t, d)
  <2>1. k = <<held[Main], t, d>> /\ k[1] = held[Main]
    BY <1>4, <1>5 DEF ServerTicket, Ticket
  <2>2. held[Main] \in Drawn
    BY <1>1, ServerSecret DEF TicketInv, VerifiedInv, Shape, Connected
  <2> QED
    BY <1>1, <1>4, <2>1, <2>2 DEF TicketInv, HandlerTickets, Granted
<1>7. Granted(k, t, d)'
  BY <1>6, GrantedStays
<1>8. \A n \in Conns : n # h => StatusGranted(n)'
  <2>1. \A n \in Conns : n # h => down'[n] = down[n]
    BY <1>3 DEF SendStatus, TicketInv, VerifiedInv, Shape, KrpTypes, NetTypes
  <2> QED
    BY <2>1, OldStatusCases, StatusStays
<1>9. StatusGranted(h)'
  <2>1. SUFFICES ASSUME NEW i \in 1 .. Len(down'[h]), down'[h][i].kind = "status"
                 PROVE  h \in Used' /\ Granted(down[h][i].ticket, request[h].tid, request[h].digest)'
    BY DEF StatusGranted
  <2>2. PICK m : m = Status(nxt, cur, ServerTicket)
    OBVIOUS
  <2>3. down[h] \in Seq(DownMsgs) /\ down'[h] = Append(down[h], m)
    BY <1>3, <2>2 DEF SendStatus, TicketInv, VerifiedInv, Shape, KrpTypes, NetTypes
  <2>4. down'[h][i] = m \/ (i \in 1 .. Len(down[h]) /\ down'[h][i] = down[h][i])
    BY <2>3
  <2>5. CASE down'[h][i] = m
    <3>1. m.ticket = k
      BY <1>5, <2>2 DEF Status
    <3>2. h \in Used' /\ request'[h].tid = t /\ request'[h].digest = d
      BY <1>1, <1>2, <1>3, <1>4, <1>5 DEF H, Used
    <3> QED
      BY <1>7, <2>5, <3>1, <3>2 DEF Granted, Issued, Backs
  <2>6. CASE i \in 1 .. Len(down[h]) /\ down'[h][i] = down[h][i]
    <3>1. PICK o : o = down[h][i]
      OBVIOUS
    <3>2. h \in Used' /\ Granted(o.ticket, request[h].tid, request[h].digest)'
      BY <2>1, <2>6, <3>1, MessageStays
    <3> QED
      BY <2>6, <3>1, <3>2 DEF Granted, Issued, Backs
  <2> QED
    BY <2>4, <2>5, <2>6
<1> QED
  BY <1>8, <1>9

\* Clients store what a status grants and present what they have stored.
LEMMA StatusStored ==
    ASSUME TicketInv, Next, NEW c \in Clients, ReceiveStatus(c)
    PROVE  SavedGranted(c)'
<1>1. PICK n \in Conns : n = conn[c] /\ n \in Used /\ request[n].tid \in Conns
  <2>1. conn[c] \in Used
    BY DEF ReceiveStatus, TicketInv, VerifiedInv, Shape, Connected, Calling
  <2> QED
    BY <2>1, UsedHeader, HeaderParts DEF TicketInv, VerifiedInv
<1>2. down[n] \in Seq(DownMsgs) /\ down[n] # <<>> /\ Head(down[n]).kind = "status"
  BY <1>1 DEF ReceiveStatus, TicketInv, VerifiedInv, Shape, KrpTypes, NetTypes
<1>3. 1 \in 1 .. Len(down[n]) /\ Head(down[n]) = down[n][1]
  BY <1>2
<1>4. PICK k, d : k = down[n][1].ticket /\ d = request[n].digest
  OBVIOUS
<1>5. PICK t \in Conns : t = request[n].tid
  BY <1>1
<1>6. Granted(k, t, d)
  BY <1>2, <1>3, <1>4, <1>5 DEF TicketInv, TicketsTrue, StatusGranted
<1>7. Granted(k, t, d)'
  BY <1>6, GrantedStays
<1>8. saved'[c] = [tid |-> t, digest |-> d, ticket |-> k]
  BY <1>1, <1>3, <1>4, <1>5 DEF ReceiveStatus, TicketInv, VerifiedInv, Shape, KrpTypes, ClientTypes
<1>9. saved'[c].tid = t /\ saved'[c].digest = d /\ saved'[c].ticket = k
  BY <1>8
<1> QED
  BY <1>7, <1>9 DEF SavedGranted, Granted, Issued, Backs

LEMMA TicketPresented ==
    ASSUME TicketInv, Next, NEW c \in Clients, Connect(c)
    PROVE  \A n \in Used' : ShownGranted(n)'
<1>1. PICK n \in Conns \ Used : request' = [request EXCEPT ![n] = RequestOn(c, n)]
  BY DEF Connect
<1>2. \A m \in Used' : m \in Used \/ m = n
  BY <1>1 DEF Used, TicketInv, VerifiedInv, Shape, KrpTypes, NetTypes
<1>3. ShownGranted(n)'
  <2>1. request'[n] = RequestOn(c, n)
    BY <1>1 DEF TicketInv, VerifiedInv, Shape, KrpTypes, NetTypes
  <2>2. CASE saved[c] = None
    BY <2>1, <2>2 DEF RequestOn, ShownGranted
  <2>3. CASE saved[c] # None
    <3>1. /\ saved[c].tid \in Conns /\ saved[c].digest = digest[c]
          /\ Granted(saved[c].ticket, saved[c].tid, saved[c].digest)
      BY <2>3 DEF Connect, TicketInv, TicketsTrue, SavedGranted, VerifiedInv, Shape, KrpTypes,
         ClientTypes, Saves
    <3>2. PICK k, d : k = saved[c].ticket /\ d = saved[c].digest
      OBVIOUS
    <3>3. PICK t \in Conns : t = saved[c].tid
      BY <3>1
    <3>4. Granted(k, t, d)'
      BY <3>1, <3>2, <3>3, GrantedStays
    <3>5. request'[n].tid = t /\ request'[n].digest = d /\ request'[n].ticket = k
      BY <2>1, <2>3, <3>1, <3>2, <3>3 DEF RequestOn
    <3> QED
      BY <3>4, <3>5 DEF ShownGranted, Granted, Issued, Backs
  <2> QED
    BY <2>2, <2>3
<1> QED
  BY <1>2, <1>3, ShownStays

\* A client's move on the tickets: its state file, its request, its answers.
LEMMA ClientTickets ==
    ASSUME TicketInv, Next, NEW c \in Clients, ClientMoves(c)
    PROVE  TicketsTrue'
<1>1. /\ saved \in [Clients -> Saves \cup {None}] /\ down \in [Conns -> Seq(DownMsgs)]
      /\ \A b \in Clients : cpc[b] \in Calling => conn[b] \in Used /\ conn[b] \in Conns
  BY DEF TicketInv, VerifiedInv, Shape, KrpTypes, ClientTypes, NetTypes, Connected, Used
<1>2. CASE ReceiveStatus(c)
  <2>1. conn[c] \in Conns /\ UNCHANGED request
    BY <1>1, <1>2 DEF ReceiveStatus, Calling
  <2>2. \A b \in Clients : SavedGranted(b)'
    <3>1. \A b \in Clients : b # c => saved'[b] = saved[b]
      BY <1>1, <1>2 DEF ReceiveStatus
    <3> QED
      BY <1>2, <3>1, SavedStays, StatusStored
  <2>3. \A n \in Used' : ShownGranted(n)'
    BY <2>1, ShownStays DEF Used
  <2>4. \A n \in Conns : StatusGranted(n)'
    <3>1. \A n \in Conns : down'[n] = down[n] \/ (down[n] # <<>> /\ down'[n] = Tail(down[n]))
      BY <1>1, <1>2, <2>1 DEF ReceiveStatus
    <3> QED
      BY <3>1, OldStatusCases, StatusStays
  <2> QED
    BY <2>2, <2>3, <2>4 DEF TicketsTrue
<1>3. CASE Connect(c)
  <2>1. UNCHANGED <<saved, down>>
    BY <1>3 DEF Connect
  <2>2. \A n \in Conns : StatusGranted(n)'
    BY <2>1, OldStatusCases, StatusStays
  <2>3. \A b \in Clients : SavedGranted(b)'
    BY <2>1, SavedStays
  <2> QED
    BY <1>3, <2>2, <2>3, TicketPresented DEF TicketsTrue
<1>4. CASE ReceiveAck(c)
  <2>1. conn[c] \in Conns /\ UNCHANGED request
    BY <1>1, <1>4 DEF ReceiveAck, Calling
  <2>2. \A b \in Clients : SavedGranted(b)'
    <3>1. saved'[c] = None /\ \A b \in Clients : b # c => saved'[b] = saved[b]
      BY <1>1, <1>4 DEF ReceiveAck
    <3>2. SavedGranted(c)'
      BY <3>1 DEF SavedGranted
    <3> QED
      BY <3>1, <3>2, SavedStays
  <2>3. \A n \in Used' : ShownGranted(n)'
    BY <2>1, ShownStays DEF Used
  <2>4. \A n \in Conns : StatusGranted(n)'
    <3>1. \A n \in Conns : down'[n] = down[n] \/ (down[n] # <<>> /\ down'[n] = Tail(down[n]))
      BY <1>1, <1>4, <2>1 DEF ReceiveAck
    <3> QED
      BY <3>1, OldStatusCases, StatusStays
  <2> QED
    BY <2>2, <2>3, <2>4 DEF TicketsTrue
<1>5. CASE UNCHANGED <<saved, request, down>>
  <2>1. Used' = Used
    BY <1>5 DEF Used
  <2>2. \A n \in Conns : StatusGranted(n)'
    BY <1>5, OldStatusCases, StatusStays
  <2>3. \A b \in Clients : SavedGranted(b)'
    BY <1>5, SavedStays
  <2>4. \A n \in Used' : ShownGranted(n)'
    BY <2>1, ShownStays
  <2> QED
    BY <2>2, <2>3, <2>4 DEF TicketsTrue
<1>6. CASE Hash(c) \/ RefuseChangedSource(c) \/ SendFrame(c) \/ AbandonFrame(c)
  BY <1>5, <1>6 DEF Hash, RefuseChangedSource, SendFrame, AbandonFrame, netVars
<1>7. CASE SendFinal(c) \/ ReceiveEnd(c) \/ ClientAbort(c) \/ EditSource(c)
  BY <1>5, <1>7 DEF SendFinal, ReceiveEnd, ClientAbort, EditSource, netVars
<1> QED
  BY <1>2, <1>3, <1>4, <1>6, <1>7 DEF ClientMoves, ClientStep

\* Steps that leave the clients and the requests alone.
LEMMA ServerTickets ==
    ASSUME TicketInv, Next, UNCHANGED <<saved, request>>, \A n \in Conns : OldStatus(n)
    PROVE  TicketsTrue'
<1>1. Used' = Used
  BY DEF Used
<1>2. \A n \in Conns : StatusGranted(n)'
  BY StatusStays
<1>3. \A b \in Clients : SavedGranted(b)'
  BY SavedStays
<1>4. \A n \in Used' : ShownGranted(n)'
  BY <1>1, ShownStays
<1> QED
  BY <1>2, <1>3, <1>4 DEF TicketsTrue

LEMMA TicketsStep ==
    ASSUME TicketInv, Next
    PROVE  TicketsTrue'
<1>1. CASE \E c \in Clients : ClientMoves(c)
  BY <1>1, ClientTickets
<1>2. CASE UNCHANGED <<saved, request, down>>
  BY <1>2, OldStatusCases, ServerTickets
<1>3. CASE \E s \in Servers : SecretStep(s)
  BY <1>2, <1>3, SecretReach DEF TicketInv, VerifiedInv, clientVars
<1>4. CASE HandlerStep \/ HandlerAbort
  <2>1. UNCHANGED <<saved, request>> /\ Used' = Used
    BY <1>4, HandlerReach DEF clientVars
  <2>2. CASE SendStatus
    <3>1. \A b \in Clients : SavedGranted(b)'
      BY <2>1, SavedStays
    <3>2. \A n \in Used' : ShownGranted(n)'
      BY <2>1, ShownStays
    <3> QED
      BY <2>2, <3>1, <3>2, StatusSent DEF TicketsTrue
  <2>3. CASE Acknowledge
    <3>1. \A n \in Conns : down'[n] = down[n] \/ \E d, t : down'[n] = Append(down[n], Ack(d, t))
      <4>1. down \in [Conns -> Seq(DownMsgs)]
        BY DEF TicketInv, VerifiedInv, Shape, KrpTypes, NetTypes
      <4> QED
        BY <2>3, <4>1 DEF Acknowledge
    <3>2. \A n \in Conns : OldStatus(n)
      BY <3>1, OldStatusCases
    <3> QED
      BY <2>1, <3>2, ServerTickets
  <2>4. CASE UNCHANGED down
    BY <1>2, <2>1, <2>4
  <2>5. CASE \E n \in Conns : Accept(n) \/ DropQueued(n)
    BY <2>4, <2>5 DEF Accept, DropQueued, netVars
  <2>6. CASE CreatePartial \/ WriteFirstCheckpoint \/ Resume \/ Reject \/ ReceiveFrame \/ SyncFrame
    BY <2>4, <2>6 DEF CreatePartial, WriteFirstCheckpoint, Resume, Reject, ReceiveFrame,
       SyncFrame, netVars
  <2>7. CASE AdvanceCheckpoint \/ ReceiveFinal \/ Rehash \/ Publish \/ RemoveCheckpoint
    BY <2>4, <2>7 DEF AdvanceCheckpoint, ReceiveFinal, Rehash, Publish, RemoveCheckpoint, netVars
  <2>8. CASE DiscardPartial \/ DiscardCheckpoint \/ ReachEndOfInput \/ HandlerAbort
    BY <2>4, <2>8 DEF DiscardPartial, DiscardCheckpoint, ReachEndOfInput, HandlerAbort, netVars
  <2> QED
    BY <1>4, <2>2, <2>3, <2>5, <2>6, <2>7, <2>8 DEF HandlerStep
<1>5. CASE PowerLoss \/ \E s \in Servers : ServerCrash(s)
  BY <1>2, <1>5 DEF PowerLoss, ServerCrash, clientVars
<1>6. CASE WriteBack
  BY <1>2, <1>6 DEF WriteBack, clientVars, netVars
<1> QED
  BY <1>1, <1>3, <1>4, <1>5, <1>6 DEF Next, ClientMoves

LEMMA TicketInvStep == TicketInv /\ [Next]_vars => TicketInv'
<1> SUFFICES ASSUME TicketInv, [Next]_vars
             PROVE  TicketInv'
  OBVIOUS
<1>1. VerifiedInv'
  BY VerifiedStep DEF TicketInv
<1>2. CASE Next
  BY <1>1, <1>2, SecretsStep, HandlerTicketsStep, TicketsStep DEF TicketInv
<1>3. CASE UNCHANGED vars
  <2>1. /\ UNCHANGED <<saved, request, down, closed, hconn, hpc, held, dir, journal>>
        /\ UNCHANGED secretVars
    BY <1>3 DEF vars, clientVars, netVars, handlerVars, secretVars, nameVars
  <2>2. SecretsTrue'
    BY <2>1, SecretsSame
  <2>4. Drawn' = Drawn
    BY <2>1 DEF Drawn, secretVars
  <2>5. HandlerTickets'
    BY <2>1 DEF TicketInv, HandlerTickets, H, Decided, Backs, SecretStands, HasSecret, Alive,
       Settled, Issued, secretVars
  <2>6. TicketsTrue'
    BY <2>1, <2>4 DEF TicketInv, TicketsTrue, SavedGranted, ShownGranted, StatusGranted, Granted,
       Used, Backs, SecretStands, HasSecret, Alive, Settled, Issued, Decided, secretVars
  <2> QED
    BY <1>1, <2>2, <2>5, <2>6 DEF TicketInv
<1> QED
  BY <1>2, <1>3

\* Servers may start together, read a secret before it is synced, fail to store
\* theirs, crash or lose power: those that hold a secret that has settled hold the
\* one on disk, and a ticket made with it stands as long as its transfer has a
\* checkpoint (_load_or_create_server_secret, _make_ticket).
THEOREM TicketsStand == Spec => []TicketsVerify
<1>1. TicketInv => TicketsVerify
  <2>1. SUFFICES ASSUME TicketInv
                 PROVE  TicketsVerify
    OBVIOUS
  <2>2. \A x \in Drawn : Settled(x) /\ SecretStands(dir, x) => OnDisk(x)
    BY DEF SecretStands, Alive, HasSecret, OnDisk
  <2>3. \A s \in Servers : held[s] # Unset /\ Settled(held[s]) => OnDisk(held[s])
    BY <2>1, <2>2 DEF TicketInv, SecretsTrue, SecretsHeld
  <2>4. \A c \in Clients :
            saved[c] # None /\ dir.ckpt[saved[c].tid] # None /\ Settled(saved[c].ticket[1]) =>
                OnDisk(saved[c].ticket[1])
    BY <2>1, <2>2 DEF TicketInv, TicketsTrue, SavedGranted, Granted, Backs
  <2>5. \A n \in Used :
            /\ request[n].mode = "resume" /\ dir.ckpt[request[n].tid] # None
            /\ Settled(request[n].ticket[1])
            => Ticket(text[dir.secret], request[n]) = request[n].ticket
    <3>1. SUFFICES ASSUME NEW n \in Used, request[n].mode = "resume",
                          dir.ckpt[request[n].tid] # None, Settled(request[n].ticket[1])
                   PROVE  Ticket(text[dir.secret], request[n]) = request[n].ticket
      OBVIOUS
    <3>2. Granted(request[n].ticket, request[n].tid, request[n].digest)
      BY <2>1, <3>1 DEF TicketInv, TicketsTrue, ShownGranted
    <3>3. text[dir.secret] = request[n].ticket[1]
      BY <2>2, <3>1, <3>2 DEF Granted, Backs, OnDisk
    <3> QED
      BY <3>2, <3>3 DEF Granted, Ticket
  <2> QED
    BY <2>3, <2>4, <2>5 DEF TicketsVerify
<1> QED
  BY <1>1, InitTickets, TicketInvStep, PTL DEF Spec
-----------------------------------------------------------------------------
(* What is on its way to the server. *)

\* Where frame i of an announced content starts, and how long it is.
FrameStart(h, i) == ExpectedBytes(i, Size(h), FrameSize)
FrameBytes(h, i) == FrameLen(FrameStart(h, i), Size(h), FrameSize)

\* The layout of frame i was found within the walk limit.
LaidOut(n, h, i) == Found(FrameLayout(n, h, i, FrameBytes(h, i)), FrameBlocks(FrameBytes(h, i)))

\* m is frame i of h, sealed on connection n for a client told to start at
\* frame `from`; before any edit it holds the bytes that were announced.
FrameOf(n, h, from, i, m) ==
    /\ i < Count(h)
    /\ m.data \in Seq(Nat) /\ Len(m.data) = FrameBytes(h, i)
    /\ m = Seal(n, h, from, i, m.data)
    /\ LaidOut(n, h, i)
    /\ edits = 0 => m.data = ReadAt(h.digest, FrameStart(h, i), FrameBytes(h, i))

UpMsgs == {Seal(a[1], a[2], a[3], a[4], a[5]) : a \in Conns \X Headers \X Nat \X Nat \X Seq(Nat)}
            \cup {Final(d) : d \in Seq(Nat)}

\* The offsets of the frames.
LEMMA FramePlaces ==
    ASSUME NEW h \in Headers, NEW i \in Nat, i < Count(h)
    PROVE  /\ FrameStart(h, i) \in Nat /\ FrameStart(h, i) < Size(h)
           /\ FrameBytes(h, i) \in 1 .. FrameSize
           /\ FrameStart(h, i + 1) = FrameStart(h, i) + FrameBytes(h, i)
           /\ FrameStart(h, i) + FrameBytes(h, i) <= Size(h)
           /\ FrameStart(h, i) \div FrameSize = i
<1>1. Size(h) \in Nat /\ FrameSize \in Nat \ {0}
  BY HeaderParts, KrpConstants
<1>2. FrameStart(h, i) < Size(h) /\ FrameStart(h, i + 1) = FrameStart(h, i) + FrameBytes(h, i)
      /\ FrameStart(h, i) \div FrameSize = i
  BY <1>1, ExpectedBytesStep, FrameNumberOfOffset DEF Count, FrameStart, FrameBytes
<1>3. FrameStart(h, i) \in Nat
  <2>1. \A x, y \in Nat : x * y \in Nat
    BY SMTT(30)
  <2> QED
    BY <1>1, <2>1 DEF FrameStart, ExpectedBytes
<1>4. FrameBytes(h, i) \in 1 .. FrameSize /\ FrameStart(h, i) + FrameBytes(h, i) <= Size(h)
  BY <1>1, <1>2, <1>3 DEF FrameBytes, FrameLen, Least
<1> QED
  BY <1>2, <1>3, <1>4

\* A sender that has not sent everything is before the last frame.
LEMMA FramesLeft ==
    ASSUME NEW h \in Headers, NEW i \in Nat, i <= Count(h), FrameStart(h, i) < Size(h)
    PROVE  i < Count(h)
<1>1. Size(h) \in Nat /\ Count(h) \in Nat
  BY HeaderParts
<1> QED
  BY <1>1 DEF FrameStart, ExpectedBytes, Count

\* A ciphertext in order is what sealing permutes.
LEMMA CellsInOrder ==
    ASSUME NEW len \in Nat
    PROVE  /\ Cells(len) \in Seq(Nat) /\ Blocks(Cells(len), BlockSize) = FrameBlocks(len)
<1>1. len + TagSize \in Nat
  BY KrpConstants
<1>2. Cells(len) \in Seq(Nat) /\ Len(Cells(len)) = len + TagSize
  BY <1>1 DEF Cells
<1> QED
  BY <1>2 DEF Blocks, FrameBlocks

\* The frame that was sealed for a place opens there: it is laid out and
\* restored alike, and bound to the same key, nonce and records.
LEMMA SealedOpens ==
    ASSUME NEW n \in Conns, NEW h \in Headers, h.digest \in Contents, NEW from, NEW i \in Nat,
           NEW m, FrameOf(n, h, from, i, m)
    PROVE  /\ m.kind = "frame" /\ m.number = i /\ m.len = FrameBytes(h, i)
           /\ Opens(n, h, from, i, m)
<1> DEFINE len == FrameBytes(h, i)
           target == FrameLayout(n, h, i, len)
<1>1. len \in 1 .. FrameSize /\ len \in Nat
  BY FramePlaces, KrpConstants DEF FrameOf
<1>2. m = [kind |-> "frame", number |-> i, len |-> len, bound |-> Binding(n, h, from, i, len),
           data |-> m.data, cells |-> PermuteBlocks(Cells(len), BlockSize, target)]
  BY Zenon DEF FrameOf, Seal
<1>3. /\ m.kind = "frame" /\ m.number = i /\ m.len = len
      /\ m.bound = Binding(n, h, from, i, len)
      /\ m.cells = PermuteBlocks(Cells(len), BlockSize, target)
  <2> HIDE DEF len, target
  <2> QED
    BY <1>2
<1>4. RestoreBlocks(PermuteBlocks(Cells(len), BlockSize, target), BlockSize, target) = Cells(len)
  <2> DEFINE f == RoundTable(TransferKey(n, h), <<h.tid, h.nonce, i>>)
             b == FrameBlocks(len)
  <2>1. target = Layout(b, f)
    BY Zenon DEF FrameLayout
  <2>2. Cells(len) \in Seq(Nat) /\ Blocks(Cells(len), BlockSize) = b /\ BlockSize \in Nat \ {0}
    BY <1>1, CellsInOrder, KrpConstants
  <2>3. b > 1 => RoundValues(f, HalfBits(b))
    <3>1. TransferKey(n, h) \in Conns \X Conns /\ h.tid \in Conns /\ h.nonce \in Conns
      BY DEF TransferKey, Headers
    <3>2. i \in 0 .. FrameCount(Len(h.digest), FrameSize)
      <4>1. Count(h) \in Nat /\ i < Count(h)
        BY HeaderParts DEF FrameOf
      <4> QED
        BY <4>1 DEF Count, Size
    <3> HIDE DEF len
    <3> QED
      BY <1>1, <3>1, <3>2, KrpRounds, Zenon
  <2>4. Found(target, b)
    BY Zenon DEF FrameOf, LaidOut
  <2> HIDE DEF f, b, target
  <2> QED
    BY <2>1, <2>2, <2>3, <2>4, PermutationReversible
<1>5. Opens(n, h, from, i, m)
  <2> HIDE DEF target, len
  <2>1. FrameLayout(n, h, i, m.len) = target
    BY <1>3 DEF target
  <2> QED
    BY <1>3, <1>4, <2>1 DEF Opens
<1> QED
  BY <1>3, <1>5
-----------------------------------------------------------------------------
(* Senders and the handler, along a connection. *)

\* The status has been sent; frames are taken.
Opened == hpc \notin {"idle", "accepted", "created", "admitted"}
Taking == hpc \in {"receiving", "written", "synced"}

FrameTypes ==
    /\ sent \in [Clients -> Nat] /\ first \in [Clients -> Nat] /\ start \in Nat
    /\ up \in [Conns -> Seq(UpMsgs)] /\ edits \in Nat

\* What a call has hashed and announced is a content, and that of its source
\* as long as nobody edits it.
SourcesTrue ==
    /\ source \in [Clients -> Contents]
    /\ \A c \in Clients : cpc[c] = "hashed" =>
           digest[c] \in Contents /\ (edits = 0 => digest[c] = source[c])
    /\ \A n \in Used : request[n].digest \in Contents
    /\ \A c \in Clients : cpc[c] \in Calling /\ edits = 0 => source[c] = request[conn[c]].digest

\* A connection belongs to one call.
ClientsApart ==
    \A c, d \in Clients : cpc[c] \in Calling /\ cpc[d] \in Calling /\ conn[c] = conn[d] => c = d

\* Nothing is said on a connection before its status is.
Silent ==
    \A n \in Conns : n \notin closed /\ ~(n = hconn /\ Opened) => up[n] = <<>> /\ down[n] = <<>>

Streams(n) == \E c \in Clients : cpc[c] = "streaming" /\ conn[c] = n

\* The k-th message on the way is the k-th frame from the next one expected,
\* or the sender has said its last word.
InQueue(k) ==
    \/ FrameOf(hconn, H, start, nxt + (k - 1), up[hconn][k])
    \/ up[hconn][k].kind = "final" /\ ~Streams(hconn)
QueueTrue == Taking => \A k \in 1 .. Len(up[hconn]) : InQueue(k)

\* The status names the frame the handler started at.
StatusTrue ==
    Opened => /\ start <= Count(H)
              /\ \A k \in 1 .. Len(down[hconn]) : down[hconn][k].kind = "status" =>
                     down[hconn][k].next = start /\ down[hconn][k].bytes = FrameStart(H, start)

\* A sender with a status talks to a handler that has sent it; one without
\* holds the handler up; one that streams sends the frame that follows those
\* on their way.
Talks(c) ==
    /\ cpc[c] \in {"streaming", "finishing"} /\ conn[c] \notin closed =>
           conn[c] = hconn /\ Opened
    /\ cpc[c] = "waiting" /\ conn[c] = hconn /\ Opened =>
           hpc = "receiving" /\ nxt = start /\ up[hconn] = <<>>
    /\ cpc[c] = "streaming" /\ conn[c] = hconn /\ Opened =>
           /\ Taking /\ first[c] = start
           /\ nxt + Len(up[hconn]) <= Count(H)
           /\ sent[c] = FrameStart(H, nxt + Len(up[hconn]))

Channel == Silent /\ QueueTrue /\ StatusTrue /\ \A c \in Clients : Talks(c)

FramesInv == VerifiedInv /\ FrameTypes /\ SourcesTrue /\ ClientsApart /\ Channel

LEMMA InitFrames == Init => FramesInv
<1> SUFFICES ASSUME Init
             PROVE  FramesInv
  OBVIOUS
<1>1. FrameTypes
  BY DEF Init, FrameTypes
<1>2. SourcesTrue /\ ClientsApart
  BY DEF Init, SourcesTrue, ClientsApart, Used, Calling
<1>3. Channel
  BY DEF Init, Channel, Silent, QueueTrue, StatusTrue, Talks, Opened, Taking
<1> QED
  BY <1>1, <1>2, <1>3, InitVerified DEF FramesInv

\* The frame at the head of the queue is the next one.
LEMMA HeadFrame ==
    ASSUME FramesInv, FrameIn
    PROVE  FrameOf(hconn, H, start, nxt, Head(up[hconn]))
<1>1. hpc = "receiving" /\ up[hconn] # <<>> /\ Head(up[hconn]).kind = "frame" /\ Taking
  BY DEF FrameIn, Incoming, Taking
<1>2. hconn \in Conns /\ nxt \in Nat
  BY <1>1, ServedHeader DEF FramesInv, VerifiedInv, Shape, KrpTypes, HandlerTypes
<1>3. 1 \in 1 .. Len(up[hconn]) /\ Head(up[hconn]) = up[hconn][1]
  <2> DEFINE q == up[hconn]
  <2>1. q \in Seq(UpMsgs) /\ q # <<>>
    BY <1>1, <1>2 DEF FramesInv, FrameTypes
  <2> HIDE DEF q
  <2>2. 1 \in 1 .. Len(q) /\ Head(q) = q[1]
    BY <2>1
  <2> QED
    BY <2>2 DEF q
<1>4. InQueue(1)
  BY <1>1, <1>3 DEF FramesInv, Channel, QueueTrue
<1>5. nxt + (1 - 1) = nxt
  BY <1>2
<1> QED
  BY <1>1, <1>3, <1>4, <1>5 DEF InQueue

\* It is the one the handler expects.
LEMMA FramesAccepted == FramesInv => HonestFramesAccepted
<1> SUFFICES ASSUME FramesInv, FrameIn
             PROVE  Acceptable(Head(up[hconn]))
  BY DEF HonestFramesAccepted
<1> DEFINE m == Head(up[hconn])
<1>1. hpc = "receiving" /\ Decided
  BY DEF FrameIn, Decided
<1>2. /\ hconn \in Conns /\ hconn \in Used /\ H \in Headers
      /\ nxt \in Nat /\ cur = ExpectedBytes(nxt, Size(H), FrameSize)
  BY <1>1, ServedHeader DEF FramesInv, VerifiedInv, Shape, KrpTypes, HandlerTypes, Connected
<1>3. H.digest \in Contents
  BY <1>2 DEF FramesInv, SourcesTrue, H
<1>4. FrameOf(hconn, H, start, nxt, m)
  BY HeadFrame
<1>5. nxt < Count(H)
  BY <1>4 DEF FrameOf
<1> HIDE DEF m
<1>6. m.number = nxt /\ m.len = FrameBytes(H, nxt) /\ Opens(hconn, H, start, nxt, m)
  BY <1>2, <1>3, <1>4, SealedOpens
<1> QED
  BY <1>2, <1>5, <1>6 DEF Acceptable, FrameBytes, FrameStart, m

\* A step that ends the service, or changes nothing of it before the status.
LEMMA ChannelShut ==
    ASSUME FramesInv, UNCHANGED <<clientVars, request, up>>, ~Opened', closed \subseteq closed',
           \A n \in Conns : n \notin closed' => down'[n] = down[n],
           Opened => hconn \in closed'
    PROVE  Channel'
<1>1. UNCHANGED <<cpc, conn>>
  BY DEF clientVars
<1>2. Silent'
  <2>1. \A n \in Conns : n \notin closed' => n \notin closed /\ ~(n = hconn /\ Opened)
    OBVIOUS
  <2> QED
    BY <2>1 DEF FramesInv, Channel, Silent
<1>3. QueueTrue' /\ StatusTrue'
  BY DEF QueueTrue, StatusTrue, Opened, Taking
<1>4. ASSUME NEW c \in Clients PROVE Talks(c)'
  <2>1. ~(cpc'[c] \in {"streaming", "finishing"} /\ conn'[c] \notin closed')
    BY <1>1 DEF FramesInv, Channel, Talks
  <2> QED
    BY <2>1 DEF Talks
<1> QED
  BY <1>2, <1>3, <1>4 DEF Channel

\* A step elsewhere: a sender changes course only when it leaves or enters a
\* connection, or on one that is shut.
ElsewhereOf(d) ==
    \/ cpc'[d] = cpc[d] /\ conn'[d] = conn[d] /\ sent'[d] = sent[d] /\ first'[d] = first[d]
    \/ cpc'[d] \notin Calling
    \/ cpc'[d] = "waiting" /\ ~(conn'[d] = hconn /\ Opened)
    \/ conn'[d] \in closed

LEMMA ChannelElsewhere ==
    ASSUME FramesInv, UNCHANGED <<closed, hconn, hpc, start, nxt>>,
           edits' = edits \/ edits' # 0, hpc # "idle" => request'[hconn] = request[hconn],
           \A m \in Conns : m \notin closed => up'[m] = up[m] /\ down'[m] = down[m],
           \A d \in Clients : ElsewhereOf(d)
    PROVE  Channel'
<1>1. Opened' = Opened /\ Taking' = Taking /\ (Taking => Opened) /\ (Opened => hpc # "idle")
  BY DEF Opened, Taking
<1>2. Opened => /\ hconn \in Conns /\ hconn \notin closed
                /\ H' = H /\ Count(H)' = Count(H)
                /\ \A i : FrameStart(H, i)' = FrameStart(H, i)
                /\ up'[hconn] = up[hconn] /\ down'[hconn] = down[hconn]
  <2>1. SUFFICES ASSUME Opened
                 PROVE  /\ hconn \in Conns /\ hconn \notin closed
                        /\ H' = H /\ Count(H)' = Count(H)
                        /\ \A i : FrameStart(H, i)' = FrameStart(H, i)
                        /\ up'[hconn] = up[hconn] /\ down'[hconn] = down[hconn]
    OBVIOUS
  <2>2. hconn \in Conns /\ hconn \notin closed /\ H' = H
    BY <1>1, <2>1, ServedHeader DEF FramesInv, VerifiedInv, H
  <2> QED
    BY <2>2 DEF Count, Size, FrameStart
<1>3. Silent'
  BY <1>1 DEF FramesInv, Channel, Silent
<1>4. Opened => (Streams(hconn)' => Streams(hconn))
  <2>1. SUFFICES ASSUME Opened, NEW d \in Clients, cpc'[d] = "streaming", conn'[d] = hconn
                 PROVE  cpc[d] = "streaming" /\ conn[d] = hconn
    BY DEF Streams
  <2> QED
    BY <1>2, <2>1 DEF ElsewhereOf, Calling
<1>5. QueueTrue'
  <2>1. ASSUME NEW k, Taking, InQueue(k) PROVE InQueue(k)'
    <3>1. Opened
      BY <1>1, <2>1
    <3>2. ASSUME FrameOf(hconn, H, start, nxt + (k - 1), up[hconn][k])
          PROVE  FrameOf(hconn, H, start, nxt + (k - 1), up[hconn][k])'
      BY <1>2, <3>1, <3>2 DEF FrameOf
    <3> QED
      BY <1>2, <1>4, <2>1, <3>1, <3>2 DEF InQueue
  <2> QED
    BY <1>1, <1>2, <2>1 DEF FramesInv, Channel, QueueTrue
<1>6. StatusTrue'
  BY <1>1, <1>2 DEF FramesInv, Channel, StatusTrue
<1>7. ASSUME NEW d \in Clients PROVE Talks(d)'
  <2>1. Talks(d) /\ ElsewhereOf(d)
    BY DEF FramesInv, Channel
  <2>2. CASE cpc'[d] = cpc[d] /\ conn'[d] = conn[d] /\ sent'[d] = sent[d] /\ first'[d] = first[d]
    BY <1>1, <1>2, <2>1, <2>2 DEF Talks
  <2>3. CASE cpc'[d] \notin Calling
    BY <2>3 DEF Talks, Calling
  <2>4. CASE cpc'[d] = "waiting" /\ ~(conn'[d] = hconn /\ Opened)
    BY <1>1, <2>4 DEF Talks
  <2>5. CASE conn'[d] \in closed
    BY <1>1, <1>2, <2>5 DEF Talks
  <2> QED
    BY <2>1, <2>2, <2>3, <2>4, <2>5 DEF ElsewhereOf
<1> QED
  BY <1>3, <1>5, <1>6, <1>7 DEF Channel
-----------------------------------------------------------------------------
(* The steps of the senders. *)

LEMMA SealType ==
    ASSUME NEW n \in Conns, NEW h \in Headers, NEW from \in Nat, NEW i \in Nat, NEW d \in Seq(Nat)
    PROVE  Seal(n, h, from, i, d) \in UpMsgs
<1> DEFINE a == <<n, h, from, i, d>>
<1>1. a \in Conns \X Headers \X Nat \X Nat \X Seq(Nat)
  OBVIOUS
<1>2. Seal(n, h, from, i, d) = Seal(a[1], a[2], a[3], a[4], a[5])
  OBVIOUS
<1> HIDE DEF a
<1> QED
  BY <1>1, <1>2, Zenon DEF UpMsgs

\* The other senders are left alone.
LEMMA OtherSenders ==
    ASSUME Shape, FrameTypes, NEW c \in Clients, ClientMoves(c), NEW d \in Clients, d # c
    PROVE  cpc'[d] = cpc[d] /\ conn'[d] = conn[d] /\ sent'[d] = sent[d] /\ first'[d] = first[d]
<1>1. /\ cpc \in [Clients -> {"idle", "hashed", "done"} \cup Calling]
      /\ conn \in [Clients -> Conns \cup {None}]
      /\ sent \in [Clients -> Nat] /\ first \in [Clients -> Nat]
  BY DEF Shape, KrpTypes, ClientTypes, FrameTypes
<1>2. CASE Hash(c) \/ Connect(c) \/ ReceiveStatus(c)
  BY <1>1, <1>2 DEF Hash, Connect, ReceiveStatus
<1>3. CASE SendFrame(c) \/ SendFinal(c) \/ ReceiveAck(c)
  BY <1>1, <1>3 DEF SendFrame, SendFinal, ReceiveAck
<1>4. CASE RefuseChangedSource(c) \/ AbandonFrame(c) \/ ReceiveEnd(c) \/ ClientAbort(c)
  BY <1>1, <1>4 DEF RefuseChangedSource, AbandonFrame, ReceiveEnd, ClientAbort, Give
<1>5. CASE EditSource(c)
  BY <1>5 DEF EditSource
<1> QED
  BY <1>2, <1>3, <1>4, <1>5 DEF ClientMoves, ClientStep

\* What a sender is about to send.
LEMMA DueFrame ==
    ASSUME Shape, FrameTypes, NEW c \in Clients, cpc[c] \in Calling
    PROVE  /\ conn[c] \in Used /\ conn[c] \in Conns /\ request[conn[c]] \in Headers
           /\ Number(c) \in Nat /\ Read(c) \in Seq(Nat) /\ Due(c) \in Int
<1>1. conn[c] \in Used /\ conn[c] \in Conns /\ request[conn[c]] \in Headers
  BY UsedHeader DEF Shape, Connected
<1>2. sent[c] \in Nat /\ source[c] \in Seq(Nat) /\ Size(request[conn[c]]) \in Nat
  BY <1>1, HeaderParts DEF Shape, KrpTypes, ClientTypes, FrameTypes
<1>3. Due(c) \in Int
  BY <1>2, KrpConstants DEF Due, FrameLen, Least
<1>4. Number(c) \in Nat
  BY <1>2, QuotientType, KrpConstants DEF Number
<1>5. Read(c) \in Seq(Nat)
  BY <1>2, <1>3, ReadAtType DEF Read
<1> QED
  BY <1>1, <1>3, <1>4, <1>5

LEMMA ClientFrameTypes ==
    ASSUME Shape, FrameTypes, NEW c \in Clients, ClientMoves(c)
    PROVE  FrameTypes'
<1>1. /\ down \in [Conns -> Seq(DownMsgs)] /\ request \in [Conns -> Headers \cup {None}]
      /\ start' = start
  BY ClientReach DEF Shape, KrpTypes, NetTypes, handlerVars
<1>2. CASE ReceiveStatus(c)
  <2>1. conn[c] \in Conns
    BY <1>2, DueFrame DEF ReceiveStatus, Calling
  <2>2. Head(down[conn[c]]) \in DownMsgs
    BY <1>1, <1>2, <2>1 DEF ReceiveStatus
  <2>3. Head(down[conn[c]]).next \in Nat /\ Head(down[conn[c]]).bytes \in Nat
    BY <1>2, <2>2 DEF ReceiveStatus, DownMsgs
  <2> QED
    BY <1>1, <1>2, <2>3 DEF ReceiveStatus, FrameTypes, modelVars
<1>3. CASE SendFrame(c)
  <2>1. /\ conn[c] \in Conns /\ request[conn[c]] \in Headers /\ Number(c) \in Nat
        /\ Read(c) \in Seq(Nat) /\ Due(c) \in Int
    BY <1>3, DueFrame DEF SendFrame, Calling
  <2>2. Due(c) \in Nat
    <3>1. Len(Read(c)) = Due(c)
      BY <1>3 DEF SendFrame, Sealable
    <3> QED
      BY <2>1, <3>1
  <2>3. Seal(conn[c], request[conn[c]], first[c], Number(c), Read(c)) \in UpMsgs
    <3>1. first[c] \in Nat
      BY DEF FrameTypes
    <3> QED
      BY <2>1, <3>1, SealType
  <2>4. up' \in [Conns -> Seq(UpMsgs)]
    <3> DEFINE m == Seal(conn[c], request[conn[c]], first[c], Number(c), Read(c))
    <3>1. up' = [up EXCEPT ![conn[c]] = Append(@, m)]
      BY <1>3 DEF SendFrame
    <3> HIDE DEF m
    <3>2. m \in UpMsgs
      BY <2>3 DEF m
    <3> QED
      BY <2>1, <3>1, <3>2 DEF FrameTypes
  <2>5. sent' \in [Clients -> Nat]
    BY <1>3, <2>2 DEF SendFrame, FrameTypes
  <2> QED
    BY <1>1, <1>3, <2>4, <2>5 DEF SendFrame, FrameTypes, modelVars
<1>4. CASE SendFinal(c)
  <2>1. conn[c] \in Conns /\ Final(request[conn[c]].digest) \in UpMsgs
    <3>1. conn[c] \in Conns /\ request[conn[c]] \in Headers
      BY <1>4, DueFrame DEF SendFinal, Calling
    <3>2. request[conn[c]].digest \in Seq(Nat)
      BY <3>1, HeaderParts
    <3> QED
      BY <3>1, <3>2, Zenon DEF UpMsgs
  <2> QED
    BY <1>1, <1>4, <2>1 DEF SendFinal, FrameTypes, modelVars
<1>5. CASE UNCHANGED <<sent, first, up>> /\ edits' \in Nat
  BY <1>1, <1>5 DEF FrameTypes
<1>6. CASE Hash(c) \/ Connect(c) \/ RefuseChangedSource(c) \/ AbandonFrame(c)
  BY <1>5, <1>6 DEF Hash, Connect, RefuseChangedSource, AbandonFrame, netVars, modelVars, FrameTypes
<1>7. CASE ReceiveAck(c) \/ ReceiveEnd(c) \/ ClientAbort(c)
  BY <1>5, <1>7 DEF ReceiveAck, ReceiveEnd, ClientAbort, Fault, netVars, modelVars, FrameTypes
<1>8. CASE EditSource(c)
  BY <1>5, <1>8 DEF EditSource, netVars, FrameTypes
<1> QED
  BY <1>2, <1>3, <1>4, <1>6, <1>7, <1>8 DEF ClientMoves, ClientStep

\* A call enters a connection only when it announces the content it hashed.
LEMMA EntersOnce ==
    ASSUME Shape, NEW c \in Clients, ClientMoves(c)
    PROVE  \/ cpc'[c] \notin Calling
           \/ cpc[c] \in Calling /\ conn'[c] = conn[c]
           \/ /\ Connect(c) /\ cpc[c] = "hashed" /\ cpc'[c] = "waiting"
              /\ conn'[c] \in Conns \ Used /\ request'[conn'[c]].digest = digest[c]
              /\ Used' = Used \cup {conn'[c]}
<1>1. /\ cpc \in [Clients -> {"idle", "hashed", "done"} \cup Calling]
      /\ conn \in [Clients -> Conns \cup {None}]
      /\ request \in [Conns -> Headers \cup {None}]
  BY DEF Shape, KrpTypes, ClientTypes, NetTypes
<1>2. CASE Hash(c)
  BY <1>1, <1>2 DEF Hash, Calling
<1>3. CASE RefuseChangedSource(c) \/ AbandonFrame(c) \/ ReceiveEnd(c) \/ ClientAbort(c)
  BY <1>1, <1>3 DEF RefuseChangedSource, AbandonFrame, ReceiveEnd, ClientAbort, Give, Calling
<1>4. CASE ReceiveStatus(c) \/ SendFrame(c) \/ SendFinal(c) \/ ReceiveAck(c) \/ EditSource(c)
  BY <1>1, <1>4 DEF ReceiveStatus, SendFrame, SendFinal, ReceiveAck, EditSource, Calling
<1>5. CASE Connect(c)
  <2>1. PICK n \in Conns \ Used :
            /\ request' = [request EXCEPT ![n] = RequestOn(c, n)]
            /\ conn' = [conn EXCEPT ![c] = n]
            /\ cpc[c] = "hashed" /\ cpc' = [cpc EXCEPT ![c] = "waiting"]
    BY <1>5 DEF Connect
  <2>2. conn'[c] = n /\ request'[n] = RequestOn(c, n) /\ cpc'[c] = "waiting"
    BY <1>1, <2>1
  <2>3. RequestOn(c, n).digest = digest[c]
    BY DEF RequestOn
  <2>4. n \in Used'
    <3>1. conn'[c] \in Used'
      BY <1>5, <2>2, ClientOwn DEF Calling
    <3> QED
      BY <2>2, <3>1
  <2>5. Used' = Used \cup {n}
    BY <1>1, <2>1, <2>4 DEF Used
  <2> QED
    BY <1>5, <2>1, <2>2, <2>3, <2>5
<1> QED
  BY <1>2, <1>3, <1>4, <1>5 DEF ClientMoves, ClientStep

LEMMA ClientApartStays ==
    ASSUME Shape, FrameTypes, ClientsApart, NEW c \in Clients, ClientMoves(c)
    PROVE  ClientsApart'
<1>1. \A d \in Clients : d # c => cpc'[d] = cpc[d] /\ conn'[d] = conn[d]
  BY OtherSenders
<1>2. \A d \in Clients : cpc[d] \in Calling => conn[d] \in Used
  BY DEF Shape, Connected
<1>3. \A d \in Clients : d # c /\ cpc'[d] \in Calling /\ cpc'[c] \in Calling => conn'[d] # conn'[c]
  BY <1>1, <1>2, EntersOnce DEF ClientsApart
<1>4. \A d, e \in Clients : d # c /\ e # c /\ cpc'[d] \in Calling /\ cpc'[e] \in Calling
                             /\ conn'[d] = conn'[e] => d = e
  BY <1>1 DEF ClientsApart
<1> QED
  BY <1>3, <1>4 DEF ClientsApart

LEMMA ClientSources ==
    ASSUME Shape, FrameTypes, SourcesTrue, NEW c \in Clients, ClientMoves(c)
    PROVE  SourcesTrue'
<1>1. \A d \in Clients : d # c => cpc'[d] = cpc[d] /\ conn'[d] = conn[d]
  BY OtherSenders
<1>2. /\ \A n \in Used : n \in Used' /\ request'[n] = request[n]
      /\ \A d \in Clients : cpc[d] \in Calling => conn[d] \in Used
  BY ClientReach DEF Shape, Connected
<1>3. digest \in [Clients -> Seq(Nat)] /\ edits \in Nat
  BY DEF Shape, KrpTypes, ClientTypes, FrameTypes
<1>4. CASE EditSource(c)
  <2>1. PICK x \in Contents : source' = [source EXCEPT ![c] = x]
    BY <1>4 DEF EditSource
  <2>2. edits' # 0 /\ UNCHANGED <<cpc, digest, request>>
    BY <1>3, <1>4 DEF EditSource, netVars
  <2>3. source' \in [Clients -> Contents]
    BY <2>1 DEF SourcesTrue
  <2> QED
    BY <2>2, <2>3 DEF SourcesTrue, Used
<1>5. CASE Hash(c)
  <2>1. /\ digest' = [digest EXCEPT ![c] = source[c]]
        /\ UNCHANGED <<source, conn, request, edits>>
    BY <1>5 DEF Hash, netVars, modelVars
  <2>2. source[c] \in Contents
    BY DEF SourcesTrue
  <2>3. digest'[c] = source[c] /\ \A d \in Clients : d # c => digest'[d] = digest[d]
    BY <1>3, <2>1
  <2>4. cpc'[c] \notin Calling
    BY <1>5 DEF Hash, Calling, Shape, KrpTypes, ClientTypes
  <2> QED
    BY <1>1, <2>1, <2>2, <2>3, <2>4 DEF SourcesTrue, Used
<1>6. CASE ~EditSource(c) /\ ~Hash(c)
  <2>1. UNCHANGED <<source, digest, edits>> /\ cpc'[c] # "hashed"
    <3>1. CASE Connect(c) \/ ReceiveStatus(c) \/ SendFrame(c) \/ SendFinal(c) \/ ReceiveAck(c)
      BY <3>1 DEF Connect, ReceiveStatus, SendFrame, SendFinal, ReceiveAck, modelVars,
         Shape, KrpTypes, ClientTypes
    <3>2. CASE RefuseChangedSource(c) \/ AbandonFrame(c) \/ ReceiveEnd(c) \/ ClientAbort(c)
      BY <3>2 DEF RefuseChangedSource, AbandonFrame, ReceiveEnd, ClientAbort, Give, Fault, modelVars,
         Shape, KrpTypes, ClientTypes
    <3> QED
      BY <1>6, <3>1, <3>2 DEF ClientMoves, ClientStep
  <2>2. CASE Connect(c) /\ cpc[c] = "hashed" /\ cpc'[c] = "waiting"
             /\ request'[conn'[c]].digest = digest[c] /\ Used' = Used \cup {conn'[c]}
             /\ conn'[c] \in Conns \ Used
    <3>1. digest[c] \in Contents /\ (edits = 0 => digest[c] = source[c])
      BY <2>2 DEF SourcesTrue
    <3>2. \A n \in Used' : request'[n].digest \in Contents
      BY <1>2, <2>2, <3>1 DEF SourcesTrue
    <3> QED
      BY <1>1, <1>2, <2>1, <2>2, <3>1, <3>2 DEF SourcesTrue
  <2>3. CASE ~Connect(c) /\ (cpc'[c] \in Calling => cpc[c] \in Calling /\ conn'[c] = conn[c])
    <3>1. UNCHANGED request
      BY <1>6, <2>3 DEF ClientMoves, ClientStep, RefuseChangedSource, ReceiveStatus, SendFrame,
         AbandonFrame, SendFinal, ReceiveAck, ReceiveEnd, ClientAbort, netVars
    <3> QED
      BY <1>1, <2>1, <2>3, <3>1 DEF SourcesTrue, Used
  <2>4. CASE Connect(c) /\ cpc'[c] \notin Calling
    <3>1. cpc'[c] = "waiting"
      BY <2>4 DEF Connect, Shape, KrpTypes, ClientTypes
    <3> QED
      BY <2>4, <3>1 DEF Calling
  <2>5. CASE Connect(c) /\ cpc[c] \in Calling
    BY <2>5 DEF Connect, Calling
  <2> QED
    BY <2>2, <2>3, <2>4, <2>5, EntersOnce
<1> QED
  BY <1>4, <1>5, <1>6

\* A sender whose connection is open, and that may speak or has been spoken
\* to, is the only one the handler listens to.
LEMMA OpenConnection ==
    ASSUME FramesInv, NEW c \in Clients, cpc[c] \in Calling, conn[c] \notin closed,
           cpc[c] # "waiting" \/ down[conn[c]] # <<>>
    PROVE  /\ conn[c] = hconn /\ Opened /\ hconn \in Conns /\ H \in Headers
           /\ request[conn[c]] = H /\ nxt \in Nat /\ Count(H) \in Nat
           /\ \A d \in Clients : d # c /\ cpc[d] \in Calling => conn[d] # hconn
<1>1. conn[c] \in Conns
  BY DueFrame DEF FramesInv, VerifiedInv
<1>2. conn[c] = hconn /\ Opened
  BY <1>1 DEF FramesInv, Channel, Silent, Talks, Calling
<1>3. hconn \in Conns /\ H \in Headers /\ Count(H) \in Nat /\ nxt \in Nat
  BY <1>2, ServedHeader DEF Opened, FramesInv, VerifiedInv, Shape, KrpTypes, HandlerTypes
<1> QED
  BY <1>2, <1>3 DEF H, FramesInv, ClientsApart

\* Taking a message from a queue leaves the later ones.
LEMMA TailOf ==
    ASSUME NEW S, NEW q \in Seq(S), q # <<>>
    PROVE  /\ Len(q) \in Nat /\ Len(Tail(q)) = Len(q) - 1 /\ Head(q) = q[1] /\ 1 \in 1 .. Len(q)
           /\ \A k \in 1 .. Len(Tail(q)) : Tail(q)[k] = q[k + 1] /\ k + 1 \in 1 .. Len(q)
OBVIOUS

LEMMA StatusTaken ==
    ASSUME FramesInv, Opened, down[hconn] # <<>>, down'[hconn] = Tail(down[hconn]),
           UNCHANGED <<hpc, hconn, start>>, request'[hconn] = request[hconn]
    PROVE  StatusTrue'
<1>1. H' = H /\ Opened' = Opened
  BY DEF H, Opened
<1>2. Count(H)' = Count(H) /\ FrameStart(H, start)' = FrameStart(H, start)
  BY <1>1 DEF Count, Size, FrameStart
<1>3. down[hconn] \in Seq(DownMsgs)
  BY ServedHeader DEF Opened, FramesInv, VerifiedInv, Shape, KrpTypes, NetTypes
<1>4. \A k \in 1 .. Len(Tail(down[hconn])) :
          Tail(down[hconn])[k] = down[hconn][k + 1] /\ k + 1 \in 1 .. Len(down[hconn])
  BY <1>3, TailOf
<1>5. StatusTrue
  BY DEF FramesInv, Channel
<1>6. ASSUME NEW k \in 1 .. Len(down'[hconn']), down'[hconn'][k].kind = "status"
      PROVE  down'[hconn'][k].next = start' /\ down'[hconn'][k].bytes = FrameStart(H, start)'
  <2>1. PICK j \in 1 .. Len(down[hconn]) : down'[hconn'][k] = down[hconn][j]
    BY <1>4
  <2>2. down[hconn][j].next = start /\ down[hconn][j].bytes = FrameStart(H, start)
    BY <1>5, <1>6, <2>1 DEF StatusTrue
  <2> QED
    BY <1>2, <2>1, <2>2
<1> QED
  BY <1>1, <1>2, <1>5, <1>6 DEF StatusTrue

LEMMA StatusKept ==
    ASSUME FramesInv, Opened, UNCHANGED <<down, hconn, start>>, Opened',
           request'[hconn] = request[hconn]
    PROVE  StatusTrue'
<1>1. H' = H
  BY DEF H
<1>2. Count(H)' = Count(H) /\ FrameStart(H, start)' = FrameStart(H, start)
  BY <1>1 DEF Count, Size, FrameStart
<1>3. StatusTrue /\ down'[hconn'] = down[hconn]
  BY DEF FramesInv, Channel
<1> QED
  BY <1>2, <1>3 DEF StatusTrue

\* The status makes the sender stream from where the handler waits.
LEMMA StatusStarts ==
    ASSUME FramesInv, NEW c \in Clients, ReceiveStatus(c), conn[c] \notin closed
    PROVE  Channel'
<1>1. /\ cpc[c] = "waiting" /\ down[conn[c]] # <<>> /\ Head(down[conn[c]]).kind = "status"
      /\ UNCHANGED <<conn, request, up, closed, hconn, hpc, start, nxt, edits>>
  BY DEF ReceiveStatus, handlerVars, modelVars
<1>2. /\ conn[c] = hconn /\ Opened /\ hconn \in Conns /\ H \in Headers /\ nxt \in Nat
      /\ Count(H) \in Nat /\ \A d \in Clients : d # c /\ cpc[d] \in Calling => conn[d] # hconn
  BY <1>1, OpenConnection DEF Calling
<1>3. /\ hpc = "receiving" /\ nxt = start /\ up[hconn] = <<>>
  BY <1>1, <1>2 DEF FramesInv, Channel, Talks
<1>4. /\ cpc'[c] = "streaming" /\ first'[c] = Head(down[hconn]).next
      /\ sent'[c] = Head(down[hconn]).bytes /\ down'[hconn] = Tail(down[hconn])
      /\ \A n \in Conns : n # hconn => down'[n] = down[n]
      /\ \A d \in Clients : d # c => /\ cpc'[d] = cpc[d] /\ sent'[d] = sent[d]
                                     /\ first'[d] = first[d]
  BY <1>2 DEF ReceiveStatus, FramesInv, FrameTypes, VerifiedInv, Shape, KrpTypes, ClientTypes, NetTypes
<1>5. Head(down[hconn]).next = start /\ Head(down[hconn]).bytes = FrameStart(H, start)
      /\ start <= Count(H)
  <2>1. down[hconn] \in Seq(DownMsgs)
    BY <1>2 DEF FramesInv, VerifiedInv, Shape, KrpTypes, NetTypes
  <2>2. Head(down[hconn]) = down[hconn][1] /\ 1 \in 1 .. Len(down[hconn])
    BY <1>1, <1>2, <2>1, TailOf
  <2> QED
    BY <1>1, <1>2, <2>2 DEF FramesInv, Channel, StatusTrue
<1>6. H' = H /\ Opened' /\ Taking'
  BY <1>1, <1>2, <1>3 DEF H, Opened, Taking
<1>7. Count(H)' = Count(H) /\ \A i : FrameStart(H, i)' = FrameStart(H, i)
  BY <1>6 DEF Count, Size, FrameStart
<1>8. Silent'
  BY <1>1, <1>2, <1>4, <1>6 DEF FramesInv, Channel, Silent
<1>9. QueueTrue'
  <2>1. 1 .. Len(up'[hconn']) = {}
    BY <1>1, <1>3
  <2> QED
    BY <2>1 DEF QueueTrue
<1>10. StatusTrue'
  BY <1>1, <1>2, <1>4, StatusTaken
<1>11. Talks(c)'
  <2>1. nxt + Len(up[hconn]) = nxt
    BY <1>2, <1>3
  <2> QED
    BY <1>1, <1>2, <1>3, <1>4, <1>5, <1>6, <1>7, <2>1 DEF Talks
<1>12. \A d \in Clients : d # c => Talks(d)'
  BY <1>1, <1>2, <1>4, <1>6 DEF FramesInv, Channel, Talks, Calling
<1> QED
  BY <1>8, <1>9, <1>10, <1>11, <1>12 DEF Channel

\* A message at the end of the queue: the ones before it stay what they are.
LEMMA QueueGrows ==
    ASSUME FramesInv, Opened, UNCHANGED <<request, hconn, hpc, start, nxt, edits>>,
           NEW m \in UpMsgs, up'[hconn] = Append(up[hconn], m),
           Streams(hconn)' => Streams(hconn),
           Taking => \A k \in {Len(up[hconn]) + 1} : InQueue(k)'
    PROVE  QueueTrue' /\ Len(up'[hconn]) = Len(up[hconn]) + 1 /\ Len(up[hconn]) \in Nat
<1>1. H' = H /\ Taking' = Taking /\ Count(H)' = Count(H)
  BY DEF H, Taking, Count, Size
<1>2. up[hconn] \in Seq(UpMsgs)
  BY ServedHeader DEF Opened, FramesInv, VerifiedInv, FrameTypes
<1>3. /\ Len(up'[hconn]) = Len(up[hconn]) + 1 /\ Len(up[hconn]) \in Nat
      /\ \A k \in 1 .. Len(up[hconn]) : up'[hconn][k] = up[hconn][k]
  BY <1>2
<1>4. ASSUME Taking, NEW k \in 1 .. Len(up[hconn]) PROVE InQueue(k)'
  <2>1. InQueue(k)
    BY <1>4 DEF FramesInv, Channel, QueueTrue
  <2>2. CASE FrameOf(hconn, H, start, nxt + (k - 1), up[hconn][k])
    <3>1. up'[hconn][k] = up[hconn][k]
      BY <1>3
    <3>2. FrameOf(hconn, H, start, nxt + (k - 1), up[hconn][k])'
      BY <1>1, <2>2, <3>1 DEF FrameOf
    <3> QED
      BY <3>2 DEF InQueue
  <2>3. CASE up[hconn][k].kind = "final" /\ ~Streams(hconn)
    BY <1>3, <2>3 DEF InQueue
  <2> QED
    BY <2>1, <2>2, <2>3 DEF InQueue
<1>5. \A k \in 1 .. Len(up'[hconn]) : k \in 1 .. Len(up[hconn]) \/ k = Len(up[hconn]) + 1
  BY <1>3
<1>6. Taking => \A k \in 1 .. Len(up'[hconn]) : InQueue(k)'
  BY <1>4, <1>5
<1>7. QueueTrue'
  BY <1>1, <1>6 DEF QueueTrue
<1> QED
  BY <1>3, <1>7

\* The frame a sender seals is the one that follows those on their way.
LEMMA FrameFollows ==
    ASSUME FramesInv, NEW c \in Clients, SendFrame(c), conn[c] \notin closed
    PROVE  Channel'
<1>1. /\ cpc[c] = "streaming" /\ sent[c] < Size(request[conn[c]]) /\ Sealable(c)
      /\ UNCHANGED <<cpc, conn, first, request, down, closed, hconn, hpc, start, nxt, edits>>
  BY DEF SendFrame, handlerVars, modelVars
<1>2. /\ conn[c] = hconn /\ Opened /\ hconn \in Conns /\ H \in Headers /\ nxt \in Nat
      /\ Count(H) \in Nat /\ request[conn[c]] = H
      /\ \A d \in Clients : d # c /\ cpc[d] \in Calling => conn[d] # hconn
  BY <1>1, OpenConnection DEF Calling
<1> DEFINE L == Len(up[hconn])
           i == nxt + L
           m == Seal(hconn, H, start, i, Read(c))
<1>3. up[hconn] \in Seq(UpMsgs) /\ L \in Nat /\ i \in Nat
  BY <1>2 DEF FramesInv, FrameTypes
<1>4. Taking /\ first[c] = start /\ i <= Count(H) /\ sent[c] = FrameStart(H, i)
  BY <1>1, <1>2 DEF FramesInv, Channel, Talks
<1>5. i < Count(H)
  BY <1>1, <1>2, <1>3, <1>4, FramesLeft
<1>6. /\ FrameStart(H, i) \in Nat /\ FrameBytes(H, i) \in 1 .. FrameSize
      /\ FrameStart(H, i + 1) = FrameStart(H, i) + FrameBytes(H, i)
      /\ FrameStart(H, i) \div FrameSize = i
  BY <1>2, <1>3, <1>5, FramePlaces
<1>7. Number(c) = i /\ Due(c) = FrameBytes(H, i) /\ Read(c) \in Seq(Nat)
  BY <1>1, <1>2, <1>4, <1>6, DueFrame DEF Number, Due, FrameBytes, FramesInv, VerifiedInv, Calling
<1>8. /\ up' = [up EXCEPT ![hconn] = Append(@, m)]
      /\ sent' = [sent EXCEPT ![c] = @ + Due(c)]
  BY <1>2, <1>4, <1>7 DEF SendFrame
<1>9. m \in UpMsgs /\ m.data = Read(c)
  <2>1. m \in UpMsgs
    BY <1>2, <1>3, <1>7, SealType DEF FramesInv, FrameTypes
  <2> QED
    BY <2>1 DEF Seal
<1>10. FrameOf(hconn, H, start, i, m)
  <2>1. Len(Read(c)) = FrameBytes(H, i) /\ LaidOut(hconn, H, i)
    BY <1>1, <1>2, <1>7 DEF Sealable, LaidOut
  <2>2. edits = 0 => Read(c) = ReadAt(H.digest, FrameStart(H, i), FrameBytes(H, i))
    BY <1>1, <1>2, <1>4, <1>7 DEF FramesInv, SourcesTrue, Calling, Read
  <2> HIDE DEF i
  <2> QED
    BY <1>5, <1>7, <1>9, <2>1, <2>2, Zenon DEF FrameOf
<1> HIDE DEF m
<1>11. up'[hconn] = Append(up[hconn], m) /\ \A n \in Conns : n # hconn => up'[n] = up[n]
  BY <1>2, <1>8 DEF FramesInv, FrameTypes
<1>12. up'[hconn][L + 1] = m
  BY <1>3, <1>11
<1>13. H' = H /\ Opened' /\ Taking' /\ Streams(hconn)' = Streams(hconn)
  BY <1>1, <1>2, <1>4 DEF H, Opened, Taking, Streams
<1>14. Count(H)' = Count(H) /\ \A j : FrameStart(H, j)' = FrameStart(H, j)
  BY <1>13 DEF Count, Size, FrameStart
<1>15. ASSUME NEW k \in {L + 1} PROVE InQueue(k)'
  <2>1. up'[hconn'][k] = m /\ nxt' + (k - 1) = i
    BY <1>1, <1>2, <1>3, <1>12
  <2>2. FrameOf(hconn, H, start, nxt + (k - 1), up[hconn][k])'
    BY <1>1, <1>10, <1>13, <1>14, <2>1 DEF FrameOf, LaidOut, FrameBytes, FrameStart, Size
  <2> QED
    BY <2>2 DEF InQueue
<1>16. QueueTrue' /\ Len(up'[hconn]) = L + 1
  BY <1>1, <1>2, <1>9, <1>11, <1>13, <1>15, QueueGrows
<1>17. Silent'
  BY <1>1, <1>2, <1>11, <1>13 DEF FramesInv, Channel, Silent
<1>18. StatusTrue'
  BY <1>1, <1>2, <1>13, StatusKept
<1>19. Talks(c)'
  <2>1. sent'[c] = FrameStart(H, i + 1)
    BY <1>4, <1>6, <1>7, <1>8 DEF FramesInv, FrameTypes
  <2>2. nxt' + Len(up'[hconn']) = i + 1 /\ i + 1 <= Count(H)
    BY <1>1, <1>2, <1>3, <1>5, <1>16
  <2> HIDE DEF i, L
  <2> QED
    BY <1>1, <1>2, <1>4, <1>13, <1>14, <2>1, <2>2 DEF Talks
<1>20. \A d \in Clients : d # c => Talks(d)'
  BY <1>1, <1>2, <1>13 DEF FramesInv, Channel, Talks, Calling
<1> QED
  BY <1>16, <1>17, <1>18, <1>19, <1>20 DEF Channel

\* The last word of a sender that has sent every frame.
LEMMA FinalFollows ==
    ASSUME FramesInv, NEW c \in Clients, SendFinal(c), conn[c] \notin closed
    PROVE  Channel'
<1>1. /\ cpc[c] = "streaming"
      /\ UNCHANGED <<conn, sent, first, request, down, closed, hconn, hpc, start, nxt, edits>>
  BY DEF SendFinal, handlerVars, modelVars
<1>2. /\ conn[c] = hconn /\ Opened /\ hconn \in Conns /\ H \in Headers /\ nxt \in Nat
      /\ Count(H) \in Nat /\ request[conn[c]] = H
      /\ \A d \in Clients : d # c /\ cpc[d] \in Calling => conn[d] # hconn
  BY <1>1, OpenConnection DEF Calling
<1> DEFINE m == Final(H.digest)
<1>3. m \in UpMsgs /\ m.kind = "final"
  <2>1. m \in UpMsgs
    BY <1>2, HeaderParts, Zenon DEF UpMsgs
  <2> QED
    BY <2>1 DEF Final
<1>4. /\ up' = [up EXCEPT ![hconn] = Append(@, m)]
      /\ cpc' = [cpc EXCEPT ![c] = "finishing"]
  BY <1>2 DEF SendFinal
<1> HIDE DEF m
<1>5. /\ up'[hconn] = Append(up[hconn], m) /\ \A n \in Conns : n # hconn => up'[n] = up[n]
      /\ up[hconn] \in Seq(UpMsgs)
      /\ cpc'[c] = "finishing" /\ \A d \in Clients : d # c => cpc'[d] = cpc[d]
  BY <1>2, <1>4 DEF FramesInv, FrameTypes, VerifiedInv, Shape, KrpTypes, ClientTypes
<1>6. ~Streams(hconn)'
  BY <1>1, <1>2, <1>5 DEF Streams, Calling
<1>7. H' = H /\ Opened' /\ Taking' = Taking
  BY <1>1, <1>2 DEF H, Opened, Taking
<1>8. Count(H)' = Count(H) /\ \A j : FrameStart(H, j)' = FrameStart(H, j)
  BY <1>7 DEF Count, Size, FrameStart
<1>9. ASSUME NEW k \in {Len(up[hconn]) + 1} PROVE InQueue(k)'
  <2>1. up'[hconn'][k] = m
    BY <1>1, <1>5
  <2> QED
    BY <1>3, <1>6, <2>1 DEF InQueue
<1>10. QueueTrue'
  BY <1>1, <1>2, <1>3, <1>5, <1>6, <1>9, QueueGrows
<1>11. Silent'
  BY <1>1, <1>2, <1>5, <1>7 DEF FramesInv, Channel, Silent
<1>12. StatusTrue'
  BY <1>1, <1>2, <1>7, StatusKept
<1>13. Talks(c)'
  BY <1>1, <1>2, <1>5, <1>7 DEF Talks
<1>14. \A d \in Clients : d # c => Talks(d)'
  BY <1>1, <1>2, <1>5, <1>7 DEF FramesInv, Channel, Talks, Calling
<1> QED
  BY <1>10, <1>11, <1>12, <1>13, <1>14 DEF Channel

\* The answer is taken: nothing else is.
LEMMA AnswerTaken ==
    ASSUME FramesInv, NEW c \in Clients, ReceiveAck(c), conn[c] \notin closed
    PROVE  Channel'
<1>1. /\ cpc[c] = "finishing" /\ down[conn[c]] # <<>>
      /\ UNCHANGED <<sent, first, request, up, closed, hconn, hpc, start, nxt, edits>>
  BY DEF ReceiveAck, handlerVars, modelVars
<1>2. /\ conn[c] = hconn /\ Opened /\ hconn \in Conns /\ request[conn[c]] = H
  BY <1>1, OpenConnection DEF Calling
<1>3. /\ down'[hconn] = Tail(down[hconn]) /\ \A n \in Conns : n # hconn => down'[n] = down[n]
      /\ cpc'[c] = "done"
      /\ \A d \in Clients : d # c => cpc'[d] = cpc[d] /\ conn'[d] = conn[d]
  BY <1>2 DEF ReceiveAck, FramesInv, VerifiedInv, Shape, KrpTypes, ClientTypes, NetTypes
<1>4. H' = H /\ Opened' /\ Taking' = Taking
  BY <1>1, <1>2 DEF H, Opened, Taking
<1>5. Count(H)' = Count(H) /\ \A j : FrameStart(H, j)' = FrameStart(H, j)
  BY <1>4 DEF Count, Size, FrameStart
<1>6. StatusTrue'
  BY <1>1, <1>2, <1>3, StatusTaken
<1>7. Silent'
  BY <1>1, <1>2, <1>3, <1>4 DEF FramesInv, Channel, Silent
<1>8. QueueTrue'
  <2>1. Streams(hconn)' => Streams(hconn)
    BY <1>1, <1>3 DEF Streams
  <2>2. ASSUME NEW k, InQueue(k) PROVE InQueue(k)'
    <3>1. FrameOf(hconn, H, start, nxt + (k - 1), up[hconn][k])
            => FrameOf(hconn, H, start, nxt + (k - 1), up[hconn][k])'
      BY <1>1, <1>4, <1>5 DEF FrameOf
    <3> QED
      BY <1>1, <2>1, <2>2, <3>1 DEF InQueue
  <2> QED
    BY <1>1, <1>4, <2>2 DEF FramesInv, Channel, QueueTrue
<1>9. Talks(c)'
  BY <1>3 DEF Talks
<1>10. \A d \in Clients : d # c => Talks(d)'
  BY <1>1, <1>3, <1>4, <1>5 DEF FramesInv, Channel, Talks
<1> QED
  BY <1>6, <1>7, <1>8, <1>9, <1>10 DEF Channel

LEMMA ClientChannel ==
    ASSUME FramesInv, NEW c \in Clients, ClientMoves(c)
    PROVE  Channel'
<1>1. Shape /\ FrameTypes
  BY DEF FramesInv, VerifiedInv
<1>2. /\ UNCHANGED <<closed, hconn, hpc, start, nxt>>
      /\ hpc # "idle" => request'[hconn] = request[hconn]
  BY <1>1, ClientReach, ServedHeader DEF handlerVars
<1>3. \A d \in Clients : d # c => ElsewhereOf(d)
  BY <1>1, OtherSenders DEF ElsewhereOf
<1>4. edits' = edits \/ edits' # 0
  <2>1. CASE EditSource(c)
    BY <1>1, <2>1 DEF EditSource, FrameTypes
  <2>2. CASE Hash(c) \/ Connect(c) \/ ReceiveStatus(c) \/ SendFrame(c) \/ SendFinal(c) \/ ReceiveAck(c)
    BY <2>2 DEF Hash, Connect, ReceiveStatus, SendFrame, SendFinal, ReceiveAck, modelVars
  <2>3. CASE RefuseChangedSource(c) \/ AbandonFrame(c) \/ ReceiveEnd(c) \/ ClientAbort(c)
    BY <2>3 DEF RefuseChangedSource, AbandonFrame, ReceiveEnd, ClientAbort, Fault, modelVars
  <2> QED
    BY <2>1, <2>2, <2>3 DEF ClientMoves, ClientStep
<1>5. /\ up \in [Conns -> Seq(UpMsgs)] /\ down \in [Conns -> Seq(DownMsgs)]
      /\ cpc \in [Clients -> {"idle", "hashed", "done"} \cup Calling]
      /\ conn \in [Clients -> Conns \cup {None}]
  BY <1>1 DEF FrameTypes, Shape, KrpTypes, NetTypes, ClientTypes
<1>6. CASE UNCHANGED <<up, down>> /\ ElsewhereOf(c)
  BY <1>2, <1>3, <1>4, <1>6, ChannelElsewhere
<1>7. CASE ReceiveStatus(c) \/ SendFrame(c) \/ SendFinal(c) \/ ReceiveAck(c)
  <2>1. CASE conn[c] \in closed
    <3>1. \A m \in Conns : m # conn[c] => up'[m] = up[m] /\ down'[m] = down[m]
      BY <1>5, <1>7 DEF ReceiveStatus, SendFrame, SendFinal, ReceiveAck
    <3>2. ElsewhereOf(c)
      <4>1. CASE ReceiveAck(c)
        BY <1>5, <4>1 DEF ReceiveAck, ElsewhereOf, Calling
      <4>2. CASE ~ReceiveAck(c)
        BY <1>5, <1>7, <2>1, <4>2 DEF ReceiveStatus, SendFrame, SendFinal, ElsewhereOf
      <4> QED
        BY <4>1, <4>2
    <3>3. \A m \in Conns : m \notin closed => up'[m] = up[m] /\ down'[m] = down[m]
      BY <2>1, <3>1
    <3> QED
      BY <1>2, <1>3, <1>4, <3>2, <3>3, ChannelElsewhere
  <2> QED
    BY <1>7, <2>1, StatusStarts, FrameFollows, FinalFollows, AnswerTaken
<1>8. CASE Connect(c)
  <2>1. UNCHANGED <<up, down>> /\ cpc'[c] = "waiting"
    BY <1>5, <1>8 DEF Connect
  <2>2. conn'[c] \in Conns \ Used
    <3>1. cpc[c] = "hashed" /\ cpc'[c] = "waiting"
      BY <1>8, <2>1 DEF Connect
    <3> QED
      BY <1>1, <3>1, EntersOnce DEF Calling
  <2>3. Opened => hconn \in Used
    BY <1>1, ServedHeader DEF Opened
  <2> QED
    BY <1>6, <2>1, <2>2, <2>3 DEF ElsewhereOf
<1>9. CASE Hash(c) \/ EditSource(c)
  BY <1>5, <1>6, <1>9 DEF Hash, EditSource, netVars, ElsewhereOf, Calling
<1>10. CASE RefuseChangedSource(c) \/ AbandonFrame(c) \/ ReceiveEnd(c) \/ ClientAbort(c)
  BY <1>5, <1>6, <1>10 DEF RefuseChangedSource, AbandonFrame, ReceiveEnd, ClientAbort, Give, netVars,
     ElsewhereOf, Calling
<1> QED
  BY <1>7, <1>8, <1>9, <1>10 DEF ClientMoves, ClientStep

-----------------------------------------------------------------------------
(* The steps of the server. *)

\* Senders and sources are out of the server's hands.
LEMMA SendersKept ==
    ASSUME FramesInv, UNCHANGED <<clientVars, request, edits>>
    PROVE  SourcesTrue' /\ ClientsApart'
<1>1. Used' = Used /\ UNCHANGED <<source, cpc, digest, conn, request, edits>>
  BY DEF Used, clientVars
<1> QED
  BY <1>1 DEF FramesInv, SourcesTrue, ClientsApart

LEMMA HandlerFrameTypes ==
    ASSUME FramesInv, HandlerStep \/ HandlerAbort
    PROVE  FrameTypes' /\ edits' = edits
<1>1. UNCHANGED <<sent, first>>
  BY HandlerReach DEF clientVars
<1>2. FrameTypes /\ nxt \in Nat
  BY DEF FramesInv, VerifiedInv, Shape, KrpTypes, HandlerTypes
<1>3. CASE ReceiveFrame \/ ReceiveFinal
  <2>1. hconn \in Conns
    BY <1>3, ServedHeader DEF ReceiveFrame, FrameIn, ReceiveFinal, FramesInv, VerifiedInv
  <2>2. up[hconn] \in Seq(UpMsgs) /\ up[hconn] # <<>>
    BY <1>2, <1>3, <2>1 DEF ReceiveFrame, FrameIn, ReceiveFinal, Incoming, FrameTypes
  <2>3. Tail(up[hconn]) \in Seq(UpMsgs)
    BY <2>2
  <2>4. up' = [up EXCEPT ![hconn] = Tail(up[hconn])] /\ UNCHANGED <<start, edits>>
    BY <1>3 DEF ReceiveFrame, ReceiveFinal, modelVars
  <2> QED
    BY <1>1, <1>2, <2>3, <2>4 DEF FrameTypes
<1>4. CASE SendStatus
  BY <1>1, <1>2, <1>4 DEF SendStatus, FrameTypes, modelVars
<1>5. CASE UNCHANGED <<up, start, edits>>
  BY <1>1, <1>2, <1>5 DEF FrameTypes
<1>6. CASE \E n \in Conns : Accept(n) \/ DropQueued(n)
  BY <1>5, <1>6 DEF Accept, DropQueued, netVars, handlerVars, modelVars
<1>7. CASE CreatePartial \/ WriteFirstCheckpoint \/ Resume \/ Reject \/ SyncFrame
  BY <1>5, <1>7 DEF CreatePartial, WriteFirstCheckpoint, Resume, Reject, SyncFrame, netVars, modelVars
<1>8. CASE AdvanceCheckpoint \/ Rehash \/ Publish \/ RemoveCheckpoint \/ Acknowledge
  BY <1>5, <1>8 DEF AdvanceCheckpoint, Rehash, Publish, RemoveCheckpoint, Acknowledge, netVars, modelVars
<1>9. CASE DiscardPartial \/ DiscardCheckpoint \/ ReachEndOfInput \/ HandlerAbort
  BY <1>5, <1>9 DEF DiscardPartial, DiscardCheckpoint, ReachEndOfInput, HandlerAbort, Fault, netVars,
     modelVars
<1> QED
  BY <1>3, <1>4, <1>6, <1>7, <1>8, <1>9 DEF HandlerStep

\* The status opens the connection, on which nothing has been said.
LEMMA StatusOpens ==
    ASSUME FramesInv, SendStatus
    PROVE  Channel'
<1>1. /\ hpc = "admitted" /\ hpc' = "receiving" /\ start' = nxt
      /\ UNCHANGED <<cpc, conn, sent, first, request, up, closed, hconn, nxt>>
  BY DEF SendStatus, clientVars
<1>2. /\ hconn \in Conns /\ hconn \notin closed /\ nxt <= Count(H)
      /\ cur = ExpectedBytes(nxt, Size(H), FrameSize)
  BY <1>1, ServedHeader DEF FramesInv, VerifiedInv, Shape, Connected, Decided
<1>3. up[hconn] = <<>> /\ down[hconn] = <<>>
  BY <1>1, <1>2 DEF FramesInv, Channel, Silent, Opened
<1>4. /\ down'[hconn] = <<Status(nxt, cur, ServerTicket)>>
      /\ \A n \in Conns : n # hconn => down'[n] = down[n]
  BY <1>2, <1>3 DEF SendStatus, FramesInv, VerifiedInv, Shape, KrpTypes, NetTypes
<1>5. H' = H /\ Opened' /\ ~Opened
  BY <1>1 DEF H, Opened
<1>6. Count(H)' = Count(H) /\ \A j : FrameStart(H, j)' = FrameStart(H, j)
  BY <1>5 DEF Count, Size, FrameStart
<1>7. Silent'
  BY <1>1, <1>4, <1>5 DEF FramesInv, Channel, Silent
<1>8. QueueTrue'
  <2>1. 1 .. Len(up'[hconn']) = {}
    BY <1>1, <1>3
  <2> QED
    BY <2>1 DEF QueueTrue
<1>9. StatusTrue'
  <2>1. \A k \in 1 .. Len(down'[hconn']) : down'[hconn'][k] = Status(nxt, cur, ServerTicket)
    BY <1>1, <1>4
  <2>2. Status(nxt, cur, ServerTicket).next = nxt /\ Status(nxt, cur, ServerTicket).bytes = cur
    BY DEF Status
  <2>3. cur = FrameStart(H, nxt)
    BY <1>2 DEF FrameStart
  <2>4. FrameStart(H, start)' = FrameStart(H, nxt)
    BY <1>1, <1>5 DEF FrameStart, Size
  <2> QED
    BY <1>1, <1>2, <1>6, <2>1, <2>2, <2>3, <2>4 DEF StatusTrue
<1>10. ASSUME NEW c \in Clients PROVE Talks(c)'
  <2>1. Talks(c)
    BY DEF FramesInv, Channel
  <2>2. ~(cpc[c] \in {"streaming", "finishing"} /\ conn[c] = hconn)
    BY <1>2, <1>5, <2>1 DEF Talks
  <2>3. cpc[c] \in {"streaming", "finishing"} => conn[c] \in closed
    BY <1>5, <2>1 DEF Talks
  <2> QED
    BY <1>1, <1>3, <2>2, <2>3 DEF Talks
<1> QED
  BY <1>7, <1>8, <1>9, <1>10 DEF Channel

\* The frame at the head is taken, and the next one is expected.
LEMMA FrameTaken ==
    ASSUME FramesInv, ReceiveFrame
    PROVE  Channel'
<1>1. /\ hpc = "receiving" /\ hpc' = "written" /\ nxt' = nxt + 1 /\ up[hconn] # <<>>
      /\ UNCHANGED <<cpc, conn, sent, first, request, down, closed, hconn, start, edits>>
  BY DEF ReceiveFrame, FrameIn, Incoming, clientVars, modelVars
<1>2. hconn \in Conns /\ nxt \in Nat /\ up[hconn] \in Seq(UpMsgs)
  BY <1>1, ServedHeader DEF FramesInv, VerifiedInv, Shape, KrpTypes, HandlerTypes, FrameTypes
<1>3. /\ up'[hconn] = Tail(up[hconn]) /\ \A n \in Conns : n # hconn => up'[n] = up[n]
  BY <1>2 DEF ReceiveFrame, FramesInv, FrameTypes
<1>4. H' = H /\ Opened /\ Opened' /\ Taking /\ Taking' /\ Streams(hconn)' = Streams(hconn)
  BY <1>1 DEF H, Opened, Taking, Streams
<1>5. Count(H)' = Count(H) /\ \A j : FrameStart(H, j)' = FrameStart(H, j)
  BY <1>4 DEF Count, Size, FrameStart
<1>6. /\ Len(up[hconn]) \in Nat /\ Len(Tail(up[hconn])) = Len(up[hconn]) - 1
      /\ \A k \in 1 .. Len(Tail(up[hconn])) :
            Tail(up[hconn])[k] = up[hconn][k + 1] /\ k + 1 \in 1 .. Len(up[hconn])
  BY <1>1, <1>2, TailOf
<1>7. QueueTrue'
  <2>1. ASSUME NEW k \in 1 .. Len(up'[hconn']) PROVE InQueue(k)'
    <3>1. up'[hconn'][k] = up[hconn][k + 1] /\ k + 1 \in 1 .. Len(up[hconn])
      BY <1>1, <1>3, <1>6, <2>1
    <3>2. InQueue(k + 1)
      BY <1>4, <3>1 DEF FramesInv, Channel, QueueTrue
    <3>3. CASE FrameOf(hconn, H, start, nxt + ((k + 1) - 1), up[hconn][k + 1])
      <4>1. nxt' + (k - 1) = nxt + ((k + 1) - 1)
        BY <1>1, <1>2
      <4>2. FrameOf(hconn, H, start, nxt + (k - 1), up[hconn][k])'
        BY <1>1, <1>4, <1>5, <3>1, <3>3, <4>1 DEF FrameOf
      <4> QED
        BY <4>2 DEF InQueue
    <3>4. CASE up[hconn][k + 1].kind = "final" /\ ~Streams(hconn)
      BY <1>4, <3>1, <3>4 DEF InQueue
    <3> QED
      BY <3>2, <3>3, <3>4 DEF InQueue
  <2> QED
    BY <2>1 DEF QueueTrue
<1>8. Silent'
  BY <1>1, <1>3, <1>4 DEF FramesInv, Channel, Silent
<1>9. StatusTrue'
  BY <1>1, <1>4, StatusKept
<1>10. ASSUME NEW c \in Clients PROVE Talks(c)'
  <2>1. Talks(c)
    BY DEF FramesInv, Channel
  <2>2. ~(cpc[c] = "waiting" /\ conn[c] = hconn)
    BY <1>1, <1>4, <2>1 DEF Talks
  <2>3. nxt' + Len(up'[hconn']) = nxt + Len(up[hconn])
    BY <1>1, <1>2, <1>3, <1>6
  <2> QED
    BY <1>1, <1>4, <1>5, <2>1, <2>2, <2>3 DEF Talks
<1> QED
  BY <1>7, <1>8, <1>9, <1>10 DEF Channel

\* After the last word, or between frames, the sender is not heard.
LEMMA HandlerGoesOn ==
    ASSUME FramesInv, UNCHANGED <<cpc, conn, sent, first, request, down, closed, hconn, start, nxt, edits>>,
           Opened, Opened', \A n \in Conns : n # hconn => up'[n] = up[n],
           \/ hpc # "receiving" /\ Taking' = Taking /\ UNCHANGED up
           \/ ReceiveFinal
    PROVE  Channel'
<1>1. hconn \in Conns
  BY ServedHeader DEF Opened, FramesInv, VerifiedInv
<1>2. H' = H /\ Streams(hconn)' = Streams(hconn)
  BY DEF H, Streams
<1>3. Count(H)' = Count(H) /\ \A j : FrameStart(H, j)' = FrameStart(H, j)
  BY <1>2 DEF Count, Size, FrameStart
<1>4. Silent'
  BY DEF FramesInv, Channel, Silent
<1>5. StatusTrue'
  BY StatusKept
<1>6. CASE hpc # "receiving" /\ Taking' = Taking /\ UNCHANGED up
  <2>1. QueueTrue'
    <3>1. ASSUME NEW k, InQueue(k) PROVE InQueue(k)'
      <4>1. FrameOf(hconn, H, start, nxt + (k - 1), up[hconn][k])
              => FrameOf(hconn, H, start, nxt + (k - 1), up[hconn][k])'
        BY <1>2, <1>3, <1>6 DEF FrameOf
      <4> QED
        BY <1>2, <1>6, <3>1, <4>1 DEF InQueue
    <3> QED
      BY <1>6, <3>1 DEF FramesInv, Channel, QueueTrue
  <2>2. \A c \in Clients : Talks(c)'
    BY <1>2, <1>3, <1>6 DEF FramesInv, Channel, Talks
  <2> QED
    BY <1>4, <1>5, <2>1, <2>2 DEF Channel
<1>7. CASE ReceiveFinal
  <2>1. /\ hpc = "receiving" /\ hpc' = "complete" /\ up[hconn] # <<>>
        /\ Head(up[hconn]).kind = "final"
    BY <1>7 DEF ReceiveFinal, Incoming
  <2>2. ~Taking' /\ Taking
    BY <2>1 DEF Taking
  <2>3. up[hconn] \in Seq(UpMsgs)
    BY <1>1 DEF FramesInv, FrameTypes
  <2>4. Head(up[hconn]) = up[hconn][1] /\ 1 \in 1 .. Len(up[hconn])
    BY <2>1, <2>3, TailOf
  <2>5. ~Streams(hconn)
    <3>1. InQueue(1)
      BY <2>2, <2>4 DEF FramesInv, Channel, QueueTrue
    <3>2. ~FrameOf(hconn, H, start, nxt + (1 - 1), up[hconn][1])
      <4>1. \A d : Seal(hconn, H, start, nxt + (1 - 1), d).kind = "frame"
        BY DEF Seal
      <4> QED
        BY <2>1, <2>4, <4>1, Zenon DEF FrameOf
    <3> QED
      BY <3>1, <3>2 DEF InQueue
  <2>6. ASSUME NEW c \in Clients PROVE Talks(c)'
    <3>1. Talks(c)
      BY DEF FramesInv, Channel
    <3>2. ~(cpc[c] = "waiting" /\ conn[c] = hconn) /\ ~(cpc[c] = "streaming" /\ conn[c] = hconn)
      BY <2>1, <2>5, <3>1 DEF Talks, Streams
    <3> QED
      BY <3>1, <3>2 DEF Talks
  <2> QED
    BY <1>4, <1>5, <2>2, <2>6 DEF Channel, QueueTrue
<1> QED
  BY <1>6, <1>7

LEMMA HandlerChannel ==
    ASSUME FramesInv, HandlerStep \/ HandlerAbort
    PROVE  Channel'
<1>1. UNCHANGED <<clientVars, request, edits>>
  BY HandlerReach, HandlerFrameTypes
<1>2. UNCHANGED <<cpc, conn, sent, first, request, edits>>
  BY <1>1 DEF clientVars
<1>3. hpc # "idle" => hconn \in Conns
  BY ServedHeader DEF FramesInv, VerifiedInv
<1>4. CASE UNCHANGED up /\ ~Opened /\ ~Opened' /\ closed \subseteq closed' /\ UNCHANGED down
  BY <1>1, <1>4, ChannelShut
<1>5. CASE UNCHANGED <<up, down>> /\ Leave
  <2>1. ~Opened' /\ closed \subseteq closed' /\ hconn \in closed'
    BY <1>5 DEF Leave, Opened
  <2> QED
    BY <1>1, <1>5, <2>1, ChannelShut
<1>6. CASE Acknowledge
  <2>1. UNCHANGED up /\ Leave /\ hpc = "cleared"
    BY <1>6 DEF Acknowledge
  <2>2. ~Opened' /\ closed \subseteq closed' /\ hconn \in closed'
    BY <2>1 DEF Leave, Opened
  <2>3. \A n \in Conns : n # hconn => down'[n] = down[n]
    BY <1>3, <1>6, <2>1 DEF Acknowledge, FramesInv, VerifiedInv, Shape, KrpTypes, NetTypes
  <2>4. \A n \in Conns : n \notin closed' => down'[n] = down[n]
    BY <2>2, <2>3
  <2> QED
    BY <1>1, <2>1, <2>2, <2>4, ChannelShut
<1>7. CASE /\ UNCHANGED <<up, down, closed, hconn, start, nxt>>
           /\ hpc # "receiving" /\ Opened /\ Opened' /\ Taking' = Taking
  BY <1>2, <1>7, HandlerGoesOn
<1>8. CASE \E n \in Conns : Accept(n) \/ DropQueued(n)
  <2>1. UNCHANGED <<up, down>> /\ closed \subseteq closed' /\ hpc = "idle" /\ hpc' \in {"idle", "accepted"}
    BY <1>8 DEF Accept, DropQueued, netVars, handlerVars
  <2> QED
    BY <1>4, <2>1 DEF Opened
<1>9. CASE CreatePartial \/ WriteFirstCheckpoint \/ Reject
  BY <1>4, <1>5, <1>9 DEF CreatePartial, WriteFirstCheckpoint, Reject, Deciding, netVars, Opened
<1>10. CASE Resume
  BY <1>4, <1>5, <1>10 DEF Resume, Deciding, Opened
<1>11. CASE SyncFrame \/ Rehash \/ Publish \/ RemoveCheckpoint \/ DiscardPartial
  BY <1>7, <1>11 DEF SyncFrame, Rehash, Publish, RemoveCheckpoint, DiscardPartial, netVars, Opened, Taking
<1>12. CASE AdvanceCheckpoint
  BY <1>5, <1>7, <1>12 DEF AdvanceCheckpoint, Opened, Taking
<1>13. CASE DiscardCheckpoint \/ ReachEndOfInput \/ HandlerAbort
  BY <1>5, <1>13 DEF DiscardCheckpoint, ReachEndOfInput, HandlerAbort
<1>14. CASE ReceiveFinal
  <2>1. /\ UNCHANGED <<down, closed, hconn, start, nxt>> /\ Opened /\ Opened'
    BY <1>14 DEF ReceiveFinal, Opened
  <2>2. \A n \in Conns : n # hconn => up'[n] = up[n]
    BY <1>14 DEF ReceiveFinal, FramesInv, FrameTypes
  <2> QED
    BY <1>2, <1>14, <2>1, <2>2, HandlerGoesOn
<1> QED
  BY <1>6, <1>8, <1>9, <1>10, <1>11, <1>12, <1>13, <1>14, StatusOpens, FrameTaken DEF HandlerStep

\* The secret and the faults: the handler goes on, or its connection is shut.
LEMMA AsideChannel ==
    ASSUME FramesInv, UNCHANGED <<clientVars, request, up, down, start, nxt, edits>>,
           \/ HandlerStays
           \/ Leave /\ hpc = "accepted"
           \/ hpc' = "idle" /\ hconn' = None /\ closed' = Used
    PROVE  FrameTypes' /\ Channel'
<1>1. FrameTypes'
  BY DEF FramesInv, FrameTypes, clientVars
<1>2. CASE HandlerStays
  <2>1. \A d \in Clients : ElsewhereOf(d)
    BY DEF ElsewhereOf, clientVars
  <2> QED
    BY <1>1, <1>2, <2>1, ChannelElsewhere DEF HandlerStays
<1>3. CASE Leave /\ hpc = "accepted"
  BY <1>1, <1>3, ChannelShut DEF Leave, Opened
<1>4. CASE hpc' = "idle" /\ hconn' = None /\ closed' = Used
  <2>1. closed \subseteq closed' /\ (Opened => hconn \in closed')
    BY <1>4, ServedHeader DEF FramesInv, VerifiedInv, Shape, Connected, Opened
  <2> QED
    BY <1>1, <1>4, <2>1, ChannelShut DEF Opened
<1> QED
  BY <1>2, <1>3, <1>4

LEMMA FramesStep == FramesInv /\ [Next]_vars => FramesInv'
<1> SUFFICES ASSUME FramesInv, [Next]_vars
             PROVE  FramesInv'
  OBVIOUS
<1>1. VerifiedInv' /\ Shape /\ FrameTypes
  BY VerifiedStep DEF FramesInv, VerifiedInv
<1>2. ASSUME NEW c \in Clients, ClientMoves(c)
      PROVE  FramesInv'
  BY <1>1, <1>2, ClientFrameTypes, ClientSources, ClientApartStays, ClientChannel DEF FramesInv
<1>3. CASE HandlerStep \/ HandlerAbort
  <2>1. UNCHANGED <<clientVars, request>>
    BY <1>3, HandlerReach
  <2> QED
    BY <1>1, <1>3, <2>1, HandlerFrameTypes, HandlerChannel, SendersKept DEF FramesInv
<1>4. CASE /\ UNCHANGED <<clientVars, request, up, down, start, nxt, edits>>
           /\ \/ HandlerStays
              \/ Leave /\ hpc = "accepted"
              \/ hpc' = "idle" /\ hconn' = None /\ closed' = Used
  BY <1>1, <1>4, AsideChannel, SendersKept DEF FramesInv
<1>5. ASSUME NEW s \in Servers, SecretStep(s)
      PROVE  FramesInv'
  <2>1. edits' = edits
    BY <1>5 DEF SecretStep, FindSecret, ReadSecret, RefuseSecret, CreateSecret, LoseSecretRace,
       WriteSecret, SyncSecret, FailSecret, modelVars
  <2> QED
    BY <1>1, <1>4, <1>5, <2>1, SecretReach
<1>6. CASE PowerLoss \/ (\E s \in Servers : ServerCrash(s))
  <2>1. UNCHANGED <<clientVars, request, up, down, start, nxt, edits>>
    BY <1>6 DEF PowerLoss, ServerCrash, Fault
  <2> QED
    BY <1>1, <1>4, <1>6, <2>1, FaultShape
<1>7. CASE WriteBack \/ UNCHANGED vars
  BY <1>4, <1>7 DEF WriteBack, vars, netVars, handlerVars, modelVars, HandlerStays
<1> QED
  BY <1>2, <1>3, <1>5, <1>6, <1>7 DEF Next, ClientMoves

\* Both ends derive key, nonce, associated data and layout alike on every
\* connection: no frame that a sender seals is refused, whatever was lost,
\* resumed or edited before, because the handler is always at the first of
\* the frames on their way, and they follow each other from the frame the
\* status named.
THEOREM HonestFramesStand == Spec => []HonestFramesAccepted
<1>1. Init => FramesInv
  BY InitFrames
<1>2. FramesInv /\ [Next]_vars => FramesInv'
  BY FramesStep
<1>3. FramesInv => HonestFramesAccepted
  BY FramesAccepted
<1> QED
  BY <1>1, <1>2, <1>3, PTL DEF Spec
-----------------------------------------------------------------------------
(* What checkpoints stand for. *)

\* The first b bytes of s are there, and those of d unless something was edited.
Holds(e, s, d, b) ==
    b <= Len(s) /\ b <= Len(d) /\ (e = 0 => \A p \in 1 .. b : s[p] = d[p])

\* A checkpoint named by d is true of the inodes in s.
Covered(d, s, t) ==
    d.ckpt[t] # None /\ t \in d.partial =>
        Holds(edits, s[t], d.ckpt[t].digest, d.ckpt[t].bytes)

FileTypes == file \in [Conns -> Seq(Nat)] /\ synced \in [Conns -> Seq(Nat)]

\* In the directory and in what a power loss leaves of it; and the checkpoint
\* it leaves is not ahead of the one it takes away.
CheckpointsTrue ==
    \A t \in Conns :
        /\ Covered(dir, file, t) /\ Covered(dir, synced, t) /\ Covered(journal, synced, t)
        /\ dir.ckpt[t] # None /\ journal.ckpt[t] # None =>
               journal.ckpt[t].bytes <= dir.ckpt[t].bytes

\* The handler appends at the end of the partial file, past every checkpoint.
Appending ==
    /\ hpc \in Placed =>
           /\ Len(file[H.tid]) = cur /\ Holds(edits, file[H.tid], H.digest, cur)
           /\ dir.ckpt[H.tid] # None => dir.ckpt[H.tid].bytes <= cur
           /\ journal.ckpt[H.tid] # None => journal.ckpt[H.tid].bytes <= cur
    /\ hpc = "created" => dir.ckpt[H.tid] = None /\ journal.ckpt[H.tid] = None
    /\ hpc = "synced" => synced[H.tid] = file[H.tid]

BackedInv == FramesInv /\ FileTypes /\ CheckpointsTrue /\ Appending

LEMMA InitBacked == Init => BackedInv
<1> SUFFICES ASSUME Init
             PROVE  BackedInv
  OBVIOUS
<1>1. FileTypes
  BY DEF Init, FileTypes
<1>2. CheckpointsTrue
  BY DEF Init, CheckpointsTrue, Covered, NoNames
<1>3. Appending
  BY DEF Init, Appending, Placed
<1> QED
  BY <1>1, <1>2, <1>3, InitFrames DEF BackedInv

\* A shorter prefix, later.
LEMMA HoldsStays ==
    ASSUME NEW e, NEW f, f = e \/ f # 0, NEW s \in Seq(Nat), NEW d \in Seq(Nat),
           NEW b \in Nat, NEW c \in Nat, c <= b, Holds(e, s, d, b)
    PROVE  Holds(f, s, d, c)
<1>1. Len(s) \in Nat /\ Len(d) \in Nat
  OBVIOUS
<1>2. b <= Len(s) /\ b <= Len(d) /\ (e = 0 => \A p \in 1 .. b : s[p] = d[p])
  BY DEF Holds
<1>3. f = 0 => \A p \in 1 .. c : p \in 1 .. b /\ s[p] = d[p]
  BY <1>2
<1> QED
  BY <1>1, <1>2, <1>3 DEF Holds

\* The next bytes of d, appended.
LEMMA HoldsMore ==
    ASSUME NEW e, NEW s \in Seq(Nat), NEW d \in Seq(Nat), NEW x \in Seq(Nat),
           Len(s) + Len(x) <= Len(d), Holds(e, s, d, Len(s)),
           e = 0 => x = ReadAt(d, Len(s), Len(x))
    PROVE  /\ Len(WriteAt(s, Len(s), x, 0)) = Len(s) + Len(x)
           /\ Holds(e, WriteAt(s, Len(s), x, 0), d, Len(s) + Len(x))
<1> DEFINE w == WriteAt(s, Len(s), x, 0)
<1>1. Len(s) \in Nat /\ Len(x) \in Nat /\ Len(d) \in Nat
  OBVIOUS
<1>2. Appended(w, s, x)
  BY WriteAtEnd, Zenon
<1> HIDE DEF w
<1>3. /\ Len(w) = Len(s) + Len(x)
      /\ \A p \in 1 .. Len(s) : w[p] = s[p]
      /\ \A p \in Len(s) + 1 .. Len(s) + Len(x) : w[p] = x[p - Len(s)]
  BY <1>2 DEF Appended
<1>4. ASSUME e = 0, NEW p \in 1 .. Len(s) + Len(x)
      PROVE  w[p] = d[p]
  <2>1. CASE p <= Len(s)
    BY <1>1, <1>3, <1>4, <2>1 DEF Holds
  <2>2. CASE p > Len(s)
    <3>1. p \in Len(s) + 1 .. Len(s) + Len(x)
      BY <1>1, <1>4, <2>2
    <3>2. x = SubSeq(d, Len(s) + 1, Len(s) + Len(x))
      BY <1>1, <1>4 DEF ReadAt, Least
    <3>3. SubSeq(d, Len(s) + 1, Len(s) + Len(x))[p - Len(s)] = d[p]
      BY <1>1, <3>1
    <3> QED
      BY <1>3, <3>1, <3>2, <3>3
  <2> QED
    BY <1>1, <1>4, <2>1, <2>2
<1>5. Holds(e, w, d, Len(s) + Len(x))
  BY <1>1, <1>3, <1>4 DEF Holds
<1> QED
  BY <1>3, <1>5 DEF w

\* A prefix outlives an append.
LEMMA HoldsBelow ==
    ASSUME NEW e, NEW s \in Seq(Nat), NEW d \in Seq(Nat), NEW x \in Seq(Nat),
           NEW b \in Nat, Holds(e, s, d, b)
    PROVE  Holds(e, WriteAt(s, Len(s), x, 0), d, b)
<1> DEFINE w == WriteAt(s, Len(s), x, 0)
<1>1. Len(s) \in Nat /\ Len(x) \in Nat /\ Len(d) \in Nat
  OBVIOUS
<1>2. Appended(w, s, x)
  BY WriteAtEnd, Zenon
<1> HIDE DEF w
<1>3. Len(w) = Len(s) + Len(x) /\ \A p \in 1 .. Len(s) : w[p] = s[p]
  BY <1>2 DEF Appended
<1>4. Holds(e, w, d, b)
  BY <1>1, <1>3 DEF Holds
<1> QED
  BY <1>4 DEF w

\* A cut that keeps the prefix.
LEMMA HoldsCut ==
    ASSUME NEW e, NEW s \in Seq(Nat), NEW d \in Seq(Nat), NEW b \in Nat, NEW c \in Nat,
           b <= c, c <= Len(s), Holds(e, s, d, b)
    PROVE  Holds(e, TruncateTo(s, c), d, b)
<1> DEFINE w == TruncateTo(s, c)
<1>1. Len(w) = c /\ \A p \in 1 .. c : w[p] = s[p]
  BY DEF TruncateTo
<1> HIDE DEF w
<1>2. Holds(e, w, d, b)
  BY <1>1 DEF Holds
<1> QED
  BY <1>2 DEF w

LEMMA BackedCheckpoints == BackedInv => CheckpointBacked
<1> SUFFICES ASSUME BackedInv, NEW d \in {dir, journal}, NEW t \in Conns,
                    d.ckpt[t] # None, t \in d.partial
             PROVE  /\ d.ckpt[t].bytes <= Len(synced[t])
                    /\ edits = 0 => SubSeq(synced[t], 1, d.ckpt[t].bytes)
                                      = SubSeq(d.ckpt[t].digest, 1, d.ckpt[t].bytes)
  BY DEF CheckpointBacked
<1> DEFINE k == d.ckpt[t]  s == synced[t]
<1>1. k.bytes \in Nat /\ k.digest \in Seq(Nat)
  BY DEF BackedInv, FramesInv, VerifiedInv, Shape, KrpTypes, DiskTypes, NameSets, Ckpts
<1>2. s \in Seq(Nat)
  BY DEF BackedInv, FileTypes
<1>3. Holds(edits, s, k.digest, k.bytes)
  BY DEF BackedInv, CheckpointsTrue, Covered
<1> HIDE DEF s, k
<1>4. k.bytes <= Len(s) /\ k.bytes <= Len(k.digest)
      /\ (edits = 0 => \A p \in 1 .. k.bytes : s[p] = k.digest[p])
  BY <1>3 DEF Holds
<1>5. edits = 0 => SubSeq(s, 1, k.bytes) = SubSeq(k.digest, 1, k.bytes)
  BY <1>1, <1>2, <1>4
<1> QED
  BY <1>4, <1>5 DEF k, s
-----------------------------------------------------------------------------
(* The steps. *)

\* Checkpoints and files have their types.
LEMMA CheckpointParts ==
    ASSUME BackedInv, NEW d \in {dir, journal}, NEW t \in Conns, d.ckpt[t] # None
    PROVE  /\ d.ckpt[t].bytes \in Nat /\ d.ckpt[t].digest \in Seq(Nat)
           /\ file[t] \in Seq(Nat) /\ synced[t] \in Seq(Nat)
<1>1. d \in NameSets /\ file[t] \in Seq(Nat) /\ synced[t] \in Seq(Nat)
  BY DEF BackedInv, FramesInv, VerifiedInv, Shape, KrpTypes, DiskTypes, FileTypes
<1>2. d.ckpt[t] \in Ckpts
  BY <1>1 DEF NameSets
<1> QED
  BY <1>1, <1>2 DEF Ckpts

\* The handler and its file.
LEMMA PlacedParts ==
    ASSUME BackedInv, hpc \in Placed
    PROVE  /\ H.tid \in Conns /\ H.digest \in Seq(Nat) /\ cur \in Nat
           /\ file[H.tid] \in Seq(Nat) /\ Len(file[H.tid]) = cur
           /\ Holds(edits, file[H.tid], H.digest, cur)
           /\ \A d \in {dir, journal} : d.ckpt[H.tid] # None =>
                  d.ckpt[H.tid].bytes <= cur /\ d.ckpt[H.tid].digest = H.digest
<1>1. hpc # "idle" /\ Decided
  BY DEF Placed, Decided
<1>2. H.tid \in Conns /\ H.digest \in Seq(Nat) /\ cur \in Nat
  BY <1>1, ServedHeader DEF BackedInv, FramesInv, VerifiedInv, Shape, KrpTypes, HandlerTypes
<1>3. H.digest = request[H.tid].digest
  BY <1>1 DEF BackedInv, FramesInv, VerifiedInv, Serving
<1>4. \A d \in {dir, journal} : d.ckpt[H.tid] # None => d.ckpt[H.tid].digest = H.digest
  BY <1>2, <1>3 DEF BackedInv, FramesInv, VerifiedInv, NamesTrue
<1> QED
  BY <1>2, <1>4 DEF BackedInv, FileTypes, Appending

\* Nothing is written, and names only go away.
LEMMA BackedKept ==
    ASSUME BackedInv, UNCHANGED <<file, synced, journal>>, edits' = edits \/ edits' # 0,
           dir'.partial \subseteq dir.partial,
           \A t \in Conns : dir'.ckpt[t] = dir.ckpt[t] \/ dir'.ckpt[t] = None,
           hpc' \in Placed => /\ hpc \in Placed /\ H' = H /\ cur' = cur
                              /\ hpc' \in {"created", "synced"} => hpc' = hpc
    PROVE  FileTypes' /\ CheckpointsTrue' /\ Appending'
<1>1. FileTypes'
  BY DEF BackedInv, FileTypes
<1>2. ASSUME NEW t \in Conns
      PROVE  /\ Covered(dir, file, t)' /\ Covered(dir, synced, t)' /\ Covered(journal, synced, t)'
             /\ dir'.ckpt[t] # None /\ journal'.ckpt[t] # None =>
                    journal'.ckpt[t].bytes <= dir'.ckpt[t].bytes
  <2>1. Covered(dir, file, t) /\ Covered(dir, synced, t) /\ Covered(journal, synced, t)
    BY DEF BackedInv, CheckpointsTrue
  <2>2. Covered(dir, file, t)' /\ Covered(dir, synced, t)'
    BY <2>1 DEF Covered, Holds
  <2>3. Covered(journal, synced, t)'
    BY <2>1 DEF Covered, Holds
  <2> QED
    BY <2>2, <2>3 DEF BackedInv, CheckpointsTrue
<1>3. Appending'
  <2>1. SUFFICES ASSUME hpc' \in Placed PROVE Appending'
    BY DEF Appending, Placed
  <2>2. hpc \in Placed /\ H' = H /\ cur' = cur /\ (hpc' \in {"created", "synced"} => hpc' = hpc)
    BY <2>1
  <2>3. H.tid \in Conns
    BY <2>2, PlacedParts
  <2>4. PICK t \in Conns : t = H.tid
    BY <2>3
  <2>5. dir'.ckpt[t] = dir.ckpt[t] \/ dir'.ckpt[t] = None
    OBVIOUS
  <2>6. /\ Len(file[t]) = cur /\ Holds(edits, file[t], H.digest, cur)
        /\ dir.ckpt[t] # None => dir.ckpt[t].bytes <= cur
        /\ journal.ckpt[t] # None => journal.ckpt[t].bytes <= cur
        /\ hpc = "created" => dir.ckpt[t] = None /\ journal.ckpt[t] = None
        /\ hpc = "synced" => synced[t] = file[t]
    BY <2>2, <2>4 DEF BackedInv, Appending
  <2>7. Holds(edits', file[t], H.digest, cur)
    BY <2>6 DEF Holds
  <2>8. H'.tid = t
    BY <2>2, <2>4
  <2> QED
    BY <2>2, <2>5, <2>6, <2>7, <2>8 DEF Appending
<1> QED
  BY <1>1, <1>2, <1>3 DEF CheckpointsTrue

\* A new partial file: empty, and no checkpoint is left of anybody else's.
LEMMA CreatePartialBacked ==
    ASSUME BackedInv, CreatePartial
    PROVE  FileTypes' /\ CheckpointsTrue' /\ Appending'
<1>1. /\ hpc = "accepted" /\ H.mode = "new" /\ dir.ckpt[H.tid] = None
      /\ hpc' = "created" /\ cur' = 0 /\ UNCHANGED <<hconn, request, journal, edits>>
  BY DEF CreatePartial, Deciding, NewAllowed, netVars, modelVars
<1>2. VerifiedInv
  BY DEF BackedInv, FramesInv
<1>3. PICK t \in Conns : t = H.tid /\ t = hconn /\ ~Begun(t)
  BY <1>1, <1>2, ServedTransfer
<1>4. dir.ckpt[t] = None /\ journal.ckpt[t] = None
  BY <1>1, <1>2, <1>3 DEF VerifiedInv, NamesTrue, Named
<1>5. /\ dir'.partial = dir.partial \cup {t} /\ dir'.ckpt = dir.ckpt
      /\ file' = [file EXCEPT ![t] = <<>>] /\ synced' = [synced EXCEPT ![t] = <<>>]
  <2>1. dir \in NameSets
    BY <1>2 DEF VerifiedInv, Shape, KrpTypes, DiskTypes
  <2> QED
    BY <1>3, <2>1 DEF CreatePartial, NameSets
<1>6. FileTypes' /\ file'[t] = <<>> /\ \A u \in Conns : u # t => file'[u] = file[u] /\ synced'[u] = synced[u]
  BY <1>5 DEF BackedInv, FileTypes
<1>7. CheckpointsTrue'
  <2>1. ASSUME NEW u \in Conns
        PROVE  /\ Covered(dir, file, u)' /\ Covered(dir, synced, u)' /\ Covered(journal, synced, u)'
               /\ dir'.ckpt[u] # None /\ journal'.ckpt[u] # None =>
                    journal'.ckpt[u].bytes <= dir'.ckpt[u].bytes
    <3>1. CASE u = t
      BY <1>1, <1>4, <1>5, <3>1 DEF Covered
    <3>2. CASE u # t
      <4>1. Covered(dir, file, u) /\ Covered(dir, synced, u) /\ Covered(journal, synced, u)
        BY DEF BackedInv, CheckpointsTrue
      <4>2. Covered(dir, file, u)' /\ Covered(dir, synced, u)'
        BY <1>1, <1>5, <1>6, <3>2, <4>1 DEF Covered
      <4>3. Covered(journal, synced, u)'
        BY <1>1, <1>6, <3>2, <4>1 DEF Covered
      <4> QED
        BY <1>1, <1>5, <4>2, <4>3 DEF BackedInv, CheckpointsTrue
    <3> QED
      BY <3>1, <3>2
  <2> QED
    BY <2>1 DEF CheckpointsTrue
<1>8. Appending'
  <2>1. H' = H
    BY <1>1 DEF H
  <2>2. H.digest \in Seq(Nat)
    BY <1>1, <1>2, ServedHeader DEF VerifiedInv
  <2>3. Holds(edits', <<>>, H.digest, 0)
    BY <2>2 DEF Holds
  <2>4. Len(file'[t]) = cur' /\ Holds(edits', file'[t], H.digest, cur')
    BY <1>1, <1>6, <2>3
  <2>5. hpc' # "synced" /\ H'.tid = t /\ dir'.ckpt[t] = None /\ journal'.ckpt[t] = None
    BY <1>1, <1>3, <1>4, <1>5, <2>1
  <2> QED
    BY <2>1, <2>4, <2>5 DEF Appending
<1> QED
  BY <1>6, <1>7, <1>8

\* The checkpoint that is written covers what is in the file, all of it synced.
LEMMA CheckpointBackedStep ==
    ASSUME BackedInv, WriteFirstCheckpoint \/ AdvanceCheckpoint
    PROVE  FileTypes' /\ CheckpointsTrue' /\ Appending'
<1>1. /\ hpc \in Placed /\ UNCHANGED <<request, file, synced, journal, cur, edits>>
      /\ hpc' \in Placed => hpc' \in {"admitted", "receiving"} /\ hconn' = hconn
  BY DEF WriteFirstCheckpoint, AdvanceCheckpoint, Leave, Placed, netVars, dataVars, modelVars
<1>2. VerifiedInv
  BY DEF BackedInv, FramesInv
<1>3. PICK t \in Conns : t = H.tid
  BY <1>1, PlacedParts
<1>4. PICK b \in Nat :
          /\ dir' = [dir EXCEPT !.ckpt[H.tid] = CheckpointOf(H, IF hpc = "created" THEN 0 ELSE nxt, b)]
          /\ hpc = "created" => b = 0
          /\ hpc # "created" => b = cur /\ hpc = "synced"
  BY <1>1, PlacedParts DEF WriteFirstCheckpoint, AdvanceCheckpoint
<1>5. /\ dir'.partial = dir.partial /\ dir'.ckpt[t] # None
      /\ dir'.ckpt[t].bytes = b /\ dir'.ckpt[t].digest = H.digest
      /\ \A u \in Conns : u # t => dir'.ckpt[u] = dir.ckpt[u]
  <2> DEFINE k == CheckpointOf(H, IF hpc = "created" THEN 0 ELSE nxt, b)
  <2>1. dir \in NameSets /\ H \in Headers /\ nxt \in Nat
    BY <1>1, <1>2, ServedHeader DEF VerifiedInv, Shape, KrpTypes, DiskTypes, HandlerTypes, Placed
  <2>2. k \in Ckpts /\ k # None
    BY <2>1, CheckpointType, KrpConstants
  <2>3. k.bytes = b /\ k.digest = H.digest
    BY DEF CheckpointOf
  <2>4. dir' = [dir EXCEPT !.ckpt[t] = k]
    BY <1>3, <1>4
  <2> HIDE DEF k
  <2>5. dir'.partial = dir.partial /\ dir'.ckpt = [dir.ckpt EXCEPT ![t] = k] /\ DOMAIN dir.ckpt = Conns
    BY <2>1, <2>4 DEF NameSets
  <2> QED
    BY <2>2, <2>3, <2>5
<1>6. /\ cur \in Nat /\ b <= cur /\ file[t] \in Seq(Nat) /\ H.digest \in Seq(Nat)
      /\ Len(file[t]) = cur /\ Holds(edits, file[t], H.digest, cur)
      /\ journal.ckpt[t] # None => journal.ckpt[t].bytes <= b
      /\ synced[t] \in Seq(Nat) /\ (hpc # "created" => synced[t] = file[t])
  <2>1. /\ hpc = "created" => journal.ckpt[t] = None
        /\ hpc = "synced" => synced[t] = file[t] /\ synced[t] \in Seq(Nat)
    BY <1>3 DEF BackedInv, Appending, FileTypes
  <2> QED
    BY <1>1, <1>3, <1>4, <2>1, PlacedParts DEF BackedInv, FileTypes
<1>7. Holds(edits, file[t], H.digest, b) /\ Holds(edits, synced[t], H.digest, b)
  <2>1. Holds(edits, file[t], H.digest, b)
    BY <1>6, HoldsStays
  <2>2. CASE hpc = "created"
    BY <1>4, <1>6, <2>2 DEF Holds
  <2> QED
    BY <1>6, <2>1, <2>2
<1>8. CheckpointsTrue'
  <2>1. ASSUME NEW u \in Conns
        PROVE  /\ Covered(dir, file, u)' /\ Covered(dir, synced, u)' /\ Covered(journal, synced, u)'
               /\ dir'.ckpt[u] # None /\ journal'.ckpt[u] # None =>
                    journal'.ckpt[u].bytes <= dir'.ckpt[u].bytes
    <3>1. Covered(dir, file, u) /\ Covered(dir, synced, u) /\ Covered(journal, synced, u)
      BY DEF BackedInv, CheckpointsTrue
    <3>2. Covered(journal, synced, u)'
      BY <1>1, <3>1 DEF Covered
    <3>3. CASE u = t
      BY <1>1, <1>5, <1>6, <1>7, <3>2, <3>3 DEF Covered
    <3>4. CASE u # t
      <4>1. Covered(dir, file, u)' /\ Covered(dir, synced, u)'
        BY <1>1, <1>5, <3>1, <3>4 DEF Covered
      <4> QED
        BY <1>1, <1>5, <3>2, <3>4, <4>1 DEF BackedInv, CheckpointsTrue
    <3> QED
      BY <3>3, <3>4
  <2> QED
    BY <2>1 DEF CheckpointsTrue
<1>9. Appending'
  <2>1. SUFFICES ASSUME hpc' \in Placed PROVE Appending'
    BY DEF Appending, Placed
  <2>2. H' = H /\ hpc' \in {"admitted", "receiving"}
    BY <1>1, <2>1 DEF H
  <2>3. journal.ckpt[t] # None => journal.ckpt[t].bytes <= cur
    BY <1>1, <1>3, PlacedParts
  <2> QED
    BY <1>1, <1>3, <1>5, <1>6, <2>2, <2>3 DEF Appending
<1> QED
  BY <1>1, <1>8, <1>9 DEF BackedInv, FileTypes


\* What resuming finds is cut down to the checkpoint, which stays true.
LEMMA ResumeBacked ==
    ASSUME BackedInv, Resume
    PROVE  FileTypes' /\ CheckpointsTrue' /\ Appending'
<1>1. VerifiedInv /\ hpc # "idle" /\ UNCHANGED <<request, dir, journal, edits>>
  BY DEF BackedInv, FramesInv, Resume, Deciding, nameVars, modelVars
<1>2. PICK t \in Conns : t = H.tid
  BY <1>1, ServedTransfer
<1>3. /\ dir.ckpt[t] # None /\ t \in dir.partial /\ dir.ckpt[t].digest = H.digest
      /\ dir.ckpt[t].bytes <= Len(file[t])
  BY <1>2 DEF Resume, ResumeAllowed, StateValid
<1>4. PICK b \in Nat : b = dir.ckpt[t].bytes
  BY <1>3, CheckpointParts
<1>5. file[t] \in Seq(Nat) /\ synced[t] \in Seq(Nat) /\ H.digest \in Seq(Nat)
  BY <1>3, CheckpointParts
<1>6. Holds(edits, file[t], H.digest, b) /\ Holds(edits, synced[t], H.digest, b)
  BY <1>3, <1>4 DEF BackedInv, CheckpointsTrue, Covered
<1>7. journal.ckpt[t] # None =>
          /\ journal.ckpt[t].bytes \in Nat /\ journal.ckpt[t].bytes <= b
          /\ journal.ckpt[t].digest = H.digest
  <2>1. journal.ckpt[t] # None => journal.ckpt[t].digest = dir.ckpt[t].digest
    BY <1>1, <1>3 DEF VerifiedInv, NamesTrue
  <2> QED
    BY <1>3, <1>4, <2>1, CheckpointParts DEF BackedInv, CheckpointsTrue
<1>8. /\ file'[t] \in Seq(Nat) /\ Len(file'[t]) = b /\ Holds(edits, file'[t], H.digest, b)
      /\ synced'[t] = file'[t] \/ synced'[t] = synced[t]
      /\ FileTypes'
      /\ \A u \in Conns : u # t => file'[u] = file[u] /\ synced'[u] = synced[u]
  <2> DEFINE cut == TruncateTo(file[t], b)
  <2>1. cut \in Seq(Nat) /\ Len(cut) = b
    BY <1>3, <1>4, <1>5, TruncateToType
  <2>2. Holds(edits, cut, H.digest, b)
    <3>1. b <= b /\ b <= Len(file[t])
      BY <1>3, <1>4
    <3> QED
      BY <1>5, <1>6, <3>1, HoldsCut
  <2>3. \/ file' = [file EXCEPT ![t] = cut] /\ synced' = [synced EXCEPT ![t] = cut]
        \/ Len(file[t]) <= b /\ file' = file /\ synced' = synced
    BY <1>2, <1>4, <1>5 DEF Resume, dataVars
  <2> HIDE DEF cut
  <2>4. CASE file' = [file EXCEPT ![t] = cut] /\ synced' = [synced EXCEPT ![t] = cut]
    BY <2>1, <2>2, <2>4 DEF BackedInv, FileTypes
  <2>5. CASE Len(file[t]) <= b /\ file' = file /\ synced' = synced
    <3>1. Len(file[t]) = b
      BY <1>3, <1>4, <1>5, <2>5
    <3> QED
      BY <1>5, <1>6, <2>5, <3>1 DEF BackedInv, FileTypes
  <2> QED
    BY <2>3, <2>4, <2>5
<1>9. CheckpointsTrue'
  <2>1. ASSUME NEW u \in Conns
        PROVE  /\ Covered(dir, file, u)' /\ Covered(dir, synced, u)' /\ Covered(journal, synced, u)'
               /\ dir'.ckpt[u] # None /\ journal'.ckpt[u] # None =>
                    journal'.ckpt[u].bytes <= dir'.ckpt[u].bytes
    <3>1. Covered(dir, file, u) /\ Covered(dir, synced, u) /\ Covered(journal, synced, u)
      BY DEF BackedInv, CheckpointsTrue
    <3>2. CASE u # t
      BY <1>1, <1>8, <3>1, <3>2 DEF Covered, BackedInv, CheckpointsTrue
    <3>3. CASE u = t
      <4>1. Covered(dir, file, u)' /\ Covered(dir, synced, u)'
        BY <1>1, <1>3, <1>4, <1>6, <1>8, <3>3 DEF Covered
      <4>2. Covered(journal, synced, u)'
        <5>1. CASE synced'[t] = synced[t]
          BY <1>1, <3>1, <3>3, <5>1 DEF Covered
        <5>2. CASE synced'[t] = file'[t]
          <6>1. journal.ckpt[t] # None => Holds(edits, file'[t], H.digest, journal.ckpt[t].bytes)
            BY <1>5, <1>7, <1>8, HoldsStays
          <6> QED
            BY <1>1, <1>7, <3>3, <5>2, <6>1 DEF Covered
        <5> QED
          BY <1>8, <5>1, <5>2
      <4> QED
        BY <1>1, <4>1, <4>2 DEF BackedInv, CheckpointsTrue
    <3> QED
      BY <3>2, <3>3
  <2> QED
    BY <2>1 DEF CheckpointsTrue
<1>10. Appending'
  <2>1. SUFFICES ASSUME hpc' \in Placed PROVE Appending'
    BY DEF Appending, Placed
  <2>2. hpc' = "admitted" /\ H' = H /\ cur' = b
    BY <1>2, <1>4, <2>1 DEF Resume, Leave, Placed, H
  <2>3. dir.ckpt[t].bytes <= b /\ (journal.ckpt[t] # None => journal.ckpt[t].bytes <= b)
    BY <1>4, <1>7
  <2> QED
    BY <1>1, <1>2, <1>8, <2>2, <2>3 DEF Appending
<1> QED
  BY <1>8, <1>9, <1>10

\* A frame is appended to the file.
LEMMA FrameBacked ==
    ASSUME BackedInv, ReceiveFrame
    PROVE  FileTypes' /\ CheckpointsTrue' /\ Appending'
<1>1. /\ hpc = "receiving" /\ hpc \in Placed /\ FrameIn /\ hpc' = "written"
      /\ UNCHANGED <<hconn, request, dir, journal, synced, edits>>
  BY DEF ReceiveFrame, FrameIn, Placed, nameVars, modelVars
<1>2. PICK t \in Conns : t = H.tid
  BY <1>1, PlacedParts
<1>3. /\ H \in Headers /\ H.digest \in Contents /\ hconn \in Conns
      /\ nxt \in Nat /\ cur = FrameStart(H, nxt)
  <2>1. hconn \in Used
    BY <1>1, ServedHeader DEF BackedInv, FramesInv, VerifiedInv
  <2> QED
    BY <1>1, <2>1, ServedHeader DEF BackedInv, FramesInv, VerifiedInv, Shape, KrpTypes, HandlerTypes,
       Connected, Decided, SourcesTrue, H, FrameStart
<1>4. PICK m : m = Head(up[hconn]) /\ FrameOf(hconn, H, start, nxt, m)
  BY <1>1, HeadFrame DEF BackedInv
<1>5. m.len = FrameBytes(H, nxt)
  BY <1>3, <1>4, SealedOpens
<1>6. nxt < Count(H) /\ m.data \in Seq(Nat) /\ Len(m.data) = m.len
      /\ (edits = 0 => m.data = ReadAt(H.digest, cur, m.len))
  BY <1>3, <1>4, <1>5 DEF FrameOf
<1>7. cur + m.len <= Len(H.digest) /\ m.len \in Nat
  <2>1. FrameBytes(H, nxt) \in 1 .. FrameSize /\ FrameStart(H, nxt) + FrameBytes(H, nxt) <= Size(H)
    BY <1>3, <1>6, FramePlaces
  <2> QED
    BY <1>3, <1>5, <2>1, KrpConstants DEF Size
<1>8. /\ cur \in Nat /\ file[t] \in Seq(Nat) /\ H.digest \in Seq(Nat)
      /\ Len(file[t]) = cur /\ Holds(edits, file[t], H.digest, cur)
      /\ \A d \in {dir, journal} : d.ckpt[t] # None => d.ckpt[t].bytes <= cur
  BY <1>1, <1>2, PlacedParts
<1> DEFINE w == WriteAt(file[t], Len(file[t]), m.data, 0)
<1>9. /\ file'[t] = w /\ w \in Seq(Nat) /\ \A u \in Conns : u # t => file'[u] = file[u]
      /\ FileTypes' /\ cur' = cur + m.len
  <2>1. w \in Seq(Nat)
    BY <1>6, <1>8, WriteAtType
  <2>2. file' = [file EXCEPT ![t] = w] /\ cur' = cur + m.len
    BY <1>2, <1>4, <1>8 DEF ReceiveFrame
  <2> HIDE DEF w
  <2> QED
    BY <1>1, <2>1, <2>2 DEF BackedInv, FileTypes
<1>10. Len(w) = cur + m.len /\ Holds(edits, w, H.digest, cur + m.len)
  <2>1. /\ Len(file[t]) + Len(m.data) <= Len(H.digest)
        /\ Holds(edits, file[t], H.digest, Len(file[t]))
        /\ edits = 0 => m.data = ReadAt(H.digest, Len(file[t]), Len(m.data))
    BY <1>6, <1>7, <1>8
  <2>2. Len(w) = Len(file[t]) + Len(m.data) /\ Holds(edits, w, H.digest, Len(file[t]) + Len(m.data))
    BY <1>6, <1>8, <2>1, HoldsMore, Zenon
  <2> HIDE DEF w
  <2> QED
    BY <1>6, <1>8, <2>2
<1>11. dir.ckpt[t] # None /\ Covered(dir, file, t) /\ t \in dir.partial =>
           Holds(edits, w, dir.ckpt[t].digest, dir.ckpt[t].bytes)
  <2>1. dir.ckpt[t] # None => dir.ckpt[t].digest \in Seq(Nat) /\ dir.ckpt[t].bytes \in Nat
    BY CheckpointParts
  <2> QED
    BY <1>6, <1>8, <2>1, HoldsBelow DEF Covered
<1> HIDE DEF w
<1>12. CheckpointsTrue'
  <2>1. ASSUME NEW u \in Conns
        PROVE  /\ Covered(dir, file, u)' /\ Covered(dir, synced, u)' /\ Covered(journal, synced, u)'
               /\ dir'.ckpt[u] # None /\ journal'.ckpt[u] # None =>
                    journal'.ckpt[u].bytes <= dir'.ckpt[u].bytes
    <3>1. Covered(dir, file, u) /\ Covered(dir, synced, u) /\ Covered(journal, synced, u)
      BY DEF BackedInv, CheckpointsTrue
    <3>2. Covered(dir, synced, u)' /\ Covered(journal, synced, u)'
      BY <1>1, <3>1 DEF Covered
    <3>3. Covered(dir, file, u)'
      <4>1. CASE u = t
        BY <1>1, <1>9, <1>11, <3>1, <4>1 DEF Covered
      <4>2. CASE u # t
        BY <1>1, <1>9, <3>1, <4>2 DEF Covered
      <4> QED
        BY <4>1, <4>2
    <3> QED
      BY <1>1, <3>2, <3>3 DEF BackedInv, CheckpointsTrue
  <2> QED
    BY <2>1 DEF CheckpointsTrue
<1>13. Appending'
  <2>1. H' = H
    BY <1>1 DEF H
  <2>2. \A d \in {dir, journal} : d.ckpt[t] # None => d.ckpt[t].bytes <= cur + m.len
    <3>1. \A d \in {dir, journal} : d.ckpt[t] # None => d.ckpt[t].bytes \in Nat
      BY CheckpointParts
    <3> QED
      BY <1>7, <1>8, <3>1
  <2> QED
    BY <1>1, <1>2, <1>9, <1>10, <2>1, <2>2 DEF Appending
<1> QED
  BY <1>9, <1>12, <1>13

\* fsync: every checkpoint is about what the file holds.
LEMMA SyncBacked ==
    ASSUME BackedInv, SyncFrame \/ ReceiveFinal
    PROVE  FileTypes' /\ CheckpointsTrue' /\ Appending'
<1>1. /\ hpc \in Placed /\ hpc' \in {"synced", "complete"}
      /\ UNCHANGED <<hconn, request, dir, journal, file, cur, edits>>
  BY DEF SyncFrame, ReceiveFinal, Placed, netVars, nameVars, modelVars
<1>2. PICK t \in Conns : t = H.tid
  BY <1>1, PlacedParts
<1>3. /\ synced'[t] = file[t] /\ \A u \in Conns : u # t => synced'[u] = synced[u]
      /\ FileTypes'
  <2>1. synced' = [synced EXCEPT ![t] = file[t]]
    BY <1>2 DEF SyncFrame, ReceiveFinal
  <2> QED
    BY <1>1, <2>1 DEF BackedInv, FileTypes
<1>4. journal.ckpt[t] # None =>
          Holds(edits, file[t], journal.ckpt[t].digest, journal.ckpt[t].bytes)
  <2>1. journal.ckpt[t] # None => journal.ckpt[t].bytes \in Nat
    BY CheckpointParts
  <2>2. /\ H.digest \in Seq(Nat) /\ cur \in Nat /\ file[t] \in Seq(Nat)
        /\ Holds(edits, file[t], H.digest, cur)
        /\ journal.ckpt[t] # None =>
               journal.ckpt[t].bytes <= cur /\ journal.ckpt[t].digest = H.digest
    BY <1>1, <1>2, PlacedParts
  <2>3. journal.ckpt[t] # None => Holds(edits, file[t], H.digest, journal.ckpt[t].bytes)
    BY <2>1, <2>2, HoldsStays
  <2> QED
    BY <2>2, <2>3
<1>5. CheckpointsTrue'
  <2>1. ASSUME NEW u \in Conns
        PROVE  /\ Covered(dir, file, u)' /\ Covered(dir, synced, u)' /\ Covered(journal, synced, u)'
               /\ dir'.ckpt[u] # None /\ journal'.ckpt[u] # None =>
                    journal'.ckpt[u].bytes <= dir'.ckpt[u].bytes
    <3>1. Covered(dir, file, u) /\ Covered(dir, synced, u) /\ Covered(journal, synced, u)
      BY DEF BackedInv, CheckpointsTrue
    <3>2. Covered(dir, file, u)'
      BY <1>1, <3>1 DEF Covered
    <3>3. CASE u = t
      BY <1>1, <1>3, <1>4, <3>1, <3>2, <3>3 DEF Covered, BackedInv, CheckpointsTrue
    <3>4. CASE u # t
      BY <1>1, <1>3, <3>1, <3>2, <3>4 DEF Covered, BackedInv, CheckpointsTrue
    <3> QED
      BY <3>3, <3>4
  <2> QED
    BY <2>1 DEF CheckpointsTrue
<1>6. Appending'
  <2>1. H' = H
    BY <1>1 DEF H
  <2> QED
    BY <1>1, <1>2, <1>3, <2>1 DEF BackedInv, Appending
<1> QED
  BY <1>3, <1>5, <1>6

\* A power loss leaves what the journal and stable storage hold.
LEMMA PowerLossBacked ==
    ASSUME BackedInv, PowerLoss
    PROVE  FileTypes' /\ CheckpointsTrue' /\ Appending'
<1>1. dir' = journal /\ file' = synced /\ UNCHANGED <<synced, journal, edits>> /\ hpc' = "idle"
  BY DEF PowerLoss, Fault, Forget, Servers
<1>2. FileTypes' /\ Appending'
  BY <1>1 DEF BackedInv, FileTypes, Appending, Placed
<1>3. ASSUME NEW u \in Conns
      PROVE  /\ Covered(dir, file, u)' /\ Covered(dir, synced, u)' /\ Covered(journal, synced, u)'
             /\ dir'.ckpt[u] # None /\ journal'.ckpt[u] # None =>
                    journal'.ckpt[u].bytes <= dir'.ckpt[u].bytes
  <2>1. Covered(journal, synced, u)
    BY DEF BackedInv, CheckpointsTrue
  <2>2. journal.ckpt[u] # None => journal.ckpt[u].bytes \in Nat
    BY CheckpointParts
  <2> QED
    BY <1>1, <2>1, <2>2 DEF Covered
<1> QED
  BY <1>2, <1>3 DEF CheckpointsTrue

\* The journal catches up with the directory.
LEMMA WriteBackBacked ==
    ASSUME BackedInv, WriteBack
    PROVE  FileTypes' /\ CheckpointsTrue' /\ Appending'
<1>1. journal' = dir /\ UNCHANGED <<dir, file, synced, request, hconn, hpc, cur, edits>>
  BY DEF WriteBack, netVars, handlerVars, dataVars, modelVars
<1>2. FileTypes'
  BY <1>1 DEF BackedInv, FileTypes
<1>3. ASSUME NEW u \in Conns
      PROVE  /\ Covered(dir, file, u)' /\ Covered(dir, synced, u)' /\ Covered(journal, synced, u)'
             /\ dir'.ckpt[u] # None /\ journal'.ckpt[u] # None =>
                    journal'.ckpt[u].bytes <= dir'.ckpt[u].bytes
  <2>1. Covered(dir, file, u) /\ Covered(dir, synced, u)
    BY DEF BackedInv, CheckpointsTrue
  <2>2. dir.ckpt[u] # None => dir.ckpt[u].bytes \in Nat
    BY CheckpointParts
  <2> QED
    BY <1>1, <2>1, <2>2 DEF Covered
<1>4. Appending'
  <2>1. H' = H
    BY <1>1 DEF H
  <2> QED
    BY <1>1, <2>1 DEF BackedInv, Appending
<1> QED
  BY <1>2, <1>3, <1>4 DEF CheckpointsTrue


\* The steps of a handler that write nothing.
LEMMA HandlerBackedKept ==
    ASSUME BackedInv, HandlerStep \/ HandlerAbort,
           ~(CreatePartial \/ WriteFirstCheckpoint \/ AdvanceCheckpoint \/ Resume
               \/ ReceiveFrame \/ SyncFrame \/ ReceiveFinal)
    PROVE  FileTypes' /\ CheckpointsTrue' /\ Appending'
<1>1. journal' = journal /\ edits' = edits /\ request' = request
  BY HandlerReach, HandlerFrameTypes DEF BackedInv
<1>2. dir \in NameSets
  BY DEF BackedInv, FramesInv, VerifiedInv, Shape, KrpTypes, DiskTypes
<1>3. CASE TransferNamesStay /\ (hpc' \in Placed => hpc \in Placed /\ H' = H /\ cur' = cur
                                  /\ hpc' \notin {"created", "synced"})
  BY <1>1, <1>3, BackedKept DEF TransferNamesStay, dataVars
<1>4. CASE \E n \in Conns : Accept(n) \/ DropQueued(n)
  <2>1. hpc' \notin Placed
    BY <1>4 DEF Accept, DropQueued, handlerVars, Placed
  <2> QED
    BY <1>3, <1>4, <2>1, QuietHandler
<1>5. CASE Reject \/ Acknowledge \/ ReachEndOfInput \/ HandlerAbort
  <2>1. hpc' \notin Placed
    BY <1>5 DEF Reject, Acknowledge, ReachEndOfInput, HandlerAbort, Leave, Placed
  <2> QED
    BY <1>3, <1>5, <2>1, QuietHandler
<1>6. CASE SendStatus \/ Rehash
  <2>1. hpc \in Placed /\ cur' = cur /\ hconn' = hconn /\ hpc' \notin {"created", "synced"}
    BY <1>6 DEF SendStatus, Rehash, Placed
  <2>2. H' = H
    BY <1>1, <2>1 DEF H
  <2> QED
    BY <1>3, <1>6, <2>1, <2>2, QuietHandler
<1>7. CASE Publish \/ DiscardPartial
  <2>1. /\ dir'.partial \subseteq dir.partial /\ dir'.ckpt = dir.ckpt
        /\ UNCHANGED <<file, synced>> /\ hpc' \notin Placed
    BY <1>2, <1>7 DEF Publish, DiscardPartial, dataVars, Placed, NameSets
  <2> QED
    BY <1>1, <2>1, BackedKept
<1>8. CASE RemoveCheckpoint \/ DiscardCheckpoint
  <2>1. /\ dir'.partial = dir.partial /\ dir'.ckpt = [dir.ckpt EXCEPT ![H.tid] = None]
        /\ UNCHANGED <<file, synced>> /\ hpc' \notin Placed
    BY <1>2, <1>8 DEF RemoveCheckpoint, DiscardCheckpoint, Leave, dataVars, Placed, NameSets
  <2>2. \A t \in Conns : dir'.ckpt[t] = dir.ckpt[t] \/ dir'.ckpt[t] = None
    BY <1>2, <2>1 DEF NameSets
  <2> QED
    BY <1>1, <2>1, <2>2, BackedKept
<1> QED
  BY <1>4, <1>5, <1>6, <1>7, <1>8 DEF HandlerStep

LEMMA BackedStep == BackedInv /\ [Next]_vars => BackedInv'
<1> SUFFICES ASSUME BackedInv, [Next]_vars
             PROVE  BackedInv'
  OBVIOUS
<1>1. FramesInv' /\ Shape /\ FrameTypes
  BY FramesStep DEF BackedInv, FramesInv, VerifiedInv
<1>2. CASE /\ TransferNamesStay /\ (edits' = edits \/ edits' # 0)
           /\ hpc' \in Placed => hpc' = hpc /\ H' = H /\ cur' = cur
  <2>1. FileTypes' /\ CheckpointsTrue' /\ Appending'
    BY <1>2, BackedKept DEF TransferNamesStay, dataVars
  <2> QED
    BY <1>1, <2>1 DEF BackedInv
<1>3. ASSUME NEW c \in Clients, ClientMoves(c)
      PROVE  BackedInv'
  <2>1. TransferNamesStay /\ hpc' = hpc /\ cur' = cur
    BY <1>1, <1>3, ClientReach DEF TransferNamesStay, handlerVars, nameVars
  <2>2. hpc # "idle" => H' = H
    BY <1>1, <1>3, ClientShape
  <2>3. edits' = edits \/ edits' # 0
    <3>1. CASE EditSource(c)
      BY <1>1, <3>1 DEF EditSource, FrameTypes
    <3>2. CASE Hash(c) \/ Connect(c) \/ ReceiveStatus(c) \/ SendFrame(c) \/ SendFinal(c) \/ ReceiveAck(c)
      BY <3>2 DEF Hash, Connect, ReceiveStatus, SendFrame, SendFinal, ReceiveAck, modelVars
    <3>3. CASE RefuseChangedSource(c) \/ AbandonFrame(c) \/ ReceiveEnd(c) \/ ClientAbort(c)
      BY <3>3 DEF RefuseChangedSource, AbandonFrame, ReceiveEnd, ClientAbort, Fault, modelVars
    <3> QED
      BY <1>3, <3>1, <3>2, <3>3 DEF ClientMoves, ClientStep
  <2> QED
    BY <1>2, <2>1, <2>2, <2>3 DEF Placed
<1>4. CASE HandlerStep \/ HandlerAbort
  BY <1>1, <1>4, HandlerBackedKept, CreatePartialBacked, CheckpointBackedStep, ResumeBacked,
     FrameBacked, SyncBacked DEF BackedInv
<1>5. ASSUME NEW s \in Servers, SecretStep(s) \/ ServerCrash(s)
      PROVE  BackedInv'
  <2>1. edits' = edits /\ cur' = cur /\ request' = request
    BY <1>5 DEF SecretStep, FindSecret, ReadSecret, RefuseSecret, CreateSecret, LoseSecretRace,
       WriteSecret, SyncSecret, FailSecret, ServerCrash, Fault, modelVars, handlerVars, netVars
  <2>2. TransferNamesStay
    BY <1>1, <1>5, SecretReach DEF ServerCrash, TransferNamesStay, nameVars
  <2>3. HandlerStays \/ hpc' = "idle"
    BY <1>1, <1>5, SecretReach, FaultShape DEF Leave
  <2> QED
    BY <1>2, <2>1, <2>2, <2>3 DEF HandlerStays, H, Placed
<1>6. CASE PowerLoss
  BY <1>1, <1>6, PowerLossBacked DEF BackedInv
<1>7. CASE WriteBack
  BY <1>1, <1>7, WriteBackBacked DEF BackedInv
<1>8. CASE UNCHANGED vars
  BY <1>2, <1>8 DEF vars, netVars, handlerVars, dataVars, nameVars, modelVars, TransferNamesStay, H
<1> QED
  BY <1>3, <1>4, <1>5, <1>6, <1>7, <1>8 DEF Next, ClientMoves

\* No power loss takes back bytes that a checkpoint covers, whether it leaves
\* the names as they are or as the journal has them; and unless a source was
\* edited they are the bytes that were announced.  The handler appends past
\* every checkpoint and syncs before it moves one; the journal's is never
\* ahead, so a cut at the newer one spares it.
THEOREM CheckpointsStand == Spec => []CheckpointBacked
<1>1. Init => BackedInv
  BY InitBacked
<1>2. BackedInv /\ [Next]_vars => BackedInv'
  BY BackedStep
<1>3. BackedInv => CheckpointBacked
  BY BackedCheckpoints
<1> QED
  BY <1>1, <1>2, <1>3, PTL DEF Spec
-----------------------------------------------------------------------------
(* What the transfer promises: the steps seen from outside. *)

\* An acknowledgement is for a transfer that has been delivered.
AckTrue(m) == m.kind = "ack" => m.tid \in delivered /\ m.digest = request[m.tid].digest

AcksTrue == \A n \in Conns : \A i \in 1 .. Len(down[n]) : AckTrue(down[n][i])

\* The handler has published before it says so, and will find the place free.
Publishing ==
    /\ hpc \in {"published", "cleared"} => H.tid \in delivered
    /\ hpc \in Placed => dir.dest = None \/ Overwrite

\* A call has announced what it hashed.
Announced == \A c \in Clients : cpc[c] \in Calling => digest[c] = request[conn[c]].digest

DeliveryInv ==
    VerifiedInv /\ delivered \subseteq Used /\ AcksTrue /\ Publishing /\ Announced

LEMMA InitDelivery == Init => DeliveryInv
<1> SUFFICES ASSUME Init
             PROVE  DeliveryInv
  OBVIOUS
<1>1. VerifiedInv
  BY InitVerified
<1>2. delivered \subseteq Used /\ AcksTrue
  BY DEF Init, AcksTrue
<1>3. Publishing /\ Announced
  BY DEF Init, Publishing, Announced, Placed, Calling
<1> QED
  BY <1>1, <1>2, <1>3 DEF DeliveryInv

\* Only the rename delivers.
LEMMA DeliveredChange ==
    ASSUME Next
    PROVE  delivered' = delivered \/ (Publish /\ delivered' = delivered \cup {H.tid})
<1> USE DEF modelVars, Fault
<1>1. ASSUME NEW c \in Clients, ClientStep(c)
      PROVE  delivered' = delivered
  BY <1>1 DEF ClientStep, Hash, Connect, RefuseChangedSource, ReceiveStatus, SendFrame,
     AbandonFrame, SendFinal, ReceiveAck, ReceiveEnd
<1>2. ASSUME NEW c \in Clients, ClientAbort(c) \/ EditSource(c)
      PROVE  delivered' = delivered
  BY <1>2 DEF ClientAbort, EditSource
<1>3. ASSUME NEW s \in Servers, SecretStep(s) \/ ServerCrash(s)
      PROVE  delivered' = delivered
  BY <1>3 DEF SecretStep, FindSecret, ReadSecret, RefuseSecret, CreateSecret, LoseSecretRace,
     WriteSecret, SyncSecret, FailSecret, ServerCrash
<1>4. CASE \E n \in Conns : Accept(n) \/ DropQueued(n)
  BY <1>4 DEF Accept, DropQueued
<1>5. CASE CreatePartial \/ WriteFirstCheckpoint \/ Resume \/ Reject \/ SendStatus
  BY <1>5 DEF CreatePartial, WriteFirstCheckpoint, Resume, Reject, SendStatus
<1>6. CASE ReceiveFrame \/ SyncFrame \/ AdvanceCheckpoint \/ ReceiveFinal \/ Rehash
  BY <1>6 DEF ReceiveFrame, SyncFrame, AdvanceCheckpoint, ReceiveFinal, Rehash
<1>7. CASE Publish
  BY <1>7 DEF Publish
<1>8. CASE RemoveCheckpoint \/ Acknowledge \/ DiscardPartial \/ DiscardCheckpoint \/ ReachEndOfInput
  BY <1>8 DEF RemoveCheckpoint, Acknowledge, DiscardPartial, DiscardCheckpoint, ReachEndOfInput
<1>9. CASE HandlerAbort \/ PowerLoss \/ WriteBack
  BY <1>9 DEF HandlerAbort, PowerLoss, WriteBack
<1> QED
  BY <1>1, <1>2, <1>3, <1>4, <1>5, <1>6, <1>7, <1>8, <1>9 DEF Next, HandlerStep

\* Handlers leave the destination to the rename.
LEMMA HandlerDest ==
    ASSUME Shape, HandlerStep \/ HandlerAbort, ~Publish
    PROVE  dir'.dest = dir.dest
<1>1. dir \in NameSets
  BY DEF Shape, KrpTypes, DiskTypes
<1>2. CASE CreatePartial \/ WriteFirstCheckpoint \/ AdvanceCheckpoint
  BY <1>1, <1>2 DEF CreatePartial, WriteFirstCheckpoint, AdvanceCheckpoint, NameSets
<1>3. CASE RemoveCheckpoint \/ DiscardPartial \/ DiscardCheckpoint
  BY <1>1, <1>3 DEF RemoveCheckpoint, DiscardPartial, DiscardCheckpoint, NameSets
<1>4. CASE Resume \/ ReceiveFrame \/ SyncFrame \/ ReceiveFinal
  BY <1>4 DEF Resume, ReceiveFrame, SyncFrame, ReceiveFinal, nameVars
<1>5. CASE Reject \/ SendStatus \/ Rehash
  BY <1>5 DEF Reject, SendStatus, Rehash, nameVars
<1>6. CASE Acknowledge \/ ReachEndOfInput \/ HandlerAbort
  BY <1>6 DEF Acknowledge, ReachEndOfInput, HandlerAbort, nameVars
<1>7. CASE \E n \in Conns : Accept(n) \/ DropQueued(n)
  BY <1>7 DEF Accept, DropQueued, nameVars
<1> QED
  BY <1>2, <1>3, <1>4, <1>5, <1>6, <1>7 DEF HandlerStep

\* Steps of others leave the handler where it is, or end it.
Bystander == hpc' = "idle" \/ (HandlerStays /\ (hpc # "idle" => H' = H))

LEMMA OthersStand ==
    ASSUME VerifiedInv, Next
    PROVE  \/ HandlerStep \/ HandlerAbort
           \/ PowerLoss /\ hpc' = "idle"
           \/ Bystander /\ dir'.dest = dir.dest
<1>1. CASE \E c \in Clients : ClientMoves(c)
  BY <1>1, ClientShape, ClientReach DEF VerifiedInv, Bystander, HandlerStays, handlerVars, nameVars
<1>2. CASE \E s \in Servers : SecretStep(s)
  <2>1. UNCHANGED request /\ (HandlerStays \/ hpc' = "idle") /\ dir'.dest = dir.dest
    BY <1>2, SecretReach DEF VerifiedInv, Leave, TransferNamesStay
  <2> QED
    BY <2>1 DEF Bystander, HandlerStays, H
<1>3. CASE \E s \in Servers : ServerCrash(s)
  <2>1. UNCHANGED request /\ (HandlerStays \/ hpc' = "idle")
    BY <1>3, FaultShape DEF VerifiedInv
  <2>2. dir' = dir
    BY <1>3 DEF ServerCrash, nameVars
  <2> QED
    BY <2>1, <2>2 DEF Bystander, HandlerStays, H
<1>4. CASE PowerLoss
  BY <1>4 DEF PowerLoss, Forget, Servers
<1>5. CASE WriteBack
  BY <1>5 DEF WriteBack, Bystander, HandlerStays, H, netVars, handlerVars
<1> QED
  BY <1>1, <1>2, <1>3, <1>4, <1>5 DEF Next, ClientMoves

LEMMA PublishingStep ==
    ASSUME DeliveryInv, Next
    PROVE  Publishing'
<1>1. VerifiedInv /\ Shape /\ Publishing /\ delivered \subseteq delivered'
  BY DeliveredChange DEF DeliveryInv, VerifiedInv
<1>2. CASE hpc' \in {"idle", "accepted"}
  BY <1>2 DEF Publishing, Placed
<1>3. CASE Bystander /\ dir'.dest = dir.dest /\ hpc' # "idle"
  BY <1>1, <1>3 DEF Bystander, HandlerStays, Publishing, Placed
<1>4. CASE (HandlerStep \/ HandlerAbort) /\ hpc' \notin {"idle", "accepted"}
  <2>1. CASE \E n \in Conns : Accept(n) \/ DropQueued(n)
    BY <1>1, <1>4, <2>1 DEF Accept, DropQueued, handlerVars
  <2>2. CASE ~\E n \in Conns : Accept(n) \/ DropQueued(n)
    <3>1. GoesOn /\ H' = H
      BY <1>1, <1>4, <2>2, HandlerCourse, HandlerShape DEF LeavesFor, Leave
    <3>2. hpc' = "published" => H.tid \in delivered'
      <4>1. hpc' = "published" => Publish
        BY <1>4, <2>2 DEF HandlerStep, CreatePartial, WriteFirstCheckpoint, Resume, Reject,
           SendStatus, ReceiveFrame, SyncFrame, AdvanceCheckpoint, ReceiveFinal, Rehash,
           RemoveCheckpoint, Acknowledge, DiscardPartial, DiscardCheckpoint, ReachEndOfInput,
           HandlerAbort, Leave
      <4> QED
        BY <4>1 DEF Publish
    <3>3. hpc' = "cleared" => hpc = "published"
      BY <1>4, <2>2 DEF HandlerStep, CreatePartial, WriteFirstCheckpoint, Resume, Reject,
         SendStatus, ReceiveFrame, SyncFrame, AdvanceCheckpoint, ReceiveFinal, Rehash, Publish,
         RemoveCheckpoint, Acknowledge, DiscardPartial, DiscardCheckpoint, ReachEndOfInput,
         HandlerAbort, Leave
    <3>4. hpc' \in Placed => hpc \in Placed \/ ~Taken
      <4>1. CASE CreatePartial \/ Resume
        BY <4>1 DEF CreatePartial, Resume, NewAllowed, Leave, Placed
      <4>2. CASE ~(CreatePartial \/ Resume)
        BY <1>4, <2>2, <4>2 DEF HandlerStep, WriteFirstCheckpoint, Reject, SendStatus, ReceiveFrame,
           FrameIn, SyncFrame, AdvanceCheckpoint, ReceiveFinal, Rehash, Publish, RemoveCheckpoint,
           Acknowledge, DiscardPartial, DiscardCheckpoint, ReachEndOfInput, HandlerAbort, Leave,
           Placed
      <4> QED
        BY <4>1, <4>2
    <3>5. hpc' \in Placed => dir'.dest = None \/ Overwrite
      BY <1>1, <1>4, <3>4, HandlerDest DEF Publishing, Taken, Publish, Placed
    <3> QED
      BY <1>1, <3>1, <3>2, <3>3, <3>5 DEF Publishing
  <2> QED
    BY <2>1, <2>2
<1> QED
  BY <1>1, <1>2, <1>3, <1>4, OthersStand

\* An acknowledgement stays true.
LEMMA AckStays ==
    ASSUME DeliveryInv, Next, NEW m, AckTrue(m)
    PROVE  AckTrue(m)'
<1>1. /\ delivered \subseteq delivered' /\ delivered \subseteq Used
      /\ \A n \in Used : request'[n] = request[n]
  BY DeliveredChange, HeadersStay DEF DeliveryInv
<1> QED
  BY <1>1 DEF AckTrue

\* What comes to the answers: a status, or the acknowledgement of the transfer
\* that is served.
LEMMA DownCases ==
    ASSUME VerifiedInv, Next, NEW n \in Conns
    PROVE  \/ down'[n] = down[n]
           \/ down[n] # <<>> /\ down'[n] = Tail(down[n])
           \/ \E i, b, k : down'[n] = Append(down[n], Status(i, b, k))
           \/ Acknowledge /\ down'[n] = Append(down[n], Ack(H.digest, H.tid))
<1>1. /\ down \in [Conns -> Seq(DownMsgs)]
      /\ \A b \in Clients : cpc[b] \in Calling => conn[b] \in Conns
  BY DEF VerifiedInv, Shape, KrpTypes, NetTypes, Connected, Used
<1>2. ASSUME NEW c \in Clients, ReceiveStatus(c) \/ ReceiveAck(c)
      PROVE  down'[n] = down[n] \/ (down[n] # <<>> /\ down'[n] = Tail(down[n]))
  BY <1>1, <1>2 DEF ReceiveStatus, ReceiveAck, Calling
<1>3. ASSUME NEW c \in Clients, ClientMoves(c), ~ReceiveStatus(c), ~ReceiveAck(c)
      PROVE  down' = down
  BY <1>3 DEF ClientMoves, ClientStep, Hash, Connect, RefuseChangedSource, SendFrame,
     AbandonFrame, SendFinal, ReceiveEnd, ClientAbort, EditSource, netVars
<1>4. CASE \E s \in Servers : SecretStep(s)
  BY <1>4, SecretReach DEF VerifiedInv
<1>5. CASE SendStatus
  BY <1>1, <1>5 DEF SendStatus
<1>6. CASE Acknowledge
  BY <1>1, <1>6 DEF Acknowledge
<1>7. CASE \E m \in Conns : Accept(m) \/ DropQueued(m)
  BY <1>7 DEF Accept, DropQueued, netVars
<1>8. CASE CreatePartial \/ WriteFirstCheckpoint \/ Resume \/ Reject \/ ReceiveFrame \/ SyncFrame
  BY <1>8 DEF CreatePartial, WriteFirstCheckpoint, Resume, Reject, ReceiveFrame, SyncFrame, netVars
<1>9. CASE AdvanceCheckpoint \/ ReceiveFinal \/ Rehash \/ Publish \/ RemoveCheckpoint
  BY <1>9 DEF AdvanceCheckpoint, ReceiveFinal, Rehash, Publish, RemoveCheckpoint, netVars
<1>10. CASE DiscardPartial \/ DiscardCheckpoint \/ ReachEndOfInput \/ HandlerAbort
  BY <1>10 DEF DiscardPartial, DiscardCheckpoint, ReachEndOfInput, HandlerAbort, netVars
<1>11. CASE PowerLoss \/ WriteBack \/ \E s \in Servers : ServerCrash(s)
  BY <1>11 DEF PowerLoss, WriteBack, ServerCrash, netVars
<1> QED
  BY <1>2, <1>3, <1>4, <1>5, <1>6, <1>7, <1>8, <1>9, <1>10, <1>11
     DEF Next, HandlerStep, ClientMoves

LEMMA AcksStep ==
    ASSUME DeliveryInv, Next
    PROVE  AcksTrue'
<1>a. SUFFICES ASSUME NEW n \in Conns
               PROVE  \A i \in 1 .. Len(down'[n]) : AckTrue(down[n][i])'
  BY DEF AcksTrue
<1>1. PICK q \in Seq(DownMsgs) : q = down[n] /\ \A i \in 1 .. Len(q) : AckTrue(q[i])
  BY DEF DeliveryInv, AcksTrue, VerifiedInv, Shape, KrpTypes, NetTypes
<1>2. PICK r : r = down'[n]
  OBVIOUS
<1>3. \A i \in 1 .. Len(r) :
          (\E j \in 1 .. Len(q) : r[i] = q[j]) \/ AckTrue(r[i])
  <2>1. CASE r = q
    BY <2>1
  <2>2. CASE q # <<>> /\ r = Tail(q)
    <3>1. \A i \in 1 .. Len(r) : i + 1 \in 1 .. Len(q) /\ r[i] = q[i + 1]
      BY <2>2
    <3> QED
      BY <3>1
  <2>3. ASSUME NEW m, AckTrue(m), r = Append(q, m)
        PROVE  \A i \in 1 .. Len(r) :
                   (\E j \in 1 .. Len(q) : r[i] = q[j]) \/ AckTrue(r[i])
    <3>1. \A i \in 1 .. Len(r) : r[i] = m \/ (i \in 1 .. Len(q) /\ r[i] = q[i])
      BY <2>3
    <3> QED
      BY <2>3, <3>1
  <2>4. ASSUME NEW i, NEW b, NEW k
        PROVE  AckTrue(Status(i, b, k))
    BY DEF AckTrue, Status
  <2>5. ASSUME Acknowledge
        PROVE  AckTrue(Ack(H.digest, H.tid))
    <3>1. hpc = "cleared" /\ hpc # "idle" /\ Decided
      BY <2>5 DEF Acknowledge, Decided
    <3>2. H.tid \in delivered /\ H.digest = request[H.tid].digest
      BY <3>1, ServedTransfer DEF DeliveryInv, Publishing
    <3> QED
      BY <3>2 DEF AckTrue, Ack
  <2> QED
    BY <1>1, <1>2, <2>1, <2>2, <2>3, <2>4, <2>5, DownCases DEF DeliveryInv
<1>4. \A i \in 1 .. Len(r) : AckTrue(r[i])
  BY <1>1, <1>3
<1>5. ASSUME NEW i \in 1 .. Len(down'[n])
      PROVE  AckTrue(down[n][i])'
  <2>1. PICK m : m = r[i] /\ AckTrue(m)
    BY <1>2, <1>4
  <2>2. AckTrue(m)'
    BY <2>1, AckStays
  <2> QED
    BY <1>2, <2>1, <2>2 DEF AckTrue
<1> QED
  BY <1>5

LEMMA AnnouncedStep ==
    ASSUME DeliveryInv, Next
    PROVE  Announced'
<1>1. /\ VerifiedInv /\ Announced
      /\ cpc \in [Clients -> {"idle", "hashed", "done"} \cup Calling]
      /\ digest \in [Clients -> Seq(Nat)] /\ conn \in [Clients -> Conns \cup {None}]
      /\ \A b \in Clients : cpc[b] \in Calling => conn[b] \in Used
      /\ \A n \in Used : request'[n] = request[n]
  BY HeadersStay DEF DeliveryInv, VerifiedInv, Shape, KrpTypes, ClientTypes, Connected
<1>2. ASSUME \A b \in Clients : cpc'[b] \in Calling =>
                 cpc[b] \in Calling /\ conn'[b] = conn[b] /\ digest'[b] = digest[b]
      PROVE  Announced'
  BY <1>1, <1>2 DEF Announced
<1>3. ASSUME NEW c \in Clients, Connect(c)
      PROVE  Announced'
  <2>1. PICK n \in Conns \ Used : /\ request' = [request EXCEPT ![n] = RequestOn(c, n)]
                                  /\ conn' = [conn EXCEPT ![c] = n]
    BY <1>3 DEF Connect
  <2>2. cpc' = [cpc EXCEPT ![c] = "waiting"] /\ digest' = digest
    BY <1>3 DEF Connect
  <2>3. request'[n].digest = digest[c]
    <3>1. request'[n] = RequestOn(c, n)
      BY <2>1 DEF DeliveryInv, VerifiedInv, Shape, KrpTypes, NetTypes
    <3> QED
      BY <3>1 DEF RequestOn
  <2>4. ASSUME NEW b \in Clients, cpc'[b] \in Calling
        PROVE  digest'[b] = request'[conn'[b]].digest
    <3>1. CASE b = c
      BY <1>1, <2>1, <2>2, <2>3, <3>1
    <3>2. CASE b # c
      BY <1>1, <2>1, <2>2, <2>4, <3>2 DEF Announced
    <3> QED
      BY <3>1, <3>2
  <2> QED
    BY <2>4 DEF Announced
<1>4. ASSUME NEW c \in Clients, ClientMoves(c), ~Connect(c)
      PROVE  Announced'
  <2>1. CASE Hash(c) \/ RefuseChangedSource(c) \/ ReceiveAck(c) \/ ReceiveEnd(c) \/ AbandonFrame(c)
    BY <1>1, <1>2, <2>1 DEF Hash, RefuseChangedSource, ReceiveAck, ReceiveEnd, AbandonFrame, Give,
       Calling
  <2>2. CASE ReceiveStatus(c) \/ SendFrame(c) \/ SendFinal(c)
    BY <1>1, <1>2, <2>2 DEF ReceiveStatus, SendFrame, SendFinal, Calling
  <2>3. CASE ClientAbort(c) \/ EditSource(c)
    BY <1>1, <1>2, <2>3 DEF ClientAbort, EditSource, Give, Calling
  <2> QED
    BY <1>4, <2>1, <2>2, <2>3 DEF ClientMoves, ClientStep
<1>5. CASE UNCHANGED clientVars
  BY <1>2, <1>5 DEF clientVars
<1>6. CASE \E s \in Servers : SecretStep(s)
  BY <1>1, <1>5, <1>6, SecretReach DEF VerifiedInv
<1>7. CASE HandlerStep \/ HandlerAbort
  BY <1>5, <1>7, HandlerReach
<1>8. CASE PowerLoss \/ WriteBack \/ \E s \in Servers : ServerCrash(s)
  BY <1>5, <1>8 DEF PowerLoss, WriteBack, ServerCrash
<1> QED
  BY <1>3, <1>4, <1>6, <1>7, <1>8 DEF Next, ClientMoves

LEMMA DeliveryStep == DeliveryInv /\ [Next]_vars => DeliveryInv'
<1> SUFFICES ASSUME DeliveryInv, [Next]_vars
             PROVE  DeliveryInv'
  OBVIOUS
<1>1. VerifiedInv'
  BY VerifiedStep DEF DeliveryInv
<1>2. CASE Next
  <2>1. delivered' \subseteq Used'
    <3>1. Used \subseteq Used'
      BY <1>2, HeadersStay DEF DeliveryInv
    <3>2. Publish => H.tid \in Used
      BY ServedTransfer DEF DeliveryInv, Publish, Decided, Begun
    <3> QED
      BY <1>2, <3>1, <3>2, DeliveredChange DEF DeliveryInv
  <2> QED
    BY <1>1, <1>2, <2>1, AcksStep, PublishingStep, AnnouncedStep DEF DeliveryInv
<1>3. CASE UNCHANGED vars
  <2>1. UNCHANGED <<cpc, conn, digest, request, down, hpc, hconn, dir, delivered>>
    BY <1>3 DEF vars, clientVars, netVars, handlerVars, nameVars, modelVars
  <2>2. Used' = Used /\ H' = H
    BY <2>1 DEF Used, H
  <2>3. AcksTrue'
    BY <2>1 DEF DeliveryInv, AcksTrue, AckTrue
  <2> QED
    BY <1>1, <2>1, <2>2, <2>3 DEF DeliveryInv, Publishing, Announced
<1> QED
  BY <1>2, <1>3

\* What is visible of the transfer.
Offers     == {request[n].digest : n \in Used}
Deliveries == {request[t].digest : t \in delivered}
PlaceOf(d) == IF d.dest = None THEN None ELSE file[d.dest]
Receipt    == [c \in Clients |-> IF cpc[c] = "done" THEN digest[c] ELSE None]
Places     == <<PlaceOf(dir), PlaceOf(journal)>>

\* What a step may look like from outside.
Visible ==
    \/ UNCHANGED <<Offers, Deliveries, Places, Receipt>>
    \/ (UNCHANGED <<Deliveries, Places, Receipt>> /\ \E d \in Offers' : Offers' = Offers \cup {d})
    \/ (UNCHANGED <<Offers, Receipt, PlaceOf(journal)>>
          /\ \E d \in Offers : /\ PlaceOf(dir) = None \/ Overwrite
                               /\ PlaceOf(dir)' = d /\ Deliveries' = Deliveries \cup {d})
    \/ (UNCHANGED <<Offers, Deliveries, Places>>
          /\ \E c \in Clients : \/ Receipt' = [Receipt EXCEPT ![c] = None]
                                \/ \E d \in Deliveries : Receipt' = [Receipt EXCEPT ![c] = d])
    \/ (UNCHANGED <<Offers, Deliveries, PlaceOf(dir), Receipt>>
          /\ PlaceOf(journal)' = PlaceOf(dir))
    \/ (UNCHANGED <<Offers, Deliveries, PlaceOf(journal), Receipt>>
          /\ PlaceOf(dir)' = PlaceOf(journal))

LEMMA InitAbstract == Init => Abstract!DeliveryInit
<1> SUFFICES ASSUME Init
             PROVE  Abstract!DeliveryInit
  OBVIOUS
<1>1. Used = {} /\ delivered = {} /\ dir.dest = None /\ journal.dest = None
  BY DEF Init, Used, NoNames
<1>2. \A c \in Clients : cpc[c] # "done"
  BY DEF Init
<1> QED
  BY <1>1, <1>2 DEF Abstract!DeliveryInit, Abstract!Init

\* A file that is at the destination, or was when the names were last written
\* back, does not change.
LEMMA PublishedStays ==
    ASSUME VerifiedInv, VerifiedInv', Next, NEW t \in Conns,
           dir.dest = t \/ journal.dest = t, dir'.dest = t \/ journal'.dest = t
    PROVE  file'[t] = file[t]
<1>1. t # None
  BY KrpConstants DEF Conns
<1>2. t \in Used /\ file[t] = request[t].digest
  BY <1>1 DEF VerifiedInv, NamesTrue, Named, Begun
<1>3. file'[t] = request'[t].digest
  BY <1>1 DEF VerifiedInv, NamesTrue
<1> QED
  BY <1>2, <1>3, HeadersStay

LEMMA PlacesStay ==
    ASSUME VerifiedInv, VerifiedInv', Next
    PROVE  /\ dir'.dest = dir.dest => PlaceOf(dir)' = PlaceOf(dir)
           /\ journal'.dest = journal.dest => PlaceOf(journal)' = PlaceOf(journal)
           /\ dir'.dest = journal.dest => PlaceOf(dir)' = PlaceOf(journal)
           /\ journal'.dest = dir.dest => PlaceOf(journal)' = PlaceOf(dir)
<1>1. dir.dest \in Conns \cup {None} /\ journal.dest \in Conns \cup {None}
  BY DEF VerifiedInv, Shape, KrpTypes, DiskTypes, NameSets
<1> QED
  BY <1>1, PublishedStays DEF PlaceOf

LEMMA DeliveriesStay ==
    ASSUME DeliveryInv, Next, delivered' = delivered
    PROVE  Deliveries' = Deliveries
<1>1. \A t \in delivered : request'[t] = request[t]
  BY HeadersStay DEF DeliveryInv
<1> QED
  BY <1>1 DEF Deliveries

\* Clients offer what they hashed, and take receipts for what was delivered.
LEMMA ClientVisible ==
    ASSUME DeliveryInv, VerifiedInv', Next, NEW c \in Clients, ClientMoves(c)
    PROVE  Visible
<1>1. /\ VerifiedInv /\ UNCHANGED nameVars
      /\ request \in [Conns -> Headers \cup {None}] /\ digest \in [Clients -> Seq(Nat)]
      /\ cpc \in [Clients -> {"idle", "hashed", "done"} \cup Calling]
      /\ down \in [Conns -> Seq(DownMsgs)]
  BY ClientReach DEF DeliveryInv, VerifiedInv, Shape, KrpTypes, ClientTypes, NetTypes
<1>2. UNCHANGED Places
  BY <1>1, PlacesStay DEF Places, nameVars
<1>3. UNCHANGED Deliveries
  <2>1. ~Publish
    BY <1>1, ClientReach DEF Publish, VerifiedInv, handlerVars
  <2> QED
    BY <2>1, DeliveredChange, DeliveriesStay
<1>4. CASE Connect(c)
  <2>1. PICK n \in Conns \ Used : /\ request' = [request EXCEPT ![n] = RequestOn(c, n)]
                                  /\ conn' = [conn EXCEPT ![c] = n]
    BY <1>4 DEF Connect
  <2>2. PICK h : h = RequestOn(c, n) /\ h # None
    <3>1. request'[n] = RequestOn(c, n)
      BY <1>1, <2>1
    <3>2. conn'[c] = n /\ cpc'[c] = "waiting"
      BY <1>1, <1>4, <2>1 DEF Connect, VerifiedInv, Shape, KrpTypes, ClientTypes
    <3>3. n \in Used'
      BY <1>1, <2>1, ClientReach, ClientShape, <3>2 DEF VerifiedInv, Shape, Connected, Calling
    <3> QED
      BY <3>1, <3>3 DEF Used
  <2>3. request[n] = None /\ request'[n] = h /\ \A m \in Conns \ {n} : request'[m] = request[m]
    BY <1>1, <2>1, <2>2 DEF Used
  <2>4. Offers' = Offers \cup {h.digest} /\ h.digest \in Offers'
    BY <2>2, <2>3 DEF Offers, Used
  <2>5. UNCHANGED Receipt
    <3>1. cpc[c] = "hashed" /\ cpc' = [cpc EXCEPT ![c] = "waiting"] /\ digest' = digest
      BY <1>4 DEF Connect
    <3> QED
      BY <1>1, <3>1 DEF Receipt
  <2> QED
    BY <1>2, <1>3, <2>4, <2>5 DEF Visible
<1>5. CASE ReceiveAck(c)
  <2>1. /\ cpc[c] = "finishing" /\ cpc' = [cpc EXCEPT ![c] = "done"]
        /\ UNCHANGED <<digest, request>>
    BY <1>5 DEF ReceiveAck
  <2>2. PICK n \in Conns : n = conn[c] /\ digest[c] = request[n].digest
    BY <2>1 DEF DeliveryInv, Announced, VerifiedInv, Shape, Connected, Calling, Used
  <2>3. PICK m : /\ m = Head(down[n]) /\ down[n] # <<>>
                 /\ m.kind = "ack" /\ m.digest = request[n].digest
    BY <1>5, <2>2 DEF ReceiveAck
  <2>4. m = down[n][1] /\ 1 \in 1 .. Len(down[n])
    BY <1>1, <2>3
  <2>5. m.tid \in delivered /\ m.digest = request[m.tid].digest
    BY <2>3, <2>4 DEF DeliveryInv, AcksTrue, AckTrue
  <2>6. digest[c] \in Deliveries
    BY <2>2, <2>3, <2>5 DEF Deliveries
  <2>7. UNCHANGED Offers /\ Receipt' = [Receipt EXCEPT ![c] = digest[c]]
    BY <1>1, <2>1 DEF Offers, Used, Receipt
  <2> QED
    BY <1>2, <1>3, <2>6, <2>7 DEF Visible
<1>6. CASE Hash(c)
  <2>1. /\ digest' = [digest EXCEPT ![c] = source[c]] /\ cpc' = [cpc EXCEPT ![c] = "hashed"]
        /\ UNCHANGED request
    BY <1>6 DEF Hash, netVars
  <2>2. UNCHANGED Offers /\ Receipt' = [Receipt EXCEPT ![c] = None]
    BY <1>1, <2>1 DEF Offers, Used, Receipt
  <2> QED
    BY <1>2, <1>3, <2>2 DEF Visible
<1>7. CASE RefuseChangedSource(c) \/ ReceiveStatus(c) \/ SendFrame(c) \/ AbandonFrame(c)
             \/ SendFinal(c) \/ ReceiveEnd(c) \/ ClientAbort(c) \/ EditSource(c)
  <2>1. /\ request' = request /\ digest' = digest
        /\ \A d \in Clients : cpc'[d] = "done" <=> cpc[d] = "done"
    BY <1>1, <1>7 DEF RefuseChangedSource, ReceiveStatus, SendFrame, AbandonFrame, SendFinal,
       ReceiveEnd, ClientAbort, EditSource, Give, netVars
  <2>2. UNCHANGED <<Offers, Receipt>>
    BY <2>1 DEF Offers, Used, Receipt
  <2> QED
    BY <1>2, <1>3, <2>2 DEF Visible
<1> QED
  BY <1>4, <1>5, <1>6, <1>7 DEF ClientMoves, ClientStep

\* The rename delivers what was offered and hashed again.
LEMMA PublishVisible ==
    ASSUME DeliveryInv, VerifiedInv', Next, Publish
    PROVE  Visible
<1>1. /\ VerifiedInv /\ hpc = "verified" /\ Decided /\ hpc \in Placed
      /\ UNCHANGED <<request, cpc, digest, file, journal>>
  BY DEF DeliveryInv, Publish, Decided, Placed, clientVars, netVars, dataVars
<1>2. PICK t \in Conns : t = H.tid /\ t \in Used /\ t # None /\ H.digest = request[t].digest
  BY <1>1, ServedTransfer DEF Begun
<1>3. file[t] = request[t].digest
  BY <1>1, <1>2 DEF VerifiedInv, Serving
<1>4. dir'.dest = t /\ delivered' = delivered \cup {t}
  BY <1>1, <1>2 DEF Publish, VerifiedInv, Shape, KrpTypes, DiskTypes, NameSets
<1>5. PlaceOf(dir) = None \/ Overwrite
  BY <1>1 DEF DeliveryInv, Publishing, PlaceOf
<1>6. PlaceOf(dir)' = request[t].digest /\ PlaceOf(journal)' = PlaceOf(journal)
  BY <1>1, <1>2, <1>3, <1>4 DEF PlaceOf
<1>7. request[t].digest \in Offers /\ UNCHANGED <<Offers, Receipt>>
  BY <1>1, <1>2 DEF Offers, Used, Receipt
<1>8. Deliveries' = Deliveries \cup {request[t].digest}
  BY <1>1, <1>4 DEF Deliveries
<1> QED
  BY <1>5, <1>6, <1>7, <1>8 DEF Visible

LEMMA VisibleStep ==
    ASSUME DeliveryInv, VerifiedInv', Next
    PROVE  Visible
<1>1. CASE \E c \in Clients : ClientMoves(c)
  BY <1>1, ClientVisible
<1>2. CASE Publish
  BY <1>2, PublishVisible
<1>3. ASSUME UNCHANGED <<request, cpc, digest>>, ~Publish
      PROVE  UNCHANGED <<Offers, Deliveries, Receipt>>
  BY <1>3, DeliveredChange, DeliveriesStay DEF Offers, Used, Receipt
<1>4. CASE (HandlerStep \/ HandlerAbort) /\ ~Publish
  <2>1. UNCHANGED <<request, cpc, digest>> /\ journal' = journal /\ dir'.dest = dir.dest
    BY <1>4, HandlerReach, HandlerDest DEF clientVars, DeliveryInv, VerifiedInv
  <2> QED
    BY <1>3, <1>4, <2>1, PlacesStay DEF Visible, Places, DeliveryInv
<1>5. CASE (\E s \in Servers : SecretStep(s) \/ ServerCrash(s)) /\ ~Publish
  <2>1. UNCHANGED <<request, cpc, digest>> /\ journal' = journal /\ dir'.dest = dir.dest
    <3>1. CASE \E s \in Servers : SecretStep(s)
      BY <3>1, SecretReach DEF clientVars, DeliveryInv, VerifiedInv, TransferNamesStay
    <3>2. CASE \E s \in Servers : ServerCrash(s)
      BY <3>2 DEF ServerCrash, clientVars, nameVars
    <3> QED
      BY <1>5, <3>1, <3>2
  <2> QED
    BY <1>3, <1>5, <2>1, PlacesStay DEF Visible, Places, DeliveryInv
<1>6. CASE PowerLoss /\ ~Publish
  <2>1. UNCHANGED <<request, cpc, digest>> /\ journal' = journal /\ dir'.dest = journal.dest
    BY <1>6 DEF PowerLoss, clientVars
  <2> QED
    BY <1>3, <1>6, <2>1, PlacesStay DEF Visible, DeliveryInv
<1>7. CASE WriteBack /\ ~Publish
  <2>1. UNCHANGED <<request, cpc, digest>> /\ dir' = dir /\ journal'.dest = dir.dest
    BY <1>7 DEF WriteBack, clientVars, netVars
  <2> QED
    BY <1>3, <1>7, <2>1, PlacesStay DEF Visible, DeliveryInv
<1> QED
  BY <1>1, <1>2, <1>4, <1>5, <1>6, <1>7 DEF Next, ClientMoves

LEMMA AbstractStep ==
    ASSUME DeliveryInv, VerifiedInv', [Next]_vars
    PROVE  [Abstract!DeliveryNext]_<<Abstract!vars, PlaceOf(journal)>>
<1>1. Visible
  <2>1. CASE UNCHANGED vars
    BY <2>1 DEF Visible, Offers, Used, Deliveries, Places, PlaceOf, Receipt, vars, clientVars,
       netVars, dataVars, nameVars, modelVars
  <2> QED
    BY <2>1, VisibleStep
<1> QED
  BY <1>1 DEF Visible, Offers, Deliveries, Places, PlaceOf, Receipt, Abstract!DeliveryNext,
     Abstract!Settle, Abstract!LoseName, Abstract!Next, Abstract!vars, Abstract!Offer,
     Abstract!Deliver, Abstract!Confirm, Abstract!Renew

\* The transfer implements AbstractDelivery: the destination changes in one
\* step, to a content that was offered, or goes back to the one on stable
\* storage; and receipts follow deliveries, which a power loss does not undo.
THEOREM KrpRefines == Spec => ImplementsAbstract
<1>1. Init => DeliveryInv /\ Abstract!DeliveryInit
  BY InitDelivery, InitAbstract
<1>2. DeliveryInv /\ [Next]_vars => DeliveryInv'
  BY DeliveryStep
<1>3. DeliveryInv => VerifiedInv
  BY DEF DeliveryInv
<1>4. DeliveryInv /\ VerifiedInv' /\ [Next]_vars
        => [Abstract!DeliveryNext]_<<Abstract!vars, PlaceOf(journal)>>
  BY AbstractStep
<1> QED
  BY <1>1, <1>2, <1>3, <1>4, PTL DEF Spec, ImplementsAbstract, Abstract!DeliverySpec, PlaceOf
=============================================================================
