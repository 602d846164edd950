---------------------- MODULE ResumableTransferProofs ----------------------
(***************************************************************************)
(* ResumableTransfer for every set of clients, every frame size, every     *)
(* source content and any number of attempts, faults and edits.            *)
(*                                                                         *)
(* First its types.  Then, on a single-threaded server, publication: the   *)
(* destination only ever holds a complete, verified and durable content,   *)
(* and is never modified in place; the argument is the inductive invariant *)
(* SequentialInv.  Last what a transfer promises: it implements the        *)
(* abstract one, in which a file appears at the destination in one step    *)
(* and only if it was offered, and a receipt is only ever given for a      *)
(* delivered content; the invariant follows a digest from the client       *)
(* through the header, the published file and the acknowledgement back to  *)
(* the client.  Where raw writes are complete, checkpoints cover durable   *)
(* bytes, tickets that are stored are honoured, and every checkpointed     *)
(* frame has an owner.                                                     *)
(***************************************************************************)
EXTENDS ResumableTransfer, FormatProofs

USE DEF Conns, Byte

TypeInv == TypeOK /\ Connected

LEMMA NoneIsNew == None \notin Conns /\ None \notin Headers
BY ConstantsAssumption

LEMMA BlocksArePositive == FrameSize \in Nat \ {0} /\ HashBlock \in Nat \ {0}
BY ConstantsAssumption

LEMMA BoundsAreNatural == MaxFaults \in Nat /\ MaxEdits \in Nat
BY ConstantsAssumption

LEMMA ExpectedBytesType ==
    ASSUME NEW i \in Nat, NEW sz \in Nat
    PROVE  ExpectedBytes(i, sz, FrameSize) \in Nat
BY BlocksArePositive DEF ExpectedBytes

\* A fault stays within the bound on faults.
LEMMA FaultKeepsModelTypes ==
    ASSUME ModelTypes, Fault
    PROVE  ModelTypes'
BY BoundsAreNatural DEF Fault, ModelTypes

LEMMA BlockType ==
    ASSUME TypeOK, NEW c \in Clients
    PROVE  NextBlock(c) \in Seq(Byte)
<1> DEFINE have == Len(hashed[c])
           len == Least(HashBlock, size[c] - have)
<1>1. source[c] \in Seq(Byte) /\ have \in Nat /\ len \in Int
  BY BlocksArePositive DEF TypeOK, ClientTypes, Least
<1> QED
  BY <1>1, ReadAtType DEF NextBlock

LEMMA FrameAtType ==
    ASSUME TypeOK, NEW c \in Clients, request[conn[c]] \in Headers
    PROVE  FrameAt(c) \in Seq(Byte)
<1> DEFINE len == FrameLen(sent[c], request[conn[c]].size, FrameSize)
<1>1. source[c] \in Seq(Byte) /\ sent[c] \in Nat /\ len \in Int
  BY BlocksArePositive DEF TypeOK, ClientTypes, Headers, FrameLen, Least
<1> QED
  BY <1>1, ReadAtType DEF FrameAt

LEMMA InitType == Init => TypeInv
BY ConstantsAssumption
   DEF Init, TypeInv, TypeOK, ClientTypes, NetTypes, HandlerTypes, DiskTypes, ModelTypes,
       Connected, CallsHaveHeaders, HandlersHaveHeaders, NewIsFresh, DescriptorsOpen,
       ClientPCs, HandlerPCs, Closed

-----------------------------------------------------------------------------
(* What a step leaves alone keeps its type. *)

LEMMA ClientKept == ClientTypes /\ UNCHANGED clientVars => ClientTypes'
BY DEF ClientTypes, clientVars
LEMMA NetKept == NetTypes /\ UNCHANGED netVars => NetTypes'
BY DEF NetTypes, netVars
LEMMA HandlerKept == HandlerTypes /\ UNCHANGED handlerVars => HandlerTypes'
BY DEF HandlerTypes, handlerVars
LEMMA DiskKept == DiskTypes /\ UNCHANGED diskVars => DiskTypes'
BY DEF DiskTypes, diskVars
LEMMA ModelKept == ModelTypes /\ UNCHANGED modelVars => ModelTypes'
BY DEF ModelTypes, modelVars

LEMMA ConnectedKept == Connected /\ UNCHANGED <<cpc, conn, request, spc, fd>> => Connected'
BY DEF Connected, CallsHaveHeaders, HandlersHaveHeaders, NewIsFresh, DescriptorsOpen

\* A call that ends, or moves on over the connection it holds.
LEMMA CallMoves ==
    ASSUME TypeInv, NEW c \in Clients, UNCHANGED <<request, spc, fd>>,
           \/ Give(c)
           \/ /\ cpc[c] \in {"waiting", "streaming"} /\ UNCHANGED conn
              /\ \E q \in ClientPCs : cpc' = [cpc EXCEPT ![c] = q]
           \/ \E q \in {"idle", "hashing", "done"} :
                cpc' = [cpc EXCEPT ![c] = q] /\ conn' \in {conn, [conn EXCEPT ![c] = None]}
    PROVE  Connected'
<1>1. CallsHaveHeaders'
  BY DEF TypeInv, TypeOK, ClientTypes, Connected, CallsHaveHeaders, Give
<1> QED
  BY <1>1 DEF TypeInv, Connected, HandlersHaveHeaders, NewIsFresh, DescriptorsOpen

\* A handler that moves on, keeping its descriptor unless it opens one.
LEMMA HandlerMoves ==
    ASSUME TypeInv, NEW n \in Conns, spc[n] # "none",
           NEW q \in HandlerPCs \ {"none"}, spc' = [spc EXCEPT ![n] = q],
           UNCHANGED <<cpc, conn, request>>,
           \A m \in Conns \ {n} : fd'[m] = fd[m],
           q \in {"receiving", "written", "synced"} => fd'[n] # None
    PROVE  Connected'
<1>1. CallsHaveHeaders' /\ HandlersHaveHeaders' /\ NewIsFresh'
  BY DEF TypeInv, TypeOK, HandlerTypes, Connected, CallsHaveHeaders, HandlersHaveHeaders,
         NewIsFresh
<1>2. DescriptorsOpen'
  BY DEF TypeInv, TypeOK, HandlerTypes, Connected, DescriptorsOpen
<1> QED
  BY <1>1, <1>2 DEF Connected
-----------------------------------------------------------------------------
LEMMA ClientType ==
    ASSUME TypeInv, NEW c \in Clients, ClientStep(c)
    PROVE  TypeInv'
<1> USE NoneIsNew DEF TypeInv, TypeOK
<1>1. CASE Open(c)
  <2>1. ClientTypes'
    BY <1>1 DEF Open, ClientTypes, ClientPCs
  <2>2. Connected'
    BY <1>1, CallMoves DEF Open, netVars, handlerVars
  <2> QED
    BY <1>1, <2>1, <2>2, NetKept, HandlerKept, DiskKept, ModelKept DEF Open
<1>2. CASE HashOneBlock(c)
  <2>1. ClientTypes'
    BY <1>2, BlockType DEF HashOneBlock, ClientTypes
  <2>2. Connected'
    BY <1>2, ConnectedKept DEF HashOneBlock, netVars, handlerVars
  <2> QED
    BY <1>2, <2>1, <2>2, NetKept, HandlerKept, DiskKept, ModelKept DEF HashOneBlock
<1>3. CASE Connect(c)
  <2> DEFINE h(n) == IF saved[c] = None THEN NewRequest(c, n) ELSE ResumeRequest(c)
  <2>1. PICK n \in Conns \ Used :
            /\ request' = [request EXCEPT ![n] = h(n)]
            /\ spc' = [spc EXCEPT ![n] = "queued"]
            /\ conn' = [conn EXCEPT ![c] = n]
    BY <1>3 DEF Connect
  <2>2. h(n) \in Headers /\ (h(n).mode = "new" => h(n).tid = n)
    BY DEF NewRequest, ResumeRequest, Headers, Saves, ClientTypes
  <2>3. ClientTypes' /\ NetTypes' /\ HandlerTypes'
    BY <1>3, <2>1, <2>2 DEF Connect, ClientTypes, NetTypes, HandlerTypes, ClientPCs,
                            HandlerPCs, Closed
  <2>4. request[n] = None /\ request'[n] = h(n) /\ h(n) # None
    BY <2>1, <2>2 DEF Used, NetTypes
  <2>5. CallsHaveHeaders'
    BY <1>3, <2>1, <2>4 DEF Connect, Connected, CallsHaveHeaders, ClientTypes, NetTypes
  <2>6. HandlersHaveHeaders' /\ NewIsFresh' /\ DescriptorsOpen'
    BY <1>3, <2>1, <2>2, <2>4 DEF Connect, Connected, HandlersHaveHeaders, NewIsFresh,
                                  DescriptorsOpen, NetTypes, HandlerTypes
  <2> QED
    BY <1>3, <2>3, <2>5, <2>6, DiskKept, ModelKept DEF Connect, Connected
<1>4. CASE RefuseChangedSource(c)
  <2>1. ClientTypes'
    BY <1>4 DEF RefuseChangedSource, Give, ClientTypes, ClientPCs
  <2>2. Connected'
    BY <1>4, CallMoves DEF RefuseChangedSource, netVars, handlerVars
  <2> QED
    BY <1>4, <2>1, <2>2, NetKept, HandlerKept, DiskKept, ModelKept DEF RefuseChangedSource
<1>5. CASE ReceiveStatus(c)
  <2> DEFINE n == conn[c]
             m == Head(down[n])
  <2>1. n \in Conns /\ request[n] \in Headers /\ m \in DownMsgs
    BY <1>5 DEF ReceiveStatus, Connected, CallsHaveHeaders, NetTypes
  <2>2. m.bytes \in Nat /\ m.ticket \in Tickets
    BY <1>5, <2>1 DEF ReceiveStatus, DownMsgs
  <2>3. SavedState(request[n], m.ticket) \in Saves
    BY <2>1, <2>2 DEF SavedState, Saves, Headers
  <2>4. ClientTypes'
    BY <1>5, <2>2, <2>3 DEF ReceiveStatus, ClientTypes, ClientPCs
  <2>5. NetTypes'
    BY <1>5, <2>1 DEF ReceiveStatus, NetTypes
  <2>6. Connected'
    BY <1>5, CallMoves DEF ReceiveStatus, handlerVars, ClientPCs
  <2> QED
    BY <1>5, <2>4, <2>5, <2>6, HandlerKept, DiskKept, ModelKept DEF ReceiveStatus
<1>6. CASE SendFrame(c)
  <2> DEFINE n == conn[c]
             m == Frame(sent[c] \div FrameSize, FrameAt(c))
  <2>1. n \in Conns /\ request[n] \in Headers
    BY <1>6 DEF SendFrame, Connected, CallsHaveHeaders, NetTypes
  <2>2. FrameAt(c) \in Seq(Byte) /\ sent[c] \in Nat
    BY <2>1, FrameAtType DEF ClientTypes
  <2>3. sent[c] \div FrameSize \in Nat
    BY <2>2, BlocksArePositive, QuotientType
  <2>4. m \in UpMsgs
    BY <2>2, <2>3 DEF Frame, UpMsgs
  <2>5. ClientTypes' /\ NetTypes'
    BY <1>6, <2>1, <2>2, <2>4, SMTT(60) DEF SendFrame, ClientTypes, NetTypes
  <2>6. Connected'
    BY <1>6, ConnectedKept DEF SendFrame, handlerVars
  <2> QED
    BY <1>6, <2>5, <2>6, HandlerKept, DiskKept, ModelKept DEF SendFrame
<1>7. CASE AbandonShortSource(c)
  <2>1. ClientTypes'
    BY <1>7 DEF AbandonShortSource, Give, ClientTypes, ClientPCs
  <2>2. Connected'
    BY <1>7, CallMoves DEF AbandonShortSource, netVars, handlerVars
  <2> QED
    BY <1>7, <2>1, <2>2, NetKept, HandlerKept, DiskKept, ModelKept DEF AbandonShortSource
<1>8. CASE SendFinal(c)
  <2> DEFINE n == conn[c]
  <2>1. n \in Conns /\ Final(request[n].digest) \in UpMsgs
    BY <1>8 DEF SendFinal, Connected, CallsHaveHeaders, NetTypes, Headers, Final, UpMsgs
  <2>2. ClientTypes' /\ NetTypes'
    BY <1>8, <2>1 DEF SendFinal, ClientTypes, NetTypes, ClientPCs
  <2>3. Connected'
    BY <1>8, CallMoves DEF SendFinal, handlerVars, ClientPCs
  <2> QED
    BY <1>8, <2>2, <2>3, HandlerKept, DiskKept, ModelKept DEF SendFinal
<1>9. CASE ReceiveAck(c)
  <2>1. ClientTypes'
    BY <1>9 DEF ReceiveAck, ClientTypes, ClientPCs
  <2>2. NetTypes'
    BY <1>9 DEF ReceiveAck, NetTypes, Connected, CallsHaveHeaders
  <2>3. Connected'
    BY <1>9, CallMoves DEF ReceiveAck, handlerVars, ClientTypes
  <2> QED
    BY <1>9, <2>1, <2>2, <2>3, HandlerKept, DiskKept, ModelKept DEF ReceiveAck
<1>10. CASE ReceiveEnd(c)
  <2>1. ClientTypes'
    BY <1>10 DEF ReceiveEnd, Give, ClientTypes, ClientPCs
  <2>2. Connected'
    BY <1>10, CallMoves DEF ReceiveEnd, netVars, handlerVars
  <2> QED
    BY <1>10, <2>1, <2>2, NetKept, HandlerKept, DiskKept, ModelKept DEF ReceiveEnd
<1> QED
  BY <1>1, <1>2, <1>3, <1>4, <1>5, <1>6, <1>7, <1>8, <1>9, <1>10 DEF ClientStep
-----------------------------------------------------------------------------
\* A handler that only moves on.
LEMMA HandlerOnlyMoves ==
    ASSUME TypeInv, NEW n \in Conns, spc[n] # "none",
           NEW q \in HandlerPCs \ {"none", "receiving"},
           q \in {"written", "synced"} => spc[n] \in {"receiving", "written"},
           spc' = [spc EXCEPT ![n] = q],
           UNCHANGED <<clientVars, netVars, nxt, cur, fd, pos, diskVars, modelVars>>
    PROVE  TypeInv'
<1>1. HandlerTypes'
  BY DEF TypeInv, TypeOK, HandlerTypes
<1>2. fd' = fd /\ UNCHANGED <<cpc, conn, request>>
  BY DEF clientVars, netVars
<1>3. q \in {"receiving", "written", "synced"} => fd[n] # None
  BY DEF TypeInv, Connected, DescriptorsOpen
<1>4. Connected'
  BY <1>2, <1>3, HandlerMoves
<1> QED
  BY <1>1, <1>4, ClientKept, NetKept, DiskKept, ModelKept DEF TypeInv, TypeOK

LEMMA HandlerHeader ==
    ASSUME TypeInv, NEW n \in Conns, spc[n] # "none"
    PROVE  request[n] \in Headers /\ request[n].tid \in Conns
                /\ request[n].digest \in Seq(Byte) /\ request[n].size \in Nat
BY DEF TypeInv, TypeOK, NetTypes, Connected, HandlersHaveHeaders, Headers

\* Admission: from the request to the status.
LEMMA AdmissionType ==
    ASSUME TypeInv, NEW n \in Conns,
           \/ Accept(n) \/ DropQueued(n) \/ CreatePartial(n) \/ WriteFirstCheckpoint(n)
           \/ LoadCheckpoint(n) \/ RejectRequest(n) \/ RollBack(n) \/ RefuseShortPartial(n)
           \/ SendStatus(n)
    PROVE  TypeInv'
<1> DEFINE h == request[n]
<1>1. spc[n] # "none"
  BY DEF Accept, DropQueued, CreatePartial, WriteFirstCheckpoint, LoadCheckpoint,
         RejectRequest, RollBack, RefuseShortPartial, SendStatus
<1>2. h \in Headers /\ h.tid \in Conns /\ h.digest \in Seq(Byte) /\ h.size \in Nat
  BY <1>1, HandlerHeader
<1>3. CASE Accept(n)
  BY <1>1, <1>3, HandlerOnlyMoves DEF Accept, HandlerPCs
<1>4. CASE DropQueued(n)
  BY <1>1, <1>4, HandlerOnlyMoves DEF DropQueued, Leave, HandlerPCs, Closed
<1>5. CASE CreatePartial(n)
  <2>1. HandlerTypes'
    BY <1>5 DEF CreatePartial, TypeInv, TypeOK, HandlerTypes, HandlerPCs
  <2>2. DiskTypes'
    BY <1>2, <1>5 DEF CreatePartial, TypeInv, TypeOK, DiskTypes
  <2>3. Connected'
    BY <1>1, <1>5, HandlerMoves DEF CreatePartial, clientVars, netVars, HandlerPCs
  <2> QED
    BY <1>5, <2>1, <2>2, <2>3, ClientKept, NetKept, ModelKept
       DEF CreatePartial, TypeInv, TypeOK
<1>6. CASE WriteFirstCheckpoint(n)
  <2>1. HandlerTypes'
    BY <1>6 DEF WriteFirstCheckpoint, TypeInv, TypeOK, HandlerTypes, HandlerPCs
  <2>2. DiskTypes'
    BY <1>2, <1>6 DEF WriteFirstCheckpoint, CheckpointOf, Ckpts, TypeInv, TypeOK, DiskTypes
  <2>3. Connected'
    BY <1>1, <1>6, HandlerMoves DEF WriteFirstCheckpoint, clientVars, netVars, HandlerPCs
  <2> QED
    BY <1>6, <2>1, <2>2, <2>3, ClientKept, NetKept, ModelKept
       DEF WriteFirstCheckpoint, TypeInv, TypeOK
<1>7. CASE LoadCheckpoint(n)
  <2>1. ckpt[h.tid].next \in Nat /\ ckpt[h.tid].bytes \in Nat
    BY <1>2, <1>7 DEF LoadCheckpoint, ResumeAllowed, ValidState, TypeInv, TypeOK, DiskTypes,
                      Ckpts
  <2>2. HandlerTypes'
    BY <1>7, <2>1 DEF LoadCheckpoint, TypeInv, TypeOK, HandlerTypes, HandlerPCs
  <2>3. Connected'
    BY <1>1, <1>7, HandlerMoves DEF LoadCheckpoint, clientVars, netVars, HandlerPCs
  <2> QED
    BY <1>7, <2>2, <2>3, ClientKept, NetKept, DiskKept, ModelKept
       DEF LoadCheckpoint, TypeInv, TypeOK
<1>8. CASE RejectRequest(n)
  BY <1>1, <1>8, HandlerOnlyMoves DEF RejectRequest, Leave, HandlerPCs, Closed
<1>9. CASE RollBack(n)
  <2> DEFINE i == partial[h.tid]
  <2>1. i \in Conns /\ cur[n] \in Nat /\ file[i] \in Seq(Byte)
    BY <1>2, <1>9 DEF RollBack, TypeInv, TypeOK, DiskTypes, HandlerTypes
  <2>2. Len(file[i]) > cur[n] => TruncateTo(file[i], cur[n]) \in Seq(Byte)
    BY <2>1, TruncateToType
  <2>3. file' \in [Conns -> Seq(Byte)] /\ synced' \in [Conns -> Seq(Byte)]
    <3>1. file \in [Conns -> Seq(Byte)] /\ synced \in [Conns -> Seq(Byte)]
      BY DEF TypeInv, TypeOK, DiskTypes
    <3>2. CASE Len(file[i]) > cur[n]
      <4>1. file' = [file EXCEPT ![i] = TruncateTo(@, cur[n])]
                /\ synced' = [synced EXCEPT ![i] = file'[i]]
        BY <1>9, <3>2 DEF RollBack
      <4>2. file' \in [Conns -> Seq(Byte)]
        BY <2>1, <2>2, <3>1, <3>2, <4>1
      <4> QED
        BY <2>1, <3>1, <4>1, <4>2
    <3>3. CASE ~(Len(file[i]) > cur[n])
      BY <1>9, <3>1, <3>3 DEF RollBack
    <3> QED
      BY <3>2, <3>3
  <2>7. DiskTypes'
    BY <1>9, <2>3 DEF RollBack, TypeInv, TypeOK, DiskTypes
  <2>4. PICK q \in {"closed", "admitted"} : spc' = [spc EXCEPT ![n] = q]
    BY <1>9 DEF RollBack
  <2>5. HandlerTypes'
    BY <1>9, <2>4 DEF RollBack, TypeInv, TypeOK, HandlerTypes, HandlerPCs, Closed
  <2>6. Connected'
    BY <1>1, <1>9, <2>4, HandlerMoves DEF RollBack, clientVars, netVars, HandlerPCs, Closed
  <2> QED
    BY <1>9, <2>7, <2>5, <2>6, ClientKept, NetKept, ModelKept
       DEF RollBack, TypeInv, TypeOK
<1>10. CASE RefuseShortPartial(n)
  BY <1>1, <1>10, HandlerOnlyMoves DEF RefuseShortPartial, Leave, HandlerPCs, Closed
<1>11. CASE SendStatus(n)
  <2> DEFINE i == partial[h.tid]
             m == Status(nxt[n], cur[n], Ticket(h))
  <2>1. i \in Conns \cup {None}
    BY <1>2 DEF TypeInv, TypeOK, DiskTypes
  <2>2. m \in DownMsgs
    BY <1>2 DEF Status, Ticket, Tickets, DownMsgs, TypeInv, TypeOK, HandlerTypes
  <2>3. NetTypes'
    BY <1>11, <2>2 DEF SendStatus, TypeInv, TypeOK, NetTypes
  <2>4. PICK q \in {"closed", "receiving"} :
            spc' = [spc EXCEPT ![n] = q] /\ (q = "receiving" => i # None)
    BY <1>11 DEF SendStatus
  <2>5. HandlerTypes'
    BY <1>11, <2>1, <2>4 DEF SendStatus, TypeInv, TypeOK, HandlerTypes, HandlerPCs, Closed
  <2>6. fd'[n] = i /\ \A k \in Conns \ {n} : fd'[k] = fd[k]
    BY <1>11 DEF SendStatus, TypeInv, TypeOK, HandlerTypes
  <2>7. Connected'
    BY <1>1, <1>11, <2>4, <2>6, HandlerMoves DEF SendStatus, clientVars, HandlerPCs, Closed
  <2> QED
    BY <1>11, <2>3, <2>5, <2>7, ClientKept, DiskKept, ModelKept
       DEF SendStatus, TypeInv, TypeOK
<1> QED
  BY <1>3, <1>4, <1>5, <1>6, <1>7, <1>8, <1>9, <1>10, <1>11

\* Reception: frames, their checkpoints and the final record.
LEMMA ReceptionType ==
    ASSUME TypeInv, NEW n \in Conns,
           \/ ReceiveFrame(n) \/ SyncFrame(n) \/ AdvanceCheckpoint(n) \/ ReceiveFinal(n)
           \/ ReachEndOfInput(n)
    PROVE  TypeInv'
<1> DEFINE h == request[n]
           m == Head(up[n])
<1>1. spc[n] \in {"receiving", "written", "synced"}
  BY DEF ReceiveFrame, SyncFrame, AdvanceCheckpoint, ReceiveFinal, ReachEndOfInput
<1>2. h \in Headers /\ h.tid \in Conns /\ h.digest \in Seq(Byte) /\ h.size \in Nat
  BY <1>1, HandlerHeader
<1>3. fd[n] \in Conns /\ file[fd[n]] \in Seq(Byte) /\ pos[n] \in Nat
        /\ cur[n] \in Nat /\ nxt[n] \in Nat
  BY <1>1 DEF TypeInv, TypeOK, HandlerTypes, DiskTypes, Connected, DescriptorsOpen
<1>4. CASE ReceiveFrame(n)
  <2>1. m \in UpMsgs /\ m.kind = "frame" /\ up[n] # <<>> /\ up[n] \in Seq(UpMsgs)
    BY <1>4 DEF ReceiveFrame, TypeInv, TypeOK, NetTypes
  <2>2. m.data \in Seq(Byte)
    BY <2>1 DEF UpMsgs
  <2>3. NetTypes'
    BY <1>4, <2>1 DEF ReceiveFrame, TypeInv, TypeOK, NetTypes
  <2>4. PICK k \in Stored(Len(m.data)) :
            /\ file' = [file EXCEPT ![fd[n]] =
                           WriteAt(@, pos[n], SubSeq(m.data, 1, k), Hole)]
            /\ pos' = [pos EXCEPT ![n] = @ + k]
    BY <1>4 DEF ReceiveFrame
  <2>5. k \in Nat /\ k <= Len(m.data)
    BY <2>2, <2>4 DEF Stored
  <2>6. SubSeq(m.data, 1, k) \in Seq(Byte) /\ Hole \in Byte
    <3>1. SubSeq(m.data, 1, k) \in Seq(Byte)
      BY <2>2, <2>5, PrefixType
    <3>2. Hole \in Byte
      BY ConstantsAssumption
    <3> QED
      BY <3>1, <3>2
  <2>7. WriteAt(file[fd[n]], pos[n], SubSeq(m.data, 1, k), Hole) \in Seq(Byte)
    BY <1>3, <2>6, WriteAtType
  <2>8. DiskTypes'
    BY <1>3, <1>4, <2>4, <2>7 DEF ReceiveFrame, TypeInv, TypeOK, DiskTypes
  <2>9. HandlerTypes'
    <3>1. Len(m.data) \in Nat
      BY <2>2
    <3>2. spc' \in [Conns -> HandlerPCs] /\ fd' \in [Conns -> Conns \cup {None}]
      BY <1>4 DEF ReceiveFrame, TypeInv, TypeOK, HandlerTypes, HandlerPCs
    <3>3. nxt' \in [Conns -> Nat] /\ cur' \in [Conns -> Nat]
      <4>1. cur' = [cur EXCEPT ![n] = @ + Len(m.data)] /\ nxt' = [nxt EXCEPT ![n] = @ + 1]
        BY <1>4 DEF ReceiveFrame
      <4>2. cur \in [Conns -> Nat] /\ nxt \in [Conns -> Nat]
        BY DEF TypeInv, TypeOK, HandlerTypes
      <4>3. cur[n] + Len(m.data) \in Nat
        BY <1>3, <3>1
      <4> QED
        BY <1>3, <4>1, <4>2, <4>3
    <3>4. pos' \in [Conns -> Nat]
      BY <1>3, <2>4, <2>5 DEF TypeInv, TypeOK, HandlerTypes
    <3> QED
      BY <3>2, <3>3, <3>4 DEF HandlerTypes
  <2>10. Connected'
    BY <1>1, <1>3, <1>4, NoneIsNew, HandlerMoves DEF ReceiveFrame, clientVars, HandlerPCs
  <2> QED
    BY <1>4, <2>3, <2>8, <2>9, <2>10, ClientKept, ModelKept
       DEF ReceiveFrame, TypeInv, TypeOK
<1>5. CASE SyncFrame(n)
  <2>1. DiskTypes' /\ HandlerTypes'
    BY <1>3, <1>5 DEF SyncFrame, TypeInv, TypeOK, DiskTypes, HandlerTypes, HandlerPCs
  <2>2. Connected'
    BY <1>1, <1>3, <1>5, NoneIsNew, HandlerMoves
       DEF SyncFrame, clientVars, netVars, HandlerPCs
  <2> QED
    BY <1>5, <2>1, <2>2, ClientKept, NetKept, ModelKept DEF SyncFrame, TypeInv, TypeOK
<1>6. CASE AdvanceCheckpoint(n)
  <2>1. CheckpointOf(h, nxt[n], cur[n]) \in Ckpts
    BY <1>2, <1>3 DEF CheckpointOf, Ckpts
  <2>2. DiskTypes' /\ HandlerTypes'
    BY <1>2, <1>6, <2>1
       DEF AdvanceCheckpoint, TypeInv, TypeOK, DiskTypes, HandlerTypes, HandlerPCs
  <2>3. Connected'
    BY <1>1, <1>3, <1>6, NoneIsNew, HandlerMoves
       DEF AdvanceCheckpoint, clientVars, netVars, HandlerPCs
  <2> QED
    BY <1>6, <2>2, <2>3, ClientKept, NetKept, ModelKept
       DEF AdvanceCheckpoint, TypeInv, TypeOK
<1>7. CASE ReceiveFinal(n)
  <2>1. NetTypes'
    BY <1>7 DEF ReceiveFinal, TypeInv, TypeOK, NetTypes
  <2>2. DiskTypes'
    BY <1>3, <1>7 DEF ReceiveFinal, TypeInv, TypeOK, DiskTypes
  <2>3. HandlerTypes'
    BY <1>7 DEF ReceiveFinal, TypeInv, TypeOK, HandlerTypes, HandlerPCs
  <2>4. \A k \in Conns \ {n} : fd'[k] = fd[k]
    BY <1>7 DEF ReceiveFinal, TypeInv, TypeOK, HandlerTypes
  <2>5. Connected'
    BY <1>1, <1>7, <2>4, HandlerMoves DEF ReceiveFinal, clientVars, HandlerPCs
  <2> QED
    BY <1>7, <2>1, <2>2, <2>3, <2>5, ClientKept, ModelKept
       DEF ReceiveFinal, TypeInv, TypeOK
<1>8. CASE ReachEndOfInput(n)
  BY <1>1, <1>8, HandlerOnlyMoves DEF ReachEndOfInput, Leave, HandlerPCs, Closed
<1> QED
  BY <1>4, <1>5, <1>6, <1>7, <1>8

\* The end of a transfer: verification, publication and discarding.
LEMMA CompletionType ==
    ASSUME TypeInv, NEW n \in Conns,
           \/ Rehash(n) \/ Publish(n) \/ RemoveCheckpoint(n) \/ Acknowledge(n)
           \/ DiscardPartial(n) \/ DiscardCheckpoint(n)
    PROVE  TypeInv'
<1> DEFINE h == request[n]
<1>1. spc[n] \in {"complete", "verified", "published", "cleared", "rejected", "discarding"}
  BY DEF Rehash, Publish, RemoveCheckpoint, Acknowledge, DiscardPartial, DiscardCheckpoint
<1>2. h \in Headers /\ h.tid \in Conns /\ h.digest \in Seq(Byte)
  BY <1>1, HandlerHeader
<1>3. CASE Rehash(n)
  <2>1. PICK q \in {"closed", "verified", "rejected"} : spc' = [spc EXCEPT ![n] = q]
    BY <1>3 DEF Rehash
  <2> QED
    BY <1>1, <1>3, <2>1, HandlerOnlyMoves DEF Rehash, HandlerPCs, Closed
<1>4. CASE Publish(n)
  <2>1. CASE partial[h.tid] = None
    <3>1. spc' = [spc EXCEPT ![n] = "closed"] /\ UNCHANGED <<partial, dest, outcome>>
      BY <1>4, <2>1 DEF Publish, Leave
    <3> QED
      BY <1>1, <1>4, <3>1, HandlerOnlyMoves
         DEF Publish, diskVars, modelVars, HandlerPCs, Closed
  <2>2. CASE partial[h.tid] # None
    <3>2. /\ dest' = partial[h.tid]
          /\ partial' = [partial EXCEPT ![h.tid] = None]
          /\ outcome' = [outcome EXCEPT ![h.tid] = "published"]
          /\ spc' = [spc EXCEPT ![n] = "published"]
      BY <1>4, <2>2 DEF Publish
    <3>4. DiskTypes'
      BY <1>2, <1>4, <2>2, <3>2 DEF Publish, TypeInv, TypeOK, DiskTypes
    <3>5. ModelTypes'
      BY <1>4, <3>2 DEF Publish, TypeInv, TypeOK, ModelTypes
    <3>1. DiskTypes' /\ ModelTypes' /\ HandlerTypes'
      BY <1>4, <3>2, <3>4, <3>5 DEF Publish, TypeInv, TypeOK, HandlerTypes, HandlerPCs
    <3>3. Connected'
      BY <1>1, <1>4, <3>2, HandlerMoves DEF Publish, clientVars, netVars, HandlerPCs
    <3> QED
      BY <1>4, <3>1, <3>3, ClientKept, NetKept DEF Publish, TypeInv, TypeOK
  <2> QED
    BY <2>1, <2>2
<1>5. CASE Acknowledge(n)
  <2>1. Ack(h.digest, h.tid) \in DownMsgs
    BY <1>2 DEF Ack, DownMsgs
  <2>2. NetTypes'
    BY <1>5, <2>1 DEF Acknowledge, TypeInv, TypeOK, NetTypes
  <2>3. HandlerTypes'
    BY <1>5 DEF Acknowledge, Leave, TypeInv, TypeOK, HandlerTypes, HandlerPCs, Closed
  <2>4. Connected'
    BY <1>1, <1>5, HandlerMoves DEF Acknowledge, Leave, clientVars, HandlerPCs, Closed
  <2> QED
    BY <1>5, <2>2, <2>3, <2>4, ClientKept, DiskKept, ModelKept
       DEF Acknowledge, TypeInv, TypeOK
<1>6. CASE DiscardPartial(n)
  <2>1. DiskTypes' /\ ModelTypes' /\ HandlerTypes'
    BY <1>2, <1>6
       DEF DiscardPartial, TypeInv, TypeOK, DiskTypes, ModelTypes, HandlerTypes, HandlerPCs
  <2>2. Connected'
    BY <1>1, <1>6, HandlerMoves DEF DiscardPartial, clientVars, netVars, HandlerPCs
  <2> QED
    BY <1>6, <2>1, <2>2, ClientKept, NetKept DEF DiscardPartial, TypeInv, TypeOK
<1>7. CASE DiscardCheckpoint(n)
  <2>1. DiskTypes' /\ HandlerTypes'
    BY <1>2, <1>7 DEF DiscardCheckpoint, Leave, TypeInv, TypeOK, DiskTypes, HandlerTypes,
                      HandlerPCs, Closed
  <2>2. Connected'
    BY <1>1, <1>7, HandlerMoves
       DEF DiscardCheckpoint, Leave, clientVars, netVars, HandlerPCs, Closed
  <2> QED
    BY <1>7, <2>1, <2>2, ClientKept, NetKept, ModelKept DEF DiscardCheckpoint, TypeInv, TypeOK
<1>8. CASE RemoveCheckpoint(n)
  <2>1. DiskTypes'
    BY <1>2, <1>8 DEF RemoveCheckpoint, TypeInv, TypeOK, DiskTypes
  <2>2. HandlerTypes'
    BY <1>8 DEF RemoveCheckpoint, TypeInv, TypeOK, HandlerTypes, HandlerPCs
  <2>3. Connected'
    BY <1>1, <1>8, HandlerMoves DEF RemoveCheckpoint, clientVars, netVars, HandlerPCs
  <2> QED
    BY <1>8, <2>1, <2>2, <2>3, ClientKept, NetKept, ModelKept
       DEF RemoveCheckpoint, TypeInv, TypeOK
<1> QED
  BY <1>3, <1>4, <1>5, <1>6, <1>7, <1>8

\* Faults end calls and handlers, and a power loss rewinds the server's disk.
LEMMA FaultType ==
    ASSUME TypeInv,
           \/ \E c \in Clients : ClientAbort(c) \/ EditSource(c)
           \/ \E n \in Conns : HandlerAbort(n)
           \/ ServerCrash
           \/ PowerLoss
    PROVE  TypeInv'
<1>1. ASSUME NEW c \in Clients, ClientAbort(c)
      PROVE  TypeInv'
  <2>1. ClientTypes'
    BY <1>1 DEF ClientAbort, Give, TypeInv, TypeOK, ClientTypes, ClientPCs
  <2>2. ModelTypes'
    BY <1>1, FaultKeepsModelTypes DEF ClientAbort, TypeInv, TypeOK
  <2>3. Connected'
    BY <1>1, CallMoves DEF ClientAbort, netVars, handlerVars
  <2> QED
    BY <1>1, <2>1, <2>2, <2>3, NetKept, HandlerKept, DiskKept DEF ClientAbort, TypeInv, TypeOK
<1>2. ASSUME NEW c \in Clients, EditSource(c)
      PROVE  TypeInv'
  <2>1. ModelTypes'
    BY <1>2, BoundsAreNatural DEF EditSource, TypeInv, TypeOK, ModelTypes
  <2>2. ClientTypes'
    <3>1. Contents \subseteq Seq(Byte)
      BY ConstantsAssumption
    <3> QED
      BY <1>2, <3>1 DEF EditSource, TypeInv, TypeOK, ClientTypes
  <2>3. Connected'
    BY <1>2, ConnectedKept DEF EditSource, netVars, handlerVars, TypeInv
  <2> QED
    BY <1>2, <2>1, <2>2, <2>3, NetKept, HandlerKept, DiskKept DEF EditSource, TypeInv, TypeOK
<1>3. ASSUME NEW n \in Conns, HandlerAbort(n)
      PROVE  TypeInv'
  <2>1. HandlerTypes'
    BY <1>3 DEF HandlerAbort, Leave, TypeInv, TypeOK, HandlerTypes, HandlerPCs, Closed
  <2>2. ModelTypes'
    BY <1>3, FaultKeepsModelTypes DEF HandlerAbort, TypeInv, TypeOK
  <2>3. spc[n] # "none"
    BY <1>3 DEF HandlerAbort, Active, Closed
  <2>4. Connected'
    BY <1>3, <2>3, HandlerMoves
       DEF HandlerAbort, Leave, clientVars, netVars, HandlerPCs, Closed
  <2> QED
    BY <1>3, <2>1, <2>2, <2>4, ClientKept, NetKept, DiskKept DEF HandlerAbort, TypeInv, TypeOK
<1>4. ASSUME EndAllHandlers, Fault, UNCHANGED <<clientVars, netVars, nxt, cur, fd, pos>>,
             DiskTypes'
      PROVE  TypeInv'
  <2>1. HandlerTypes'
    BY <1>4 DEF EndAllHandlers, TypeInv, TypeOK, HandlerTypes, HandlerPCs, Closed
  <2>2. ModelTypes'
    BY <1>4, FaultKeepsModelTypes DEF TypeInv, TypeOK
  <2>3. Connected'
    BY <1>4 DEF EndAllHandlers, TypeInv, Connected, CallsHaveHeaders, HandlersHaveHeaders,
                NewIsFresh, DescriptorsOpen, clientVars, netVars
  <2> QED
    BY <1>4, <2>1, <2>2, <2>3, ClientKept, NetKept DEF TypeInv, TypeOK
<1>5. CASE ServerCrash
  BY <1>4, <1>5, DiskKept DEF ServerCrash, TypeInv, TypeOK
<1>6. CASE PowerLoss
  <2>1. ckpt' \in [Conns -> Ckpts \cup {None}]
    <3>1. CASE UNCHANGED ckpt
      BY <3>1 DEF TypeInv, TypeOK, DiskTypes
    <3>2. CASE ~UNCHANGED ckpt
      <4>1. PICK t \in Conns : ckpt[t] # None
                /\ \E k \in OlderCheckpoints(ckpt[t]) : ckpt' = [ckpt EXCEPT ![t] = k]
        BY <1>6, <3>2 DEF PowerLoss
      <4>2. PICK i \in 0 .. ckpt[t].next :
                ckpt' = [ckpt EXCEPT ![t] =
                    [ckpt[t] EXCEPT !.next = i,
                                    !.bytes = ExpectedBytes(i, ckpt[t].size, FrameSize)]]
        BY <4>1 DEF OlderCheckpoints
      <4>3. ckpt[t] \in Ckpts
        BY <4>1 DEF TypeInv, TypeOK, DiskTypes
      <4>4. i \in Nat /\ ckpt[t].size \in Nat
        BY <4>2, <4>3 DEF Ckpts
      <4>5. ExpectedBytes(i, ckpt[t].size, FrameSize) \in Nat
        BY <4>4, ExpectedBytesType
      <4>6. [ckpt[t] EXCEPT !.next = i,
                            !.bytes = ExpectedBytes(i, ckpt[t].size, FrameSize)] \in Ckpts
        BY <4>3, <4>4, <4>5 DEF Ckpts
      <4> QED
        BY <4>2, <4>6 DEF TypeInv, TypeOK, DiskTypes
    <3> QED
      BY <3>1, <3>2
  <2>2. DiskTypes'
    BY <1>6, <2>1 DEF PowerLoss, TypeInv, TypeOK, DiskTypes
  <2> QED
    BY <1>4, <1>6, <2>2 DEF PowerLoss
<1> QED
  BY <1>1, <1>2, <1>3, <1>5, <1>6

LEMMA NextType == TypeInv /\ [Next]_vars => TypeInv'
<1> SUFFICES ASSUME TypeInv, [Next]_vars
             PROVE  TypeInv'
  OBVIOUS
<1>1. ASSUME NEW c \in Clients, ClientStep(c)
      PROVE  TypeInv'
  BY <1>1, ClientType
<1>2. ASSUME NEW n \in Conns, HandlerStep(n)
      PROVE  TypeInv'
  BY <1>2, AdmissionType, ReceptionType, CompletionType DEF HandlerStep
<1>3. CASE UNCHANGED vars
  <2>1. UNCHANGED <<clientVars, netVars, handlerVars, diskVars, modelVars>>
    BY <1>3 DEF vars
  <2>2. UNCHANGED <<cpc, conn, request, spc, fd>>
    BY <2>1 DEF clientVars, netVars, handlerVars
  <2> QED
    BY <2>1, <2>2, ClientKept, NetKept, HandlerKept, DiskKept, ModelKept, ConnectedKept
       DEF TypeInv, TypeOK
<1> QED
  BY <1>1, <1>2, <1>3, FaultType DEF Next

\* Every variable keeps its type, for any clients, contents, frame size and
\* number of faults, with one handler or many, with short writes or without:
\* in particular a handler never writes through a descriptor it does not have,
\* and offsets derived from checkpoints stay naturals.
THEOREM TypeCorrect == Spec => []TypeOK
<1>1. Init => TypeInv
  BY InitType
<1>2. TypeInv /\ [Next]_vars => TypeInv'
  BY NextType
<1>3. TypeInv => TypeOK
  BY DEF TypeInv
<1> QED
  BY <1>1, <1>2, <1>3, PTL DEF Spec
-----------------------------------------------------------------------------
(* Publication. *)

HIDE DEF Conns, Byte

Inv == TypeInv /\ SequentialInv

LEMMA InitInv == Init => Inv
<1> SUFFICES ASSUME Init
             PROVE  Inv
  OBVIOUS
<1>1. TypeInv
  BY InitType
<1>2. OneHandler /\ NamesDisjoint /\ DigestsAgree /\ HandlerOwnsPartial /\ RoomForOne
        /\ PublishedVerified
  BY ConstantsAssumption
     DEF Init, OneHandler, Active, Closed, NamesDisjoint, Started, DigestsAgree,
         HandlerOwnsPartial, RoomForOne, Admitted, PublishedVerified
<1> QED
  BY <1>1, <1>2 DEF Inv, TypeInv, SequentialInv

\* The invariant only speaks of these variables.
LEMMA InvKept ==
    ASSUME Inv, TypeInv', UNCHANGED <<request, spc, fd, file, synced, partial, ckpt, dest>>
    PROVE  Inv'
<1>1. OneHandler' /\ NamesDisjoint' /\ DigestsAgree'
  BY DEF Inv, SequentialInv, OneHandler, Active, NamesDisjoint, Started, DigestsAgree
<1>2. HandlerOwnsPartial' /\ RoomForOne' /\ PublishedVerified'
  BY DEF Inv, SequentialInv, HandlerOwnsPartial, RoomForOne, PublishedVerified
<1> QED
  BY <1>1, <1>2 DEF Inv, TypeInv, SequentialInv
-----------------------------------------------------------------------------
(* Steps of a client: only Connect touches what the invariant speaks of. *)

LEMMA ConnectInv ==
    ASSUME Inv, TypeInv', NEW c \in Clients, Connect(c)
    PROVE  Inv'
<1> DEFINE h(n) == IF saved[c] = None THEN NewRequest(c, n) ELSE ResumeRequest(c)
<1>1. PICK n \in Conns \ Used :
          /\ request' = [request EXCEPT ![n] = h(n)]
          /\ spc' = [spc EXCEPT ![n] = "queued"]
  BY DEF Connect
<1>2. UNCHANGED <<fd, file, synced, partial, ckpt, dest>>
  BY DEF Connect, diskVars
<1>3. request[n] = None /\ spc[n] = "none" /\ request'[n] = h(n)
        /\ request'[n] # None
  BY <1>1, NoneIsNew
     DEF Used, Inv, TypeInv, TypeOK, NetTypes, Connected, HandlersHaveHeaders,
         HandlerTypes
<1>4. \A m \in Conns \ {n} : request'[m] = request[m] /\ spc'[m] = spc[m]
  BY <1>1 DEF Inv, TypeInv, TypeOK, NetTypes, HandlerTypes
<1>5. spc'[n] = "queued"
  BY <1>1 DEF Inv, TypeInv, TypeOK, HandlerTypes
<1>6. OneHandler'
  BY <1>3, <1>4, <1>5 DEF Inv, SequentialInv, OneHandler, Active, Closed
<1>7. NamesDisjoint'
  BY <1>2, <1>3, <1>4 DEF Inv, SequentialInv, NamesDisjoint, Started
<1>8. DigestsAgree'
  BY <1>2, <1>3, <1>4, <1>5, HandlerHeader
     DEF Inv, SequentialInv, DigestsAgree, Active, Closed
<1>9. HandlerOwnsPartial' /\ RoomForOne'
  BY <1>2, <1>4, <1>5 DEF Inv, SequentialInv, HandlerOwnsPartial, RoomForOne, Admitted
<1>10. PublishedVerified'
  BY <1>2, <1>3, <1>4 DEF Inv, SequentialInv, PublishedVerified, TypeInv, TypeOK, DiskTypes
<1> QED
  BY <1>6, <1>7, <1>8, <1>9, <1>10 DEF Inv, TypeInv, SequentialInv

LEMMA ClientInv ==
    ASSUME Inv, TypeInv', NEW c \in Clients,
           ClientStep(c) \/ ClientAbort(c) \/ EditSource(c)
    PROVE  Inv'
<1>1. CASE Connect(c)
  BY <1>1, ConnectInv
<1>2. CASE Open(c) \/ HashOneBlock(c) \/ RefuseChangedSource(c) \/ ReceiveStatus(c)
            \/ SendFrame(c) \/ AbandonShortSource(c) \/ SendFinal(c) \/ ReceiveAck(c)
            \/ ReceiveEnd(c) \/ ClientAbort(c) \/ EditSource(c)
  <2>1. UNCHANGED <<request, spc, fd, file, synced, partial, ckpt, dest>>
    BY <1>2 DEF Open, HashOneBlock, RefuseChangedSource, ReceiveStatus, SendFrame,
                AbandonShortSource, SendFinal, ReceiveAck, ReceiveEnd, ClientAbort,
                EditSource, netVars, handlerVars, diskVars
  <2> QED
    BY <2>1, InvKept
<1> QED
  BY <1>1, <1>2 DEF ClientStep
-----------------------------------------------------------------------------
(* Steps of a handler. *)

\* Only the handler's own program counter moves, and not backwards.
LEMMA HandlerShape ==
    ASSUME TypeInv, NEW n \in Conns, HandlerStep(n)
    PROVE  /\ UNCHANGED request
           /\ \A m \in Conns \ {n} : spc'[m] = spc[m]
           /\ spc[n] \notin {"none", "closed"}
           /\ spc'[n] \notin {"none", "queued"}
           /\ spc[n] = "queued" => spc'[n] \in {"accepted", "closed"}
           /\ spc[n] # "queued" => spc'[n] # "accepted"
           /\ spc'[n] = "accepted" => Accept(n)
<1> USE DEF TypeInv, TypeOK, HandlerTypes
<1>1. CASE Accept(n)
  BY <1>1 DEF Accept, netVars
<1>2. CASE DropQueued(n) \/ RejectRequest(n) \/ RefuseShortPartial(n) \/ ReachEndOfInput(n)
            \/ RemoveCheckpoint(n) \/ Acknowledge(n) \/ DiscardCheckpoint(n)
  BY <1>2 DEF DropQueued, RejectRequest, RefuseShortPartial, ReachEndOfInput, RemoveCheckpoint, Acknowledge,
              DiscardCheckpoint, Leave, netVars
<1>3. CASE CreatePartial(n) \/ WriteFirstCheckpoint(n) \/ LoadCheckpoint(n) \/ SyncFrame(n)
            \/ AdvanceCheckpoint(n) \/ DiscardPartial(n)
  BY <1>3 DEF CreatePartial, WriteFirstCheckpoint, LoadCheckpoint, SyncFrame,
              AdvanceCheckpoint, DiscardPartial, netVars
<1>4. CASE ReceiveFrame(n) \/ ReceiveFinal(n)
  BY <1>4 DEF ReceiveFrame, ReceiveFinal
<1>5. CASE RollBack(n) \/ SendStatus(n)
  BY <1>5 DEF RollBack, SendStatus, netVars
<1>6. CASE Rehash(n) \/ Publish(n)
  BY <1>6 DEF Rehash, Publish, Leave, netVars
<1> QED
  BY <1>1, <1>2, <1>3, <1>4, <1>5, <1>6 DEF HandlerStep

LEMMA OneHandlerKept ==
    ASSUME Inv, ~Concurrent, NEW n \in Conns, HandlerStep(n)
    PROVE  OneHandler'
<1>1. CASE Accept(n)
  BY <1>1, HandlerShape DEF Accept, Inv, OneHandler, Active
<1>2. CASE ~Accept(n)
  <2>1. spc'[n] # "accepted" /\ \A m \in Conns : Active(m)' => Active(m)
    BY <1>2, HandlerShape DEF Inv, Active, Closed
  <2> QED
    BY <2>1 DEF Inv, SequentialInv, OneHandler
<1> QED
  BY <1>1, <1>2

\* A transfer that was started stays started.
LEMMA StartedKept ==
    ASSUME TypeInv, NEW n \in Conns, HandlerStep(n), NEW t \in Conns, Started(t)
    PROVE  Started(t)'
BY HandlerShape DEF Started

LEMMA NamesKept ==
    ASSUME Inv, NEW n \in Conns, HandlerStep(n)
    PROVE  NamesDisjoint'
<1> DEFINE t == request[n].tid
<1>1. request[n] \in Headers /\ t \in Conns
  BY HandlerShape, HandlerHeader DEF Inv
<1>2. NamesDisjoint
  BY DEF Inv, SequentialInv
<1>3. partial \in [Conns -> Conns \cup {None}] /\ dest \in Conns \cup {None}
  BY DEF Inv, TypeInv, TypeOK, DiskTypes
<1>4. CASE CreatePartial(n)
  <2>1. t = n
    BY <1>1, <1>4, NoneIsNew DEF CreatePartial, Inv, TypeInv, Connected, NewIsFresh
  <2>2. partial' = [partial EXCEPT ![n] = n] /\ dest' = dest
    BY <1>4, <2>1 DEF CreatePartial
  <2>3. dest # n
    BY <1>2, <1>4 DEF CreatePartial, NamesDisjoint, Started
  <2>4. Started(n)'
    BY <1>4, HandlerShape DEF CreatePartial, Started, Inv, TypeInv, TypeOK, HandlerTypes
  <2> QED
    BY <1>2, <1>3, <2>2, <2>3, <2>4, StartedKept DEF NamesDisjoint, Inv
<1>5. CASE Publish(n) /\ partial[t] # None
  <2>1. partial[t] = t /\ dest' = t /\ partial' = [partial EXCEPT ![t] = None]
    BY <1>1, <1>2, <1>5 DEF Publish, NamesDisjoint
  <2> QED
    BY <1>1, <1>2, <1>3, <2>1, StartedKept DEF NamesDisjoint, Inv
<1>6. CASE DiscardPartial(n)
  <2>1. dest' = dest /\ partial' = [partial EXCEPT ![t] = None]
    BY <1>6 DEF DiscardPartial
  <2> QED
    BY <1>1, <1>2, <1>3, <2>1, StartedKept, NoneIsNew DEF NamesDisjoint, Inv
<1>7. CASE UNCHANGED <<partial, dest>>
  BY <1>2, <1>7, StartedKept DEF NamesDisjoint, Inv
<1>8. \/ CreatePartial(n)
      \/ Publish(n) /\ partial[t] # None
      \/ DiscardPartial(n)
      \/ UNCHANGED <<partial, dest>>
  <2>1. CASE Publish(n)
    BY <2>1 DEF Publish
  <2>2. CASE Accept(n) \/ DropQueued(n) \/ WriteFirstCheckpoint(n) \/ LoadCheckpoint(n)
              \/ RejectRequest(n) \/ RollBack(n) \/ RefuseShortPartial(n)
    BY <2>2 DEF Accept, DropQueued, WriteFirstCheckpoint, LoadCheckpoint, RejectRequest,
                RollBack, RefuseShortPartial, diskVars
  <2>3. CASE SendStatus(n) \/ ReceiveFrame(n) \/ SyncFrame(n) \/ AdvanceCheckpoint(n)
              \/ ReceiveFinal(n)
    BY <2>3 DEF SendStatus, ReceiveFrame, SyncFrame, AdvanceCheckpoint, ReceiveFinal, diskVars
  <2>4. CASE Rehash(n) \/ RemoveCheckpoint(n) \/ Acknowledge(n) \/ DiscardCheckpoint(n) \/ ReachEndOfInput(n)
    BY <2>4 DEF Rehash, RemoveCheckpoint, Acknowledge, DiscardCheckpoint, ReachEndOfInput, diskVars
  <2> QED
    BY <2>1, <2>2, <2>3, <2>4 DEF HandlerStep
<1> QED
  BY <1>4, <1>5, <1>6, <1>7, <1>8

LEMMA DigestsKept ==
    ASSUME Inv, NEW n \in Conns, HandlerStep(n)
    PROVE  DigestsAgree'
<1> DEFINE h == request[n]
<1>1. h \in Headers /\ h.tid \in Conns
  BY HandlerShape, HandlerHeader DEF Inv
<1>2. DigestsAgree /\ request' = request /\ ckpt \in [Conns -> Ckpts \cup {None}]
  BY HandlerShape DEF Inv, SequentialInv, TypeInv, TypeOK, DiskTypes
<1>3. ASSUME NEW i, NEW b, Active(n), spc[n] # "accepted",
             ckpt' = [ckpt EXCEPT ![h.tid] = CheckpointOf(h, i, b)]
      PROVE  \A t \in Conns : ckpt'[t] # None =>
                 request[t] # None /\ ckpt'[t].digest = request[t].digest
  BY <1>1, <1>2, <1>3 DEF DigestsAgree, CheckpointOf
<1>4. \A t \in Conns : ckpt'[t] # None =>
          request[t] # None /\ ckpt'[t].digest = request[t].digest
  <2>1. CASE WriteFirstCheckpoint(n)
    BY <1>3, <2>1 DEF WriteFirstCheckpoint, Active, Closed
  <2>2. CASE AdvanceCheckpoint(n)
    BY <1>3, <2>2 DEF AdvanceCheckpoint, Active, Closed
  <2>3. CASE ckpt' = [ckpt EXCEPT ![h.tid] = None]
    BY <1>1, <1>2, <2>3 DEF DigestsAgree
  <2>4. CASE UNCHANGED ckpt
    BY <1>2, <2>4 DEF DigestsAgree
  <2>5. \/ WriteFirstCheckpoint(n) \/ AdvanceCheckpoint(n)
        \/ ckpt' = [ckpt EXCEPT ![h.tid] = None] \/ UNCHANGED ckpt
    BY DEF HandlerStep, Accept, DropQueued, CreatePartial, LoadCheckpoint, RejectRequest,
           RollBack, RefuseShortPartial, SendStatus, ReceiveFrame, SyncFrame, ReceiveFinal,
           Rehash, Publish, RemoveCheckpoint, Acknowledge, DiscardPartial, DiscardCheckpoint, ReachEndOfInput,
           diskVars
  <2> QED
    BY <2>1, <2>2, <2>3, <2>4, <2>5
<1>5. \A m \in Conns : Active(m)' /\ spc'[m] # "accepted" =>
          request[request[m].tid] # None
            /\ request[m].digest = request[request[m].tid].digest
  <2>1. CASE CreatePartial(n)
    <3>1. h.tid = n
      BY <1>1, <2>1, NoneIsNew DEF CreatePartial, Inv, TypeInv, Connected, NewIsFresh
    <3> QED
      BY <1>1, <1>2, <3>1, NoneIsNew, HandlerShape DEF DigestsAgree, Active, Inv
  <2>2. CASE LoadCheckpoint(n)
    <3>1. ckpt[h.tid] # None /\ ckpt[h.tid].digest = h.digest
      BY <2>2 DEF LoadCheckpoint, ResumeAllowed, ValidState, CheckpointOf
    <3> QED
      BY <1>1, <1>2, <3>1, HandlerShape DEF DigestsAgree, Active, Inv
  <2>3. CASE ~CreatePartial(n) /\ ~LoadCheckpoint(n)
    <3>1. spc[n] = "accepted" => spc'[n] = "closed"
      BY <2>3 DEF HandlerStep, Accept, DropQueued, WriteFirstCheckpoint, RejectRequest, Leave,
           RollBack, RefuseShortPartial, SendStatus, ReceiveFrame, SyncFrame, ReceiveFinal,
           AdvanceCheckpoint, Rehash, Publish, RemoveCheckpoint, Acknowledge, DiscardPartial,
           DiscardCheckpoint, ReachEndOfInput, Inv, TypeInv, TypeOK, HandlerTypes
    <3> QED
      BY <1>2, <3>1, HandlerShape DEF DigestsAgree, Active, Closed, Inv
  <2> QED
    BY <2>1, <2>2, <2>3
<1> QED
  BY <1>2, <1>4, <1>5 DEF DigestsAgree, Active

\* A connection that waits in the backlog touches nothing on the disk.
LEMMA QueuedStep ==
    ASSUME NEW n \in Conns, HandlerStep(n), spc[n] = "queued"
    PROVE  UNCHANGED <<fd, file, synced, partial, ckpt, dest>>
<1>1. Accept(n) \/ DropQueued(n)
  BY DEF HandlerStep, CreatePartial, WriteFirstCheckpoint, LoadCheckpoint, RejectRequest,
         RollBack, RefuseShortPartial, SendStatus, ReceiveFrame, SyncFrame, AdvanceCheckpoint,
         ReceiveFinal, Rehash, Publish, RemoveCheckpoint, Acknowledge, DiscardPartial, DiscardCheckpoint,
         ReachEndOfInput
<1> QED
  BY <1>1 DEF Accept, DropQueued, diskVars

\* While a handler runs, every other one has ended or not begun.
LEMMA Alone ==
    ASSUME Inv, ~Concurrent, NEW n \in Conns, HandlerStep(n), spc[n] # "queued",
           NEW m \in Conns \ {n}
    PROVE  spc'[m] \in Closed
BY HandlerShape DEF Inv, SequentialInv, OneHandler, Active, Closed

LEMMA OwnsKept ==
    ASSUME Inv, ~Concurrent, NEW n \in Conns, HandlerStep(n)
    PROVE  HandlerOwnsPartial'
<1> DEFINE t == request[n].tid
           Busy == {"receiving", "written", "synced", "complete", "verified"}
<1>1. request[n] \in Headers /\ t \in Conns /\ request' = request
  BY HandlerShape, HandlerHeader DEF Inv
<1>2. HandlerOwnsPartial /\ NamesDisjoint
  BY DEF Inv, SequentialInv
<1>3. /\ partial \in [Conns -> Conns \cup {None}]
      /\ file \in [Conns -> Seq(Byte)] /\ synced \in [Conns -> Seq(Byte)]
      /\ fd \in [Conns -> Conns \cup {None}] /\ spc \in [Conns -> HandlerPCs]
  BY DEF Inv, TypeInv, TypeOK, DiskTypes, HandlerTypes
<1>4. CASE spc[n] = "queued"
  BY <1>2, <1>4, QueuedStep, HandlerShape DEF HandlerOwnsPartial, Inv
<1>5. CASE spc[n] # "queued"
  <2>1. \A m \in Conns \ {n} : spc'[m] \notin Busy
    BY <1>5, Alone DEF Closed
  <2>2. SUFFICES /\ spc'[n] \in {"receiving", "written", "synced"} => fd'[n] = t /\ partial'[t] = t
                 /\ spc'[n] \in {"complete", "verified"} => partial'[t] = t /\ synced'[t] = file'[t]
                 /\ spc'[n] = "verified" => file'[t] = request[n].digest
    BY <1>1, <2>1 DEF HandlerOwnsPartial
  <2>3. CASE SendStatus(n)
    BY <1>1, <1>2, <1>3, <2>3 DEF SendStatus, NamesDisjoint, diskVars
  <2>4. CASE ReceiveFrame(n)
    BY <1>1, <1>2, <1>3, <2>4 DEF ReceiveFrame, HandlerOwnsPartial
  <2>5. CASE SyncFrame(n) \/ AdvanceCheckpoint(n)
    BY <1>1, <1>2, <1>3, <2>5 DEF SyncFrame, AdvanceCheckpoint, HandlerOwnsPartial
  <2>6. CASE ReceiveFinal(n)
    BY <1>1, <1>2, <1>3, <2>6 DEF ReceiveFinal, HandlerOwnsPartial
  <2>7. CASE Rehash(n)
    BY <1>1, <1>2, <1>3, <2>7 DEF Rehash, Intact, HandlerOwnsPartial, diskVars
  <2>8. CASE spc'[n] \notin Busy
    BY <2>8
  <2>9. \/ SendStatus(n) \/ ReceiveFrame(n) \/ SyncFrame(n) \/ AdvanceCheckpoint(n)
        \/ ReceiveFinal(n) \/ Rehash(n) \/ spc'[n] \notin Busy
    <3>1. CASE Accept(n) \/ DropQueued(n) \/ CreatePartial(n) \/ WriteFirstCheckpoint(n)
                \/ LoadCheckpoint(n) \/ RejectRequest(n) \/ RollBack(n) \/ RefuseShortPartial(n)
      BY <1>3, <3>1 DEF Accept, DropQueued, CreatePartial, WriteFirstCheckpoint, LoadCheckpoint,
                  RejectRequest, RollBack, RefuseShortPartial, Leave
    <3>2. CASE Publish(n) \/ RemoveCheckpoint(n) \/ Acknowledge(n) \/ DiscardPartial(n) \/ DiscardCheckpoint(n)
                \/ ReachEndOfInput(n)
      BY <1>3, <3>2 DEF Publish, RemoveCheckpoint, Acknowledge, DiscardPartial, DiscardCheckpoint,
                  ReachEndOfInput, Leave
    <3> QED
      BY <3>1, <3>2 DEF HandlerStep
  <2> QED
    BY <2>3, <2>4, <2>5, <2>6, <2>7, <2>8, <2>9
<1> QED
  BY <1>4, <1>5

LEMMA RoomKept ==
    ASSUME Inv, ~Concurrent, NEW n \in Conns, HandlerStep(n)
    PROVE  RoomForOne'
<1>1. RoomForOne /\ spc \in [Conns -> HandlerPCs]
  BY DEF Inv, SequentialInv, TypeInv, TypeOK, HandlerTypes
<1>2. CASE spc[n] = "queued"
  BY <1>1, <1>2, QueuedStep, HandlerShape DEF RoomForOne, Admitted, Inv
<1>3. CASE spc[n] # "queued"
  <2>1. \A m \in Conns \ {n} : spc'[m] \notin Admitted
    BY <1>3, Alone DEF Closed, Admitted
  <2>2. SUFFICES spc'[n] \in Admitted => Overwrite \/ dest' = None
    BY <2>1 DEF RoomForOne
  <2>3. CASE CreatePartial(n)
    BY <2>3 DEF CreatePartial, NewAllowed, DestinationTaken
  <2>4. CASE RollBack(n)
    BY <1>1, <2>4 DEF RollBack, DestinationTaken, Admitted
  <2>5. CASE spc'[n] \notin Admitted
    BY <2>5
  <2>6. CASE spc[n] \in Admitted /\ dest' = dest
    BY <1>1, <2>6 DEF RoomForOne
  <2>7. \/ CreatePartial(n) \/ RollBack(n)
        \/ spc'[n] \notin Admitted
        \/ spc[n] \in Admitted /\ dest' = dest
    <3>1. CASE Accept(n) \/ DropQueued(n) \/ LoadCheckpoint(n) \/ RejectRequest(n)
                \/ RefuseShortPartial(n) \/ Publish(n)
      BY <1>1, <3>1 DEF Accept, DropQueued, LoadCheckpoint, RejectRequest, RefuseShortPartial,
                  Publish, Leave, Admitted
    <3>2. CASE RemoveCheckpoint(n) \/ Acknowledge(n) \/ DiscardPartial(n) \/ DiscardCheckpoint(n)
                \/ ReachEndOfInput(n)
      BY <1>1, <3>2 DEF RemoveCheckpoint, Acknowledge, DiscardPartial, DiscardCheckpoint, ReachEndOfInput,
                  Leave, Admitted
    <3>3. CASE WriteFirstCheckpoint(n) \/ SendStatus(n) \/ SyncFrame(n) \/ AdvanceCheckpoint(n)
                \/ Rehash(n)
      BY <3>3 DEF WriteFirstCheckpoint, SendStatus, SyncFrame, AdvanceCheckpoint, Rehash,
                  Admitted, diskVars
    <3>4. CASE ReceiveFrame(n) \/ ReceiveFinal(n)
      BY <3>4 DEF ReceiveFrame, ReceiveFinal, Admitted
    <3> QED
      BY <3>1, <3>2, <3>3, <3>4 DEF HandlerStep
  <2> QED
    BY <2>3, <2>4, <2>5, <2>6, <2>7
<1> QED
  BY <1>2, <1>3

\* Whatever a running handler writes, truncates or creates is not the inode
\* under the destination name.
LEMMA DestinationUntouched ==
    ASSUME Inv, NEW n \in Conns, HandlerStep(n), dest # None
    PROVE  file'[dest] = file[dest]
<1> DEFINE t == request[n].tid
<1>1. t \in Conns /\ dest \in Conns /\ NamesDisjoint /\ HandlerOwnsPartial
        /\ file \in [Conns -> Seq(Byte)]
  BY HandlerShape, HandlerHeader DEF Inv, SequentialInv, TypeInv, TypeOK, DiskTypes
<1>2. CASE CreatePartial(n)
  <2>1. dest # n
    BY <1>1, <1>2 DEF CreatePartial, NamesDisjoint, Started
  <2> QED
    BY <1>1, <1>2, <2>1 DEF CreatePartial
<1>3. CASE RollBack(n)
  <2>1. partial[t] # dest
    BY <1>1, <1>3, NoneIsNew DEF RollBack, NamesDisjoint
  <2>2. \/ file' = [file EXCEPT ![partial[t]] = TruncateTo(@, cur[n])]
        \/ file' = file
    BY <1>3 DEF RollBack
  <2> QED
    BY <1>1, <2>1, <2>2
<1>4. CASE ReceiveFrame(n)
  <2>1. fd[n] # dest
    BY <1>1, <1>4, NoneIsNew DEF ReceiveFrame, NamesDisjoint, HandlerOwnsPartial
  <2>2. PICK d : file' = [file EXCEPT ![fd[n]] = d]
    BY <1>4 DEF ReceiveFrame
  <2> QED
    BY <1>1, <2>1, <2>2
<1>5. CASE UNCHANGED file
  BY <1>5
<1>6. CreatePartial(n) \/ RollBack(n) \/ ReceiveFrame(n) \/ UNCHANGED file
  <2>1. CASE Accept(n) \/ DropQueued(n) \/ WriteFirstCheckpoint(n) \/ LoadCheckpoint(n)
              \/ RejectRequest(n) \/ RefuseShortPartial(n) \/ SendStatus(n) \/ SyncFrame(n)
    BY <2>1 DEF Accept, DropQueued, WriteFirstCheckpoint, LoadCheckpoint, RejectRequest,
                RefuseShortPartial, SendStatus, SyncFrame, diskVars
  <2>2. CASE AdvanceCheckpoint(n) \/ ReceiveFinal(n) \/ Rehash(n) \/ Publish(n)
              \/ RemoveCheckpoint(n) \/ Acknowledge(n) \/ DiscardPartial(n) \/ DiscardCheckpoint(n)
              \/ ReachEndOfInput(n)
    BY <2>2 DEF AdvanceCheckpoint, ReceiveFinal, Rehash, Publish, RemoveCheckpoint, Acknowledge, DiscardPartial,
                DiscardCheckpoint, ReachEndOfInput, diskVars
  <2> QED
    BY <2>1, <2>2 DEF HandlerStep
<1> QED
  BY <1>2, <1>3, <1>4, <1>5, <1>6

\* So what was durable at the destination stays so.
LEMMA DestinationSynced ==
    ASSUME Inv, NEW n \in Conns, HandlerStep(n), dest # None
    PROVE  synced'[dest] = file'[dest]
<1> DEFINE t == request[n].tid
<1>1. t \in Conns /\ dest \in Conns /\ NamesDisjoint /\ HandlerOwnsPartial
        /\ synced \in [Conns -> Seq(Byte)] /\ file'[dest] = file[dest]
        /\ synced[dest] = file[dest] /\ fd \in [Conns -> Conns \cup {None}]
  BY HandlerShape, HandlerHeader, DestinationUntouched
     DEF Inv, SequentialInv, PublishedVerified, TypeInv, TypeOK, DiskTypes, HandlerTypes
<1>2. CASE CreatePartial(n)
  <2>1. dest # n
    BY <1>1, <1>2 DEF CreatePartial, NamesDisjoint, Started
  <2> QED
    BY <1>1, <1>2, <2>1 DEF CreatePartial
<1>3. CASE RollBack(n)
  <2>1. \/ synced' = [synced EXCEPT ![partial[t]] = file'[partial[t]]]
        \/ synced' = synced
    BY <1>3 DEF RollBack
  <2> QED
    BY <1>1, <2>1
<1>4. CASE SyncFrame(n) \/ ReceiveFinal(n)
  <2>1. synced' = [synced EXCEPT ![fd[n]] = file[fd[n]]]
    BY <1>4 DEF SyncFrame, ReceiveFinal
  <2> QED
    BY <1>1, <2>1
<1>5. CASE UNCHANGED synced
  BY <1>1, <1>5
<1>6. CreatePartial(n) \/ RollBack(n) \/ SyncFrame(n) \/ ReceiveFinal(n) \/ UNCHANGED synced
  <2>1. CASE Accept(n) \/ DropQueued(n) \/ WriteFirstCheckpoint(n) \/ LoadCheckpoint(n)
              \/ RejectRequest(n) \/ RefuseShortPartial(n) \/ SendStatus(n) \/ ReceiveFrame(n)
    BY <2>1 DEF Accept, DropQueued, WriteFirstCheckpoint, LoadCheckpoint, RejectRequest,
                RefuseShortPartial, SendStatus, ReceiveFrame, diskVars
  <2>2. CASE AdvanceCheckpoint(n) \/ Rehash(n) \/ Publish(n) \/ RemoveCheckpoint(n) \/ Acknowledge(n)
              \/ DiscardPartial(n) \/ DiscardCheckpoint(n) \/ ReachEndOfInput(n)
    BY <2>2 DEF AdvanceCheckpoint, Rehash, Publish, RemoveCheckpoint, Acknowledge, DiscardPartial,
                DiscardCheckpoint, ReachEndOfInput, diskVars
  <2> QED
    BY <2>1, <2>2 DEF HandlerStep
<1> QED
  BY <1>2, <1>3, <1>4, <1>5, <1>6

LEMMA DestChange ==
    ASSUME NEW n \in Conns, HandlerStep(n)
    PROVE  \/ UNCHANGED dest
           \/ /\ Publish(n) /\ partial[request[n].tid] # None
              /\ dest' = partial[request[n].tid]
<1>1. CASE Accept(n) \/ DropQueued(n) \/ WriteFirstCheckpoint(n) \/ LoadCheckpoint(n)
            \/ RejectRequest(n) \/ RefuseShortPartial(n) \/ SendStatus(n) \/ ReceiveFrame(n)
  BY <1>1 DEF Accept, DropQueued, WriteFirstCheckpoint, LoadCheckpoint, RejectRequest,
              RefuseShortPartial, SendStatus, ReceiveFrame, diskVars
<1>2. CASE AdvanceCheckpoint(n) \/ Rehash(n) \/ RemoveCheckpoint(n) \/ Acknowledge(n) \/ SyncFrame(n)
            \/ DiscardPartial(n) \/ DiscardCheckpoint(n) \/ ReachEndOfInput(n)
  BY <1>2 DEF AdvanceCheckpoint, Rehash, RemoveCheckpoint, Acknowledge, SyncFrame, DiscardPartial,
              DiscardCheckpoint, ReachEndOfInput, diskVars
<1>3. CASE CreatePartial(n) \/ RollBack(n) \/ ReceiveFinal(n)
  BY <1>3 DEF CreatePartial, RollBack, ReceiveFinal
<1>4. CASE Publish(n)
  BY <1>4 DEF Publish
<1> QED
  BY <1>1, <1>2, <1>3, <1>4 DEF HandlerStep

\* The inode a handler publishes is durable, and holds what was announced.
LEMMA PublishedContent ==
    ASSUME Inv, NEW n \in Conns, Publish(n), partial[request[n].tid] # None
    PROVE  LET t == request[n].tid IN
           /\ dest' = t /\ t \in Conns /\ dest # t
           /\ request[t] # None /\ file[t] = request[t].digest /\ synced[t] = file[t]
           /\ UNCHANGED <<request, file, synced>>
<1> DEFINE t == request[n].tid
<1>1. spc[n] = "verified" /\ UNCHANGED <<request, file, synced>> /\ dest' = partial[t]
  BY DEF Publish, netVars
<1>2. t \in Conns
  BY <1>1, HandlerHeader DEF Inv
<1>3. partial[t] = t /\ synced[t] = file[t] /\ file[t] = request[n].digest
  BY <1>1 DEF Inv, SequentialInv, HandlerOwnsPartial
<1>4. request[t] # None /\ request[n].digest = request[t].digest
  BY <1>1 DEF Inv, SequentialInv, DigestsAgree, Active, Closed
<1>5. dest # t
  BY <1>2, <1>3, NoneIsNew DEF Inv, SequentialInv, NamesDisjoint
<1> QED
  BY <1>1, <1>2, <1>3, <1>4, <1>5

LEMMA PublishedKept ==
    ASSUME Inv, NEW n \in Conns, HandlerStep(n)
    PROVE  PublishedVerified'
<1>1. CASE UNCHANGED dest
  BY <1>1, HandlerShape, DestinationUntouched, DestinationSynced
     DEF Inv, SequentialInv, PublishedVerified
<1>2. CASE Publish(n) /\ partial[request[n].tid] # None
  BY <1>2, PublishedContent DEF PublishedVerified
<1> QED
  BY <1>1, <1>2, DestChange

LEMMA HandlerInv ==
    ASSUME Inv, TypeInv', ~Concurrent, NEW n \in Conns, HandlerStep(n)
    PROVE  Inv'
BY OneHandlerKept, NamesKept, DigestsKept, OwnsKept, RoomKept, PublishedKept
   DEF Inv, TypeInv, SequentialInv
-----------------------------------------------------------------------------
(* Faults end handlers; a power loss also rewinds files and a checkpoint. *)

LEMMA EndsInv ==
    ASSUME Inv, TypeInv', UNCHANGED <<request, partial, dest>>,
           \A n \in Conns : spc'[n] = spc[n] \/ (spc[n] # "none" /\ spc'[n] = "closed"),
           \/ UNCHANGED <<file, synced, fd, ckpt>>
           \/ /\ \A n \in Conns : spc'[n] \in {"none", "closed"}
              /\ file' = synced /\ UNCHANGED synced
              /\ \A t \in Conns : ckpt'[t] # None =>
                    ckpt[t] # None /\ ckpt'[t].digest = ckpt[t].digest
    PROVE  Inv'
<1>1. OneHandler'
  BY DEF Inv, SequentialInv, OneHandler, Active, Closed
<1>2. NamesDisjoint'
  BY DEF Inv, SequentialInv, NamesDisjoint, Started
<1>3. DigestsAgree'
  BY DEF Inv, SequentialInv, DigestsAgree, Active, Closed
<1>4. HandlerOwnsPartial'
  BY DEF Inv, SequentialInv, HandlerOwnsPartial
<1>5. RoomForOne' /\ PublishedVerified'
  BY DEF Inv, SequentialInv, RoomForOne, Admitted, PublishedVerified
<1> QED
  BY <1>1, <1>2, <1>3, <1>4, <1>5 DEF Inv, TypeInv, SequentialInv

LEMMA FaultInv ==
    ASSUME Inv, TypeInv', (\E n \in Conns : HandlerAbort(n)) \/ ServerCrash \/ PowerLoss
    PROVE  Inv'
<1>1. ASSUME NEW n \in Conns, HandlerAbort(n)
      PROVE  Inv'
  <2>1. \A m \in Conns : spc'[m] = spc[m] \/ (spc[m] # "none" /\ spc'[m] = "closed")
    BY <1>1 DEF HandlerAbort, Active, Closed, Leave, Inv, TypeInv, TypeOK, HandlerTypes
  <2> QED
    BY <1>1, <2>1, EndsInv DEF HandlerAbort, netVars, diskVars
<1>2. ASSUME EndAllHandlers
      PROVE  \A m \in Conns : /\ spc'[m] = spc[m] \/ (spc[m] # "none" /\ spc'[m] = "closed")
                              /\ spc'[m] \in {"none", "closed"}
  BY <1>2 DEF EndAllHandlers
<1>3. CASE ServerCrash
  BY <1>2, <1>3, EndsInv DEF ServerCrash, netVars, diskVars
<1>4. CASE PowerLoss
  <2>1. \A t \in Conns : ckpt'[t] # None =>
            ckpt[t] # None /\ ckpt'[t].digest = ckpt[t].digest
    <3>1. CASE UNCHANGED ckpt
      BY <3>1
    <3>2. CASE ~UNCHANGED ckpt
      <4>1. PICK u \in Conns : ckpt[u] # None
                /\ \E k \in OlderCheckpoints(ckpt[u]) : ckpt' = [ckpt EXCEPT ![u] = k]
        BY <1>4, <3>2 DEF PowerLoss
      <4>2. PICK i \in 0 .. ckpt[u].next :
                ckpt' = [ckpt EXCEPT ![u] =
                    [ckpt[u] EXCEPT !.next = i,
                                    !.bytes = ExpectedBytes(i, ckpt[u].size, FrameSize)]]
        BY <4>1 DEF OlderCheckpoints
      <4>3. ckpt[u] \in Ckpts /\ ckpt \in [Conns -> Ckpts \cup {None}]
        BY <4>1 DEF Inv, TypeInv, TypeOK, DiskTypes
      <4> QED
        BY <4>1, <4>2, <4>3 DEF Ckpts
    <3> QED
      BY <3>1, <3>2
  <2> QED
    BY <1>2, <1>4, <2>1, EndsInv DEF PowerLoss, netVars
<1> QED
  BY <1>1, <1>3, <1>4

LEMMA NextInv ==
    ASSUME ~Concurrent, Inv, [Next]_vars
    PROVE  Inv'
<1>1. TypeInv'
  BY NextType DEF Inv
<1>2. CASE UNCHANGED vars
  BY <1>1, <1>2, InvKept DEF vars, netVars, handlerVars, diskVars
<1>3. CASE Next
  BY <1>1, <1>3, ClientInv, HandlerInv, FaultInv DEF Next
<1> QED
  BY <1>2, <1>3
-----------------------------------------------------------------------------
\* A server that runs serve_once in a loop never publishes anything but the
\* complete content the sender announced, and only once it is durable, however
\* clients, the server and the power fail and whatever short writes occur.
THEOREM PublicationSafe ==
    ASSUME ~Concurrent
    PROVE  Spec => []PublishedVerified
<1>1. Init => Inv
  BY InitInv
<1>2. Inv /\ [Next]_vars => Inv'
  BY NextInv
<1>3. Inv => PublishedVerified
  BY DEF Inv, SequentialInv
<1> QED
  BY <1>1, <1>2, <1>3, PTL DEF Spec

\* The whole invariant: in particular one handler at a time owns a partial file.
THEOREM SequentialSafe ==
    ASSUME ~Concurrent
    PROVE  Spec => []SequentialInv
<1>1. Init => Inv
  BY InitInv
<1>2. Inv /\ [Next]_vars => Inv'
  BY NextInv
<1>3. Inv => SequentialInv
  BY DEF Inv
<1> QED
  BY <1>1, <1>2, <1>3, PTL DEF Spec

LEMMA KeptByHandler ==
    ASSUME Inv, NEW n \in Conns, HandlerStep(n), dest # None
    PROVE  \/ dest' = dest /\ file'[dest] = file[dest]
           \/ Overwrite /\ dest' \notin {None, dest}
<1>1. CASE UNCHANGED dest
  BY <1>1, DestinationUntouched
<1>2. CASE Publish(n) /\ partial[request[n].tid] # None
  <2>1. spc[n] \in Admitted
    BY <1>2 DEF Publish, Admitted
  <2>2. Overwrite
    BY <2>1 DEF Inv, SequentialInv, RoomForOne
  <2> QED
    BY <1>2, <2>2, PublishedContent, NoneIsNew
<1> QED
  BY <1>1, <1>2, DestChange

\* On such a server a file that has been published is never modified in place,
\* and never replaced unless overwriting was asked for, whatever else is sent
\* under its name.
THEOREM DestinationSafe ==
    ASSUME ~Concurrent
    PROVE  Spec => DestinationKept
<1> DEFINE Kept == dest # None =>
               \/ dest' = dest /\ file'[dest] = file[dest]
               \/ Overwrite /\ dest' \notin {None, dest}
<1>1. Init => Inv
  BY InitInv
<1>2. Inv /\ [Next]_vars => Inv'
  BY NextInv
<1>3. Inv /\ [Next]_vars => [Kept]_vars
  <2> SUFFICES ASSUME Inv, Next, dest # None
               PROVE  Kept
    OBVIOUS
  <2>1. ASSUME NEW n \in Conns, HandlerStep(n)
        PROVE  Kept
    BY <2>1, KeptByHandler
  <2>2. CASE UNCHANGED <<dest, file>>
    BY <2>2
  <2>3. CASE PowerLoss
    BY <2>3 DEF PowerLoss, Inv, SequentialInv, PublishedVerified
  <2>4. ASSUME NEW c \in Clients, ClientStep(c) \/ ClientAbort(c) \/ EditSource(c)
        PROVE  UNCHANGED <<dest, file>>
    BY <2>4 DEF ClientStep, Open, HashOneBlock, Connect, RefuseChangedSource, ReceiveStatus,
                SendFrame, AbandonShortSource, SendFinal, ReceiveAck, ReceiveEnd, ClientAbort,
                EditSource, diskVars
  <2>5. ASSUME ServerCrash \/ \E n \in Conns : HandlerAbort(n)
        PROVE  UNCHANGED <<dest, file>>
    BY <2>5 DEF ServerCrash, HandlerAbort, diskVars
  <2> QED
    BY <2>1, <2>2, <2>3, <2>4, <2>5 DEF Next
<1> QED
  BY <1>1, <1>2, <1>3, PTL DEF Spec, DestinationKept
-----------------------------------------------------------------------------
(* What a transfer promises. *)

\* A published inode is out of reach of every later handler.
PublishedStays ==
    \A t \in Conns : outcome[t] = "published" =>
        /\ Started(t) /\ partial[t] # t
        /\ file[t] = request[t].digest /\ synced[t] = file[t]

\* What a handler that is about to clean up knows about its transfer.
HandlersDone ==
    \A n \in Conns : LET t == request[n].tid IN
        /\ spc[n] \in {"published", "cleared"} => outcome[t] = "published"
        /\ spc[n] = "rejected" => partial[t] = t

Delivers(t, d) == outcome[t] = "published" /\ request[t].digest = d

\* Acknowledgements on their way are true.
Honest(m) == m.kind = "ack" => Delivers(m.tid, m.digest)
AcksTrue == \A n \in Conns : \A i \in 1 .. Len(down[n]) : Honest(down[n][i])

\* A call that is connected has announced what it hashed.
CallsHashed ==
    \A c \in Clients : cpc[c] \in {"waiting", "streaming", "finishing"} =>
        request[conn[c]].digest = hashed[c]

ReceiptsTrue ==
    \A c \in Clients : cpc[c] = "done" => \E t \in Conns : Delivers(t, hashed[c])

DeliveryInv == PublishedStays /\ HandlersDone /\ AcksTrue /\ CallsHashed /\ ReceiptsTrue

TransferInv == Inv /\ DeliveryInv

LEMMA InitTransfer == Init => TransferInv
<1> SUFFICES ASSUME Init
             PROVE  DeliveryInv
  BY InitInv DEF TransferInv
<1>1. PublishedStays /\ HandlersDone /\ CallsHashed /\ ReceiptsTrue
  BY DEF Init, PublishedStays, HandlersDone, CallsHashed, ReceiptsTrue
<1>2. AcksTrue
  BY DEF Init, AcksTrue
<1> QED
  BY <1>1, <1>2 DEF DeliveryInv
-----------------------------------------------------------------------------
(* The disk: no handler touches an inode that lost its partial name.       *)

LEMMA InodeUntouched ==
    ASSUME Inv, NEW n \in Conns, HandlerStep(n),
           NEW t \in Conns, Started(t), partial[t] # t
    PROVE  file'[t] = file[t] /\ partial'[t] # t
<1> DEFINE u == request[n].tid
<1>1. u \in Conns /\ NamesDisjoint /\ HandlerOwnsPartial
        /\ file \in [Conns -> Seq(Byte)] /\ partial \in [Conns -> Conns \cup {None}]
  BY HandlerShape, HandlerHeader DEF Inv, SequentialInv, TypeInv, TypeOK, DiskTypes
<1>2. CASE CreatePartial(n)
  <2>1. u = n /\ t # n
    BY <1>1, <1>2, NoneIsNew, HandlerShape, HandlerHeader
       DEF CreatePartial, Started, Inv, TypeInv, Connected, NewIsFresh
  <2> QED
    BY <1>1, <1>2, <2>1 DEF CreatePartial
<1>3. CASE RollBack(n)
  <2>1. partial[u] # t /\ partial' = partial
    BY <1>1, <1>3, NoneIsNew DEF RollBack, NamesDisjoint
  <2>2. \/ file' = [file EXCEPT ![partial[u]] = TruncateTo(@, cur[n])]
        \/ file' = file
    BY <1>3 DEF RollBack
  <2> QED
    BY <1>1, <2>1, <2>2
<1>4. CASE ReceiveFrame(n)
  <2>1. fd[n] # t /\ partial' = partial
    BY <1>1, <1>4 DEF ReceiveFrame, HandlerOwnsPartial
  <2>2. PICK d : file' = [file EXCEPT ![fd[n]] = d]
    BY <1>4 DEF ReceiveFrame
  <2> QED
    BY <1>1, <2>1, <2>2
<1>5. CASE UNCHANGED file /\ partial' \in {partial, [partial EXCEPT ![u] = None]}
  BY <1>1, <1>5, NoneIsNew
<1>6. \/ CreatePartial(n) \/ RollBack(n) \/ ReceiveFrame(n)
      \/ UNCHANGED file /\ partial' \in {partial, [partial EXCEPT ![u] = None]}
  <2>1. CASE Accept(n) \/ DropQueued(n) \/ WriteFirstCheckpoint(n) \/ LoadCheckpoint(n)
              \/ RejectRequest(n) \/ RefuseShortPartial(n) \/ SendStatus(n) \/ SyncFrame(n)
    BY <2>1 DEF Accept, DropQueued, WriteFirstCheckpoint, LoadCheckpoint, RejectRequest,
                RefuseShortPartial, SendStatus, SyncFrame, diskVars
  <2>2. CASE AdvanceCheckpoint(n) \/ ReceiveFinal(n) \/ Rehash(n) \/ Publish(n)
              \/ RemoveCheckpoint(n) \/ Acknowledge(n) \/ DiscardPartial(n)
              \/ DiscardCheckpoint(n) \/ ReachEndOfInput(n)
    BY <2>2 DEF AdvanceCheckpoint, ReceiveFinal, Rehash, Publish, RemoveCheckpoint, Acknowledge,
                DiscardPartial, DiscardCheckpoint, ReachEndOfInput, diskVars
  <2> QED
    BY <2>1, <2>2 DEF HandlerStep
<1> QED
  BY <1>2, <1>3, <1>4, <1>5, <1>6

LEMMA InodeStaysSynced ==
    ASSUME Inv, NEW n \in Conns, HandlerStep(n),
           NEW t \in Conns, Started(t), partial[t] # t, synced[t] = file[t]
    PROVE  synced'[t] = file'[t]
<1> DEFINE u == request[n].tid
<1>1. u \in Conns /\ synced \in [Conns -> Seq(Byte)] /\ file'[t] = file[t]
  BY HandlerShape, HandlerHeader, InodeUntouched DEF Inv, TypeInv, TypeOK, DiskTypes
<1>2. CASE CreatePartial(n)
  <2>1. t # n
    BY <1>2 DEF CreatePartial, Started
  <2> QED
    BY <1>1, <1>2, <2>1 DEF CreatePartial
<1>3. CASE RollBack(n)
  <2>1. \/ synced' = [synced EXCEPT ![partial[u]] = file'[partial[u]]]
        \/ synced' = synced
    BY <1>3 DEF RollBack
  <2> QED
    BY <1>1, <2>1
<1>4. CASE SyncFrame(n) \/ ReceiveFinal(n)
  <2>1. synced' = [synced EXCEPT ![fd[n]] = file[fd[n]]]
    BY <1>4 DEF SyncFrame, ReceiveFinal
  <2> QED
    BY <1>1, <2>1
<1>5. CASE UNCHANGED synced
  BY <1>1, <1>5
<1>6. CreatePartial(n) \/ RollBack(n) \/ SyncFrame(n) \/ ReceiveFinal(n) \/ UNCHANGED synced
  <2>1. CASE Accept(n) \/ DropQueued(n) \/ WriteFirstCheckpoint(n) \/ LoadCheckpoint(n)
              \/ RejectRequest(n) \/ RefuseShortPartial(n) \/ SendStatus(n) \/ ReceiveFrame(n)
    BY <2>1 DEF Accept, DropQueued, WriteFirstCheckpoint, LoadCheckpoint, RejectRequest,
                RefuseShortPartial, SendStatus, ReceiveFrame, diskVars
  <2>2. CASE AdvanceCheckpoint(n) \/ Rehash(n) \/ Publish(n) \/ RemoveCheckpoint(n)
              \/ Acknowledge(n) \/ DiscardPartial(n) \/ DiscardCheckpoint(n) \/ ReachEndOfInput(n)
    BY <2>2 DEF AdvanceCheckpoint, Rehash, Publish, RemoveCheckpoint, Acknowledge,
                DiscardPartial, DiscardCheckpoint, ReachEndOfInput, diskVars
  <2> QED
    BY <2>1, <2>2 DEF HandlerStep
<1> QED
  BY <1>2, <1>3, <1>4, <1>5, <1>6

\* What a handler does to the history variable, and to the answers.
LEMMA OutcomeChange ==
    ASSUME NEW n \in Conns, HandlerStep(n)
    PROVE  \/ UNCHANGED outcome
           \/ /\ Publish(n) /\ partial[request[n].tid] # None
              /\ outcome' = [outcome EXCEPT ![request[n].tid] = "published"]
           \/ /\ DiscardPartial(n)
              /\ outcome' = [outcome EXCEPT ![request[n].tid] = "discarded"]
<1>1. CASE Publish(n) \/ DiscardPartial(n)
  BY <1>1 DEF Publish, DiscardPartial
<1>2. CASE Accept(n) \/ DropQueued(n) \/ CreatePartial(n) \/ WriteFirstCheckpoint(n)
            \/ LoadCheckpoint(n) \/ RejectRequest(n) \/ RollBack(n) \/ RefuseShortPartial(n)
            \/ SendStatus(n) \/ ReceiveFrame(n) \/ SyncFrame(n)
  BY <1>2 DEF Accept, DropQueued, CreatePartial, WriteFirstCheckpoint, LoadCheckpoint,
              RejectRequest, RollBack, RefuseShortPartial, SendStatus, ReceiveFrame, SyncFrame,
              modelVars
<1>3. CASE AdvanceCheckpoint(n) \/ ReceiveFinal(n) \/ Rehash(n) \/ RemoveCheckpoint(n)
            \/ Acknowledge(n) \/ DiscardCheckpoint(n) \/ ReachEndOfInput(n)
  BY <1>3 DEF AdvanceCheckpoint, ReceiveFinal, Rehash, RemoveCheckpoint, Acknowledge,
              DiscardCheckpoint, ReachEndOfInput, modelVars
<1> QED
  BY <1>1, <1>2, <1>3 DEF HandlerStep

LEMMA DownChange ==
    ASSUME NEW n \in Conns, HandlerStep(n)
    PROVE  /\ UNCHANGED clientVars
           /\ \/ UNCHANGED down
              \/ /\ SendStatus(n)
                 /\ down' = [down EXCEPT ![n] =
                                 Append(@, Status(nxt[n], cur[n], Ticket(request[n])))]
              \/ /\ Acknowledge(n)
                 /\ down' = [down EXCEPT ![n] =
                                 Append(@, Ack(request[n].digest, request[n].tid))]
<1>1. CASE SendStatus(n) \/ Acknowledge(n)
  BY <1>1 DEF SendStatus, Acknowledge
<1>2. CASE Accept(n) \/ DropQueued(n) \/ CreatePartial(n) \/ WriteFirstCheckpoint(n)
            \/ LoadCheckpoint(n) \/ RejectRequest(n) \/ RollBack(n) \/ RefuseShortPartial(n)
            \/ ReceiveFrame(n) \/ SyncFrame(n)
  BY <1>2 DEF Accept, DropQueued, CreatePartial, WriteFirstCheckpoint, LoadCheckpoint,
              RejectRequest, RollBack, RefuseShortPartial, ReceiveFrame, SyncFrame, netVars
<1>3. CASE AdvanceCheckpoint(n) \/ ReceiveFinal(n) \/ Rehash(n) \/ RemoveCheckpoint(n)
            \/ Publish(n) \/ DiscardPartial(n) \/ DiscardCheckpoint(n) \/ ReachEndOfInput(n)
  BY <1>3 DEF AdvanceCheckpoint, ReceiveFinal, Rehash, RemoveCheckpoint, Publish,
              DiscardPartial, DiscardCheckpoint, ReachEndOfInput, netVars
<1> QED
  BY <1>1, <1>2, <1>3 DEF HandlerStep
-----------------------------------------------------------------------------
(* Steps of a handler. *)

LEMMA DeliveredKept ==
    ASSUME TransferInv, NEW n \in Conns, HandlerStep(n),
           NEW t \in Conns, outcome[t] = "published"
    PROVE  outcome'[t] = "published"
<1>1. outcome \in [Conns -> {"open", "published", "discarded"}]
  BY DEF TransferInv, Inv, TypeInv, TypeOK, ModelTypes
<1>2. ASSUME DiscardPartial(n)
      PROVE  request[n].tid # t
  BY <1>2 DEF DiscardPartial, TransferInv, DeliveryInv, HandlersDone, PublishedStays
<1> QED
  BY <1>1, <1>2, OutcomeChange

LEMMA StaysKept ==
    ASSUME TransferInv, NEW n \in Conns, HandlerStep(n)
    PROVE  PublishedStays'
<1> SUFFICES ASSUME NEW t \in Conns, outcome'[t] = "published"
             PROVE  /\ Started(t)' /\ partial'[t] # t
                    /\ file'[t] = request'[t].digest /\ synced'[t] = file'[t]
  BY DEF PublishedStays
<1>1. Inv /\ TypeInv /\ request' = request
  BY HandlerShape DEF TransferInv, Inv
<1>2. CASE outcome[t] = "published"
  <2>1. Started(t) /\ partial[t] # t /\ file[t] = request[t].digest /\ synced[t] = file[t]
    BY <1>2 DEF TransferInv, DeliveryInv, PublishedStays
  <2> QED
    BY <1>1, <2>1, StartedKept, InodeUntouched, InodeStaysSynced
<1>3. CASE outcome[t] # "published"
  <2>1. Publish(n) /\ partial[t] # None /\ t = request[n].tid
    BY <1>1, <1>3, OutcomeChange DEF TypeInv, TypeOK, ModelTypes
  <2>2. /\ file[t] = request[t].digest /\ synced[t] = file[t]
        /\ UNCHANGED <<request, file, synced>>
    BY <1>1, <2>1, PublishedContent
  <2>3. partial' = [partial EXCEPT ![t] = None]
    BY <2>1 DEF Publish
  <2>4. Started(t) /\ partial'[t] = None
    BY <1>1, <2>1, <2>3 DEF Inv, SequentialInv, NamesDisjoint, TypeInv, TypeOK, DiskTypes
  <2> QED
    BY <1>1, <2>2, <2>4, StartedKept, NoneIsNew
<1> QED
  BY <1>2, <1>3

LEMMA DoneKept ==
    ASSUME TransferInv, ~Concurrent, NEW n \in Conns, HandlerStep(n)
    PROVE  HandlersDone'
<1> DEFINE u == request[n].tid
           Late == {"published", "cleared", "rejected"}
<1>1. Inv /\ TypeInv /\ request' = request /\ u \in Conns /\ HandlersDone
  BY HandlerShape, HandlerHeader DEF TransferInv, DeliveryInv, Inv
<1>2. CASE spc[n] = "queued"
  <2>1. \A m \in Conns : spc'[m] \in Late => spc[m] = spc'[m] /\ m # n
    BY <1>1, <1>2, HandlerShape
  <2>2. ASSUME NEW m \in Conns, spc[m] \in {"published", "cleared"}
        PROVE  outcome[request[m].tid] = "published" /\ request[m].tid \in Conns
    BY <1>1, <2>2, HandlerHeader DEF HandlersDone
  <2> QED
    BY <1>1, <1>2, <2>1, <2>2, QueuedStep, DeliveredKept DEF HandlersDone
<1>3. CASE spc[n] # "queued"
  <2>1. \A m \in Conns \ {n} : spc'[m] \notin Late
    BY <1>1, <1>3, Alone DEF Closed
  <2>2. SUFFICES /\ spc'[n] \in {"published", "cleared"} => outcome'[u] = "published"
                 /\ spc'[n] = "rejected" => partial'[u] = u
    BY <1>1, <2>1 DEF HandlersDone
  <2>3. spc \in [Conns -> HandlerPCs] /\ outcome \in [Conns -> {"open", "published", "discarded"}]
    BY <1>1 DEF TypeInv, TypeOK, HandlerTypes, ModelTypes
  <2>4. CASE Publish(n)
    BY <1>1, <2>3, <2>4 DEF Publish, Leave
  <2>5. CASE Rehash(n)
    BY <1>1, <2>3, <2>5 DEF Rehash, diskVars, Inv, SequentialInv, HandlerOwnsPartial
  <2>6. CASE RemoveCheckpoint(n)
    BY <1>1, <2>3, <2>6 DEF RemoveCheckpoint, HandlersDone, modelVars
  <2>7. CASE spc'[n] \notin Late
    BY <2>7
  <2>8. Publish(n) \/ Rehash(n) \/ RemoveCheckpoint(n) \/ spc'[n] \notin Late
    <3>1. CASE Accept(n) \/ DropQueued(n) \/ CreatePartial(n) \/ WriteFirstCheckpoint(n)
                \/ LoadCheckpoint(n) \/ RejectRequest(n) \/ RollBack(n) \/ RefuseShortPartial(n)
      BY <2>3, <3>1 DEF Accept, DropQueued, CreatePartial, WriteFirstCheckpoint, LoadCheckpoint,
                  RejectRequest, RollBack, RefuseShortPartial, Leave
    <3>2. CASE SendStatus(n) \/ ReceiveFrame(n) \/ SyncFrame(n) \/ AdvanceCheckpoint(n)
                \/ ReceiveFinal(n)
      BY <2>3, <3>2 DEF SendStatus, ReceiveFrame, SyncFrame, AdvanceCheckpoint, ReceiveFinal
    <3>3. CASE Acknowledge(n) \/ DiscardPartial(n) \/ DiscardCheckpoint(n) \/ ReachEndOfInput(n)
      BY <2>3, <3>3 DEF Acknowledge, DiscardPartial, DiscardCheckpoint, ReachEndOfInput, Leave
    <3> QED
      BY <3>1, <3>2, <3>3 DEF HandlerStep
  <2> QED
    BY <2>4, <2>5, <2>6, <2>7, <2>8
<1> QED
  BY <1>2, <1>3

\* An acknowledgement is true when it is sent, and stays true.
LEMMA AcksKept ==
    ASSUME TransferInv, NEW n \in Conns, HandlerStep(n)
    PROVE  AcksTrue'
<1> DEFINE h == request[n]
<1>1. Inv /\ TypeInv /\ request' = request /\ h.tid \in Conns /\ down \in [Conns -> Seq(DownMsgs)]
  BY HandlerShape, HandlerHeader DEF TransferInv, Inv, TypeInv, TypeOK, NetTypes
<1>2. \A k \in Conns : \A i \in 1 .. Len(down[k]) : Honest(down[k][i])
  BY DEF TransferInv, DeliveryInv, AcksTrue
<1>3. ASSUME NEW m \in DownMsgs, Honest(m)
      PROVE  m.kind = "ack" => outcome'[m.tid] = "published" /\ request'[m.tid].digest = m.digest
  BY <1>1, <1>3, DeliveredKept DEF Honest, Delivers, DownMsgs
<1>4. \A k \in Conns : \A i \in 1 .. Len(down[k]) :
          down[k][i].kind = "ack" =>
              outcome'[down[k][i].tid] = "published"
                /\ request'[down[k][i].tid].digest = down[k][i].digest
  <2>1. \A k \in Conns : \A i \in 1 .. Len(down[k]) : down[k][i] \in DownMsgs
    BY <1>1
  <2> QED
    BY <1>2, <1>3, <2>1
<1>5. ASSUME NEW m \in DownMsgs, down' = [down EXCEPT ![n] = Append(@, m)], Honest(m)
      PROVE  AcksTrue'
  <2>1. ASSUME NEW k \in Conns, NEW i \in 1 .. Len(down'[k])
        PROVE  (k = n /\ down'[k][i] = m) \/ (i \in 1 .. Len(down[k]) /\ down'[k][i] = down[k][i])
    BY <1>1, <1>5, <2>1
  <2>2. ASSUME NEW k \in Conns, NEW i \in 1 .. Len(down'[k])
        PROVE  Honest(down[k][i])'
    BY <1>3, <1>4, <1>5, <2>1, <2>2 DEF Honest, Delivers
  <2> QED
    BY <2>2 DEF AcksTrue
<1>6. CASE UNCHANGED down
  BY <1>4, <1>6 DEF AcksTrue, Honest, Delivers
<1>7. CASE /\ SendStatus(n)
           /\ down' = [down EXCEPT ![n] = Append(@, Status(nxt[n], cur[n], Ticket(h)))]
  <2>1. Status(nxt[n], cur[n], Ticket(h)) \in DownMsgs
    BY <1>1, <1>7, HandlerHeader
       DEF SendStatus, Status, DownMsgs, Ticket, Tickets, TypeInv, TypeOK, HandlerTypes
  <2>2. Honest(Status(nxt[n], cur[n], Ticket(h)))
    BY DEF Status, Honest
  <2> QED
    BY <1>5, <1>7, <2>1, <2>2
<1>8. CASE Acknowledge(n) /\ down' = [down EXCEPT ![n] = Append(@, Ack(h.digest, h.tid))]
  <2>1. spc[n] = "cleared"
    BY <1>8 DEF Acknowledge
  <2>2. h.digest = request[h.tid].digest /\ outcome[h.tid] = "published" /\ h.digest \in Seq(Byte)
    BY <1>1, <2>1, HandlerHeader
       DEF TransferInv, DeliveryInv, HandlersDone, Inv, SequentialInv, DigestsAgree, Active, Closed
  <2>3. Ack(h.digest, h.tid) \in DownMsgs
    BY <1>1, <2>2 DEF Ack, DownMsgs
  <2>4. Honest(Ack(h.digest, h.tid))
    BY <2>2 DEF Ack, Honest, Delivers
  <2> QED
    BY <1>5, <1>8, <2>3, <2>4
<1> QED
  BY <1>6, <1>7, <1>8, DownChange

LEMMA HandlerTransfer ==
    ASSUME TransferInv, TypeInv', ~Concurrent, NEW n \in Conns, HandlerStep(n)
    PROVE  TransferInv'
<1>1. Inv /\ UNCHANGED <<request, cpc, conn, hashed>>
  BY HandlerShape, DownChange DEF TransferInv, Inv, clientVars
<1>2. CallsHashed'
  BY <1>1 DEF TransferInv, DeliveryInv, CallsHashed
<1>3. ReceiptsTrue'
  BY <1>1, DeliveredKept DEF TransferInv, DeliveryInv, ReceiptsTrue, Delivers
<1> QED
  BY <1>1, <1>2, <1>3, HandlerInv, StaysKept, DoneKept, AcksKept DEF TransferInv, DeliveryInv
-----------------------------------------------------------------------------
(* Steps of a client. *)

\* A client does nothing to the server's disk and handlers but connect to it.
LEMMA ClientLeaves ==
    ASSUME TransferInv, NEW c \in Clients, ClientStep(c) \/ ClientAbort(c) \/ EditSource(c)
    PROVE  /\ UNCHANGED <<file, synced, partial, ckpt, dest, outcome, fd, nxt, cur, pos>>
           /\ \A n \in Conns : spc[n] # "none" => spc'[n] = spc[n] /\ request'[n] = request[n]
           /\ \A n \in Conns : spc[n] = "none" => spc'[n] \in {"none", "queued"}
<1>1. spc \in [Conns -> HandlerPCs] /\ request \in [Conns -> Headers \cup {None}]
        /\ HandlersHaveHeaders
  BY DEF TransferInv, Inv, TypeInv, TypeOK, HandlerTypes, NetTypes, Connected
<1>2. CASE Connect(c)
  <2>1. PICK n \in Conns \ Used :
            /\ \E h : request' = [request EXCEPT ![n] = h]
            /\ spc' = [spc EXCEPT ![n] = "queued"]
    BY <1>2 DEF Connect
  <2>2. spc[n] = "none"
    BY <1>1, <2>1 DEF Used, HandlersHaveHeaders
  <2>3. UNCHANGED <<file, synced, partial, ckpt, dest, outcome, fd, nxt, cur, pos>>
    BY <1>2 DEF Connect, diskVars, modelVars
  <2> QED
    BY <1>1, <2>1, <2>2, <2>3
<1>3. CASE Open(c) \/ HashOneBlock(c) \/ RefuseChangedSource(c) \/ ReceiveStatus(c)
            \/ SendFrame(c) \/ AbandonShortSource(c) \/ SendFinal(c) \/ ReceiveAck(c)
            \/ ReceiveEnd(c) \/ ClientAbort(c) \/ EditSource(c)
  BY <1>3 DEF Open, HashOneBlock, RefuseChangedSource, ReceiveStatus, SendFrame,
              AbandonShortSource, SendFinal, ReceiveAck, ReceiveEnd, ClientAbort,
              EditSource, netVars, handlerVars, diskVars, modelVars, Fault
<1> QED
  BY <1>2, <1>3 DEF ClientStep

LEMMA ClientDown ==
    ASSUME TransferInv, NEW c \in Clients, ClientStep(c) \/ ClientAbort(c) \/ EditSource(c)
    PROVE  \A n \in Conns : down'[n] = down[n] \/ (down[n] # <<>> /\ down'[n] = Tail(down[n]))
<1>1. down \in [Conns -> Seq(DownMsgs)]
  BY DEF TransferInv, Inv, TypeInv, TypeOK, NetTypes
<1>2. CASE ReceiveStatus(c) \/ ReceiveAck(c)
  BY <1>1, <1>2 DEF ReceiveStatus, ReceiveAck
<1>3. CASE Open(c) \/ HashOneBlock(c) \/ RefuseChangedSource(c) \/ Connect(c)
            \/ SendFrame(c) \/ AbandonShortSource(c) \/ SendFinal(c)
            \/ ReceiveEnd(c) \/ ClientAbort(c) \/ EditSource(c)
  BY <1>3 DEF Open, HashOneBlock, RefuseChangedSource, Connect, SendFrame,
              AbandonShortSource, SendFinal, ReceiveEnd, ClientAbort, EditSource, netVars
<1> QED
  BY <1>2, <1>3 DEF ClientStep

\* A client makes no answers up.
LEMMA OldAnswers ==
    ASSUME down \in [Conns -> Seq(DownMsgs)],
           NEW n \in Conns, down'[n] = down[n] \/ (down[n] # <<>> /\ down'[n] = Tail(down[n])),
           NEW i \in 1 .. Len(down'[n])
    PROVE  \E j \in 1 .. Len(down[n]) : down'[n][i] = down[n][j]
<1>1. down[n] \in Seq(DownMsgs)
  OBVIOUS
<1>2. CASE down'[n] = down[n]
  BY <1>2
<1>3. CASE down[n] # <<>> /\ down'[n] = Tail(down[n])
  <2>1. i + 1 \in 1 .. Len(down[n]) /\ down'[n][i] = down[n][i + 1]
    BY <1>1, <1>3
  <2> QED
    BY <2>1
<1> QED
  BY <1>2, <1>3

LEMMA AcksFollow ==
    ASSUME TransferInv, UNCHANGED outcome,
           \A n \in Conns : spc[n] # "none" => request'[n] = request[n],
           \A n \in Conns : down'[n] = down[n] \/ (down[n] # <<>> /\ down'[n] = Tail(down[n]))
    PROVE  AcksTrue'
<1>1. down \in [Conns -> Seq(DownMsgs)] /\ AcksTrue /\ PublishedStays
  BY DEF TransferInv, DeliveryInv, Inv, TypeInv, TypeOK, NetTypes
<1>2. ASSUME NEW m \in DownMsgs, Honest(m)
      PROVE  m.kind = "ack" => outcome'[m.tid] = "published" /\ request'[m.tid].digest = m.digest
  BY <1>1, <1>2 DEF Honest, Delivers, DownMsgs, PublishedStays, Started
<1>3. ASSUME NEW n \in Conns, NEW i \in 1 .. Len(down'[n])
      PROVE  \E j \in 1 .. Len(down[n]) : down'[n][i] = down[n][j]
  BY <1>1, OldAnswers
<1>4. ASSUME NEW n \in Conns, NEW i \in 1 .. Len(down'[n])
      PROVE  Honest(down[n][i])'
  <2>1. PICK j \in 1 .. Len(down[n]) : down'[n][i] = down[n][j]
    BY <1>3
  <2>2. down[n][j] \in DownMsgs /\ Honest(down[n][j])
    BY <1>1 DEF AcksTrue
  <2> QED
    BY <1>2, <2>1, <2>2 DEF Honest, Delivers
<1> QED
  BY <1>4 DEF AcksTrue

\* The acknowledgement a client accepts is about its own transfer.
LEMMA AckMeansDelivered ==
    ASSUME TransferInv, NEW c \in Clients, ReceiveAck(c)
    PROVE  LET t == request[conn[c]].tid IN
           t \in Conns /\ Delivers(t, hashed[c]) /\ file[t] = hashed[c]
<1> DEFINE n == conn[c]
           m == Head(down[n])
<1>1. n \in Conns /\ request[n] # None /\ request[n].digest = hashed[c]
  BY DEF ReceiveAck, TransferInv, DeliveryInv, CallsHashed, Inv, TypeInv, Connected, CallsHaveHeaders
<1>2. request[n] \in Headers /\ request[n].tid \in Conns /\ down[n] \in Seq(DownMsgs)
  BY <1>1 DEF TransferInv, Inv, TypeInv, TypeOK, NetTypes, Headers
<1>3. down[n] # <<>> /\ m.kind = "ack" /\ m.tid = request[n].tid /\ m.digest = request[n].digest
  BY DEF ReceiveAck
<1>4. 1 \in 1 .. Len(down[n]) /\ m = down[n][1]
  BY <1>2, <1>3
<1>5. Honest(m)
  BY <1>1, <1>4 DEF TransferInv, DeliveryInv, AcksTrue
<1> QED
  BY <1>1, <1>2, <1>3, <1>5 DEF Honest, Delivers, TransferInv, DeliveryInv, PublishedStays

LEMMA ClientCalls ==
    ASSUME TransferInv, NEW c \in Clients, ClientStep(c) \/ ClientAbort(c) \/ EditSource(c)
    PROVE  CallsHashed' /\ ReceiptsTrue'
<1> DEFINE Busy == {"waiting", "streaming", "finishing"}
<1>1. /\ cpc \in [Clients -> ClientPCs] /\ hashed \in [Clients -> Seq(Byte)]
      /\ conn \in [Clients -> Conns \cup {None}] /\ request \in [Conns -> Headers \cup {None}]
  BY DEF TransferInv, Inv, TypeInv, TypeOK, ClientTypes, NetTypes
<1>2. CallsHashed /\ ReceiptsTrue /\ CallsHaveHeaders /\ HandlersHaveHeaders /\ PublishedStays
  BY DEF TransferInv, DeliveryInv, Inv, TypeInv, Connected
<1>3. \A t \in Conns : \A d :
          Delivers(t, d) => outcome'[t] = "published" /\ request'[t].digest = d
  BY <1>2, ClientLeaves DEF Delivers, PublishedStays, Started
<1>4. \A d \in Clients : cpc[d] \in Busy =>
          conn[d] \in Conns /\ request'[conn[d]].digest = hashed[d]
  BY <1>1, <1>2, ClientLeaves DEF CallsHashed, CallsHaveHeaders, HandlersHaveHeaders
<1>5. ASSUME \A d \in Clients \ {c} :
                 cpc'[d] = cpc[d] /\ conn'[d] = conn[d] /\ hashed'[d] = hashed[d],
             cpc'[c] \in Busy => request'[conn'[c]].digest = hashed'[c],
             cpc'[c] = "done" => \E t \in Conns : Delivers(t, hashed'[c])
      PROVE  CallsHashed' /\ ReceiptsTrue'
  <2>1. CallsHashed'
    BY <1>4, <1>5 DEF CallsHashed
  <2>2. ASSUME NEW d \in Clients, cpc'[d] = "done"
        PROVE  \E t \in Conns : Delivers(t, hashed'[d])
    BY <1>2, <1>5, <2>2 DEF ReceiptsTrue
  <2>3. ReceiptsTrue'
    BY <1>3, <2>2 DEF ReceiptsTrue, Delivers
  <2> QED
    BY <2>1, <2>3
<1>6. CASE Connect(c)
  <2>1. PICK n \in Conns \ Used :
            /\ request' = [request EXCEPT ![n] =
                   IF saved[c] = None THEN NewRequest(c, n) ELSE ResumeRequest(c)]
            /\ conn' = [conn EXCEPT ![c] = n]
    BY <1>6 DEF Connect
  <2>2. request'[n].digest = hashed[c]
    BY <1>1, <2>1 DEF NewRequest, ResumeRequest
  <2>3. cpc' = [cpc EXCEPT ![c] = "waiting"] /\ hashed' = hashed
    BY <1>6 DEF Connect
  <2> QED
    BY <1>1, <1>5, <2>1, <2>2, <2>3
<1>7. CASE ReceiveAck(c)
  <2>1. \E t \in Conns : Delivers(t, hashed[c])
    BY <1>7, AckMeansDelivered
  <2>2. cpc' = [cpc EXCEPT ![c] = "done"] /\ conn' = [conn EXCEPT ![c] = None] /\ hashed' = hashed
    BY <1>7 DEF ReceiveAck
  <2> QED
    BY <1>1, <1>5, <2>1, <2>2
<1>8. CASE ReceiveStatus(c) \/ SendFrame(c) \/ SendFinal(c)
  <2>1. /\ cpc[c] \in Busy /\ UNCHANGED <<conn, hashed>>
        /\ cpc' \in {cpc, [cpc EXCEPT ![c] = "streaming"], [cpc EXCEPT ![c] = "finishing"]}
    BY <1>8 DEF ReceiveStatus, SendFrame, SendFinal
  <2> QED
    BY <1>1, <1>4, <1>5, <2>1
<1>9. CASE Open(c) \/ HashOneBlock(c) \/ RefuseChangedSource(c) \/ AbandonShortSource(c)
            \/ ReceiveEnd(c) \/ ClientAbort(c)
  <2>1. cpc'[c] \in {"idle", "hashing"}
    BY <1>1, <1>9 DEF Open, HashOneBlock, RefuseChangedSource, AbandonShortSource,
                      ReceiveEnd, ClientAbort, Give
  <2>2. \A d \in Clients \ {c} :
            cpc'[d] = cpc[d] /\ conn'[d] = conn[d] /\ hashed'[d] = hashed[d]
    BY <1>1, <1>9 DEF Open, HashOneBlock, RefuseChangedSource, AbandonShortSource,
                      ReceiveEnd, ClientAbort, Give
  <2> QED
    BY <1>5, <2>1, <2>2
<1>10. CASE EditSource(c)
  <2>1. UNCHANGED <<cpc, conn, hashed>>
    BY <1>10 DEF EditSource
  <2>2. cpc[c] = "done" => \E t \in Conns : Delivers(t, hashed[c])
    BY <1>2 DEF ReceiptsTrue
  <2> QED
    BY <1>4, <1>5, <2>1, <2>2
<1> QED
  BY <1>6, <1>7, <1>8, <1>9, <1>10 DEF ClientStep

LEMMA ClientTransfer ==
    ASSUME TransferInv, TypeInv', NEW c \in Clients,
           ClientStep(c) \/ ClientAbort(c) \/ EditSource(c)
    PROVE  TransferInv'
<1>1. PublishedStays'
  BY ClientLeaves DEF TransferInv, DeliveryInv, PublishedStays, Started
<1>2. HandlersDone'
  BY ClientLeaves DEF TransferInv, DeliveryInv, HandlersDone
<1>3. AcksTrue'
  BY ClientLeaves, ClientDown, AcksFollow
<1>4. Inv'
  BY ClientInv DEF TransferInv
<1> QED
  BY <1>1, <1>2, <1>3, <1>4, ClientCalls DEF TransferInv, DeliveryInv
-----------------------------------------------------------------------------
LEMMA FaultTransfer ==
    ASSUME TransferInv, TypeInv', (\E n \in Conns : HandlerAbort(n)) \/ ServerCrash \/ PowerLoss
    PROVE  TransferInv'
<1>1. /\ UNCHANGED <<clientVars, netVars, synced, partial, dest, outcome>>
      /\ file' \in {file, synced}
      /\ \A n \in Conns : spc'[n] = spc[n] \/ (spc[n] # "none" /\ spc'[n] = "closed")
  <2>1. spc \in [Conns -> HandlerPCs]
    BY DEF TransferInv, Inv, TypeInv, TypeOK, HandlerTypes
  <2>2. ASSUME NEW n \in Conns, HandlerAbort(n)
        PROVE  /\ UNCHANGED <<clientVars, netVars, synced, partial, dest, outcome>>
               /\ file' \in {file, synced}
               /\ \A m \in Conns : spc'[m] = spc[m] \/ (spc[m] # "none" /\ spc'[m] = "closed")
    BY <2>1, <2>2 DEF HandlerAbort, Active, Closed, Leave, diskVars, Fault
  <2>3. CASE ServerCrash \/ PowerLoss
    BY <2>1, <2>3 DEF ServerCrash, PowerLoss, EndAllHandlers, diskVars, Fault
  <2> QED
    BY <2>2, <2>3
<1>2. PublishedStays'
  BY <1>1 DEF TransferInv, DeliveryInv, PublishedStays, Started, netVars
<1>3. HandlersDone'
  BY <1>1 DEF TransferInv, DeliveryInv, HandlersDone, netVars
<1>4. AcksTrue'
  BY <1>1, AcksFollow DEF netVars
<1>5. CallsHashed' /\ ReceiptsTrue'
  BY <1>1 DEF TransferInv, DeliveryInv, CallsHashed, ReceiptsTrue, Delivers, clientVars, netVars
<1>6. Inv'
  BY FaultInv DEF TransferInv
<1> QED
  BY <1>2, <1>3, <1>4, <1>5, <1>6 DEF TransferInv, DeliveryInv

LEMMA NextTransfer ==
    ASSUME ~Concurrent, TransferInv, [Next]_vars
    PROVE  TransferInv'
<1>1. TypeInv'
  BY NextType DEF TransferInv, Inv
<1>2. CASE UNCHANGED vars
  <2>1. UNCHANGED <<clientVars, netVars, handlerVars, diskVars, outcome>>
    BY <1>2 DEF vars, modelVars
  <2>2. Inv'
    BY <1>2, NextInv DEF TransferInv
  <2>3. AcksTrue'
    BY <2>1, AcksFollow DEF netVars
  <2> QED
    BY <2>1, <2>2, <2>3
       DEF TransferInv, DeliveryInv, PublishedStays, Started, HandlersDone, CallsHashed,
           ReceiptsTrue, Delivers, clientVars, netVars, handlerVars, diskVars
<1>3. CASE Next
  BY <1>1, <1>3, ClientTransfer, HandlerTransfer, FaultTransfer DEF Next
<1> QED
  BY <1>2, <1>3
-----------------------------------------------------------------------------
\* Only an acknowledgement makes a call return.
LEMMA OnlyAcksReturn ==
    ASSUME TransferInv, Next, NEW c \in Clients, cpc[c] # "done", cpc'[c] = "done"
    PROVE  ReceiveAck(c)
<1>1. cpc \in [Clients -> ClientPCs]
  BY DEF TransferInv, Inv, TypeInv, TypeOK, ClientTypes
<1>2. ASSUME NEW d \in Clients, ClientStep(d) \/ ClientAbort(d) \/ EditSource(d)
      PROVE  ReceiveAck(d) /\ d = c
  BY <1>1, <1>2 DEF ClientStep, Open, HashOneBlock, Connect, RefuseChangedSource,
              ReceiveStatus, SendFrame, AbandonShortSource, SendFinal, ReceiveAck, ReceiveEnd,
              ClientAbort, EditSource, Give
<1>3. ASSUME NEW n \in Conns, HandlerStep(n)
      PROVE  FALSE
  BY <1>3, DownChange DEF clientVars
<1>4. CASE ServerCrash \/ PowerLoss \/ \E n \in Conns : HandlerAbort(n)
  BY <1>4 DEF ServerCrash, PowerLoss, HandlerAbort, clientVars
<1> QED
  BY <1>2, <1>3, <1>4 DEF Next

\* On a single-threaded server a receipt is only returned for exactly the
\* content the sender hashed, published in full before, whatever was lost,
\* crashed, edited or cut short on the way.
THEOREM ReceiptsAreTrue ==
    ASSUME ~Concurrent
    PROVE  Spec => ReceiptMeansPublished
<1> DEFINE Truthful == \A c \in Clients :
               cpc[c] # "done" /\ cpc'[c] = "done" =>
                   LET t == request[conn[c]].tid IN
                   outcome[t] = "published" /\ file[t] = hashed[c]
<1>1. Init => TransferInv
  BY InitTransfer
<1>2. TransferInv /\ [Next]_vars => TransferInv'
  BY NextTransfer
<1>3. TransferInv /\ [Next]_vars => [Truthful]_vars
  BY OnlyAcksReturn, AckMeansDelivered DEF Delivers
<1> QED
  BY <1>1, <1>2, <1>3, PTL DEF Spec, ReceiptMeansPublished
-----------------------------------------------------------------------------
(* The refinement: every step is a step of the abstract transfer, or none. *)

Offers     == {request[n].digest : n \in Used}
Deliveries == {request[t].digest : t \in {u \in Conns : outcome[u] = "published"}}
Place      == IF dest = None THEN None ELSE file[dest]
Receipt    == [c \in Clients |-> IF cpc[c] = "done" THEN hashed[c] ELSE None]

AbstractVars == <<Offers, Deliveries, Place, Receipt>>

LEMMA InitAbstract == Init => Abstract!Init
<1> SUFFICES ASSUME Init
             PROVE  Abstract!Init
  OBVIOUS
<1>1. Offers = {} /\ Deliveries = {} /\ Place = None /\ Receipt = [c \in Clients |-> None]
  BY DEF Init, Offers, Used, Deliveries, Place, Receipt
<1> QED
  BY <1>1 DEF Abstract!Init, Offers, Deliveries, Place, Receipt

\* Steps of a client: it offers, starts over, takes its receipt, or does
\* nothing that is visible.
LEMMA ClientAbstract ==
    ASSUME TransferInv, NEW c \in Clients, ClientStep(c) \/ ClientAbort(c) \/ EditSource(c)
    PROVE  /\ UNCHANGED <<Deliveries, Place>>
           /\ \/ UNCHANGED <<Offers, Receipt>>
              \/ UNCHANGED Receipt /\ \E d \in Offers' : Offers' = Offers \cup {d}
              \/ UNCHANGED Offers /\ Receipt' = [Receipt EXCEPT ![c] = None]
              \/ UNCHANGED Offers /\ \E d \in Deliveries : Receipt' = [Receipt EXCEPT ![c] = d]
<1>1. /\ cpc \in [Clients -> ClientPCs] /\ request \in [Conns -> Headers \cup {None}]
      /\ PublishedStays /\ HandlersHaveHeaders
  BY DEF TransferInv, DeliveryInv, Inv, TypeInv, Connected, TypeOK, ClientTypes, NetTypes
<1>2. UNCHANGED <<Deliveries, Place>>
  <2>1. UNCHANGED Place
    BY ClientLeaves DEF Place
  <2>2. \A t \in Conns : outcome[t] = "published" => request'[t] = request[t]
    BY <1>1, ClientLeaves DEF PublishedStays, Started
  <2>3. UNCHANGED outcome
    BY ClientLeaves
  <2> QED
    BY <2>1, <2>2, <2>3 DEF Deliveries
<1>3. CASE Connect(c)
  <2>1. PICK n \in Conns \ Used :
            /\ request' = [request EXCEPT ![n] =
                   IF saved[c] = None THEN NewRequest(c, n) ELSE ResumeRequest(c)]
            /\ spc' = [spc EXCEPT ![n] = "queued"]
    BY <1>3 DEF Connect
  <2> DEFINE h == IF saved[c] = None THEN NewRequest(c, n) ELSE ResumeRequest(c)
  <2>2. cpc[c] = "hashing" /\ cpc' = [cpc EXCEPT ![c] = "waiting"] /\ hashed' = hashed
    BY <1>3 DEF Connect
  <2>3. UNCHANGED Receipt
    BY <1>1, <2>2 DEF Receipt
  <2>4. h # None
    <3>1. TypeInv'
      BY <1>3, NextType DEF TransferInv, Inv, Next, ClientStep
    <3>2. request'[n] = h /\ spc'[n] = "queued"
      BY <1>1, <2>1 DEF TransferInv, Inv, TypeInv, TypeOK, HandlerTypes
    <3> QED
      BY <3>1, <3>2 DEF TypeInv, Connected, HandlersHaveHeaders
  <2>5. request[n] = None /\ request'[n] = h /\ \A m \in Conns \ {n} : request'[m] = request[m]
    BY <1>1, <2>1 DEF Used
  <2>6. Offers' = Offers \cup {h.digest} /\ h.digest \in Offers'
    BY <2>4, <2>5 DEF Offers, Used
  <2> QED
    BY <1>2, <2>3, <2>6
<1>4. CASE ReceiveAck(c)
  <2>1. PICK t \in Conns : Delivers(t, hashed[c])
    BY <1>4, AckMeansDelivered
  <2>2. hashed[c] \in Deliveries
    BY <2>1 DEF Delivers, Deliveries
  <2>3. cpc' = [cpc EXCEPT ![c] = "done"] /\ hashed' = hashed /\ request' = request
    BY <1>4 DEF ReceiveAck
  <2>4. UNCHANGED Offers /\ Receipt' = [Receipt EXCEPT ![c] = hashed[c]]
    BY <1>1, <2>3 DEF Offers, Used, Receipt
  <2> QED
    BY <1>2, <2>2, <2>4
<1>5. CASE Open(c)
  <2>1. cpc' = [cpc EXCEPT ![c] = "hashing"] /\ hashed' = [hashed EXCEPT ![c] = <<>>]
          /\ request' = request
    BY <1>5 DEF Open, netVars
  <2>2. UNCHANGED Offers /\ Receipt' = [Receipt EXCEPT ![c] = None]
    BY <1>1, <2>1 DEF Offers, Used, Receipt, TransferInv, Inv, TypeInv, TypeOK, ClientTypes
  <2> QED
    BY <1>2, <2>2
<1>6. CASE HashOneBlock(c) \/ RefuseChangedSource(c) \/ ReceiveStatus(c) \/ SendFrame(c)
            \/ AbandonShortSource(c) \/ SendFinal(c) \/ ReceiveEnd(c) \/ ClientAbort(c)
            \/ EditSource(c)
  <2>1. /\ request' = request
        /\ \A d \in Clients : /\ cpc'[d] = "done" <=> cpc[d] = "done"
                              /\ cpc[d] = "done" => hashed'[d] = hashed[d]
    BY <1>1, <1>6 DEF HashOneBlock, RefuseChangedSource, ReceiveStatus, SendFrame,
              AbandonShortSource, SendFinal, ReceiveEnd, ClientAbort, EditSource, Give,
              TransferInv, Inv, TypeInv, TypeOK, ClientTypes, netVars
  <2>2. UNCHANGED Offers
    BY <2>1 DEF Offers, Used
  <2>3. UNCHANGED Receipt
    BY <2>1 DEF Receipt
  <2> QED
    BY <1>2, <2>2, <2>3
<1> QED
  BY <1>3, <1>4, <1>5, <1>6 DEF ClientStep

\* Steps of a handler: the rename delivers, nothing else is visible.
LEMMA HandlerAbstract ==
    ASSUME TransferInv, NEW n \in Conns, HandlerStep(n)
    PROVE  /\ UNCHANGED <<Offers, Receipt>>
           /\ \/ UNCHANGED <<Deliveries, Place>>
              \/ \E d \in Offers : /\ Place = None \/ Overwrite
                                   /\ Place' = d /\ Deliveries' = Deliveries \cup {d}
<1> DEFINE u == request[n].tid
<1>1. /\ Inv /\ TypeInv /\ request' = request /\ u \in Conns
      /\ outcome \in [Conns -> {"open", "published", "discarded"}]
  BY HandlerShape, HandlerHeader DEF TransferInv, Inv, TypeInv, TypeOK, ModelTypes
<1>2. UNCHANGED <<Offers, Receipt>>
  BY <1>1, DownChange DEF Offers, Used, Receipt, clientVars
<1>3. CASE Publish(n) /\ partial[u] # None
  <2>1. /\ dest' = u /\ request[u] # None /\ file[u] = request[u].digest
        /\ UNCHANGED <<request, file>>
    BY <1>1, <1>3, PublishedContent
  <2>2. outcome' = [outcome EXCEPT ![u] = "published"]
    BY <1>3 DEF Publish
  <2>3. request[u].digest \in Offers
    BY <1>1, <2>1 DEF Offers, Used
  <2>4. Deliveries' = Deliveries \cup {request[u].digest}
    BY <1>1, <2>1, <2>2 DEF Deliveries
  <2>5. Place' = request[u].digest
    BY <1>1, <2>1, NoneIsNew DEF Place
  <2>6. Place = None \/ Overwrite
    BY <1>1, <1>3 DEF Publish, Inv, SequentialInv, RoomForOne, Admitted, Place
  <2> QED
    BY <1>2, <2>3, <2>4, <2>5, <2>6
<1>4. CASE ~(Publish(n) /\ partial[u] # None)
  <2>1. UNCHANGED Place
    BY <1>1, <1>4, DestChange, DestinationUntouched DEF Place
  <2>2. \A t \in Conns : outcome'[t] = "published" <=> outcome[t] = "published"
    BY <1>1, <1>4, OutcomeChange, DeliveredKept
  <2>3. UNCHANGED Deliveries
    BY <1>1, <2>2 DEF Deliveries
  <2> QED
    BY <1>2, <2>1, <2>3
<1> QED
  BY <1>3, <1>4

LEMMA FaultAbstract ==
    ASSUME TransferInv, (\E n \in Conns : HandlerAbort(n)) \/ ServerCrash \/ PowerLoss
    PROVE  UNCHANGED AbstractVars
<1>1. /\ UNCHANGED <<clientVars, netVars, dest, outcome>>
      /\ file' \in {file, synced}
  BY DEF HandlerAbort, ServerCrash, PowerLoss, diskVars, Fault
<1>2. UNCHANGED Place
  BY <1>1 DEF TransferInv, Inv, SequentialInv, PublishedVerified, Place
<1> QED
  BY <1>1, <1>2 DEF AbstractVars, Offers, Used, Deliveries, Receipt, clientVars, netVars

\* What a step may look like from outside.
Visible ==
    \/ UNCHANGED AbstractVars
    \/ (UNCHANGED <<Deliveries, Place, Receipt>> /\ \E d \in Offers' : Offers' = Offers \cup {d})
    \/ (UNCHANGED <<Offers, Receipt>>
          /\ \E d \in Offers : /\ Place = None \/ Overwrite
                               /\ Place' = d /\ Deliveries' = Deliveries \cup {d})
    \/ (UNCHANGED <<Offers, Deliveries, Place>>
          /\ \E c \in Clients : \/ Receipt' = [Receipt EXCEPT ![c] = None]
                                \/ \E d \in Deliveries : Receipt' = [Receipt EXCEPT ![c] = d])

LEMMA AbstractStep ==
    ASSUME TransferInv, [Next]_vars
    PROVE  [Abstract!Next]_(Abstract!vars)
<1>1. Visible
  <2>1. ASSUME NEW c \in Clients, ClientStep(c) \/ ClientAbort(c) \/ EditSource(c)
        PROVE  Visible
    BY <2>1, ClientAbstract DEF Visible, AbstractVars
  <2>2. ASSUME NEW n \in Conns, HandlerStep(n)
        PROVE  Visible
    BY <2>2, HandlerAbstract DEF Visible, AbstractVars
  <2>3. CASE UNCHANGED vars
    BY <2>3 DEF Visible, AbstractVars, Offers, Used, Deliveries, Place, Receipt, vars, clientVars,
                netVars, diskVars, modelVars
  <2> QED
    BY <2>1, <2>2, <2>3, FaultAbstract DEF Visible, Next
<1> QED
  BY <1>1 DEF Visible, AbstractVars, Offers, Deliveries, Place, Receipt, Abstract!Next, Abstract!vars,
              Abstract!Offer, Abstract!Deliver, Abstract!Confirm, Abstract!Renew

\* The transfer implements AbstractTransfer on a single-threaded server: the
\* destination changes in one step, to a content that was offered, and
\* receipts follow deliveries.
THEOREM TransferRefines ==
    ASSUME ~Concurrent
    PROVE  Spec => ImplementsAbstract
<1>1. Init => TransferInv /\ Abstract!Init
  BY InitTransfer, InitAbstract
<1>2. TransferInv /\ [Next]_vars => TransferInv'
  BY NextTransfer
<1>3. TransferInv /\ [Next]_vars => [Abstract!Next]_(Abstract!vars)
  BY AbstractStep
<1> QED
  BY <1>1, <1>2, <1>3, PTL DEF Spec, ImplementsAbstract, Abstract!Spec
-----------------------------------------------------------------------------
(* Durability of checkpoints, where raw writes store all they are given:   *)
(* the frames on their way, the bytes of the partial file, its durable     *)
(* part and the checkpoint all follow the announced content in step.       *)

\* Transfer t has its first b bytes, the announced ones unless a source was
\* edited; and they are on stable storage.
Received(t, b) ==
    /\ b <= Len(file[t])
    /\ edits = 0 => \A i \in 1 .. b : /\ i <= Len(request[t].digest)
                                      /\ file[t][i] = request[t].digest[i]
Secured(t, b) == b <= Len(synced[t]) /\ \A i \in 1 .. b : synced[t][i] = file[t][i]
Backed(t, b)  == Received(t, b) /\ Secured(t, b)

\* b bytes precede frame i.
InStep(sz, i, b) == i <= FrameCount(sz, FrameSize) /\ b = ExpectedBytes(i, sz, FrameSize)

CheckpointsBacked ==
    \A t \in Conns : ckpt[t] # None =>
        /\ InStep(ckpt[t].size, ckpt[t].next, ckpt[t].bytes)
        /\ partial[t] = t => Backed(t, ckpt[t].bytes)

\* How far a handler is, and what it knows of its file.
Placed == {"created", "loaded", "admitted", "receiving", "written", "synced"}
Progress(n, t) ==
    /\ spc[n] \in Placed => InStep(request[n].size, nxt[n], cur[n])
    /\ spc[n] = "created" => nxt[n] = 0 /\ file[t] = <<>> /\ partial[t] = t
    /\ spc[n] = "loaded" => ckpt[t] # None /\ ckpt[t].bytes = cur[n]
    /\ spc[n] \in {"admitted", "receiving"} /\ partial[t] = t =>
           Len(file[t]) = cur[n] /\ Backed(t, cur[n])
    /\ spc[n] \in {"written", "synced"} => Len(file[t]) = cur[n] /\ Received(t, cur[n])
    /\ spc[n] \in {"receiving", "written", "synced"} => pos[n] = cur[n]
    /\ spc[n] = "synced" => synced[t] = file[t]
HandlersBacked == \A n \in Conns : Progress(n, request[n].tid)

\* Frames on their way hold the bytes their numbers stand for.
FrameTrue(n, m) ==
    m.kind = "frame" /\ edits = 0 =>
        \A j \in 1 .. Len(m.data) :
            /\ m.number * FrameSize + j <= Len(request[n].digest)
            /\ m.data[j] = request[n].digest[m.number * FrameSize + j]
FramesTrue ==
    \A n \in Conns : /\ spc[n] = "none" => up[n] = <<>>
                     /\ \A i \in 1 .. Len(up[n]) : FrameTrue(n, up[n][i])

\* A source nobody edits is what was hashed, and is sent frame by frame.
HashesSource(c) ==
    /\ size[c] = Len(source[c]) /\ Len(hashed[c]) <= size[c]
    /\ \A i \in 1 .. Len(hashed[c]) : hashed[c][i] = source[c][i]
SendsSource(c) == hashed[c] = source[c] /\ request[conn[c]].size = Len(source[c])
AtFrame(c) == \E i \in Nat : sent[c] = ExpectedBytes(i, request[conn[c]].size, FrameSize)
CallTrue(c) ==
    /\ edits = 0 /\ cpc[c] = "hashing" => HashesSource(c)
    /\ edits = 0 /\ cpc[c] \in {"waiting", "streaming", "finishing"} => SendsSource(c)
    /\ cpc[c] = "streaming" => AtFrame(c)
CallsTrue == \A c \in Clients : CallTrue(c)

DurableInv == TransferInv /\ CheckpointsBacked /\ HandlersBacked /\ FramesTrue /\ CallsTrue

LEMMA InitDurable == Init => DurableInv
<1> SUFFICES ASSUME Init
             PROVE  DurableInv
  OBVIOUS
<1>1. CheckpointsBacked /\ HandlersBacked
  BY DEF Init, CheckpointsBacked, HandlersBacked, Progress, Placed
<1>2. FramesTrue
  BY DEF Init, FramesTrue
<1>3. CallsTrue
  BY DEF Init, CallsTrue, CallTrue
<1> QED
  BY <1>1, <1>2, <1>3, InitTransfer DEF DurableInv

LEMMA CountType ==
    ASSUME NEW sz \in Nat
    PROVE  FrameCount(sz, FrameSize) \in Nat
BY BlocksArePositive, FrameCountBounds

\* A smaller frame number means fewer bytes, none for the first.
LEMMA ExpectedBytesMonotone ==
    ASSUME NEW sz \in Nat, NEW i \in Nat, NEW j \in Nat, i <= j, j <= FrameCount(sz, FrameSize)
    PROVE  /\ ExpectedBytes(i, sz, FrameSize) <= ExpectedBytes(j, sz, FrameSize)
           /\ ExpectedBytes(j, sz, FrameSize) <= sz
           /\ ExpectedBytes(0, sz, FrameSize) = 0
<1> DEFINE n == FrameCount(sz, FrameSize)
<1>1. FrameSize \in Nat \ {0}
  BY BlocksArePositive
<1>2. n \in Nat /\ sz <= n * FrameSize /\ (sz > 0 => (n - 1) * FrameSize < sz)
  BY <1>1, FrameCountBounds
<1>3. ASSUME NEW k \in Nat, k < n
      PROVE  k * FrameSize < sz /\ k * FrameSize \in Nat
  <2>1. sz > 0
    BY <1>1, <1>2, <1>3 DEF FrameCount
  <2>2. k * FrameSize <= (n - 1) * FrameSize
    BY <1>1, <1>2, <1>3, SMTT(30)
  <2>3. k * FrameSize \in Nat /\ (n - 1) * FrameSize \in Int
    BY <1>1, <1>2, SMTT(30)
  <2> QED
    BY <1>2, <2>1, <2>2, <2>3
<1>4. i * FrameSize <= j * FrameSize /\ 0 * FrameSize = 0
  BY <1>1, SMTT(30)
<1>5. n = 0 => sz = 0
  BY <1>1, <1>2
<1> QED
  BY <1>2, <1>3, <1>4, <1>5 DEF ExpectedBytes

LEMMA BackedLess ==
    ASSUME NEW t, NEW b \in Nat, NEW a \in Nat, a <= b, Backed(t, b),
           Len(file[t]) \in Nat, Len(synced[t]) \in Nat
    PROVE  Backed(t, a)
BY DEF Backed, Received, Secured

LEMMA HeadersOfStarted ==
    ASSUME Inv
    PROVE  /\ \A t \in Conns : ckpt[t] # None => spc[t] # "none"
           /\ \A n \in Conns : spc[n] \in Placed =>
                  request[n].tid \in Conns /\ spc[request[n].tid] # "none"
<1>1. HandlersHaveHeaders /\ DigestsAgree
  BY DEF Inv, TypeInv, Connected, SequentialInv
<1>2. ASSUME NEW n \in Conns, spc[n] \in Placed
      PROVE  request[n].tid \in Conns /\ spc[request[n].tid] # "none"
  <2>1. request[n].tid \in Conns
    BY <1>2, HandlerHeader DEF Placed, Inv
  <2> QED
    BY <1>1, <1>2, <2>1 DEF HandlersHaveHeaders, DigestsAgree, Active, Closed, Placed
<1> QED
  BY <1>1, <1>2 DEF HandlersHaveHeaders, DigestsAgree

\* Steps that leave the disk alone, and let handlers only wait or end.
LEMMA QuietKept ==
    ASSUME DurableInv, UNCHANGED <<file, synced, partial, ckpt, nxt, cur, pos>>,
           edits' = 0 => edits = 0,
           \A n \in Conns : spc[n] # "none" => request'[n] = request[n],
           \A n \in Conns : spc'[n] = spc[n] \/ spc'[n] \notin Placed
    PROVE  CheckpointsBacked' /\ HandlersBacked'
<1>1. Inv /\ CheckpointsBacked /\ HandlersBacked
  BY DEF DurableInv, TransferInv
<1>2. CheckpointsBacked'
  <2> SUFFICES ASSUME NEW t \in Conns, ckpt[t] # None
               PROVE  /\ InStep(ckpt[t].size, ckpt[t].next, ckpt[t].bytes)
                      /\ partial[t] = t => Backed(t, ckpt[t].bytes)'
    BY DEF CheckpointsBacked, InStep
  <2>1. request'[t] = request[t]
    BY <1>1, HeadersOfStarted
  <2>2. InStep(ckpt[t].size, ckpt[t].next, ckpt[t].bytes)
          /\ (partial[t] = t => Backed(t, ckpt[t].bytes))
    BY <1>1 DEF CheckpointsBacked
  <2> QED
    BY <2>1, <2>2 DEF Backed, Received, Secured
<1>3. HandlersBacked'
  <2> SUFFICES ASSUME NEW n \in Conns
               PROVE  Progress(n, request[n].tid)'
    BY DEF HandlersBacked
  <2>1. CASE spc'[n] \notin Placed
    BY <2>1 DEF Progress, Placed
  <2>2. CASE spc[n] \in Placed /\ spc'[n] = spc[n]
    <3> DEFINE t == request[n].tid
    <3>1. t \in Conns /\ request'[t] = request[t] /\ request'[n] = request[n]
      BY <1>1, <2>2, HeadersOfStarted DEF Placed
    <3>2. Progress(n, t)
      BY <1>1 DEF HandlersBacked
    <3> QED
      BY <2>2, <3>1, <3>2 DEF Progress, Backed, Received, Secured, InStep
  <2> QED
    BY <2>1, <2>2
<1> QED
  BY <1>2, <1>3

LEMMA OlderInStep ==
    ASSUME NEW k \in Ckpts, InStep(k.size, k.next, k.bytes), NEW j \in OlderCheckpoints(k)
    PROVE  InStep(j.size, j.next, j.bytes) /\ j.bytes \in Nat /\ j.bytes <= k.bytes
<1>1. k.size \in Nat /\ k.next \in Nat
  BY DEF Ckpts
<1>2. PICK i \in 0 .. k.next :
          j = [k EXCEPT !.next = i, !.bytes = ExpectedBytes(i, k.size, FrameSize)]
  BY DEF OlderCheckpoints
<1>3. j.size = k.size /\ j.next = i /\ j.bytes = ExpectedBytes(i, k.size, FrameSize)
  BY <1>2 DEF Ckpts
<1>4. i \in Nat /\ i <= k.next /\ FrameCount(k.size, FrameSize) \in Nat
  BY <1>1, CountType
<1>5. k.next <= FrameCount(k.size, FrameSize) /\ k.bytes = ExpectedBytes(k.next, k.size, FrameSize)
  BY DEF InStep
<1>6. j.bytes \in Nat /\ j.bytes <= k.bytes
  <2>1. ExpectedBytes(i, k.size, FrameSize) \in Nat
    BY <1>1, <1>4, ExpectedBytesType
  <2>2. ExpectedBytes(i, k.size, FrameSize) <= ExpectedBytes(k.next, k.size, FrameSize)
    BY <1>1, <1>4, <1>5, ExpectedBytesMonotone
  <2> QED
    BY <1>3, <1>5, <2>1, <2>2
<1> QED
  BY <1>1, <1>3, <1>4, <1>5, <1>6 DEF InStep

\* A power loss takes back what no checkpoint covers.
LEMMA PowerLossBacked ==
    ASSUME DurableInv, PowerLoss
    PROVE  CheckpointsBacked' /\ HandlersBacked'
<1>1. Inv /\ CheckpointsBacked /\ ckpt \in [Conns -> Ckpts \cup {None}]
        /\ file \in [Conns -> Seq(Byte)] /\ synced \in [Conns -> Seq(Byte)]
        /\ spc \in [Conns -> HandlerPCs]
  BY DEF DurableInv, TransferInv, Inv, TypeInv, TypeOK, DiskTypes, HandlerTypes
<1>2. file' = synced /\ UNCHANGED <<synced, partial, request, edits>>
        /\ \A n \in Conns : spc'[n] \in {"none", "closed"}
  BY <1>1 DEF PowerLoss, EndAllHandlers, netVars, Fault
<1>3. HandlersBacked'
  BY <1>2 DEF HandlersBacked, Progress, Placed
<1>4. ASSUME NEW t \in Conns, NEW j, j = ckpt'[t], j # None
      PROVE  /\ InStep(j.size, j.next, j.bytes)
             /\ partial[t] = t =>
                  /\ j.bytes <= Len(synced[t])
                  /\ edits = 0 => \A i \in 1 .. j.bytes : /\ i <= Len(request[t].digest)
                                                          /\ synced[t][i] = request[t].digest[i]
  <2> DEFINE k == ckpt[t]
  <2>1. k # None /\ (j = k \/ j \in OlderCheckpoints(k))
    BY <1>1, <1>4 DEF PowerLoss
  <2>2. k \in Ckpts /\ k.bytes \in Nat
    BY <1>1, <2>1 DEF Ckpts
  <2>3. InStep(k.size, k.next, k.bytes) /\ (partial[t] = t => Backed(t, k.bytes))
    BY <1>1, <2>1 DEF CheckpointsBacked
  <2>4. InStep(j.size, j.next, j.bytes) /\ j.bytes \in Nat /\ j.bytes <= k.bytes
    BY <2>1, <2>2, <2>3, OlderInStep
  <2>5. Len(file[t]) \in Nat /\ Len(synced[t]) \in Nat
    BY <1>1
  <2>6. ASSUME partial[t] = t
        PROVE  Backed(t, j.bytes)
    BY <2>2, <2>3, <2>4, <2>5, <2>6, BackedLess
  <2> QED
    BY <2>4, <2>6 DEF Backed, Received, Secured
<1>5. CheckpointsBacked'
  <2> SUFFICES ASSUME NEW t \in Conns, ckpt'[t] # None
               PROVE  /\ InStep(ckpt'[t].size, ckpt'[t].next, ckpt'[t].bytes)
                      /\ partial'[t] = t => Backed(t, ckpt[t].bytes)'
    BY DEF CheckpointsBacked, InStep
  <2> QED
    BY <1>2, <1>4 DEF Backed, Received, Secured
<1> QED
  BY <1>3, <1>5

\* What holds of the transfer a handler serves.
Own(n, t) ==
    /\ ckpt[t] # None => /\ InStep(ckpt[t].size, ckpt[t].next, ckpt[t].bytes)
                         /\ partial[t] = t => Backed(t, ckpt[t].bytes)
    /\ Progress(n, t)

\* A handler leaves every other transfer alone.
LEMMA OthersKept ==
    ASSUME Inv, NEW n \in Conns, HandlerStep(n), NEW t \in Conns, t # request[n].tid
    PROVE  file'[t] = file[t] /\ synced'[t] = synced[t]
             /\ partial'[t] = partial[t] /\ ckpt'[t] = ckpt[t]
<1> DEFINE u == request[n].tid
<1>1. /\ u \in Conns /\ request[n] \in Headers
      /\ request[n] # None /\ NewIsFresh /\ NamesDisjoint /\ HandlerOwnsPartial
      /\ file \in [Conns -> Seq(Byte)] /\ synced \in [Conns -> Seq(Byte)]
      /\ partial \in [Conns -> Conns \cup {None}] /\ ckpt \in [Conns -> Ckpts \cup {None}]
  BY HandlerShape, HandlerHeader, NoneIsNew
     DEF Inv, SequentialInv, TypeInv, Connected, TypeOK, DiskTypes
<1>2. CASE CreatePartial(n)
  BY <1>1, <1>2 DEF CreatePartial, NewIsFresh
<1>3. CASE RollBack(n)
  <2>1. partial[u] = u
    BY <1>1, <1>3 DEF RollBack, NamesDisjoint
  <2>2. /\ UNCHANGED <<partial, ckpt>>
        /\ \/ /\ file' = [file EXCEPT ![partial[u]] = TruncateTo(@, cur[n])]
              /\ synced' = [synced EXCEPT ![partial[u]] = file'[partial[u]]]
           \/ UNCHANGED <<file, synced>>
    BY <1>3 DEF RollBack
  <2> QED
    BY <1>1, <2>1, <2>2
<1>4. CASE ReceiveFrame(n)
  <2>1. fd[n] = u /\ UNCHANGED <<synced, partial, ckpt>>
    BY <1>1, <1>4 DEF ReceiveFrame, HandlerOwnsPartial
  <2>2. PICK d : file' = [file EXCEPT ![fd[n]] = d]
    BY <1>4 DEF ReceiveFrame
  <2> QED
    BY <1>1, <2>1, <2>2
<1>5. CASE SyncFrame(n) \/ ReceiveFinal(n)
  BY <1>1, <1>5 DEF SyncFrame, ReceiveFinal, HandlerOwnsPartial
<1>6. CASE WriteFirstCheckpoint(n) \/ AdvanceCheckpoint(n) \/ RemoveCheckpoint(n)
             \/ DiscardCheckpoint(n) \/ Publish(n) \/ DiscardPartial(n)
  BY <1>1, <1>6 DEF WriteFirstCheckpoint, AdvanceCheckpoint, RemoveCheckpoint, DiscardCheckpoint,
                    Publish, DiscardPartial
<1>7. CASE Accept(n) \/ DropQueued(n) \/ LoadCheckpoint(n) \/ RejectRequest(n)
             \/ RefuseShortPartial(n) \/ SendStatus(n) \/ Rehash(n) \/ Acknowledge(n)
             \/ ReachEndOfInput(n)
  BY <1>7 DEF Accept, DropQueued, LoadCheckpoint, RejectRequest, RefuseShortPartial, SendStatus,
              Rehash, Acknowledge, ReachEndOfInput, diskVars
<1> QED
  BY <1>2, <1>3, <1>4, <1>5, <1>6, <1>7 DEF HandlerStep

\* Steps of a handler that only decide, answer or end.
LEMMA QuietHandler ==
    ASSUME DurableInv, NEW n \in Conns,
           \/ Accept(n) \/ DropQueued(n) \/ RejectRequest(n) \/ RefuseShortPartial(n)
           \/ Rehash(n) \/ Acknowledge(n) \/ ReachEndOfInput(n)
    PROVE  CheckpointsBacked' /\ HandlersBacked'
<1>1. spc \in [Conns -> HandlerPCs]
  BY DEF DurableInv, TransferInv, Inv, TypeInv, TypeOK, HandlerTypes
<1>2. UNCHANGED <<file, synced, partial, ckpt, nxt, cur, pos, request, edits>>
  BY DEF Accept, DropQueued, RejectRequest, RefuseShortPartial, Rehash, Acknowledge,
         ReachEndOfInput, diskVars, netVars, modelVars
<1>3. \A m \in Conns : spc'[m] = spc[m] \/ spc'[m] \notin Placed
  BY <1>1 DEF Accept, DropQueued, RejectRequest, RefuseShortPartial, Rehash, Acknowledge,
              ReachEndOfInput, Leave, Placed
<1> QED
  BY <1>2, <1>3, QuietKept

\* On a single-threaded server the handler that runs is the only one to care for.
LEMMA OwnSuffices ==
    ASSUME DurableInv, ~Concurrent, NEW n \in Conns, HandlerStep(n), spc[n] # "queued",
           UNCHANGED edits, Own(n, request[n].tid)'
    PROVE  CheckpointsBacked' /\ HandlersBacked'
<1>1. Inv /\ CheckpointsBacked /\ UNCHANGED request /\ request[n].tid \in Conns
  BY HandlerShape, HandlerHeader DEF DurableInv, TransferInv, Inv
<1>2. ASSUME NEW t \in Conns, t # request[n].tid, ckpt'[t] # None
      PROVE  /\ InStep(ckpt[t].size, ckpt[t].next, ckpt[t].bytes)'
             /\ partial'[t] = t => Backed(t, ckpt[t].bytes)'
  <2>1. file'[t] = file[t] /\ synced'[t] = synced[t] /\ partial'[t] = partial[t] /\ ckpt'[t] = ckpt[t]
    BY <1>1, <1>2, OthersKept
  <2> QED
    BY <1>1, <1>2, <2>1 DEF CheckpointsBacked, InStep, Backed, Received, Secured
<1>3. CheckpointsBacked'
  BY <1>1, <1>2 DEF CheckpointsBacked, Own
<1>4. ASSUME NEW m \in Conns \ {n}
      PROVE  Progress(m, request[m].tid)'
  BY <1>1, <1>4, Alone DEF Progress, Closed, Placed
<1>5. HandlersBacked'
  BY <1>4 DEF HandlersBacked, Own
<1> QED
  BY <1>3, <1>5

\* What every step of a handler may rely on.
LEMMA HandlerFacts ==
    ASSUME DurableInv, NEW n \in Conns, HandlerStep(n)
    PROVE  LET t == request[n].tid IN
           /\ t \in Conns /\ request[n].size \in Nat /\ request[n].digest \in Seq(Byte)
           /\ Own(n, t) /\ UNCHANGED request
           /\ nxt \in [Conns -> Nat] /\ cur \in [Conns -> Nat] /\ pos \in [Conns -> Nat]
           /\ spc \in [Conns -> HandlerPCs]
           /\ file \in [Conns -> Seq(Byte)] /\ synced \in [Conns -> Seq(Byte)]
           /\ partial \in [Conns -> Conns \cup {None}] /\ ckpt \in [Conns -> Ckpts \cup {None}]
           /\ partial[t] \in {None, t} /\ t # None
<1>1. Inv /\ CheckpointsBacked /\ HandlersBacked
  BY DEF DurableInv, TransferInv
<1>2. request[n].tid \in Conns /\ request[n].size \in Nat /\ request[n].digest \in Seq(Byte)
        /\ UNCHANGED request
  BY <1>1, HandlerShape, HandlerHeader DEF Inv
<1>3. Own(n, request[n].tid)
  BY <1>1, <1>2 DEF CheckpointsBacked, HandlersBacked, Own
<1>4. request[n].tid # None /\ partial[request[n].tid] \in {None, request[n].tid}
  BY <1>1, <1>2, NoneIsNew DEF Inv, SequentialInv, NamesDisjoint
<1>5. TypeOK
  BY <1>1 DEF Inv, TypeInv
<1> QED
  BY <1>2, <1>3, <1>4, <1>5 DEF TypeOK, HandlerTypes, DiskTypes

LEMMA NothingReceived ==
    ASSUME NEW sz \in Nat
    PROVE  InStep(sz, 0, 0) /\ (\A b : InStep(sz, 0, b) => b = 0)
<1>1. FrameCount(sz, FrameSize) \in Nat
  BY CountType
<1>2. ExpectedBytes(0, sz, FrameSize) = 0
  BY <1>1, ExpectedBytesMonotone
<1> QED
  BY <1>1, <1>2 DEF InStep

LEMMA CreateOwn ==
    ASSUME DurableInv, NEW n \in Conns, CreatePartial(n)
    PROVE  Own(n, request[n].tid)'
<1> DEFINE u == request[n].tid
<1>1. HandlerStep(n)
  BY DEF HandlerStep
<1>2. u = n
  BY <1>1, HandlerFacts, HandlerShape, HandlerHeader, NoneIsNew
     DEF CreatePartial, DurableInv, TransferInv, Inv, TypeInv, Connected, NewIsFresh
<1>3. ckpt'[n] = None /\ partial'[n] = n /\ file'[n] = <<>> /\ nxt'[n] = 0 /\ cur'[n] = 0
        /\ spc'[n] = "created"
  BY <1>1, <1>2, HandlerFacts DEF CreatePartial, NewAllowed
<1>4. request'[n] = request[n] /\ InStep(request[n].size, 0, 0)
  BY <1>1, HandlerFacts, NothingReceived
<1> QED
  BY <1>2, <1>3, <1>4 DEF Own, Progress, InStep

LEMMA FirstCheckpointOwn ==
    ASSUME DurableInv, NEW n \in Conns, WriteFirstCheckpoint(n)
    PROVE  Own(n, request[n].tid)'
<1> DEFINE u == request[n].tid
<1>1. HandlerStep(n)
  BY DEF HandlerStep
<1>2. /\ ckpt'[u] = CheckpointOf(request[n], 0, 0) /\ spc[n] = "created" /\ spc'[n] = "admitted"
      /\ UNCHANGED <<request, nxt, cur, pos, file, synced, partial, edits>>
  BY <1>1, HandlerFacts DEF WriteFirstCheckpoint, netVars, modelVars
<1>3. nxt[n] = 0 /\ file[u] = <<>> /\ cur[n] = 0 /\ InStep(request[n].size, 0, 0)
  <2>1. nxt[n] = 0 /\ file[u] = <<>> /\ InStep(request[n].size, nxt[n], cur[n])
    BY <1>1, <1>2, HandlerFacts DEF Own, Progress, Placed
  <2> QED
    BY <1>1, <2>1, HandlerFacts, NothingReceived
<1>4. Backed(u, 0) /\ Len(file[u]) = 0
  BY <1>1, <1>3, HandlerFacts DEF Backed, Received, Secured
<1> QED
  BY <1>2, <1>3, <1>4 DEF Own, Progress, InStep, CheckpointOf, Backed, Received, Secured

LEMMA LoadOwn ==
    ASSUME DurableInv, NEW n \in Conns, LoadCheckpoint(n)
    PROVE  Own(n, request[n].tid)'
<1> DEFINE u == request[n].tid
           k == ckpt[u]
<1>1. HandlerStep(n)
  BY DEF HandlerStep
<1>2. /\ nxt'[n] = k.next /\ cur'[n] = k.bytes /\ spc'[n] = "loaded"
      /\ UNCHANGED <<request, file, synced, partial, ckpt, edits>>
  BY <1>1, HandlerFacts DEF LoadCheckpoint, netVars, diskVars, modelVars
<1>3. k # None /\ k.size = request[n].size
  BY DEF LoadCheckpoint, ResumeAllowed, ValidState, CheckpointOf
<1>4. Own(n, u)
  BY <1>1, HandlerFacts
<1> QED
  BY <1>2, <1>3, <1>4 DEF Own, Progress, InStep, Backed, Received, Secured

LEMMA RollBackOwn ==
    ASSUME DurableInv, NEW n \in Conns, RollBack(n)
    PROVE  Own(n, request[n].tid)'
<1> DEFINE u == request[n].tid
<1>1. HandlerStep(n)
  BY DEF HandlerStep
<1>2. /\ UNCHANGED <<request, nxt, cur, pos, partial, ckpt, edits>>
      /\ spc[n] = "loaded" /\ spc'[n] \in {"admitted", "closed"}
      /\ partial[u] = u /\ Len(file[u]) >= cur[n]
      /\ \/ UNCHANGED <<file, synced>> /\ Len(file[u]) = cur[n]
         \/ file'[u] = SubSeq(file[u], 1, cur[n]) /\ synced'[u] = file'[u]
  <2>1. /\ u \in Conns /\ partial[u] \in {None, u} /\ spc \in [Conns -> HandlerPCs]
        /\ file \in [Conns -> Seq(Byte)] /\ synced \in [Conns -> Seq(Byte)]
        /\ cur \in [Conns -> Nat]
    BY <1>1, HandlerFacts
  <2>2. /\ UNCHANGED <<request, nxt, cur, pos, partial, ckpt, edits>>
        /\ spc[n] = "loaded" /\ spc'[n] \in {"admitted", "closed"}
        /\ partial[u] # None /\ Len(file[partial[u]]) >= cur[n]
    BY <2>1 DEF RollBack, netVars, modelVars
  <2>3. \/ /\ file' = [file EXCEPT ![partial[u]] = SubSeq(@, 1, cur[n])]
           /\ synced' = [synced EXCEPT ![partial[u]] = file'[partial[u]]]
        \/ UNCHANGED <<file, synced>> /\ ~(Len(file[partial[u]]) > cur[n])
    BY DEF RollBack, TruncateTo
  <2>4. partial[u] = u
    BY <2>1, <2>2
  <2>5. Len(file[u]) \in Nat /\ cur[n] \in Nat
    BY <2>1
  <2> QED
    BY <2>1, <2>2, <2>3, <2>4, <2>5, SMTT(60)
<1>3. /\ cur[n] \in Nat /\ file[u] \in Seq(Byte) /\ synced[u] \in Seq(Byte)
      /\ ckpt[u] # None /\ ckpt[u].bytes = cur[n]
      /\ InStep(ckpt[u].size, ckpt[u].next, ckpt[u].bytes) /\ Backed(u, cur[n])
      /\ InStep(request[n].size, nxt[n], cur[n])
  BY <1>1, <1>2, HandlerFacts DEF Own, Progress, Placed
<1>4. /\ Len(file'[u]) = cur[n] /\ cur[n] <= Len(synced'[u])
      /\ \A i \in 1 .. cur[n] : file'[u][i] = file[u][i] /\ synced'[u][i] = file'[u][i]
  <2>1. CASE UNCHANGED <<file, synced>> /\ Len(file[u]) = cur[n]
    BY <1>3, <2>1 DEF Backed, Secured
  <2>2. CASE file'[u] = SubSeq(file[u], 1, cur[n]) /\ synced'[u] = file'[u]
    BY <1>2, <1>3, <2>2
  <2> QED
    BY <1>2, <2>1, <2>2
<1>5. Backed(u, cur[n])'
  BY <1>2, <1>3, <1>4 DEF Backed, Received, Secured
<1> QED
  BY <1>2, <1>3, <1>4, <1>5 DEF Own, Progress, Placed, InStep, Backed, Received, Secured

LEMMA SendStatusOwn ==
    ASSUME DurableInv, NEW n \in Conns, SendStatus(n)
    PROVE  Own(n, request[n].tid)'
<1> DEFINE u == request[n].tid
<1>1. HandlerStep(n)
  BY DEF HandlerStep
<1>2. /\ UNCHANGED <<request, nxt, cur, file, synced, partial, ckpt, edits>>
      /\ spc[n] = "admitted" /\ spc'[n] \in {"closed", "receiving"} /\ pos'[n] = cur[n]
  BY <1>1, HandlerFacts DEF SendStatus, diskVars, modelVars
<1>3. Own(n, u)
  BY <1>1, HandlerFacts
<1> QED
  BY <1>2, <1>3 DEF Own, Progress, Placed, InStep, Backed, Received, Secured

\* A frame whose number fits is appended, and holds the bytes announced there.
LEMMA FrameAppended ==
    ASSUME DurableInv, ~ShortWrites, NEW n \in Conns, ReceiveFrame(n),
           NEW d, d = Head(up[n]).data
    PROVE  LET t == request[n].tid
           IN  /\ d \in Seq(Byte) /\ cur'[n] = cur[n] + Len(d) /\ pos'[n] = cur'[n]
               /\ nxt'[n] = nxt[n] + 1 /\ InStep(request[n].size, nxt'[n], cur'[n])
               /\ partial[t] = t /\ Len(file[t]) = cur[n] /\ Backed(t, cur[n])
               /\ Appended(file'[t], file[t], d)
               /\ edits = 0 => \A i \in 1 .. Len(d) :
                      cur[n] + i <= Len(request[t].digest)
                        /\ d[i] = request[t].digest[cur[n] + i]
<1> DEFINE t == request[n].tid
           m == Head(up[n])
<1>1. HandlerStep(n)
  BY DEF HandlerStep
<1>2. /\ spc[n] = "receiving" /\ nxt[n] < Count(request[n]) /\ up[n] # <<>>
      /\ m.kind = "frame" /\ m.number = nxt[n]
      /\ Len(d) = FrameLen(cur[n], request[n].size, FrameSize)
  BY DEF ReceiveFrame
<1>3. d \in Seq(Byte)
  <2>1. up[n] \in Seq(UpMsgs)
    BY DEF DurableInv, TransferInv, Inv, TypeInv, TypeOK, NetTypes
  <2>2. m \in UpMsgs
    BY <1>2, <2>1
  <2> QED
    BY <1>2, <2>2 DEF UpMsgs
<1>4. /\ t \in Conns /\ request[n].size \in Nat /\ nxt[n] \in Nat /\ cur[n] \in Nat
      /\ file \in [Conns -> Seq(Byte)] /\ pos[n] = cur[n]
      /\ nxt \in [Conns -> Nat] /\ cur \in [Conns -> Nat] /\ pos \in [Conns -> Nat]
      /\ InStep(request[n].size, nxt[n], cur[n])
  BY <1>1, <1>2, HandlerFacts DEF Own, Progress, Placed
<1>5. fd[n] = t /\ partial[t] = t
  BY <1>2 DEF DurableInv, TransferInv, Inv, SequentialInv, HandlerOwnsPartial
<1>6. Len(file[t]) = cur[n] /\ Backed(t, cur[n])
  BY <1>1, <1>2, <1>5, HandlerFacts DEF Own, Progress
<1>7. /\ file' = [file EXCEPT ![fd[n]] = WriteAt(@, pos[n], SubSeq(d, 1, Len(d)), Hole)]
      /\ pos' = [pos EXCEPT ![n] = @ + Len(d)] /\ cur' = [cur EXCEPT ![n] = @ + Len(d)]
      /\ nxt' = [nxt EXCEPT ![n] = @ + 1]
  BY DEF ReceiveFrame, Stored
<1>8. SubSeq(d, 1, Len(d)) = d
  BY <1>3
<1>9. file'[t] = WriteAt(file[t], cur[n], d, Hole) /\ pos'[n] = cur[n] + Len(d)
        /\ cur'[n] = cur[n] + Len(d) /\ nxt'[n] = nxt[n] + 1
  BY <1>4, <1>5, <1>7, <1>8
<1>10. Appended(file'[t], file[t], d)
  <2>1. Hole \in Byte /\ file[t] \in Seq(Byte)
    BY <1>4, ConstantsAssumption
  <2> QED
    BY <1>3, <1>6, <1>9, <2>1, WriteAtEnd
<1>11. /\ nxt[n] < FrameCount(request[n].size, FrameSize)
       /\ cur[n] = nxt[n] * FrameSize
       /\ InStep(request[n].size, nxt'[n], cur'[n])
  <2>1. nxt[n] < FrameCount(request[n].size, FrameSize) /\ FrameCount(request[n].size, FrameSize) \in Nat
    BY <1>2, <1>4, CountType DEF Count
  <2>2. cur[n] = ExpectedBytes(nxt[n], request[n].size, FrameSize)
    BY <1>4 DEF InStep
  <2>3. ExpectedBytes(nxt[n] + 1, request[n].size, FrameSize)
          = ExpectedBytes(nxt[n], request[n].size, FrameSize)
              + FrameLen(ExpectedBytes(nxt[n], request[n].size, FrameSize), request[n].size, FrameSize)
    BY <1>4, <2>1, ExpectedBytesStep, BlocksArePositive
  <2>4. cur[n] = nxt[n] * FrameSize
    BY <1>4, <2>1, <2>2 DEF ExpectedBytes
  <2> QED
    BY <1>2, <1>4, <1>9, <2>1, <2>2, <2>3, <2>4 DEF InStep
<1>12. ASSUME edits = 0, NEW i \in 1 .. Len(d)
       PROVE  cur[n] + i <= Len(request[t].digest) /\ d[i] = request[t].digest[cur[n] + i]
  <2>1. FrameTrue(n, m)
    <3>1. 1 \in 1 .. Len(up[n]) /\ m = up[n][1]
      <4>1. up[n] \in Seq(UpMsgs)
        BY DEF DurableInv, TransferInv, Inv, TypeInv, TypeOK, NetTypes
      <4> QED
        BY <1>2, <4>1
    <3> QED
      BY <3>1 DEF DurableInv, FramesTrue
  <2>2. request[n].digest = request[t].digest
    BY <1>2 DEF DurableInv, TransferInv, Inv, SequentialInv, DigestsAgree, Active, Closed
  <2>3. m.number * FrameSize = cur[n]
    BY <1>2, <1>11
  <2> QED
    BY <1>2, <1>12, <2>1, <2>2, <2>3 DEF FrameTrue
<1> QED
  BY <1>3, <1>5, <1>6, <1>9, <1>10, <1>11, <1>12

LEMMA ReceiveFrameOwn ==
    ASSUME DurableInv, ~ShortWrites, NEW n \in Conns, ReceiveFrame(n)
    PROVE  Own(n, request[n].tid)'
<1> DEFINE t == request[n].tid
<1> PICK d : d = Head(up[n]).data
  OBVIOUS
<1>1. HandlerStep(n)
  BY DEF HandlerStep
<1>2. /\ UNCHANGED <<request, synced, partial, ckpt, edits>>
      /\ spc[n] = "receiving" /\ spc'[n] = "written"
  BY <1>1, HandlerFacts DEF ReceiveFrame, modelVars
<1>3. /\ t \in Conns /\ Own(n, t) /\ ckpt \in [Conns -> Ckpts \cup {None}]
      /\ partial[t] = t /\ Len(file[t]) = cur[n] /\ Appended(file'[t], file[t], d)
  BY <1>1, FrameAppended, HandlerFacts
<1>4. Len(d) \in Nat /\ cur[n] \in Nat /\ cur'[n] = cur[n] + Len(d)
  <2>1. d \in Seq(Byte) /\ cur'[n] = cur[n] + Len(d)
    BY FrameAppended
  <2>2. cur[n] \in Nat
    BY <1>1, HandlerFacts
  <2> QED
    BY <2>1, <2>2
<1>5. /\ Len(file'[t]) = cur'[n]
      /\ \A i \in 1 .. cur[n] : file'[t][i] = file[t][i]
      /\ \A i \in cur[n] + 1 .. cur'[n] : file'[t][i] = d[i - cur[n]]
  BY <1>3, <1>4 DEF Appended
<1>6. Received(t, cur[n])'
  <2>1. edits = 0 => \A i \in 1 .. cur[n] : i <= Len(request[t].digest)
                                              /\ file'[t][i] = request[t].digest[i]
    BY <1>5, FrameAppended DEF Backed, Received
  <2>2. ASSUME edits = 0, NEW i \in 1 .. cur'[n], i > cur[n]
        PROVE  i <= Len(request[t].digest) /\ file'[t][i] = request[t].digest[i]
    <3>1. PICK j \in 1 .. Len(d) : j = i - cur[n]
      BY <1>4, <2>2
    <3>2. cur[n] + j <= Len(request[t].digest) /\ d[j] = request[t].digest[cur[n] + j]
      BY <2>2, <3>1, FrameAppended
    <3>3. file'[t][i] = d[j] /\ cur[n] + j = i
      BY <1>4, <1>5, <2>2, <3>1
    <3> QED
      BY <3>2, <3>3
  <2>3. cur'[n] <= Len(file'[t])
    BY <1>4, <1>5
  <2> QED
    BY <1>2, <1>4, <2>1, <2>2, <2>3 DEF Received
<1>7. ASSUME ckpt[t] # None
      PROVE  Backed(t, ckpt[t].bytes)'
  <2>1. Backed(t, ckpt[t].bytes) /\ ckpt[t].bytes \in Nat
    BY <1>3, <1>7 DEF Own, Ckpts
  <2>2. ckpt[t].bytes <= cur[n]
    BY <1>3, <2>1 DEF Backed, Received
  <2>3. \A i \in 1 .. ckpt[t].bytes : i \in 1 .. cur[n]
    BY <1>4, <2>1, <2>2
  <2>4. ckpt[t].bytes <= Len(file'[t])
    <3>1. ckpt[t].bytes <= cur'[n]
      BY <1>4, <2>1, <2>2
    <3> QED
      BY <1>5, <3>1
  <2> QED
    BY <1>2, <1>5, <2>1, <2>3, <2>4 DEF Backed, Received, Secured
<1>8. pos'[n] = cur'[n] /\ InStep(request[n].size, nxt'[n], cur'[n])
  BY FrameAppended
<1> QED
  BY <1>2, <1>3, <1>6, <1>7, <1>8, <1>5 DEF Own, Progress, Placed, InStep

LEMMA SyncOwn ==
    ASSUME DurableInv, NEW n \in Conns, SyncFrame(n) \/ ReceiveFinal(n)
    PROVE  Own(n, request[n].tid)'
<1> DEFINE t == request[n].tid
<1>1. HandlerStep(n)
  BY DEF HandlerStep
<1>2. fd[n] = t /\ partial[t] = t
  BY DEF SyncFrame, ReceiveFinal, DurableInv, TransferInv, Inv, SequentialInv, HandlerOwnsPartial
<1>3. /\ UNCHANGED <<request, nxt, cur, pos, file, partial, ckpt, edits>>
      /\ synced'[t] = file[t]
      /\ (spc[n] = "written" /\ spc'[n] = "synced") \/ spc'[n] = "complete"
  BY <1>1, <1>2, HandlerFacts DEF SyncFrame, ReceiveFinal, netVars, modelVars
<1>4. Own(n, t)
  BY <1>1, HandlerFacts
<1> QED
  BY <1>2, <1>3, <1>4 DEF Own, Progress, Placed, InStep, Backed, Received, Secured

LEMMA AdvanceOwn ==
    ASSUME DurableInv, NEW n \in Conns, AdvanceCheckpoint(n)
    PROVE  Own(n, request[n].tid)'
<1> DEFINE t == request[n].tid
<1>1. HandlerStep(n)
  BY DEF HandlerStep
<1>2. /\ UNCHANGED <<request, nxt, cur, pos, file, synced, partial, edits>>
      /\ ckpt'[t] = CheckpointOf(request[n], nxt[n], cur[n])
      /\ spc[n] = "synced" /\ spc'[n] = "receiving"
  BY <1>1, HandlerFacts DEF AdvanceCheckpoint, netVars, modelVars
<1>3. /\ InStep(request[n].size, nxt[n], cur[n]) /\ pos[n] = cur[n] /\ Len(file[t]) = cur[n]
      /\ Received(t, cur[n]) /\ synced[t] = file[t]
  BY <1>1, <1>2, HandlerFacts DEF Own, Progress, Placed
<1> QED
  BY <1>2, <1>3 DEF Own, Progress, Placed, InStep, CheckpointOf, Backed, Received, Secured

\* The last steps only remove names.
LEMMA CloseOwn ==
    ASSUME DurableInv, NEW n \in Conns,
           Publish(n) \/ DiscardPartial(n) \/ RemoveCheckpoint(n) \/ DiscardCheckpoint(n)
    PROVE  Own(n, request[n].tid)'
<1> DEFINE t == request[n].tid
<1>1. HandlerStep(n)
  BY DEF HandlerStep
<1>2. /\ UNCHANGED <<request, file, synced, edits>> /\ spc'[n] \notin Placed
      /\ ckpt'[t] = ckpt[t] \/ ckpt'[t] = None
      /\ partial'[t] = partial[t] \/ partial'[t] = None
  BY <1>1, HandlerFacts DEF Publish, DiscardPartial, RemoveCheckpoint, DiscardCheckpoint, Leave,
                            Placed, netVars, modelVars
<1>3. Own(n, t) /\ t # None
  BY <1>1, HandlerFacts
<1> QED
  BY <1>2, <1>3 DEF Own, Progress, Placed, InStep, Backed, Received, Secured

LEMMA HandlerDurable ==
    ASSUME DurableInv, ~Concurrent, ~ShortWrites, NEW n \in Conns, HandlerStep(n)
    PROVE  CheckpointsBacked' /\ HandlersBacked'
<1>1. CASE \/ Accept(n) \/ DropQueued(n) \/ RejectRequest(n) \/ RefuseShortPartial(n)
           \/ Rehash(n) \/ Acknowledge(n) \/ ReachEndOfInput(n)
  BY <1>1, QuietHandler
<1>2. ASSUME Own(n, request[n].tid)', spc[n] # "queued", UNCHANGED edits
      PROVE  CheckpointsBacked' /\ HandlersBacked'
  BY <1>2, OwnSuffices
<1>3. CASE CreatePartial(n) \/ WriteFirstCheckpoint(n) \/ LoadCheckpoint(n) \/ RollBack(n)
           \/ SendStatus(n)
  <2>1. Own(n, request[n].tid)'
    BY <1>3, CreateOwn, FirstCheckpointOwn, LoadOwn, RollBackOwn, SendStatusOwn
  <2>2. spc[n] # "queued" /\ UNCHANGED edits
    BY <1>3 DEF CreatePartial, WriteFirstCheckpoint, LoadCheckpoint, RollBack, SendStatus, modelVars
  <2> QED
    BY <1>2, <2>1, <2>2
<1>4. CASE ReceiveFrame(n) \/ SyncFrame(n) \/ AdvanceCheckpoint(n) \/ ReceiveFinal(n)
           \/ Publish(n) \/ DiscardPartial(n) \/ RemoveCheckpoint(n) \/ DiscardCheckpoint(n)
  <2>1. Own(n, request[n].tid)'
    BY <1>4, ReceiveFrameOwn, SyncOwn, AdvanceOwn, CloseOwn
  <2>2. spc[n] # "queued" /\ UNCHANGED edits
    BY <1>4 DEF ReceiveFrame, SyncFrame, AdvanceCheckpoint, ReceiveFinal, Publish, DiscardPartial,
                RemoveCheckpoint, DiscardCheckpoint, modelVars
  <2> QED
    BY <1>2, <2>1, <2>2
<1> QED
  BY <1>1, <1>3, <1>4 DEF HandlerStep
-----------------------------------------------------------------------------
(* Frames on their way, and the calls that send them. *)

LEMMA TailOf ==
    ASSUME NEW M, NEW q \in Seq(M), q # <<>>
    PROVE  /\ Len(Tail(q)) = Len(q) - 1
           /\ \A i \in 1 .. Len(Tail(q)) : i + 1 \in 1 .. Len(q) /\ Tail(q)[i] = q[i + 1]
OBVIOUS

LEMMA HandlerFrames ==
    ASSUME DurableInv, NEW n \in Conns, HandlerStep(n)
    PROVE  FramesTrue'
<1>1. /\ UNCHANGED <<request, edits>>
      /\ spc'[n] # "none" /\ \A m \in Conns \ {n} : spc'[m] = spc[m]
  <2>1. UNCHANGED edits
    BY DEF HandlerStep, Accept, DropQueued, CreatePartial, WriteFirstCheckpoint, LoadCheckpoint,
           RejectRequest, RollBack, RefuseShortPartial, SendStatus, ReceiveFrame, SyncFrame,
           AdvanceCheckpoint, ReceiveFinal, Rehash, Publish, RemoveCheckpoint, Acknowledge,
           DiscardPartial, DiscardCheckpoint, ReachEndOfInput, modelVars
  <2> QED
    BY <2>1, HandlerShape DEF DurableInv, TransferInv, Inv
<1>2. up \in [Conns -> Seq(UpMsgs)] /\ FramesTrue
  BY DEF DurableInv, TransferInv, Inv, TypeInv, TypeOK, NetTypes
<1>3. CASE UNCHANGED up
  BY <1>1, <1>2, <1>3 DEF FramesTrue, FrameTrue
<1>4. CASE up[n] # <<>> /\ up' = [up EXCEPT ![n] = Tail(@)]
  <2>1. ASSUME NEW i \in 1 .. Len(Tail(up[n]))
        PROVE  FrameTrue(n, Tail(up[n])[i])
    <3>1. i + 1 \in 1 .. Len(up[n]) /\ Tail(up[n])[i] = up[n][i + 1]
      BY <1>2, <1>4, <2>1, TailOf
    <3> QED
      BY <1>2, <3>1 DEF FramesTrue
  <2>2. up'[n] = Tail(up[n]) /\ \A m \in Conns \ {n} : up'[m] = up[m]
    BY <1>2, <1>4
  <2>3. ASSUME NEW m \in Conns, NEW i \in 1 .. Len(up'[m])
        PROVE  FrameTrue(m, up'[m][i])
    BY <1>2, <2>1, <2>2, <2>3 DEF FramesTrue
  <2> QED
    BY <1>1, <1>2, <2>2, <2>3 DEF FramesTrue, FrameTrue
<1>5. UNCHANGED up \/ (up[n] # <<>> /\ up' = [up EXCEPT ![n] = Tail(@)])
  BY DEF HandlerStep, Accept, DropQueued, CreatePartial, WriteFirstCheckpoint, LoadCheckpoint,
         RejectRequest, RollBack, RefuseShortPartial, SendStatus, ReceiveFrame, SyncFrame,
         AdvanceCheckpoint, ReceiveFinal, Rehash, Publish, RemoveCheckpoint, Acknowledge,
         DiscardPartial, DiscardCheckpoint, ReachEndOfInput, netVars
<1> QED
  BY <1>3, <1>4, <1>5

\* The offset of a call that sends is the start of a frame.
LEMMA FrameSent ==
    ASSUME DurableInv, NEW c \in Clients, SendFrame(c)
    PROVE  LET sz == request[conn[c]].size IN
           /\ conn[c] \in Conns /\ spc[conn[c]] # "none" /\ sz \in Nat
           /\ \E i \in Nat : /\ sent[c] = i * FrameSize /\ sent[c] \div FrameSize = i
                             /\ sent'[c] = ExpectedBytes(i + 1, sz, FrameSize)
<1> DEFINE n == conn[c]
           sz == request[n].size
<1>1. TypeInv /\ CallTrue(c)
  BY DEF DurableInv, TransferInv, Inv, CallsTrue
<1>2. /\ n \in Conns /\ request[n] # None /\ spc[n] # "none" /\ sz \in Nat
      /\ sent \in [Clients -> Nat]
  BY <1>1 DEF SendFrame, TypeInv, TypeOK, NetTypes, ClientTypes, Connected, CallsHaveHeaders,
              HandlersHaveHeaders, Headers
<1>3. FrameCount(sz, FrameSize) \in Nat /\ sz <= FrameCount(sz, FrameSize) * FrameSize
        /\ FrameSize \in Nat \ {0}
  BY <1>2, FrameCountBounds, BlocksArePositive
<1>4. PICK i \in Nat : sent[c] = ExpectedBytes(i, sz, FrameSize)
  BY <1>1 DEF SendFrame, CallTrue, AtFrame
<1>5. sent[c] < sz /\ Len(FrameAt(c)) = FrameLen(sent[c], sz, FrameSize)
        /\ sent'[c] = sent[c] + Len(FrameAt(c))
  BY <1>2 DEF SendFrame
<1>6. i < FrameCount(sz, FrameSize)
  <2>1. i # FrameCount(sz, FrameSize)
    BY <1>2, <1>4, <1>5 DEF ExpectedBytes
  <2>2. ASSUME i > FrameCount(sz, FrameSize)
        PROVE  FALSE
    <3>1. FrameCount(sz, FrameSize) * FrameSize <= i * FrameSize /\ i * FrameSize \in Nat
            /\ FrameCount(sz, FrameSize) * FrameSize \in Nat
      BY <1>3, <2>2, SMTT(30)
    <3>2. sent[c] = i * FrameSize
      BY <1>4, <2>1 DEF ExpectedBytes
    <3> QED
      BY <1>2, <1>3, <1>5, <3>1, <3>2
  <2> QED
    BY <1>3, <2>1, <2>2
<1>7. sent[c] = i * FrameSize /\ sent[c] \div FrameSize = i
  BY <1>2, <1>3, <1>4, <1>6, FrameNumberOfOffset DEF ExpectedBytes
<1>8. sent'[c] = ExpectedBytes(i + 1, sz, FrameSize)
  BY <1>2, <1>3, <1>4, <1>5, <1>6, ExpectedBytesStep
<1> QED
  BY <1>2, <1>7, <1>8

\* What is read there is what was announced.
LEMMA SentFrameTrue ==
    ASSUME DurableInv, NEW c \in Clients, SendFrame(c)
    PROVE  FrameTrue(conn[c], Frame(sent[c] \div FrameSize, FrameAt(c)))
<1> DEFINE n == conn[c]
<1>1. PICK i \in Nat : sent[c] = i * FrameSize /\ sent[c] \div FrameSize = i
  BY FrameSent
<1>2. SUFFICES ASSUME edits = 0, NEW j \in 1 .. Len(FrameAt(c))
               PROVE  /\ i * FrameSize + j <= Len(request[n].digest)
                      /\ FrameAt(c)[j] = request[n].digest[i * FrameSize + j]
  BY <1>1 DEF FrameTrue, Frame
<1>3. source[c] \in Seq(Byte) /\ sent[c] \in Nat /\ request[n].size \in Nat /\ FrameSize \in Nat
  BY FrameSent, BlocksArePositive DEF DurableInv, TransferInv, Inv, TypeInv, TypeOK, ClientTypes
<1>4. request[n].digest = source[c]
  BY <1>2 DEF SendFrame, DurableInv, TransferInv, DeliveryInv, CallsHashed, CallsTrue, CallTrue, SendsSource
<1>5. PICK s \in Seq(Byte) : s = source[c]
  BY <1>3
<1>6. PICK k : k = FrameLen(sent[c], request[n].size, FrameSize)
  OBVIOUS
<1>7. k \in Int
  BY <1>3, <1>6 DEF FrameLen, Least
<1>8. PICK a \in Nat : a = sent[c]
  BY <1>3
<1>9. FrameAt(c) = SubSeq(s, a + 1, Least(a + k, Len(s)))
  BY <1>5, <1>6, <1>8 DEF FrameAt, ReadAt
<1>10. Least(a + k, Len(s)) \in Int /\ Least(a + k, Len(s)) <= Len(s)
  BY <1>7 DEF Least
<1>11. a + j <= Len(s) /\ FrameAt(c)[j] = s[a + j]
  BY <1>2, <1>9, <1>10
<1> QED
  BY <1>1, <1>4, <1>5, <1>8, <1>11

LEMMA AppendOf ==
    ASSUME NEW M, NEW q \in Seq(M), NEW m, NEW i \in 1 .. Len(Append(q, m))
    PROVE  \/ i \in 1 .. Len(q) /\ Append(q, m)[i] = q[i]
           \/ Append(q, m)[i] = m
OBVIOUS

LEMMA ClientFrames ==
    ASSUME DurableInv, NEW c \in Clients, ClientStep(c) \/ ClientAbort(c) \/ EditSource(c)
    PROVE  FramesTrue'
<1>1. up \in [Conns -> Seq(UpMsgs)] /\ FramesTrue /\ TransferInv /\ edits \in Nat
  BY DEF DurableInv, TransferInv, Inv, TypeInv, TypeOK, NetTypes, ModelTypes
<1>2. /\ \A n \in Conns : spc[n] # "none" => spc'[n] = spc[n] /\ request'[n] = request[n]
      /\ edits' = 0 => edits = 0
  <2>1. edits' = edits \/ edits' = edits + 1
    BY DEF ClientStep, Open, HashOneBlock, Connect, RefuseChangedSource, ReceiveStatus, SendFrame,
           AbandonShortSource, SendFinal, ReceiveAck, ReceiveEnd, ClientAbort, EditSource,
           modelVars, Fault
  <2> QED
    BY <1>1, <2>1, ClientLeaves
<1>3. ASSUME NEW n \in Conns, NEW m, spc[n] # "none", FrameTrue(n, m)
      PROVE  FrameTrue(n, m)'
  BY <1>2, <1>3 DEF FrameTrue
<1>4. CASE UNCHANGED up
  <2>1. ASSUME NEW n \in Conns, spc[n] # "none", NEW i \in 1 .. Len(up[n])
        PROVE  FrameTrue(n, up[n][i])'
    <3>1. PICK m : m = up[n][i]
      OBVIOUS
    <3>2. FrameTrue(n, m)
      BY <1>1, <2>1, <3>1 DEF FramesTrue
    <3>3. FrameTrue(n, m)'
      BY <1>3, <2>1, <3>2
    <3> QED
      BY <1>4, <3>1, <3>3 DEF FrameTrue
  <2>2. ASSUME NEW n \in Conns, spc[n] = "none"
        PROVE  up'[n] = <<>>
    BY <1>1, <1>4, <2>2 DEF FramesTrue
  <2> QED
    BY <1>2, <1>4, <2>1, <2>2 DEF FramesTrue
<1>5. ASSUME NEW n \in Conns, spc[n] # "none", NEW m, FrameTrue(n, m),
             up' = [up EXCEPT ![n] = Append(@, m)]
      PROVE  FramesTrue'
  <2>1. ASSUME NEW u \in Conns, NEW i \in 1 .. Len(up'[u])
        PROVE  spc[u] # "none" /\ FrameTrue(u, up'[u][i])
    <3>1. CASE u = n
      <4>1. up'[u] = Append(up[n], m)
        BY <1>1, <1>5, <3>1
      <4>2. (i \in 1 .. Len(up[n]) /\ up'[u][i] = up[n][i]) \/ up'[u][i] = m
        BY <1>1, <2>1, <4>1, AppendOf
      <4> QED
        BY <1>1, <1>5, <3>1, <4>2 DEF FramesTrue
    <3>2. CASE u # n
      BY <1>1, <1>5, <2>1, <3>2 DEF FramesTrue
    <3> QED
      BY <3>1, <3>2
  <2>2. ASSUME NEW u \in Conns, NEW i \in 1 .. Len(up'[u])
        PROVE  FrameTrue(u, up[u][i])'
    BY <1>2, <2>1, <2>2 DEF FrameTrue
  <2>3. ASSUME NEW u \in Conns, spc'[u] = "none"
        PROVE  up'[u] = <<>>
    BY <1>1, <1>2, <1>5, <2>3 DEF FramesTrue
  <2> QED
    BY <2>2, <2>3 DEF FramesTrue
<1>6. CASE SendFrame(c)
  BY <1>5, <1>6, FrameSent, SentFrameTrue DEF SendFrame
<1>7. CASE SendFinal(c)
  <2>1. conn[c] \in Conns /\ spc[conn[c]] # "none"
    BY <1>7 DEF SendFinal, DurableInv, TransferInv, Inv, TypeInv, Connected, CallsHaveHeaders,
                HandlersHaveHeaders
  <2>2. FrameTrue(conn[c], Final(request[conn[c]].digest))
    BY DEF FrameTrue, Final
  <2> QED
    BY <1>5, <1>7, <2>1, <2>2 DEF SendFinal
<1>8. UNCHANGED up \/ SendFrame(c) \/ SendFinal(c)
  BY DEF ClientStep, Open, HashOneBlock, Connect, RefuseChangedSource, ReceiveStatus,
         AbandonShortSource, ReceiveAck, ReceiveEnd, ClientAbort, EditSource, netVars
<1> QED
  BY <1>4, <1>6, <1>7, <1>8

\* Hashing reads the source in order, and ends when it has all of it.
LEMMA BlockOfSource ==
    ASSUME TypeOK, NEW c \in Clients, HashesSource(c),
           NEW b, b = NextBlock(c)
    PROVE  /\ Len(hashed[c] \o b) <= size[c]
           /\ \A i \in 1 .. Len(hashed[c] \o b) : (hashed[c] \o b)[i] = source[c][i]
           /\ b = <<>> => hashed[c] = source[c]
<1>1. PICK s \in Seq(Byte), h \in Seq(Byte) : s = source[c] /\ h = hashed[c]
  BY DEF TypeOK, ClientTypes
<1>2. PICK a \in Nat, z \in Nat : a = Len(h) /\ z = Len(s)
  OBVIOUS
<1>3. size[c] = z /\ a <= z /\ \A i \in 1 .. a : h[i] = s[i]
  BY <1>1, <1>2 DEF HashesSource
<1>4. PICK e \in Nat : e = Least(a + Least(HashBlock, z - a), z)
  BY <1>3, BlocksArePositive DEF Least
<1>5. a <= e /\ e <= z /\ (a = e => a = z)
  BY <1>3, <1>4, BlocksArePositive DEF Least
<1>6. b = SubSeq(s, a + 1, e)
  BY <1>1, <1>2, <1>3, <1>4 DEF NextBlock, ReadAt
<1>7. b \in Seq(Byte) /\ Len(b) = e - a /\ \A j \in 1 .. e - a : b[j] = s[a + j]
  <2>1. SubSeq(s, a + 1, e) \in Seq(Byte)
    BY <1>2, <1>5
  <2>2. Len(SubSeq(s, a + 1, e)) = e - a
    BY <1>2, <1>5
  <2>3. \A j \in 1 .. e - a : SubSeq(s, a + 1, e)[j] = s[a + j]
    BY <1>2, <1>5
  <2> QED
    BY <1>6, <2>1, <2>2, <2>3
<1>8. PICK g : g = h \o b
  OBVIOUS
<1>9. Len(g) = e
  BY <1>2, <1>5, <1>7, <1>8
<1>10. ASSUME NEW i \in 1 .. e
      PROVE  g[i] = s[i]
  <2>1. ASSUME i <= a
        PROVE  g[i] = s[i]
    BY <1>2, <1>3, <1>7, <1>8, <1>10, <2>1
  <2>2. ASSUME i > a
        PROVE  g[i] = s[i]
    <3>1. i - a \in 1 .. e - a /\ a + (i - a) = i
      BY <1>10, <2>2
    <3>2. g[i] = b[i - a]
      BY <1>2, <1>7, <1>8, <1>10, <2>2, <3>1
    <3>3. b[i - a] = s[i]
      BY <1>7, <3>1
    <3> QED
      BY <3>2, <3>3
  <2>3. i <= a \/ i > a
    BY <1>10
  <2> QED
    BY <2>1, <2>2, <2>3
<1>11. ASSUME a = z
       PROVE  h = s
  <2>1. h \in Seq(Byte) /\ s \in Seq(Byte)
    OBVIOUS
  <2>2. Len(h) = Len(s) /\ \A i \in 1 .. Len(h) : h[i] = s[i]
    BY <1>2, <1>3, <1>11
  <2> QED
    BY <2>1, <2>2
<1>12. b = <<>> => a = e
  BY <1>7
<1> QED
  BY <1>1, <1>3, <1>5, <1>8, <1>10, <1>11, <1>12, <1>9

\* What one call knows of its source is not disturbed by another.
LEMMA OtherCalls ==
    ASSUME DurableInv, NEW c \in Clients, ClientStep(c) \/ ClientAbort(c) \/ EditSource(c),
           NEW d \in Clients \ {c}
    PROVE  CallTrue(d)'
<1>1. /\ source'[d] = source[d] /\ cpc'[d] = cpc[d] /\ size'[d] = size[d]
      /\ hashed'[d] = hashed[d] /\ conn'[d] = conn[d] /\ sent'[d] = sent[d]
      /\ edits' = edits \/ edits' = edits + 1
  <2>1. TypeOK
    BY DEF DurableInv, TransferInv, Inv, TypeInv
  <2>2. CASE Open(c) \/ HashOneBlock(c) \/ Connect(c) \/ ReceiveStatus(c) \/ SendFrame(c)
               \/ SendFinal(c) \/ ReceiveAck(c)
    BY <2>1, <2>2 DEF TypeOK, ClientTypes, Open, HashOneBlock, Connect, ReceiveStatus, SendFrame,
                      SendFinal, ReceiveAck, modelVars
  <2>3. CASE RefuseChangedSource(c) \/ AbandonShortSource(c) \/ ReceiveEnd(c) \/ ClientAbort(c)
               \/ EditSource(c)
    BY <2>1, <2>3 DEF TypeOK, ClientTypes, RefuseChangedSource, AbandonShortSource, ReceiveEnd,
                      ClientAbort, EditSource, Give, modelVars, Fault
  <2> QED
    BY <2>2, <2>3 DEF ClientStep
<1>2. edits' = 0 => edits = 0
  BY <1>1 DEF DurableInv, TransferInv, Inv, TypeInv, TypeOK, ModelTypes
<1>3. cpc[d] \in {"waiting", "streaming", "finishing"} => request'[conn[d]] = request[conn[d]]
  <2>1. \A n \in Conns : request[n] # None => request'[n] = request[n]
    BY ClientLeaves DEF DurableInv, TransferInv, Inv, TypeInv, Connected, HandlersHaveHeaders
  <2> QED
    BY <2>1 DEF DurableInv, TransferInv, Inv, TypeInv, Connected, CallsHaveHeaders
<1>4. CallTrue(d)
  BY DEF DurableInv, CallsTrue
<1> QED
  BY <1>1, <1>2, <1>3, <1>4 DEF CallTrue, HashesSource, SendsSource, AtFrame

LEMMA OwnCall ==
    ASSUME DurableInv, NEW c \in Clients, ClientStep(c) \/ ClientAbort(c) \/ EditSource(c)
    PROVE  CallTrue(c)'
<1>1. TypeInv /\ TypeOK /\ CallTrue(c)
  BY DEF DurableInv, TransferInv, Inv, TypeInv, CallsTrue
<1>2. CASE RefuseChangedSource(c) \/ AbandonShortSource(c) \/ ReceiveEnd(c) \/ ClientAbort(c)
             \/ ReceiveAck(c)
  <2>1. cpc'[c] \in {"idle", "done"}
    BY <1>1, <1>2 DEF TypeOK, ClientTypes, RefuseChangedSource, AbandonShortSource, ReceiveEnd,
                      ClientAbort, ReceiveAck, Give
  <2> QED
    BY <2>1 DEF CallTrue
<1>3. CASE Open(c)
  <2>1. /\ cpc'[c] = "hashing" /\ size'[c] = Len(source[c]) /\ hashed'[c] = <<>>
        /\ source' = source /\ Len(source[c]) \in Nat
    BY <1>1, <1>3 DEF TypeOK, ClientTypes, Open
  <2> QED
    BY <2>1 DEF CallTrue, HashesSource
<1>4. CASE HashOneBlock(c)
  <2>1. /\ cpc[c] = "hashing" /\ cpc' = cpc /\ size' = size /\ source' = source /\ edits' = edits
        /\ hashed'[c] = hashed[c] \o NextBlock(c)
    BY <1>1, <1>4 DEF TypeOK, ClientTypes, HashOneBlock, modelVars
  <2> QED
    BY <1>1, <2>1, BlockOfSource DEF CallTrue, HashesSource
<1>5. CASE Connect(c)
  <2>1. /\ cpc[c] = "hashing" /\ cpc'[c] = "waiting" /\ source' = source /\ edits' = edits
        /\ hashed' = hashed /\ NextBlock(c) = <<>>
    BY <1>1, <1>5 DEF TypeOK, ClientTypes, Connect, modelVars
  <2>2. PICK n \in Conns :
          /\ request' = [request EXCEPT ![n] =
                 IF saved[c] = None THEN NewRequest(c, n) ELSE ResumeRequest(c)]
          /\ conn' = [conn EXCEPT ![c] = n]
    BY <1>5 DEF Connect
  <2>3. conn'[c] = n /\ request'[n].size = size[c]
    BY <1>1, <2>2 DEF TypeOK, ClientTypes, NetTypes, NewRequest, ResumeRequest
  <2>4. ASSUME edits = 0
        PROVE  hashed[c] = source[c] /\ size[c] = Len(source[c])
    BY <1>1, <2>1, <2>4, BlockOfSource DEF CallTrue, HashesSource
  <2> QED
    BY <2>1, <2>3, <2>4 DEF CallTrue, SendsSource
<1>6. CASE ReceiveStatus(c)
  <2>1. /\ cpc[c] = "waiting" /\ cpc'[c] = "streaming"
        /\ UNCHANGED <<source, edits, hashed, conn, request>>
        /\ sent'[c] = Head(down[conn[c]]).bytes
    BY <1>1, <1>6 DEF TypeOK, ClientTypes, ReceiveStatus, modelVars
  <2>2. AtFrame(c)'
    <3> DEFINE n == conn[c]
               m == Head(down[n])
    <3>1. down[n] # <<>> /\ m.kind = "status" /\ m.bytes = ExpectedBytes(m.next, request[n].size, FrameSize)
      BY <1>6 DEF ReceiveStatus
    <3>2. down[n] \in Seq(DownMsgs)
      BY <1>1, <1>6 DEF ReceiveStatus, TypeInv, TypeOK, NetTypes, Connected, CallsHaveHeaders
    <3>3. m \in DownMsgs
      BY <3>1, <3>2
    <3>4. m.next \in Nat
      BY <3>1, <3>3 DEF DownMsgs
    <3> QED
      BY <2>1, <3>1, <3>4 DEF AtFrame
  <2> QED
    BY <1>1, <2>1, <2>2 DEF CallTrue, SendsSource
<1>7. CASE SendFrame(c)
  <2>1. cpc[c] = "streaming" /\ UNCHANGED <<cpc, source, edits, hashed, conn, request>>
    BY <1>7 DEF SendFrame, modelVars
  <2>2. AtFrame(c)'
    <3>1. PICK i \in Nat : sent'[c] = ExpectedBytes(i + 1, request[conn[c]].size, FrameSize)
      BY <1>7, FrameSent
    <3>2. i + 1 \in Nat
      OBVIOUS
    <3> QED
      BY <2>1, <3>1, <3>2 DEF AtFrame
  <2> QED
    BY <1>1, <2>1, <2>2 DEF CallTrue, SendsSource
<1>8. CASE SendFinal(c)
  <2>1. cpc[c] = "streaming" /\ cpc'[c] = "finishing" /\ UNCHANGED <<source, edits, hashed, conn, request>>
    BY <1>1, <1>8 DEF TypeOK, ClientTypes, SendFinal, modelVars
  <2> QED
    BY <1>1, <2>1 DEF CallTrue, SendsSource
<1>9. CASE EditSource(c)
  <2>1. edits' # 0 /\ UNCHANGED <<cpc, conn, sent, request>>
    BY <1>1, <1>9 DEF TypeOK, ModelTypes, EditSource, netVars
  <2> QED
    BY <1>1, <2>1 DEF CallTrue, AtFrame
<1> QED
  BY <1>2, <1>3, <1>4, <1>5, <1>6, <1>7, <1>8, <1>9 DEF ClientStep
-----------------------------------------------------------------------------
LEMMA DurableKept ==
    ASSUME DurableInv, UNCHANGED vars
    PROVE  CheckpointsBacked' /\ HandlersBacked' /\ FramesTrue' /\ CallsTrue'
<1>1. UNCHANGED <<file, synced, partial, ckpt, nxt, cur, pos, spc, edits, request, up,
                  source, cpc, size, hashed, conn, sent>>
  BY DEF vars, clientVars, netVars, handlerVars, diskVars, modelVars
<1>2. CheckpointsBacked' /\ HandlersBacked'
  BY <1>1, QuietKept
<1>3. FramesTrue'
  BY <1>1 DEF DurableInv, FramesTrue, FrameTrue
<1>4. CallsTrue'
  BY <1>1 DEF DurableInv, CallsTrue, CallTrue, HashesSource, SendsSource, AtFrame
<1> QED
  BY <1>2, <1>3, <1>4

LEMMA ClientDurable ==
    ASSUME DurableInv, NEW c \in Clients, ClientStep(c) \/ ClientAbort(c) \/ EditSource(c)
    PROVE  CheckpointsBacked' /\ HandlersBacked' /\ FramesTrue' /\ CallsTrue'
<1>1. TransferInv /\ edits \in Nat
  BY DEF DurableInv, TransferInv, Inv, TypeInv, TypeOK, ModelTypes
<1>2. edits' = edits \/ edits' = edits + 1
  BY DEF ClientStep, Open, HashOneBlock, Connect, RefuseChangedSource, ReceiveStatus, SendFrame,
         AbandonShortSource, SendFinal, ReceiveAck, ReceiveEnd, ClientAbort, EditSource,
         modelVars, Fault
<1>3. edits' = 0 => edits = 0
  BY <1>1, <1>2
<1>4. \A n \in Conns : spc'[n] = spc[n] \/ spc'[n] \notin Placed
  BY <1>1, ClientLeaves DEF Placed
<1>5. CheckpointsBacked' /\ HandlersBacked'
  BY <1>1, <1>3, <1>4, ClientLeaves, QuietKept
<1>6. CallsTrue'
  BY OwnCall, OtherCalls DEF CallsTrue
<1> QED
  BY <1>5, <1>6, ClientFrames

\* A handler or a fault concerns no call.
LEMMA CallsKept ==
    ASSUME DurableInv, UNCHANGED <<clientVars, request, edits>>
    PROVE  CallsTrue'
BY DEF DurableInv, CallsTrue, CallTrue, HashesSource, SendsSource, AtFrame, clientVars

LEMMA FaultDurable ==
    ASSUME DurableInv, (\E n \in Conns : HandlerAbort(n)) \/ ServerCrash \/ PowerLoss
    PROVE  CheckpointsBacked' /\ HandlersBacked' /\ FramesTrue' /\ CallsTrue'
<1>1. spc \in [Conns -> HandlerPCs]
  BY DEF DurableInv, TransferInv, Inv, TypeInv, TypeOK, HandlerTypes
<1>2. /\ UNCHANGED <<clientVars, request, up, edits>>
      /\ \A n \in Conns : spc'[n] = spc[n] \/ (spc[n] # "none" /\ spc'[n] = "closed")
  <2>1. ASSUME NEW n \in Conns, HandlerAbort(n)
        PROVE  /\ UNCHANGED <<clientVars, request, up, edits>>
               /\ \A m \in Conns : spc'[m] = spc[m] \/ (spc[m] # "none" /\ spc'[m] = "closed")
    BY <1>1, <2>1 DEF HandlerAbort, Active, Closed, Leave, Fault, netVars
  <2>2. CASE ServerCrash \/ PowerLoss
    BY <1>1, <2>2 DEF ServerCrash, PowerLoss, EndAllHandlers, Fault, netVars
  <2> QED
    BY <2>1, <2>2
<1>3. CallsTrue'
  BY <1>2, CallsKept
<1>4. FramesTrue'
  BY <1>2 DEF DurableInv, FramesTrue, FrameTrue
<1>5. CASE (\E n \in Conns : HandlerAbort(n)) \/ ServerCrash
  <2>1. UNCHANGED <<file, synced, partial, ckpt, nxt, cur, pos>>
    BY <1>5 DEF HandlerAbort, ServerCrash, diskVars
  <2>2. \A n \in Conns : spc'[n] = spc[n] \/ spc'[n] \notin Placed
    BY <1>2 DEF Placed
  <2>3. CheckpointsBacked' /\ HandlersBacked'
    BY <1>2, <2>1, <2>2, QuietKept
  <2> QED
    BY <1>3, <1>4, <2>3
<1>6. CASE PowerLoss
  BY <1>3, <1>4, <1>6, PowerLossBacked
<1> QED
  BY <1>5, <1>6

LEMMA NextDurable ==
    ASSUME ~Concurrent, ~ShortWrites, DurableInv, [Next]_vars
    PROVE  DurableInv'
<1>1. TransferInv'
  BY NextTransfer DEF DurableInv
<1>2. ASSUME NEW n \in Conns, HandlerStep(n)
      PROVE  CheckpointsBacked' /\ HandlersBacked' /\ FramesTrue' /\ CallsTrue'
  <2>1. UNCHANGED <<clientVars, request>>
    BY <1>2, DownChange, HandlerShape DEF DurableInv, TransferInv, Inv
  <2>2. UNCHANGED edits
    BY <1>2 DEF HandlerStep, Accept, DropQueued, CreatePartial, WriteFirstCheckpoint, LoadCheckpoint,
           RejectRequest, RollBack, RefuseShortPartial, SendStatus, ReceiveFrame, SyncFrame,
           AdvanceCheckpoint, ReceiveFinal, Rehash, Publish, RemoveCheckpoint, Acknowledge,
           DiscardPartial, DiscardCheckpoint, ReachEndOfInput, modelVars
  <2> QED
    BY <1>2, <2>1, <2>2, HandlerDurable, HandlerFrames, CallsKept
<1>3. CASE Next
  <2>1. CheckpointsBacked' /\ HandlersBacked' /\ FramesTrue' /\ CallsTrue'
    BY <1>2, <1>3, ClientDurable, FaultDurable DEF Next
  <2> QED
    BY <1>1, <2>1 DEF DurableInv
<1>4. CASE UNCHANGED vars
  BY <1>1, <1>4, DurableKept DEF DurableInv
<1> QED
  BY <1>3, <1>4

LEMMA DurableSuffices == DurableInv => CheckpointDurable
<1> SUFFICES ASSUME DurableInv, NEW t \in Conns, ckpt[t] # None, partial[t] # None
             PROVE  LET k == ckpt[t] s == synced[partial[t]] IN
                    /\ k.bytes <= Len(s)
                    /\ edits = 0 => SubSeq(s, 1, k.bytes) = SubSeq(k.digest, 1, k.bytes)
  BY DEF CheckpointDurable
<1>1. /\ partial[t] = t /\ ckpt[t].bytes \in Nat /\ ckpt[t].digest = request[t].digest
      /\ synced[t] \in Seq(Byte) /\ ckpt[t].digest \in Seq(Byte)
  BY DEF DurableInv, TransferInv, Inv, TypeInv, TypeOK, DiskTypes, Ckpts, SequentialInv,
         NamesDisjoint, DigestsAgree
<1>2. Backed(t, ckpt[t].bytes)
  BY <1>1 DEF DurableInv, CheckpointsBacked
<1>3. PICK s \in Seq(Byte), d \in Seq(Byte), b \in Nat :
          s = synced[t] /\ d = ckpt[t].digest /\ b = ckpt[t].bytes
  BY <1>1
<1>4. b <= Len(s)
  BY <1>2, <1>3 DEF Backed, Secured
<1>5. ASSUME edits = 0
      PROVE  SubSeq(s, 1, b) = SubSeq(d, 1, b)
  <2>1. \A i \in 1 .. b : i <= Len(d) /\ s[i] = d[i]
    BY <1>1, <1>2, <1>3, <1>5 DEF Backed, Received, Secured
  <2>2. b <= Len(d)
    BY <2>1
  <2>3. SubSeq(s, 1, b) \in Seq(Byte) /\ Len(SubSeq(s, 1, b)) = b
          /\ \A i \in 1 .. b : SubSeq(s, 1, b)[i] = s[i]
    BY <1>4
  <2>4. SubSeq(d, 1, b) \in Seq(Byte) /\ Len(SubSeq(d, 1, b)) = b
          /\ \A i \in 1 .. b : SubSeq(d, 1, b)[i] = d[i]
    BY <2>2
  <2> QED
    BY <2>1, <2>3, <2>4
<1> QED
  BY <1>1, <1>3, <1>4, <1>5

\* A checkpoint never covers bytes that a power loss could take back, and it
\* covers the announced content while no source is edited: on a
\* single-threaded server whose raw writes store all they are given.
THEOREM CheckpointsAreDurable ==
    ASSUME ~Concurrent, ~ShortWrites
    PROVE  Spec => []CheckpointDurable
<1>1. Init => DurableInv
  BY InitDurable
<1>2. DurableInv /\ [Next]_vars => DurableInv'
  BY NextDurable
<1>3. DurableInv => CheckpointDurable
  BY DurableSuffices
<1> QED
  BY <1>1, <1>2, <1>3, PTL DEF Spec
-----------------------------------------------------------------------------
(* A ticket is honoured until its transfer is over. *)

Ready(t) == outcome[t] = "open" => ckpt[t] # None /\ partial[t] = t

TicketsReady == \A c \in Clients : saved[c] # None => Ready(saved[c].tid)
StatusesReady ==
    \A n \in Conns : /\ spc[n] = "none" => down[n] = <<>>
                     /\ \A i \in 1 .. Len(down[n]) :
                            down[n][i].kind = "status" => Ready(request[n].tid)

\* The handlers that serve an open transfer, and those past it.
Running == {"loaded", "admitted", "receiving", "written", "synced", "complete", "verified",
            "rejected"}
Served(n, t) == /\ spc[n] \in Running => ckpt[t] # None /\ partial[t] = t
                /\ spc[n] = "discarding" => outcome[t] = "discarded"
HandlersServed == \A n \in Conns : Served(n, request[n].tid)

\* A discarded transfer does not come back.
DiscardedGone == \A t \in Conns : outcome[t] = "discarded" => Started(t) /\ partial[t] # t

TicketInv == DurableInv /\ TicketsReady /\ StatusesReady /\ HandlersServed /\ DiscardedGone

LEMMA InitTicket == Init => TicketInv
<1> SUFFICES ASSUME Init
             PROVE  TicketInv
  OBVIOUS
<1>1. TicketsReady /\ StatusesReady
  BY DEF Init, TicketsReady, StatusesReady
<1>2. HandlersServed /\ DiscardedGone
  BY DEF Init, HandlersServed, Served, Running, DiscardedGone
<1> QED
  BY <1>1, <1>2, InitDurable DEF TicketInv

\* A checkpoint that is written is there.
LEMMA CheckpointWritten ==
    ASSUME DurableInv, NEW n \in Conns, WriteFirstCheckpoint(n) \/ AdvanceCheckpoint(n)
    PROVE  ckpt'[request[n].tid] \in Ckpts /\ ckpt'[request[n].tid] # None
<1> DEFINE u == request[n].tid
<1>1. HandlerStep(n)
  BY DEF HandlerStep
<1>2. /\ u \in Conns /\ request[n].size \in Nat /\ request[n].digest \in Seq(Byte)
      /\ nxt[n] \in Nat /\ cur[n] \in Nat /\ ckpt \in [Conns -> Ckpts \cup {None}]
  BY <1>1, HandlerFacts
<1>3. ckpt'[u] = CheckpointOf(request[n], 0, 0) \/ ckpt'[u] = CheckpointOf(request[n], nxt[n], cur[n])
  BY <1>2 DEF WriteFirstCheckpoint, AdvanceCheckpoint
<1>4. ckpt'[u] \in Ckpts
  BY <1>2, <1>3 DEF CheckpointOf, Ckpts
<1> QED
  BY <1>4, ConstantsAssumption

\* A ticket the server could honour can be honoured after a handler's step.
LEMMA HandlerReady ==
    ASSUME TicketInv, NEW n \in Conns, HandlerStep(n), NEW t \in Conns, Ready(t)
    PROVE  Ready(t)'
<1> DEFINE u == request[n].tid
<1>1. /\ u \in Conns /\ u # None /\ HandlersServed /\ HandlersDone /\ DurableInv /\ Inv
      /\ partial \in [Conns -> Conns \cup {None}] /\ ckpt \in [Conns -> Ckpts \cup {None}]
      /\ outcome \in [Conns -> {"open", "published", "discarded"}]
      /\ None \notin Ckpts
  BY HandlerFacts, ConstantsAssumption
     DEF TicketInv, DurableInv, TransferInv, DeliveryInv, Inv, TypeInv, TypeOK, ModelTypes
<1>2. CASE t # u
  <2>1. outcome'[t] = outcome[t]
    BY <1>1, <1>2, OutcomeChange
  <2> QED
    BY <1>1, <1>2, <2>1, OthersKept DEF Ready
<1>3. CASE t = u /\ outcome'[u] # "open"
  BY <1>3 DEF Ready
<1>4. CASE t = u /\ CreatePartial(n)
  <2>1. outcome' = outcome /\ ckpt[u] = None
    BY <1>4 DEF CreatePartial, NewAllowed, modelVars
  <2> QED
    BY <1>4, <2>1 DEF Ready
<1>5. CASE t = u /\ (RemoveCheckpoint(n) \/ DiscardCheckpoint(n))
  <2>1. outcome'[u] # "open"
    BY <1>1, <1>5 DEF RemoveCheckpoint, DiscardCheckpoint, HandlersServed, Served, HandlersDone,
                      modelVars
  <2> QED
    BY <1>3, <1>5, <2>1
<1>6. CASE t = u /\ (Publish(n) \/ DiscardPartial(n)) /\ outcome'[u] = "open"
  <2>1. UNCHANGED <<partial, ckpt, outcome>>
    BY <1>1, <1>6 DEF Publish, DiscardPartial
  <2> QED
    BY <1>6, <2>1 DEF Ready
<1>7. CASE t = u /\ (WriteFirstCheckpoint(n) \/ AdvanceCheckpoint(n))
  <2>1. UNCHANGED <<partial, outcome>>
    BY <1>7 DEF WriteFirstCheckpoint, AdvanceCheckpoint, modelVars
  <2>2. ckpt'[u] # None
    BY <1>1, <1>7, CheckpointWritten
  <2> QED
    BY <1>7, <2>1, <2>2 DEF Ready
<1>8. CASE \/ Accept(n) \/ DropQueued(n) \/ LoadCheckpoint(n) \/ RejectRequest(n) \/ RollBack(n)
           \/ RefuseShortPartial(n) \/ SendStatus(n) \/ ReceiveFrame(n) \/ SyncFrame(n)
           \/ ReceiveFinal(n) \/ Rehash(n) \/ Acknowledge(n) \/ ReachEndOfInput(n)
  <2>1. UNCHANGED <<partial, ckpt, outcome>>
    BY <1>8 DEF Accept, DropQueued, LoadCheckpoint, RejectRequest, RollBack, RefuseShortPartial,
                SendStatus, ReceiveFrame, SyncFrame, ReceiveFinal, Rehash, Acknowledge,
                ReachEndOfInput, diskVars, modelVars
  <2> QED
    BY <2>1 DEF Ready
<1> QED
  BY <1>2, <1>3, <1>4, <1>5, <1>6, <1>7, <1>8 DEF HandlerStep

LEMMA ServedKept ==
    ASSUME TicketInv, ~Concurrent, NEW n \in Conns, HandlerStep(n)
    PROVE  HandlersServed'
<1> DEFINE u == request[n].tid
<1>1. /\ DurableInv /\ Inv /\ UNCHANGED request /\ u \in Conns /\ u # None
      /\ Served(n, u) /\ Own(n, u)
      /\ spc \in [Conns -> HandlerPCs] /\ partial \in [Conns -> Conns \cup {None}]
      /\ ckpt \in [Conns -> Ckpts \cup {None}]
      /\ outcome \in [Conns -> {"open", "published", "discarded"}]
      /\ partial[u] \in {None, u}
  BY HandlerFacts
     DEF TicketInv, HandlersServed, DurableInv, TransferInv, Inv, TypeInv, TypeOK, ModelTypes
<1>2. CASE Accept(n) \/ DropQueued(n)
  <2>1. UNCHANGED <<partial, ckpt, outcome>>
          /\ \A m \in Conns : spc'[m] = spc[m] \/ spc'[m] \in {"accepted", "closed"}
    BY <1>1, <1>2 DEF Accept, DropQueued, Leave, diskVars, modelVars
  <2> QED
    BY <1>1, <2>1 DEF TicketInv, HandlersServed, Served, Running
<1>3. ASSUME spc[n] # "queued", Served(n, u)'
      PROVE  HandlersServed'
  <2>1. ASSUME NEW m \in Conns \ {n}
        PROVE  Served(m, request[m].tid)'
    BY <1>1, <1>3, <2>1, Alone DEF Served, Running, Closed
  <2> QED
    BY <1>1, <1>3, <2>1 DEF HandlersServed
<1>4. CASE CreatePartial(n) \/ RejectRequest(n) \/ RefuseShortPartial(n) \/ RemoveCheckpoint(n)
             \/ Acknowledge(n) \/ ReachEndOfInput(n) \/ DiscardCheckpoint(n)
  <2>1. spc[n] # "queued" /\ spc'[n] \in {"created", "cleared", "closed"}
    BY <1>1, <1>4 DEF CreatePartial, RejectRequest, RefuseShortPartial, RemoveCheckpoint,
                      Acknowledge, ReachEndOfInput, DiscardCheckpoint, Leave
  <2> QED
    BY <1>3, <2>1 DEF Served, Running
<1>5. CASE Publish(n) \/ DiscardPartial(n)
  <2>1. \/ spc'[n] \in {"published", "closed"}
        \/ spc'[n] = "discarding" /\ outcome'[u] = "discarded"
    BY <1>1, <1>5 DEF Publish, DiscardPartial, Leave
  <2>2. spc[n] # "queued"
    BY <1>5 DEF Publish, DiscardPartial
  <2> QED
    BY <1>1, <1>3, <2>1, <2>2 DEF Served, Running
<1>6. CASE WriteFirstCheckpoint(n) \/ AdvanceCheckpoint(n)
  <2>1. /\ ckpt'[u] # None /\ partial' = partial /\ spc'[n] \in {"admitted", "receiving"}
        /\ spc[n] \in {"created", "synced"}
    BY <1>1, <1>6, CheckpointWritten DEF WriteFirstCheckpoint, AdvanceCheckpoint
  <2>2. partial[u] = u
    BY <1>1, <2>1 DEF Served, Running, Own, Progress
  <2> QED
    BY <1>1, <1>3, <2>1, <2>2 DEF Served, Running
<1>7. CASE LoadCheckpoint(n)
  <2>1. /\ ckpt[u] # None /\ partial[u] # None /\ UNCHANGED <<partial, ckpt>>
        /\ spc[n] # "queued" /\ spc'[n] = "loaded"
    BY <1>1, <1>7 DEF LoadCheckpoint, ResumeAllowed, ValidState, diskVars
  <2> QED
    BY <1>1, <1>3, <2>1 DEF Served, Running
<1>8. CASE RollBack(n) \/ SendStatus(n) \/ ReceiveFrame(n) \/ SyncFrame(n) \/ ReceiveFinal(n)
             \/ Rehash(n)
  <2>1. UNCHANGED <<partial, ckpt>> /\ spc[n] \in Running
    BY <1>1, <1>8 DEF RollBack, SendStatus, ReceiveFrame, SyncFrame, ReceiveFinal, Rehash, Running,
                      diskVars
  <2>2. spc'[n] \in Running \cup {"closed"}
    BY <1>1, <1>8 DEF RollBack, SendStatus, ReceiveFrame, SyncFrame, ReceiveFinal, Rehash, Running
  <2> QED
    BY <1>1, <1>3, <2>1, <2>2 DEF Served, Running
<1> QED
  BY <1>2, <1>4, <1>5, <1>6, <1>7, <1>8 DEF HandlerStep

LEMMA GoneKept ==
    ASSUME TicketInv, NEW n \in Conns, HandlerStep(n)
    PROVE  DiscardedGone'
<1> SUFFICES ASSUME NEW t \in Conns, outcome'[t] = "discarded"
             PROVE  Started(t)' /\ partial'[t] # t
  BY DEF DiscardedGone
<1>1. /\ Inv /\ TypeInv /\ request[n].tid \in Conns /\ t # None
      /\ partial \in [Conns -> Conns \cup {None}]
      /\ outcome \in [Conns -> {"open", "published", "discarded"}]
  BY HandlerFacts, NoneIsNew
     DEF TicketInv, DurableInv, TransferInv, Inv, TypeInv, TypeOK, DiskTypes, ModelTypes
<1>2. CASE outcome[t] = "discarded"
  BY <1>1, <1>2, StartedKept, InodeUntouched DEF TicketInv, DiscardedGone
<1>3. CASE outcome[t] # "discarded"
  <2>1. DiscardPartial(n) /\ request[n].tid = t
    BY <1>1, <1>3, OutcomeChange
  <2>2. partial[t] = t /\ partial'[t] = None
    BY <1>1, <2>1 DEF DiscardPartial, TicketInv, DurableInv, TransferInv, DeliveryInv, HandlersDone
  <2>3. Started(t)
    BY <1>1, <2>2 DEF Inv, SequentialInv, NamesDisjoint
  <2> QED
    BY <1>1, <2>2, <2>3, StartedKept
<1> QED
  BY <1>2, <1>3

LEMMA StatusesKept ==
    ASSUME TicketInv, NEW n \in Conns, HandlerStep(n)
    PROVE  StatusesReady'
<1>1. /\ UNCHANGED request /\ down \in [Conns -> Seq(DownMsgs)] /\ StatusesReady
      /\ request[n].tid \in Conns /\ HandlersServed /\ TypeInv
      /\ spc'[n] # "none" /\ spc[n] # "none" /\ \A m \in Conns \ {n} : spc'[m] = spc[m]
  BY HandlerShape, HandlerFacts
     DEF TicketInv, DurableInv, TransferInv, Inv, TypeInv, TypeOK, NetTypes
<1>2. ASSUME NEW m \in Conns, spc[m] # "none", Ready(request[m].tid)
      PROVE  Ready(request[m].tid)'
  <2>1. request[m].tid \in Conns
    BY <1>1, <1>2, HandlerHeader
  <2> QED
    BY <1>1, <1>2, <2>1, HandlerReady DEF Ready
<1>3. ASSUME NEW m \in Conns, NEW i \in 1 .. Len(down[m]), down[m][i].kind = "status"
      PROVE  Ready(request[m].tid)'
  <2>1. spc[m] # "none"
    <3>1. Len(down[m]) # 0
      BY <1>3
    <3> QED
      BY <1>1, <3>1 DEF StatusesReady
  <2> QED
    BY <1>1, <1>2, <1>3, <2>1 DEF StatusesReady
<1>4. ASSUME NEW m, down' = [down EXCEPT ![n] = Append(@, m)],
             m.kind = "status" => Ready(request[n].tid)'
      PROVE  StatusesReady'
  <2>1. ASSUME NEW k \in Conns, NEW i \in 1 .. Len(down'[k]), down'[k][i].kind = "status"
        PROVE  Ready(request[k].tid)'
    <3>1. CASE k # n
      BY <1>1, <1>3, <1>4, <2>1, <3>1
    <3>2. CASE k = n
      <4>1. down'[k] = Append(down[n], m)
        BY <1>1, <1>4, <3>2
      <4>2. (i \in 1 .. Len(down[n]) /\ down'[k][i] = down[n][i]) \/ down'[k][i] = m
        BY <1>1, <2>1, <4>1, AppendOf
      <4> QED
        BY <1>3, <1>4, <2>1, <3>2, <4>2
    <3> QED
      BY <3>1, <3>2
  <2>2. ASSUME NEW k \in Conns, spc'[k] = "none"
        PROVE  down'[k] = <<>>
    BY <1>1, <1>4, <2>2 DEF StatusesReady
  <2> QED
    BY <2>1, <2>2 DEF StatusesReady
<1>5. CASE UNCHANGED down
  <2>1. ASSUME NEW k \in Conns, spc'[k] = "none"
        PROVE  down'[k] = <<>>
    BY <1>1, <1>5, <2>1 DEF StatusesReady
  <2> QED
    BY <1>3, <1>5, <2>1 DEF StatusesReady
<1>6. CASE SendStatus(n) /\ down' = [down EXCEPT ![n] = Append(@, Status(nxt[n], cur[n], Ticket(request[n])))]
  <2>1. Ready(request[n].tid)
    BY <1>1, <1>6 DEF SendStatus, HandlersServed, Served, Running, Ready
  <2>2. Ready(request[n].tid)'
    BY <1>1, <1>2, <2>1
  <2> QED
    BY <1>4, <1>6, <2>2
<1>7. CASE down' = [down EXCEPT ![n] = Append(@, Ack(request[n].digest, request[n].tid))]
  <2>1. Ack(request[n].digest, request[n].tid).kind # "status"
    BY DEF Ack
  <2> QED
    BY <1>4, <1>7, <2>1
<1> QED
  BY <1>5, <1>6, <1>7, DownChange

LEMMA HandlerTicket ==
    ASSUME TicketInv, ~Concurrent, NEW n \in Conns, HandlerStep(n)
    PROVE  TicketsReady' /\ StatusesReady' /\ HandlersServed' /\ DiscardedGone'
<1>1. TicketsReady'
  <2> SUFFICES ASSUME NEW c \in Clients, saved'[c] # None
               PROVE  Ready(saved[c].tid)'
    BY DEF TicketsReady
  <2>1. UNCHANGED saved
    BY DownChange DEF clientVars
  <2>2. saved[c].tid \in Conns
    BY <2>1 DEF TicketInv, DurableInv, TransferInv, Inv, TypeInv, TypeOK, ClientTypes, Saves
  <2>3. Ready(saved[c].tid)
    BY <2>1 DEF TicketInv, TicketsReady
  <2> QED
    BY <2>1, <2>2, <2>3, HandlerReady DEF Ready
<1> QED
  BY <1>1, StatusesKept, ServedKept, GoneKept

\* Clients and faults neither take a checkpoint away nor a partial file.
LEMMA NamesStay ==
    ASSUME TicketInv,
           \/ \E c \in Clients : ClientStep(c) \/ ClientAbort(c) \/ EditSource(c)
           \/ (\E n \in Conns : HandlerAbort(n)) \/ ServerCrash \/ PowerLoss
    PROVE  /\ UNCHANGED <<partial, outcome>>
           /\ \A t \in Conns : ckpt[t] # None => ckpt'[t] # None
           /\ \A n \in Conns : spc[n] # "none" =>
                  request'[n] = request[n] /\ spc'[n] \in {spc[n], "closed"}
           /\ \A n \in Conns : spc[n] = "none" => spc'[n] \in {"none", "queued"}
<1>1. /\ TransferInv /\ spc \in [Conns -> HandlerPCs] /\ None \notin Ckpts
      /\ ckpt \in [Conns -> Ckpts \cup {None}]
  BY ConstantsAssumption DEF TicketInv, DurableInv, TransferInv, Inv, TypeInv, TypeOK,
                             HandlerTypes, DiskTypes
<1>2. CASE \E c \in Clients : ClientStep(c) \/ ClientAbort(c) \/ EditSource(c)
  BY <1>1, <1>2, ClientLeaves
<1>3. CASE \E n \in Conns : HandlerAbort(n)
  BY <1>1, <1>3 DEF HandlerAbort, Active, Closed, Leave, Fault, netVars, diskVars
<1>4. CASE ServerCrash
  BY <1>1, <1>4 DEF ServerCrash, EndAllHandlers, Fault, netVars, diskVars
<1>5. CASE PowerLoss
  <2>1. /\ UNCHANGED <<partial, outcome, request>>
        /\ \A n \in Conns : spc'[n] = IF spc[n] = "none" THEN "none" ELSE "closed"
    BY <1>1, <1>5 DEF PowerLoss, EndAllHandlers, Fault, netVars
  <2>2. TypeOK'
    BY <1>1, <1>5, NextType DEF Next, TransferInv, Inv, TypeInv
  <2>3. ASSUME NEW t \in Conns, ckpt[t] # None
        PROVE  ckpt'[t] # None
    <3>1. CASE ckpt' = ckpt
      BY <2>3, <3>1
    <3>2. ASSUME NEW u \in Conns, ckpt[u] # None, NEW k \in OlderCheckpoints(ckpt[u]),
                 ckpt' = [ckpt EXCEPT ![u] = k]
          PROVE  ckpt'[t] # None
      <4>1. PICK i \in 0 .. ckpt[u].next : k = [ckpt[u] EXCEPT !.next = i, !.bytes = ExpectedBytes(i, ckpt[u].size, FrameSize)]
        BY <3>2 DEF OlderCheckpoints
      <4>2. ckpt[u] \in Ckpts /\ i \in Nat /\ ckpt[u].size \in Nat
        BY <1>1, <3>2, <4>1 DEF Ckpts
      <4>3. ExpectedBytes(i, ckpt[u].size, FrameSize) \in Nat
        BY <4>2, ExpectedBytesType
      <4>4. k \in Ckpts
        BY <4>1, <4>2, <4>3 DEF Ckpts
      <4> QED
        BY <1>1, <2>3, <3>2, <4>4
    <3> QED
      BY <1>5, <3>1, <3>2 DEF PowerLoss
  <2> QED
    BY <2>1, <2>3
<1> QED
  BY <1>2, <1>3, <1>4, <1>5

\* A client stores only tickets the server has just granted.
LEMMA SavedChange ==
    ASSUME TypeInv, NEW c \in Clients, ClientStep(c) \/ ClientAbort(c) \/ EditSource(c)
    PROVE  \/ UNCHANGED saved
           \/ ReceiveAck(c) /\ saved' = [saved EXCEPT ![c] = None]
           \/ /\ ReceiveStatus(c) /\ conn[c] \in Conns /\ spc[conn[c]] # "none"
              /\ down[conn[c]] # <<>> /\ Head(down[conn[c]]).kind = "status"
              /\ \E k : /\ saved' = [saved EXCEPT ![c] = k]
                        /\ k # None /\ k.tid = request[conn[c]].tid
<1>1. CASE ReceiveAck(c)
  BY <1>1 DEF ReceiveAck
<1>2. CASE ReceiveStatus(c)
  <2> DEFINE n == conn[c]
             m == Head(down[n])
             k == SavedState(request[n], m.ticket)
  <2>1. /\ cpc[c] = "waiting" /\ down[n] # <<>> /\ m.kind = "status" /\ saved' = [saved EXCEPT ![c] = k]
    BY <1>2 DEF ReceiveStatus
  <2>2. n \in Conns /\ spc[n] # "none" /\ request[n] \in Headers
    BY <2>1 DEF TypeInv, TypeOK, NetTypes, Connected, CallsHaveHeaders, HandlersHaveHeaders
  <2>3. m \in DownMsgs
    <3>1. down[n] \in Seq(DownMsgs)
      BY <2>2 DEF TypeInv, TypeOK, NetTypes
    <3> QED
      BY <2>1, <3>1
  <2>4. k \in Saves /\ k.tid = request[n].tid
    BY <2>1, <2>2, <2>3 DEF SavedState, Saves, Headers, DownMsgs
  <2>5. k # None
    BY <2>4, ConstantsAssumption
  <2> QED
    BY <1>2, <2>1, <2>2, <2>4, <2>5
<1>3. CASE Open(c) \/ HashOneBlock(c) \/ Connect(c) \/ RefuseChangedSource(c) \/ SendFrame(c)
             \/ AbandonShortSource(c) \/ SendFinal(c) \/ ReceiveEnd(c) \/ ClientAbort(c) \/ EditSource(c)
  BY <1>3 DEF Open, HashOneBlock, Connect, RefuseChangedSource, SendFrame, AbandonShortSource,
              SendFinal, ReceiveEnd, ClientAbort, EditSource
<1> QED
  BY <1>1, <1>2, <1>3 DEF ClientStep

\* Whatever is left when names stay.
LEMMA TicketStays ==
    ASSUME TicketInv,
           /\ UNCHANGED <<partial, outcome>>
           /\ \A t \in Conns : ckpt[t] # None => ckpt'[t] # None
           /\ \A n \in Conns : spc[n] # "none" =>
                  request'[n] = request[n] /\ spc'[n] \in {spc[n], "closed"}
           /\ \A n \in Conns : spc[n] = "none" => spc'[n] \in {"none", "queued"},
           \A n \in Conns : down'[n] = down[n] \/ (down[n] # <<>> /\ down'[n] = Tail(down[n]))
    PROVE  StatusesReady' /\ HandlersServed' /\ DiscardedGone'
<1>1. /\ down \in [Conns -> Seq(DownMsgs)] /\ TypeInv /\ StatusesReady /\ HandlersServed /\ DiscardedGone
  BY DEF TicketInv, DurableInv, TransferInv, Inv, TypeInv, TypeOK, NetTypes
<1>2. ASSUME NEW t \in Conns, Ready(t)
      PROVE  Ready(t)'
  BY <1>2 DEF Ready
<1>3. ASSUME NEW n \in Conns, NEW i \in 1 .. Len(down'[n]), down'[n][i].kind = "status"
      PROVE  Ready(request[n].tid)'
  <2>1. PICK j \in 1 .. Len(down[n]) : down'[n][i] = down[n][j]
    BY <1>1, OldAnswers
  <2>2. Ready(request[n].tid)
    BY <1>1, <1>3, <2>1 DEF StatusesReady
  <2>3. spc[n] # "none"
    <3>1. Len(down[n]) # 0
      BY <2>1
    <3> QED
      BY <1>1, <3>1 DEF StatusesReady
  <2>4. request[n].tid \in Conns /\ request'[n] = request[n]
    BY <1>1, <2>3, HandlerHeader
  <2> QED
    BY <1>2, <2>2, <2>4 DEF Ready
<1>4. ASSUME NEW n \in Conns, spc'[n] = "none"
      PROVE  down'[n] = <<>>
  BY <1>1, <1>4 DEF StatusesReady
<1>5. StatusesReady'
  BY <1>3, <1>4 DEF StatusesReady
<1>6. HandlersServed'
  <2> SUFFICES ASSUME NEW n \in Conns
               PROVE  Served(n, request[n].tid)'
    BY DEF HandlersServed
  <2>1. CASE spc[n] = "none" \/ spc'[n] = "closed"
    BY <2>1 DEF Served, Running
  <2>2. CASE spc[n] # "none" /\ spc'[n] = spc[n]
    BY <1>1, <2>2, HandlerHeader DEF HandlersServed, Served
  <2> QED
    BY <2>1, <2>2
<1>7. DiscardedGone'
  BY <1>1 DEF DiscardedGone, Started
<1> QED
  BY <1>5, <1>6, <1>7

LEMMA ClientTicket ==
    ASSUME TicketInv, NEW c \in Clients, ClientStep(c) \/ ClientAbort(c) \/ EditSource(c)
    PROVE  TicketsReady' /\ StatusesReady' /\ HandlersServed' /\ DiscardedGone'
<1>1. TransferInv /\ TypeInv /\ saved \in [Clients -> Saves \cup {None}]
        /\ down \in [Conns -> Seq(DownMsgs)] /\ TicketsReady /\ StatusesReady
  BY DEF TicketInv, DurableInv, TransferInv, Inv, TypeInv, TypeOK, ClientTypes, NetTypes
<1>2. StatusesReady' /\ HandlersServed' /\ DiscardedGone'
  BY <1>1, ClientDown, NamesStay, TicketStays
<1>3. ASSUME NEW t \in Conns, Ready(t)
      PROVE  Ready(t)'
  BY <1>3, NamesStay DEF Ready
<1>4. ASSUME NEW d \in Clients, saved'[d] # None
      PROVE  Ready(saved[d].tid)'
  <2>1. CASE saved'[d] = saved[d]
    <3>1. saved[d].tid \in Conns /\ Ready(saved[d].tid)
      BY <1>1, <1>4, <2>1 DEF TicketsReady, Saves
    <3> QED
      BY <1>3, <2>1, <3>1 DEF Ready
  <2>2. CASE saved'[d] # saved[d]
    <3>1. /\ conn[c] \in Conns /\ spc[conn[c]] # "none" /\ down[conn[c]] # <<>>
          /\ Head(down[conn[c]]).kind = "status" /\ saved'[d].tid = request[conn[c]].tid
      BY <1>1, <1>4, <2>2, SavedChange
    <3>2. 1 \in 1 .. Len(down[conn[c]]) /\ Head(down[conn[c]]) = down[conn[c]][1]
      <4>1. down[conn[c]] \in Seq(DownMsgs)
        BY <1>1, <3>1
      <4> QED
        BY <3>1, <4>1
    <3>3. Ready(request[conn[c]].tid) /\ request[conn[c]].tid \in Conns
      BY <1>1, <3>1, <3>2, HandlerHeader DEF StatusesReady
    <3> QED
      BY <1>3, <3>1, <3>3 DEF Ready
  <2> QED
    BY <2>1, <2>2
<1> QED
  BY <1>2, <1>4 DEF TicketsReady

LEMMA FaultTicket ==
    ASSUME TicketInv, (\E n \in Conns : HandlerAbort(n)) \/ ServerCrash \/ PowerLoss
    PROVE  TicketsReady' /\ StatusesReady' /\ HandlersServed' /\ DiscardedGone'
<1>1. UNCHANGED <<down, saved>>
  BY DEF HandlerAbort, ServerCrash, PowerLoss, netVars, clientVars
<1>2. StatusesReady' /\ HandlersServed' /\ DiscardedGone'
  BY <1>1, NamesStay, TicketStays
<1>3. TicketsReady'
  <2>1. \A c \in Clients : saved[c] # None => saved[c].tid \in Conns
    BY DEF TicketInv, DurableInv, TransferInv, Inv, TypeInv, TypeOK, ClientTypes, Saves
  <2> QED
    BY <1>1, <2>1, NamesStay DEF TicketInv, TicketsReady, Ready
<1> QED
  BY <1>2, <1>3

LEMMA NextTicket ==
    ASSUME ~Concurrent, ~ShortWrites, TicketInv, [Next]_vars
    PROVE  TicketInv'
<1>1. DurableInv'
  BY NextDurable DEF TicketInv
<1>2. CASE Next
  BY <1>1, <1>2, HandlerTicket, ClientTicket, FaultTicket DEF TicketInv, Next
<1>3. CASE UNCHANGED vars
  <2>1. UNCHANGED <<partial, ckpt, outcome, request, spc, down, saved>>
    BY <1>3 DEF vars, clientVars, netVars, handlerVars, diskVars, modelVars
  <2>2. TicketsReady' /\ StatusesReady' /\ HandlersServed' /\ DiscardedGone'
    BY <2>1 DEF TicketInv, TicketsReady, StatusesReady, HandlersServed, Served, DiscardedGone,
                Ready, Started
  <2> QED
    BY <1>1, <2>2 DEF TicketInv
<1> QED
  BY <1>2, <1>3

\* Every stored ticket of an unfinished transfer finds a checkpoint and a
\* partial file that holds the bytes it covers, whatever crashed before: on a
\* single-threaded server whose raw writes store all they are given.
THEOREM TicketsAreHonoured ==
    ASSUME ~Concurrent, ~ShortWrites
    PROVE  Spec => []ResumableUntilFinished
<1>1. Init => TicketInv
  BY InitTicket
<1>2. TicketInv /\ [Next]_vars => TicketInv'
  BY NextTicket
<1>3. TicketInv => ResumableUntilFinished
  <2> SUFFICES ASSUME TicketInv, NEW c \in Clients, saved[c] # None, outcome[saved[c].tid] = "open"
               PROVE  Resumable(saved[c].tid)
    BY DEF ResumableUntilFinished
  <2> DEFINE t == saved[c].tid
  <2>1. t \in Conns /\ t # None
    BY NoneIsNew DEF TicketInv, DurableInv, TransferInv, Inv, TypeInv, TypeOK, ClientTypes, Saves
  <2>2. ckpt[t] # None /\ partial[t] = t
    BY DEF TicketInv, TicketsReady, Ready
  <2>3. Backed(t, ckpt[t].bytes)
    BY <2>1, <2>2 DEF TicketInv, DurableInv, CheckpointsBacked
  <2> QED
    BY <2>1, <2>2, <2>3 DEF Resumable, Backed, Received
<1> QED
  BY <1>1, <1>2, <1>3, PTL DEF Spec
-----------------------------------------------------------------------------
(* Stored frames have an owner: somebody holds the ticket that resumes     *)
(* them.                                                                   *)

Owned(t) == \E c \in Clients : saved[c] # None /\ saved[c].tid = t

WritersOwned == \A n \in Conns : spc[n] \in {"written", "synced"} => Owned(request[n].tid)
SendersOwned ==
    \A n \in Conns : up[n] # <<>> /\ outcome[request[n].tid] = "open" => Owned(request[n].tid)

\* Once a transfer is acknowledged its checkpoint does not come back.
AcksFinal ==
    \A n \in Conns : /\ spc[n] = "cleared" => ckpt[request[n].tid] = None
                     /\ \A i \in 1 .. Len(down[n]) :
                            down[n][i].kind = "ack" => ckpt[down[n][i].tid] = None

\* A call works for the transfer its state file names.
CallSaved(c) ==
    cpc[c] \in {"waiting", "streaming", "finishing"} =>
        /\ saved[c] # None => saved[c].tid = request[conn[c]].tid
        /\ cpc[c] # "waiting" => saved[c] # None
CallsSaved == \A c \in Clients : CallSaved(c)

Ownership == ProgressHasOwner /\ WritersOwned /\ SendersOwned /\ AcksFinal /\ CallsSaved
OwnerInv  == TicketInv /\ Ownership

LEMMA InitOwner == Init => OwnerInv
<1> SUFFICES ASSUME Init
             PROVE  Ownership
  BY InitTicket DEF OwnerInv
<1>1. ProgressHasOwner /\ WritersOwned /\ SendersOwned /\ CallsSaved
  BY DEF Init, ProgressHasOwner, WritersOwned, SendersOwned, CallsSaved, CallSaved
<1>2. AcksFinal
  BY DEF Init, AcksFinal
<1> QED
  BY <1>1, <1>2 DEF Ownership

\* What a step that keeps every owner has to show.
LEMMA OwnerFacts ==
    ASSUME OwnerInv
    PROVE  /\ TicketInv /\ DurableInv /\ TransferInv /\ Inv /\ TypeInv
           /\ PublishedStays /\ HandlersDone /\ AcksTrue
           /\ HandlersServed /\ DiscardedGone /\ FramesTrue
           /\ ProgressHasOwner /\ WritersOwned /\ SendersOwned /\ AcksFinal /\ CallsSaved
           /\ CallsHaveHeaders /\ HandlersHaveHeaders
           /\ spc \in [Conns -> HandlerPCs] /\ request \in [Conns -> Headers \cup {None}]
           /\ cpc \in [Clients -> ClientPCs] /\ conn \in [Clients -> Conns \cup {None}]
           /\ saved \in [Clients -> Saves \cup {None}]
           /\ up \in [Conns -> Seq(UpMsgs)] /\ down \in [Conns -> Seq(DownMsgs)]
           /\ ckpt \in [Conns -> Ckpts \cup {None}] /\ partial \in [Conns -> Conns \cup {None}]
           /\ outcome \in [Conns -> {"open", "published", "discarded"}]
           /\ None \notin Ckpts /\ None \notin Conns
BY ConstantsAssumption
   DEF OwnerInv, Ownership, TicketInv, DurableInv, TransferInv, DeliveryInv, Inv, TypeInv, TypeOK,
       ClientTypes, NetTypes, HandlerTypes, DiskTypes, ModelTypes, Connected

\* How a handler changes checkpoints.
LEMMA CkptChange ==
    ASSUME NEW n \in Conns, HandlerStep(n)
    PROVE  \/ UNCHANGED ckpt
           \/ /\ WriteFirstCheckpoint(n)
              /\ ckpt' = [ckpt EXCEPT ![request[n].tid] = CheckpointOf(request[n], 0, 0)]
           \/ /\ AdvanceCheckpoint(n)
              /\ ckpt' = [ckpt EXCEPT ![request[n].tid] = CheckpointOf(request[n], nxt[n], cur[n])]
           \/ /\ RemoveCheckpoint(n) \/ DiscardCheckpoint(n)
              /\ ckpt' = [ckpt EXCEPT ![request[n].tid] = None]
<1>1. CASE WriteFirstCheckpoint(n) \/ AdvanceCheckpoint(n) \/ RemoveCheckpoint(n) \/ DiscardCheckpoint(n)
  BY <1>1 DEF WriteFirstCheckpoint, AdvanceCheckpoint, RemoveCheckpoint, DiscardCheckpoint
<1>2. CASE Accept(n) \/ DropQueued(n) \/ CreatePartial(n) \/ LoadCheckpoint(n) \/ RejectRequest(n)
             \/ RollBack(n) \/ RefuseShortPartial(n) \/ SendStatus(n) \/ ReceiveFrame(n)
             \/ SyncFrame(n) \/ ReceiveFinal(n) \/ Rehash(n) \/ Publish(n) \/ Acknowledge(n)
             \/ DiscardPartial(n) \/ ReachEndOfInput(n)
  BY <1>2 DEF Accept, DropQueued, CreatePartial, LoadCheckpoint, RejectRequest, RollBack,
              RefuseShortPartial, SendStatus, ReceiveFrame, SyncFrame, ReceiveFinal, Rehash,
              Publish, Acknowledge, DiscardPartial, ReachEndOfInput, diskVars
<1> QED
  BY <1>1, <1>2 DEF HandlerStep

\* A handler that may write a checkpoint serves a transfer that is open.
LEMMA RemovedStays ==
    ASSUME OwnerInv, NEW n \in Conns, HandlerStep(n),
           NEW t \in Conns, outcome[t] = "published", ckpt[t] = None
    PROVE  ckpt'[t] = None
<1> DEFINE u == request[n].tid
<1>1. /\ u \in Conns /\ Own(n, u) /\ Served(n, u) /\ partial[t] # t
      /\ ckpt \in [Conns -> Ckpts \cup {None}]
  BY OwnerFacts, HandlerFacts DEF HandlersServed, PublishedStays
<1>2. CASE t # u
  BY <1>1, <1>2, CkptChange
<1>3. CASE t = u /\ (WriteFirstCheckpoint(n) \/ AdvanceCheckpoint(n))
  BY <1>1, <1>3 DEF WriteFirstCheckpoint, AdvanceCheckpoint, Own, Progress, Served, Running
<1>4. CASE t = u /\ (UNCHANGED ckpt \/ ckpt' = [ckpt EXCEPT ![u] = None])
  BY <1>1, <1>4
<1> QED
  BY <1>2, <1>3, <1>4, CkptChange

LEMMA HandlerAcksFinal ==
    ASSUME OwnerInv, NEW n \in Conns, HandlerStep(n)
    PROVE  AcksFinal'
<1> DEFINE u == request[n].tid
<1>1. /\ u \in Conns /\ UNCHANGED request /\ \A m \in Conns \ {n} : spc'[m] = spc[m]
      /\ down \in [Conns -> Seq(DownMsgs)] /\ ckpt \in [Conns -> Ckpts \cup {None}]
      /\ spc \in [Conns -> HandlerPCs]
      /\ AcksFinal /\ AcksTrue /\ HandlersDone
  BY OwnerFacts, HandlerFacts, HandlerShape
<1>2. ASSUME NEW m \in Conns, spc'[m] = "cleared"
      PROVE  ckpt'[request[m].tid] = None
  <2>1. CASE spc[m] = "cleared"
    <3>1. request[m].tid \in Conns
      BY <2>1, OwnerFacts, HandlerHeader
    <3> QED
      BY <1>1, <2>1, <3>1, RemovedStays DEF HandlersDone, AcksFinal
  <2>2. CASE spc[m] # "cleared"
    <3>1. m = n /\ RemoveCheckpoint(n)
      BY <1>1, <1>2, <2>2 DEF HandlerStep, Accept, DropQueued, CreatePartial, WriteFirstCheckpoint,
             LoadCheckpoint, RejectRequest, RollBack, RefuseShortPartial, SendStatus, ReceiveFrame,
             SyncFrame, AdvanceCheckpoint, ReceiveFinal, Rehash, Publish, Acknowledge,
             DiscardPartial, DiscardCheckpoint, ReachEndOfInput, Leave
    <3> QED
      BY <1>1, <3>1 DEF RemoveCheckpoint
  <2> QED
    BY <2>1, <2>2
<1>3. ASSUME NEW m \in Conns, NEW i \in 1 .. Len(down[m]), down[m][i].kind = "ack"
      PROVE  ckpt'[down[m][i].tid] = None
  <2>1. down[m][i] \in DownMsgs
    BY <1>1
  <2>2. down[m][i].tid \in Conns /\ outcome[down[m][i].tid] = "published"
          /\ ckpt[down[m][i].tid] = None
    BY <1>1, <1>3, <2>1 DEF AcksTrue, Honest, Delivers, AcksFinal, DownMsgs
  <2> QED
    BY <2>2, RemovedStays
<1>4. ASSUME NEW m, down' = [down EXCEPT ![n] = Append(@, m)],
             m.kind = "ack" => ckpt'[m.tid] = None
      PROVE  AcksFinal'
  <2>1. ASSUME NEW k \in Conns, NEW i \in 1 .. Len(down'[k]), down'[k][i].kind = "ack"
        PROVE  ckpt'[down'[k][i].tid] = None
    <3>1. CASE k # n
      BY <1>1, <1>3, <1>4, <2>1, <3>1
    <3>2. CASE k = n
      <4>1. down'[k] = Append(down[n], m)
        BY <1>1, <1>4, <3>2
      <4>2. (i \in 1 .. Len(down[n]) /\ down'[k][i] = down[n][i]) \/ down'[k][i] = m
        BY <1>1, <2>1, <4>1, AppendOf
      <4> QED
        BY <1>3, <1>4, <2>1, <4>2
    <3> QED
      BY <3>1, <3>2
  <2> QED
    BY <1>1, <1>2, <2>1 DEF AcksFinal
<1>5. CASE UNCHANGED down
  BY <1>1, <1>2, <1>3, <1>5 DEF AcksFinal
<1>6. CASE down' = [down EXCEPT ![n] = Append(@, Status(nxt[n], cur[n], Ticket(request[n])))]
  <2>1. Status(nxt[n], cur[n], Ticket(request[n])).kind # "ack"
    BY DEF Status
  <2> QED
    BY <1>4, <1>6, <2>1
<1>7. CASE Acknowledge(n) /\ down' = [down EXCEPT ![n] = Append(@, Ack(request[n].digest, u))]
  <2>1. ckpt'[u] = None /\ Ack(request[n].digest, u).tid = u
    BY <1>1, <1>7 DEF Acknowledge, AcksFinal, diskVars, Ack
  <2> QED
    BY <1>4, <1>7, <2>1
<1> QED
  BY <1>5, <1>6, <1>7, DownChange

\* A frame is stored only while its sender holds the ticket.
LEMMA HandlerOwner ==
    ASSUME OwnerInv, NEW n \in Conns, HandlerStep(n)
    PROVE  Ownership'
<1> DEFINE u == request[n].tid
<1>1. /\ u \in Conns /\ UNCHANGED <<request, saved, cpc, conn>>
      /\ \A m \in Conns \ {n} : spc'[m] = spc[m]
      /\ up \in [Conns -> Seq(UpMsgs)] /\ ckpt \in [Conns -> Ckpts \cup {None}]
      /\ spc \in [Conns -> HandlerPCs]
      /\ outcome \in [Conns -> {"open", "published", "discarded"}]
      /\ ProgressHasOwner /\ WritersOwned /\ SendersOwned /\ CallsSaved
      /\ PublishedStays /\ DiscardedGone /\ Served(n, u)
  BY OwnerFacts, HandlerFacts, HandlerShape, DownChange DEF clientVars, HandlersServed
<1>2. \A t \in Conns : Owned(t) => Owned(t)'
  BY <1>1 DEF Owned
<1>3. CallsSaved'
  BY <1>1 DEF CallsSaved, CallSaved
<1>4. ProgressHasOwner'
  <2> SUFFICES ASSUME NEW t \in Conns, ckpt'[t] # None, ckpt'[t].next > 0
               PROVE  Owned(t)
    BY <1>2 DEF ProgressHasOwner, Owned
  <2>1. CASE ckpt'[t] = ckpt[t]
    BY <1>1, <2>1 DEF ProgressHasOwner, Owned
  <2>2. CASE ckpt'[t] # ckpt[t]
    <3>1. t = u /\ ~(ckpt'[u] = None)
      BY <1>1, <2>2, CkptChange
    <3>2. CASE WriteFirstCheckpoint(n) /\ ckpt'[u] = CheckpointOf(request[n], 0, 0)
      BY <3>1, <3>2 DEF CheckpointOf
    <3>3. CASE AdvanceCheckpoint(n)
      BY <1>1, <3>1, <3>3 DEF AdvanceCheckpoint, WritersOwned
    <3> QED
      BY <1>1, <2>2, <3>1, <3>2, <3>3, CkptChange
  <2> QED
    BY <2>1, <2>2
<1>5. CASE ReceiveFrame(n)
  <2>1. /\ up[n] # <<>> /\ spc[n] = "receiving" /\ spc' = [spc EXCEPT ![n] = "written"]
        /\ up' = [up EXCEPT ![n] = Tail(@)] /\ outcome' = outcome
    BY <1>5 DEF ReceiveFrame, modelVars
  <2>2. partial[u] = u
    BY <1>1, <2>1 DEF Served, Running
  <2>3. outcome[u] = "open"
    BY <1>1, <2>2 DEF PublishedStays, DiscardedGone
  <2>4. Owned(u)
    BY <1>1, <2>1, <2>3 DEF SendersOwned
  <2>5. WritersOwned'
    BY <1>1, <1>2, <2>1, <2>4 DEF WritersOwned, Owned
  <2>6. SendersOwned'
    BY <1>1, <1>2, <2>1, <2>4 DEF SendersOwned, Owned
  <2> QED
    BY <1>3, <1>4, <2>5, <2>6, HandlerAcksFinal DEF Ownership
<1>6. CASE ~ReceiveFrame(n)
  <2>1. /\ \A m \in Conns : spc'[m] \in {"written", "synced"} => spc[m] \in {"written", "synced"}
        /\ \A m \in Conns : up'[m] # <<>> => up[m] # <<>>
    BY <1>1, <1>6 DEF HandlerStep, Accept, DropQueued, CreatePartial, WriteFirstCheckpoint,
           LoadCheckpoint, RejectRequest, RollBack, RefuseShortPartial, SendStatus,
           SyncFrame, AdvanceCheckpoint, ReceiveFinal, Rehash, Publish, RemoveCheckpoint,
           Acknowledge, DiscardPartial, DiscardCheckpoint, ReachEndOfInput, Leave, netVars
  <2>2. ASSUME NEW m \in Conns, up'[m] # <<>>, outcome'[request[m].tid] = "open"
        PROVE  outcome[request[m].tid] = "open"
    <3>1. outcome' = outcome \/ outcome' = [outcome EXCEPT ![u] = "published"]
            \/ outcome' = [outcome EXCEPT ![u] = "discarded"]
      BY OutcomeChange
    <3>2. up[m] # <<>>
      BY <2>1, <2>2
    <3>3. request[m].tid \in Conns
      BY <3>2, OwnerFacts, HandlerHeader DEF FramesTrue
    <3> QED
      BY <1>1, <2>2, <3>1, <3>3
  <2>3. ASSUME NEW m \in Conns, spc[m] # "none"
        PROVE  request[m].tid \in Conns
    BY <2>3, OwnerFacts, HandlerHeader
  <2>4. WritersOwned'
    BY <1>1, <1>2, <2>1, <2>3 DEF WritersOwned, Owned
  <2>5. SendersOwned'
    BY <1>1, <1>2, <2>1, <2>2 DEF SendersOwned, Owned
  <2> QED
    BY <1>3, <1>4, <2>4, <2>5, HandlerAcksFinal DEF Ownership
<1> QED
  BY <1>5, <1>6

\* Checkpoints a power loss rolls back cover no more than before.
LEMMA OlderNext ==
    ASSUME OwnerInv,
           \/ \E c \in Clients : ClientStep(c) \/ ClientAbort(c) \/ EditSource(c)
           \/ (\E n \in Conns : HandlerAbort(n)) \/ ServerCrash \/ PowerLoss
    PROVE  \A t \in Conns :
               /\ ckpt[t] = None => ckpt'[t] = None
               /\ ckpt'[t] # None /\ ckpt'[t].next > 0 => ckpt[t] # None /\ ckpt[t].next > 0
<1>1. CASE \E c \in Clients : ClientStep(c) \/ ClientAbort(c) \/ EditSource(c)
  BY <1>1, OwnerFacts, ClientLeaves
<1>2. CASE (\E n \in Conns : HandlerAbort(n)) \/ ServerCrash
  BY <1>2 DEF HandlerAbort, ServerCrash, diskVars
<1>3. CASE PowerLoss
  <2>1. ckpt \in [Conns -> Ckpts \cup {None}] /\ None \notin Ckpts
    BY OwnerFacts
  <2>2. ASSUME NEW u \in Conns, ckpt[u] # None, NEW k \in OlderCheckpoints(ckpt[u]),
               ckpt' = [ckpt EXCEPT ![u] = k]
        PROVE  \A t \in Conns :
                   /\ ckpt[t] = None => ckpt'[t] = None
                   /\ ckpt'[t] # None /\ ckpt'[t].next > 0 => ckpt[t] # None /\ ckpt[t].next > 0
    <3>1. PICK i \in 0 .. ckpt[u].next :
              k = [ckpt[u] EXCEPT !.next = i, !.bytes = ExpectedBytes(i, ckpt[u].size, FrameSize)]
      BY <2>2 DEF OlderCheckpoints
    <3>2. ckpt[u] \in Ckpts /\ ckpt[u].next \in Nat
      BY <2>1, <2>2 DEF Ckpts
    <3>3. k.next = i
      BY <3>1, <3>2 DEF Ckpts
    <3>4. k.next > 0 => ckpt[u].next > 0
      BY <3>1, <3>2, <3>3
    <3>5. ckpt'[u] = k /\ \A t \in Conns \ {u} : ckpt'[t] = ckpt[t]
      BY <2>1, <2>2
    <3> QED
      BY <2>2, <3>4, <3>5
  <2> QED
    BY <1>3, <2>2 DEF PowerLoss
<1> QED
  BY <1>1, <1>2, <1>3

\* An owner may go only when the transfer is published and its checkpoint gone.
LEMMA OwnersStay ==
    ASSUME OwnerInv,
           \/ \E c \in Clients : ClientStep(c) \/ ClientAbort(c) \/ EditSource(c)
           \/ (\E n \in Conns : HandlerAbort(n)) \/ ServerCrash \/ PowerLoss,
           \A n \in Conns : down'[n] = down[n] \/ (down[n] # <<>> /\ down'[n] = Tail(down[n])),
           \A t \in Conns : Owned(t) => Owned(t)' \/ (outcome[t] = "published" /\ ckpt[t] = None),
           \A n \in Conns : up'[n] # <<>> =>
               up[n] # <<>> \/ (spc[n] # "none" /\ Owned(request[n].tid)')
    PROVE  ProgressHasOwner' /\ WritersOwned' /\ SendersOwned' /\ AcksFinal'
<1>1. /\ UNCHANGED <<partial, outcome>>
      /\ \A n \in Conns : spc[n] # "none" =>
             request'[n] = request[n] /\ spc'[n] \in {spc[n], "closed"}
      /\ \A n \in Conns : spc[n] = "none" => spc'[n] \in {"none", "queued"}
  BY OwnerFacts, NamesStay
<1>2. \A t \in Conns :
          /\ ckpt[t] = None => ckpt'[t] = None
          /\ ckpt'[t] # None /\ ckpt'[t].next > 0 => ckpt[t] # None /\ ckpt[t].next > 0
  BY OlderNext
<1>3. /\ ProgressHasOwner /\ WritersOwned /\ SendersOwned /\ AcksFinal /\ AcksTrue
      /\ HandlersServed /\ PublishedStays /\ FramesTrue
      /\ down \in [Conns -> Seq(DownMsgs)]
  BY OwnerFacts
<1>4. ASSUME NEW n \in Conns, spc[n] # "none"
      PROVE  request[n].tid \in Conns
  BY <1>4, OwnerFacts, HandlerHeader
<1>5. ProgressHasOwner'
  <2> SUFFICES ASSUME NEW t \in Conns, ckpt'[t] # None, ckpt'[t].next > 0
               PROVE  Owned(t)'
    BY DEF ProgressHasOwner, Owned
  <2>1. ckpt[t] # None /\ ckpt[t].next > 0
    BY <1>2
  <2>2. Owned(t)
    BY <1>3, <2>1 DEF ProgressHasOwner, Owned
  <2> QED
    BY <2>1, <2>2
<1>6. WritersOwned'
  <2> SUFFICES ASSUME NEW n \in Conns, spc'[n] \in {"written", "synced"}
               PROVE  Owned(request[n].tid)'
    BY DEF WritersOwned
  <2>1. spc'[n] = spc[n] /\ spc[n] # "none" /\ request'[n] = request[n]
    BY <1>1
  <2>2. Owned(request[n].tid) /\ outcome[request[n].tid] # "published"
    BY <1>3, <1>4, <2>1 DEF WritersOwned, HandlersServed, Served, Running, PublishedStays
  <2>3. \E t \in Conns : t = request[n].tid /\ Owned(t)'
    BY <1>4, <2>1, <2>2
  <2> QED
    BY <2>1, <2>3 DEF Owned
<1>7. SendersOwned'
  <2> SUFFICES ASSUME NEW n \in Conns, up'[n] # <<>>, outcome'[request'[n].tid] = "open"
               PROVE  Owned(request[n].tid)'
    BY DEF SendersOwned
  <2>1. CASE up[n] # <<>>
    <3>1. spc[n] # "none"
      BY <1>3, <2>1 DEF FramesTrue
    <3>2. request'[n] = request[n] /\ outcome[request[n].tid] = "open"
      BY <1>1, <3>1
    <3>3. Owned(request[n].tid)
      BY <1>3, <2>1, <3>2 DEF SendersOwned
    <3>4. \E t \in Conns : t = request[n].tid /\ Owned(t)'
      BY <1>4, <3>1, <3>2, <3>3
    <3> QED
      BY <3>2, <3>4 DEF Owned
  <2>2. CASE up[n] = <<>>
    BY <2>2 DEF Owned
  <2> QED
    BY <2>1, <2>2
<1>8. AcksFinal'
  <2>1. ASSUME NEW n \in Conns, spc'[n] = "cleared"
        PROVE  ckpt'[request'[n].tid] = None
    <3>1. spc[n] = "cleared" /\ request'[n] = request[n]
      BY <1>1, <2>1
    <3> QED
      BY <1>2, <1>3, <1>4, <3>1 DEF AcksFinal
  <2>2. ASSUME NEW n \in Conns, NEW i \in 1 .. Len(down'[n]), down'[n][i].kind = "ack"
        PROVE  ckpt'[down'[n][i].tid] = None
    <3>1. PICK j \in 1 .. Len(down[n]) : down'[n][i] = down[n][j]
      BY <1>3, OldAnswers
    <3>2. down[n][j] \in DownMsgs
      BY <1>3
    <3>3. down[n][j].tid \in Conns /\ ckpt[down[n][j].tid] = None
      BY <1>3, <2>2, <3>1, <3>2 DEF AcksFinal, DownMsgs
    <3> QED
      BY <1>2, <3>1, <3>3
  <2> QED
    BY <2>1, <2>2 DEF AcksFinal
<1> QED
  BY <1>5, <1>6, <1>7, <1>8

LEMMA FaultOwner ==
    ASSUME OwnerInv, (\E n \in Conns : HandlerAbort(n)) \/ ServerCrash \/ PowerLoss
    PROVE  Ownership'
<1>1. UNCHANGED <<down, up, saved, cpc, conn, request>>
  BY DEF HandlerAbort, ServerCrash, PowerLoss, netVars, clientVars
<1>2. ProgressHasOwner' /\ WritersOwned' /\ SendersOwned' /\ AcksFinal'
  BY <1>1, OwnersStay DEF Owned
<1>3. CallsSaved'
  BY <1>1, OwnerFacts DEF CallsSaved, CallSaved
<1> QED
  BY <1>2, <1>3 DEF Ownership

\* Calls of the others do not notice.
LEMMA CallsStaySaved ==
    ASSUME OwnerInv, NEW c \in Clients, ClientStep(c) \/ ClientAbort(c) \/ EditSource(c),
           CallSaved(c)'
    PROVE  CallsSaved'
<1> SUFFICES ASSUME NEW d \in Clients \ {c}
             PROVE  CallSaved(d)'
  BY DEF CallsSaved
<1>1. cpc'[d] = cpc[d] /\ conn'[d] = conn[d] /\ saved'[d] = saved[d]
  BY OwnerFacts DEF ClientStep, Open, HashOneBlock, Connect, RefuseChangedSource, ReceiveStatus,
         SendFrame, AbandonShortSource, SendFinal, ReceiveAck, ReceiveEnd, ClientAbort, EditSource,
         Give
<1>2. CASE cpc[d] \in {"waiting", "streaming", "finishing"}
  <2>1. conn[d] \in Conns /\ spc[conn[d]] # "none"
    BY <1>2, OwnerFacts DEF CallsHaveHeaders, HandlersHaveHeaders
  <2>2. request'[conn[d]] = request[conn[d]]
    BY <2>1, OwnerFacts, ClientLeaves
  <2> QED
    BY <1>1, <2>2, OwnerFacts DEF CallsSaved, CallSaved
<1>3. CASE cpc[d] \notin {"waiting", "streaming", "finishing"}
  BY <1>1, <1>3 DEF CallSaved
<1> QED
  BY <1>2, <1>3

LEMMA OwnCallSaved ==
    ASSUME OwnerInv, NEW c \in Clients, ClientStep(c) \/ ClientAbort(c) \/ EditSource(c)
    PROVE  CallSaved(c)'
<1>1. /\ cpc \in [Clients -> ClientPCs] /\ conn \in [Clients -> Conns \cup {None}]
      /\ saved \in [Clients -> Saves \cup {None}] /\ request \in [Conns -> Headers \cup {None}]
      /\ CallSaved(c)
  BY OwnerFacts DEF CallsSaved
<1>2. CASE Open(c) \/ HashOneBlock(c) \/ RefuseChangedSource(c) \/ AbandonShortSource(c)
             \/ ReceiveAck(c) \/ ReceiveEnd(c) \/ ClientAbort(c)
  <2>1. cpc'[c] \in {"idle", "hashing", "done"}
    BY <1>1, <1>2 DEF Open, HashOneBlock, RefuseChangedSource, AbandonShortSource, ReceiveAck,
                      ReceiveEnd, ClientAbort, Give
  <2> QED
    BY <2>1 DEF CallSaved
<1>3. CASE Connect(c)
  <2>1. PICK n \in Conns \ Used :
            /\ request' = [request EXCEPT ![n] =
                   IF saved[c] = None THEN NewRequest(c, n) ELSE ResumeRequest(c)]
            /\ conn' = [conn EXCEPT ![c] = n]
    BY <1>3 DEF Connect
  <2>2. cpc'[c] = "waiting" /\ conn'[c] = n /\ saved' = saved
    BY <1>1, <1>3, <2>1 DEF Connect
  <2>3. saved[c] # None => request'[n].tid = saved[c].tid
    BY <1>1, <2>1 DEF ResumeRequest
  <2> QED
    BY <2>2, <2>3 DEF CallSaved
<1>4. CASE ReceiveStatus(c)
  <2>1. UNCHANGED <<conn, request>>
    BY <1>4 DEF ReceiveStatus
  <2>2. PICK k : /\ saved' = [saved EXCEPT ![c] = k]
                 /\ k # None /\ k.tid = request[conn[c]].tid
    <3>1. saved'[c] = SavedState(request[conn[c]], Head(down[conn[c]]).ticket)
      BY <1>1, <1>4 DEF ReceiveStatus
    <3>2. SavedState(request[conn[c]], Head(down[conn[c]]).ticket).tid = request[conn[c]].tid
      BY DEF SavedState
    <3>3. saved'[c] # None
      <4>1. conn[c] \in Conns /\ request[conn[c]] \in Headers /\ down[conn[c]] \in Seq(DownMsgs)
        BY <1>4, OwnerFacts DEF ReceiveStatus, CallsHaveHeaders
      <4>2. Head(down[conn[c]]) \in DownMsgs /\ Head(down[conn[c]]).kind = "status"
        BY <1>4, <4>1 DEF ReceiveStatus
      <4>3. SavedState(request[conn[c]], Head(down[conn[c]]).ticket) \in Saves
        BY <4>1, <4>2 DEF SavedState, Saves, Headers, DownMsgs
      <4> QED
        BY <3>1, <4>3, ConstantsAssumption
    <3> QED
      BY <1>4, <3>1, <3>2, <3>3 DEF ReceiveStatus
  <2> QED
    BY <1>1, <2>1, <2>2 DEF CallSaved
<1>5. CASE SendFrame(c) \/ SendFinal(c) \/ EditSource(c)
  <2>1. /\ UNCHANGED <<conn, saved, request>>
        /\ cpc'[c] = cpc[c] \/ (cpc[c] = "streaming" /\ cpc'[c] = "finishing")
    BY <1>1, <1>5 DEF SendFrame, SendFinal, EditSource, netVars
  <2> QED
    BY <1>1, <2>1 DEF CallSaved
<1> QED
  BY <1>2, <1>3, <1>4, <1>5 DEF ClientStep

LEMMA ClientOwner ==
    ASSUME OwnerInv, NEW c \in Clients, ClientStep(c) \/ ClientAbort(c) \/ EditSource(c)
    PROVE  Ownership'
<1>1. /\ saved \in [Clients -> Saves \cup {None}] /\ up \in [Conns -> Seq(UpMsgs)]
      /\ CallsSaved /\ TransferInv /\ TypeInv
  BY OwnerFacts
<1>2. CallsSaved'
  BY OwnCallSaved, CallsStaySaved
<1>3. \A n \in Conns : down'[n] = down[n] \/ (down[n] # <<>> /\ down'[n] = Tail(down[n]))
  BY <1>1, ClientDown
<1>4. ASSUME NEW t \in Conns, Owned(t)
      PROVE  Owned(t)' \/ (outcome[t] = "published" /\ ckpt[t] = None)
  <2>1. PICK d \in Clients : saved[d] # None /\ saved[d].tid = t
    BY <1>4 DEF Owned
  <2>2. CASE saved'[d] = saved[d]
    BY <2>1, <2>2 DEF Owned
  <2>3. CASE ReceiveAck(c) /\ d = c
    <3> DEFINE n == conn[c]
    <3>1. /\ cpc[c] = "finishing" /\ down[n] # <<>> /\ Head(down[n]).kind = "ack"
          /\ Head(down[n]).tid = request[n].tid
      BY <2>3 DEF ReceiveAck
    <3>2. n \in Conns /\ down[n] \in Seq(DownMsgs)
      BY <3>1, OwnerFacts DEF CallsHaveHeaders
    <3>3. 1 \in 1 .. Len(down[n]) /\ Head(down[n]) = down[n][1]
      BY <3>1, <3>2
    <3>4. request[n].tid = t
      BY <1>1, <2>1, <2>3, <3>1 DEF CallsSaved, CallSaved
    <3>5. AcksTrue /\ AcksFinal
      BY OwnerFacts
    <3>6. down[n][1].kind = "ack" /\ down[n][1].tid = t
      BY <3>1, <3>3, <3>4
    <3> HIDE DEF n
    <3> QED
      BY <3>2, <3>3, <3>5, <3>6 DEF AcksTrue, Honest, Delivers, AcksFinal
  <2>4. CASE ReceiveStatus(c) /\ d = c /\ saved'[d] # saved[d]
    <3>1. PICK k : /\ saved' = [saved EXCEPT ![c] = k] /\ k # None
                   /\ k.tid = request[conn[c]].tid
      BY <1>1, <2>4, SavedChange DEF ReceiveStatus, ReceiveAck
    <3>2. request[conn[c]].tid = t
      BY <1>1, <2>1, <2>4 DEF CallsSaved, CallSaved, ReceiveStatus
    <3> QED
      BY <1>1, <2>4, <3>1, <3>2 DEF Owned
  <2> QED
    BY <1>1, <2>2, <2>3, <2>4, SavedChange
<1>5. ASSUME NEW n \in Conns, up'[n] # <<>>, up[n] = <<>>
      PROVE  spc[n] # "none" /\ Owned(request[n].tid)'
  <2>1. /\ n = conn[c] /\ cpc[c] = "streaming" /\ UNCHANGED <<saved, request>>
    BY <1>1, <1>5 DEF ClientStep, Open, HashOneBlock, Connect, RefuseChangedSource, ReceiveStatus,
           SendFrame, AbandonShortSource, SendFinal, ReceiveAck, ReceiveEnd, ClientAbort,
           EditSource, netVars
  <2>2. saved[c] # None /\ saved[c].tid = request[n].tid
    BY <1>1, <2>1 DEF CallsSaved, CallSaved
  <2>3. spc[n] # "none"
    BY <2>1, OwnerFacts DEF CallsHaveHeaders, HandlersHaveHeaders
  <2> QED
    BY <2>1, <2>2, <2>3 DEF Owned
<1>6. ProgressHasOwner' /\ WritersOwned' /\ SendersOwned' /\ AcksFinal'
  BY <1>3, <1>4, <1>5, OwnersStay
<1> QED
  BY <1>2, <1>6 DEF Ownership

\* Checkpointed frames always have a client that holds the ticket for them,
\* also while an acknowledgement is on its way and after any crash: on a
\* single-threaded server whose raw writes store all they are given.
THEOREM ProgressIsOwned ==
    ASSUME ~Concurrent, ~ShortWrites
    PROVE  Spec => []ProgressHasOwner
<1>1. Init => OwnerInv
  BY InitOwner
<1>2. OwnerInv /\ [Next]_vars => OwnerInv'
  <2> SUFFICES ASSUME OwnerInv, [Next]_vars
               PROVE  OwnerInv'
    OBVIOUS
  <2>1. TicketInv'
    BY NextTicket DEF OwnerInv
  <2>2. CASE Next
    BY <2>1, <2>2, HandlerOwner, ClientOwner, FaultOwner DEF Next, OwnerInv
  <2>3. CASE UNCHANGED vars
    <3>1. UNCHANGED <<saved, cpc, conn, request, up, down, spc, ckpt, outcome>>
      BY <2>3 DEF vars, clientVars, netVars, handlerVars, diskVars, modelVars
    <3>2. Ownership'
      BY <3>1 DEF OwnerInv, Ownership, ProgressHasOwner, WritersOwned, SendersOwned, AcksFinal,
                  CallsSaved, CallSaved, Owned
    <3> QED
      BY <2>1, <3>2 DEF OwnerInv
  <2> QED
    BY <2>2, <2>3
<1>3. OwnerInv => ProgressHasOwner
  BY DEF OwnerInv, Ownership
<1> QED
  BY <1>1, <1>2, <1>3, PTL DEF Spec
=============================================================================
