---------------------------- MODULE OneShotProofs ----------------------------
(***************************************************************************)
(* Safety of the writers of AtomicFile and of the one-shot transfer, for   *)
(* every number of clients and local writers, every mixture of the kinds   *)
(* of writers, every content, frame size and number of faults.             *)
(*                                                                         *)
(* The first part is about the file operations alone: FileStep is what a   *)
(* step may do to the directory, whoever takes it.  The second part needs  *)
(* the channels, and that raw writes store what they are given.            *)
(***************************************************************************)
EXTENDS OneShotTransfer, SequenceTheorems, TLAPS

Message ==
    [kind : {"frame"}, number : Nat, bytes : Seq(Nat)]
        \cup [kind : {"final"}, digest : Seq(Nat)] \cup [kind : {"header"}, size : Nat]

Answer == {None, Error} \cup [kind : {"ack"}, size : Nat, digest : Seq(Nat)]

NetTypes ==
    /\ source \in [Clients -> Contents] /\ size \in [Clients -> Nat]
    /\ cpc \in [Clients -> {"idle", "streaming", "finishing", "receipt", "raised"}]
    /\ digest \in [Clients -> Seq(Nat)] /\ edits \in 0 .. MaxEdits
    /\ up \in [Clients -> Seq(Message)] /\ down \in [Clients -> Answer]
    /\ todo \in [Locals -> Seq(Nat)] /\ want \in [Locals -> Seq(Nat)]

TypeInv == FileTypes /\ NetTypes

FileStep ==
    \/ \E w \in Writers :
           \/ Check(w) \/ MakeTemp(w) \/ (\E chunk \in Seq(Nat) : WriteChunk(w, chunk))
           \/ Flush(w) \/ Close(w) \/ Recheck(w) \/ Replace(w) \/ Fail(w) \/ Kill(w)
           \/ /\ GoTo(w, "failed") /\ temps' \in {temps, temps \ {w}}
              /\ pc[w] = "idle" \/ (pc[w] = "writing" /\ w \notin temps')
              /\ UNCHANGED <<kind, overwrite, data, file, synced, dest, known, killed, faults>>
    \/ /\ killed' \in SUBSET Writers /\ killed \subseteq killed' /\ Fault
       /\ UNCHANGED <<kind, overwrite, pc, data, file, synced, temps, dest, known>>
    \/ PowerLoss \/ ForeignCreate \/ ForeignRemove
    \/ UNCHANGED fileVars

-----------------------------------------------------------------------------
LEMMA StoredType ==
    ASSUME NEW chunk \in Seq(Nat), NEW k \in StoredCounts(Len(chunk))
    PROVE  SubSeq(chunk, 1, k) \in Seq(Nat)
BY DEF StoredCounts

LEMMA FileTypesStep ==
    ASSUME FileTypes, FileStep
    PROVE  FileTypes'
<1> USE WritersAssumption DEF FileTypes, GoTo, Abandon, Fault
<1>1. ASSUME NEW w \in Writers, Check(w) \/ MakeTemp(w) \/ Recheck(w) \/ Replace(w)
      PROVE  FileTypes'
  <2>1. CASE Check(w)
    <3>1. CASE kind[w].checks /\ Refused(w)
      BY <2>1, <3>1 DEF Check
    <3>2. CASE ~(kind[w].checks /\ Refused(w))
      <4>1. pc' = [pc EXCEPT ![w] = "checked"] /\ known' = [known EXCEPT ![w] = dest]
        BY <2>1, <3>2 DEF Check
      <4> QED
        BY <2>1, <4>1 DEF Check
    <3> QED
      BY <3>1, <3>2
  <2>2. CASE MakeTemp(w)
    BY <2>2 DEF MakeTemp
  <2>3. CASE Recheck(w)
    BY <2>3 DEF Recheck
  <2>4. CASE Replace(w)
    BY <2>4 DEF Replace
  <2> QED
    BY <1>1, <2>1, <2>2, <2>3, <2>4
<1>2. ASSUME NEW w \in Writers, NEW chunk \in Seq(Nat), WriteChunk(w, chunk)
      PROVE  FileTypes'
  <2>1. data[w] \o chunk \in Seq(Nat)
    OBVIOUS
  <2>2. file' \in [Writers -> Seq(Nat)]
    <3>1. CASE kind[w].raw
      <4>1. PICK k \in StoredCounts(Len(chunk)) :
                 file' = [file EXCEPT ![w] = @ \o SubSeq(chunk, 1, k)]
        BY <1>2, <3>1 DEF WriteChunk
      <4>2. SubSeq(chunk, 1, k) \in Seq(Nat)
        BY StoredType
      <4>3. file[w] \o SubSeq(chunk, 1, k) \in Seq(Nat)
        BY <4>2
      <4> QED
        BY <4>1, <4>3
    <3>2. CASE ~kind[w].raw
      BY <1>2, <3>2 DEF WriteChunk
    <3> QED
      BY <3>1, <3>2
  <2> QED
    BY <1>2, <2>1, <2>2 DEF WriteChunk
<1>3. ASSUME NEW w \in Writers, Flush(w) \/ Close(w)
      PROVE  FileTypes'
  <2>1. CASE Flush(w)
    BY <2>1 DEF Flush
  <2>2. CASE Close(w)
    BY <2>2 DEF Close
  <2> QED
    BY <1>3, <2>1, <2>2
<1>4. ASSUME NEW w \in Writers, Fail(w) \/ Kill(w)
      PROVE  FileTypes'
  <2>1. CASE Fail(w)
    BY <2>1 DEF Fail
  <2>2. CASE Kill(w)
    BY <2>2 DEF Kill
  <2> QED
    BY <1>4, <2>1, <2>2
<1>5. CASE PowerLoss \/ ForeignCreate \/ ForeignRemove
  BY <1>5 DEF PowerLoss, ForeignCreate, ForeignRemove
<1>6. ASSUME NEW w \in Writers, GoTo(w, "failed"), temps' \in {temps, temps \ {w}},
             UNCHANGED <<kind, overwrite, data, file, synced, dest, known, killed, faults>>
      PROVE  FileTypes'
  BY <1>6
<1>7. CASE /\ killed' \in SUBSET Writers /\ Fault
           /\ UNCHANGED <<kind, overwrite, pc, data, file, synced, temps, dest, known>>
  BY <1>7
<1>8. CASE UNCHANGED fileVars
  BY <1>8 DEF fileVars
<1> QED
  BY <1>1, <1>2, <1>3, <1>4, <1>5, <1>6, <1>7, <1>8 DEF FileStep

LEMMA ReadType ==
    ASSUME TypeInv, NEW c \in Clients
    PROVE  Read(c) \in Seq(Nat)
BY OneShotAssumption DEF TypeInv, NetTypes, Read, Due, F!ReadAt, F!FrameLen, F!Least

LEMMA FrameType ==
    ASSUME TypeInv, NEW c \in Clients
    PROVE  Frame(Len(digest[c]) \div FrameSize, Read(c)) \in Message
<1>1. Len(digest[c]) \in Nat /\ FrameSize \in Nat \ {0}
  BY OneShotAssumption DEF TypeInv, NetTypes
<1>2. ASSUME NEW n \in Nat, NEW d \in Nat \ {0}
      PROVE  n \div d \in Nat
  BY SMTT(30)
<1>3. Len(digest[c]) \div FrameSize \in Nat
  BY <1>1, <1>2
<1> QED
  BY <1>3, ReadType DEF Frame, Message

\* What the messages at the head of a channel hold.
LEMMA HeadType ==
    ASSUME TypeInv, NEW c \in Clients, NEW k, UpHead(c, k)
    PROVE  /\ Head(up[c]) \in Message /\ Tail(up[c]) \in Seq(Message)
           /\ k = "frame" => Head(up[c]).bytes \in Seq(Nat)
           /\ k = "final" => Head(up[c]).digest \in Seq(Nat)
BY DEF TypeInv, NetTypes, UpHead, Message

LEMMA StepIsFileStep ==
    ASSUME TypeInv, Next
    PROVE  FileStep
<1> USE OneShotAssumption DEF FileStep
<1>1. ASSUME NEW c \in Clients, ClientStep(c)
      PROVE  FileStep
  <2>1. CASE ClientAbort(c)
    BY <2>1 DEF ClientAbort, TypeInv, TypeOK, FileTypes
  <2> QED
    BY <1>1, <2>1 DEF ClientStep, Open, SendFrame, AbandonShortSource, SendFinal, ReceiveAck,
         ReceiveError, EditSource
<1>2. ASSUME NEW c \in Clients, HandlerStep(c)
      PROVE  FileStep
  <2>1. CASE DropQueued(c)
    BY <2>1 DEF DropQueued, netVars
  <2>2. CASE ReceiveFrame(c)
    BY <2>2, HeadType DEF ReceiveFrame
  <2>3. CASE EndUnanswered(c)
    BY <2>3 DEF EndUnanswered, TypeInv, TypeOK, FileTypes
  <2>4. CASE PeerGone(c)
    BY <2>4 DEF PeerGone, Abandon
  <2> QED
    BY <1>2, <2>1, <2>2, <2>3, <2>4 DEF HandlerStep, ReceiveHeader, CreateTemp, ReceiveFinal,
         Finish, Acknowledge, HandlerFail
<1>3. ASSUME NEW w \in Locals, LocalStep(w)
      PROVE  FileStep
  <2>1. ASSUME NEW n \in 1 .. Len(todo[w])
        PROVE  SubSeq(todo[w], 1, n) \in Seq(Nat)
    BY DEF TypeInv, NetTypes
  <2>2. CASE WriteNext(w)
    BY <2>1, <2>2 DEF WriteNext
  <2> QED
    BY <1>3, <2>2 DEF LocalStep
<1> QED
  BY <1>1, <1>2, <1>3 DEF Next, World

LEMMA TypeInit == Init => TypeInv
BY OneShotAssumption, WritersAssumption
   DEF Init, FileInit, TypeInv, NetTypes, FileTypes, Answer

\* What the steps of the clients and of the handlers do to the rest.
LEMMA NetTypesStep ==
    ASSUME TypeInv, [Next]_vars
    PROVE  TypeInv'
<1> USE OneShotAssumption DEF NetTypes, Answer
<1>1. FileTypes /\ NetTypes
  BY DEF TypeInv
<1>2. FileTypes'
  <2>1. CASE Next
    BY <1>1, <2>1, FileTypesStep, StepIsFileStep
  <2>2. CASE UNCHANGED vars
    BY <1>1, <2>2, FileTypesStep DEF vars, FileStep
  <2> QED
    BY <2>1, <2>2
<1>3. ASSUME NEW c \in Clients, ClientStep(c)
      PROVE  NetTypes'
  <2>1. CASE Open(c)
    <3>1. Len(source[c]) \in Nat
      BY <1>1
    <3>2. Header(Len(source[c])) \in Message
      BY <3>1 DEF Header, Message
    <3>3. Append(up[c], Header(Len(source[c]))) \in Seq(Message)
      BY <1>1, <3>2
    <3> QED
      BY <1>1, <2>1, <3>1, <3>3 DEF Open, CallGoes, localVars
  <2>2. CASE SendFrame(c)
    <3>1. Append(up[c], Frame(Len(digest[c]) \div FrameSize, Read(c))) \in Seq(Message)
      BY <1>1, FrameType
    <3>2. digest[c] \o Read(c) \in Seq(Nat)
      BY <1>1, ReadType
    <3> QED
      BY <1>1, <2>2, <3>1, <3>2 DEF SendFrame, localVars
  <2>3. CASE SendFinal(c)
    <3>1. Append(up[c], Final(digest[c])) \in Seq(Message)
      BY <1>1 DEF Final, Message
    <3> QED
      BY <1>1, <2>3, <3>1 DEF SendFinal, CallGoes, localVars
  <2>4. CASE AbandonShortSource(c) \/ ReceiveAck(c) \/ ReceiveError(c) \/ ClientAbort(c)
    BY <1>1, <2>4 DEF AbandonShortSource, ReceiveAck, ReceiveError, ClientAbort, CallGoes, localVars
  <2>5. CASE EditSource(c)
    BY <1>1, <2>5 DEF EditSource, localVars
  <2> QED
    BY <1>3, <2>1, <2>2, <2>3, <2>4, <2>5 DEF ClientStep
<1>4. ASSUME NEW c \in Clients, HandlerStep(c)
      PROVE  NetTypes'
  <2>1. ASSUME NEW k, UpHead(c, k)
        PROVE  [up EXCEPT ![c] = Tail(@)] \in [Clients -> Seq(Message)]
    BY <1>1, <2>1, HeadType
  <2>2. CASE ReceiveHeader(c)
    BY <1>1, <2>1, <2>2 DEF ReceiveHeader, localVars
  <2>3. CASE ReceiveFrame(c) \/ ReceiveFinal(c)
    BY <1>1, <2>1, <2>3 DEF ReceiveFrame, ReceiveFinal, localVars
  <2>4. CASE Acknowledge(c)
    <3>1. Ack(Len(data[c]), data[c]) \in Answer
      BY <1>1 DEF FileTypes, Ack
    <3> QED
      BY <1>1, <2>4, <3>1 DEF Answer, Acknowledge, localVars
  <2>5. CASE PeerGone(c) \/ HandlerFail(c)
    BY <1>1, <2>5 DEF PeerGone, HandlerFail, localVars
  <2>6. CASE DropQueued(c) \/ CreateTemp(c) \/ Finish(c) \/ EndUnanswered(c)
    BY <1>1, <2>6 DEF DropQueued, CreateTemp, Finish, EndUnanswered, netVars, localVars
  <2> QED
    BY <1>4, <2>2, <2>3, <2>4, <2>5, <2>6 DEF HandlerStep
<1>5. ASSUME NEW w \in Locals, LocalStep(w)
      PROVE  NetTypes'
  <2>1. CASE WriteNext(w)
    <3>1. PICK n \in 1 .. Len(todo[w]) :
               todo' = [todo EXCEPT ![w] = SubSeq(@, n + 1, Len(@))]
      BY <2>1 DEF WriteNext
    <3>2. SubSeq(todo[w], n + 1, Len(todo[w])) \in Seq(Nat)
      BY <1>1
    <3>3. todo' \in [Locals -> Seq(Nat)]
      BY <1>1, <3>1, <3>2
    <3> QED
      BY <1>1, <2>1, <3>3 DEF WriteNext, netVars
  <2> QED
    BY <1>1, <1>5, <2>1 DEF LocalStep, netVars, localVars
<1>6. ASSUME UNCHANGED <<netVars, localVars>>
      PROVE  NetTypes'
  BY <1>1, <1>6 DEF netVars, localVars
<1>7. NetTypes'
  BY <1>3, <1>4, <1>5, <1>6 DEF Next, vars
<1> QED
  BY <1>2, <1>7 DEF TypeInv

\* Every variable of the one-shot transfer keeps its type, and so do the
\* messages in the channels.
THEOREM OneShotTypes == Spec => []TypeOK
<1>1. Init => TypeInv
  BY TypeInit
<1>2. TypeInv /\ [Next]_vars => TypeInv'
  BY NetTypesStep
<1>3. TypeInv => TypeOK
  BY DEF TypeInv, TypeOK, NetTypes
<1> QED
  BY <1>1, <1>2, <1>3, PTL DEF Spec
-----------------------------------------------------------------------------
(* What holds of the directory, whatever the raw writes store.             *)

\* The last look that w takes at the destination is behind it.
Looked(w) ==
    pc[w] = "ready" \/ (~kind[w].rechecks /\ pc[w] \in {"checked", "writing", "flushed", "closed"})

KnownInv ==
    \A w \in Writers :
        kind[w].checks /\ ~overwrite[w] /\ Looked(w) => known[w] = None

LEMMA NoLitterStep ==
    ASSUME FileTypes, NoLitter, FileStep
    PROVE  NoLitter'
<1> USE DEF NoLitter, FileTypes, Running, Idle, GoTo, Abandon
<1>1. ASSUME NEW w \in Writers, Check(w) \/ MakeTemp(w) \/ Flush(w) \/ Close(w)
      PROVE  NoLitter'
  BY <1>1 DEF Check, MakeTemp, Flush, Close
<1>2. ASSUME NEW w \in Writers, Recheck(w) \/ Replace(w) \/ Fail(w) \/ Kill(w)
      PROVE  NoLitter'
  BY <1>2 DEF Recheck, Replace, Fail, Kill
<1>3. ASSUME NEW w \in Writers, NEW chunk \in Seq(Nat), WriteChunk(w, chunk)
      PROVE  NoLitter'
  BY <1>3 DEF WriteChunk
<1>4. ASSUME NEW w \in Writers, GoTo(w, "failed"), temps' \in {temps, temps \ {w}},
             pc[w] = "idle" \/ w \notin temps', UNCHANGED killed
      PROVE  NoLitter'
  BY <1>4
<1>5. CASE killed \subseteq killed' /\ UNCHANGED <<pc, temps>>
  BY <1>5
<1>6. CASE PowerLoss \/ ForeignCreate \/ ForeignRemove
  BY <1>6 DEF PowerLoss, ForeignCreate, ForeignRemove
<1>7. CASE UNCHANGED fileVars
  BY <1>7 DEF fileVars
<1> QED
  BY <1>1, <1>2, <1>3, <1>4, <1>5, <1>6, <1>7 DEF FileStep

LEMMA KnownStep ==
    ASSUME FileTypes, KnownInv, FileStep
    PROVE  KnownInv'
<1> USE DEF KnownInv, Looked, FileTypes, GoTo, Abandon
<1>1. ASSUME NEW w \in Writers, Check(w)
      PROVE  KnownInv'
  <2>1. CASE kind[w].checks /\ Refused(w)
    BY <1>1, <2>1 DEF Check
  <2>2. CASE ~(kind[w].checks /\ Refused(w))
    <3>1. known' = [known EXCEPT ![w] = dest] /\ pc' = [pc EXCEPT ![w] = "checked"]
      BY <1>1, <2>2 DEF Check
    <3>2. kind[w].checks /\ ~overwrite[w] => dest = None
      BY <2>2 DEF Refused
    <3> QED
      BY <1>1, <3>1, <3>2 DEF Check
  <2> QED
    BY <2>1, <2>2
<1>2. ASSUME NEW w \in Writers, Recheck(w)
      PROVE  KnownInv'
  <2>1. CASE ~kind[w].rechecks
    BY <1>2, <2>1 DEF Recheck
  <2>2. CASE kind[w].rechecks /\ Refused(w)
    BY <1>2, <2>2 DEF Recheck
  <2>3. CASE kind[w].rechecks /\ ~Refused(w)
    <3>1. known' = [known EXCEPT ![w] = dest]
      BY <1>2, <2>3 DEF Recheck
    <3> QED
      BY <1>2, <2>3, <3>1 DEF Recheck, Refused
  <2> QED
    BY <2>1, <2>2, <2>3
<1>3. ASSUME NEW w \in Writers, Flush(w)
      PROVE  KnownInv'
  <2>1. CASE kind[w].rechecks
    BY <1>3, <2>1 DEF Flush
  <2>2. CASE ~kind[w].rechecks
    BY <1>3, <2>2 DEF Flush
  <2> QED
    BY <2>1, <2>2
<1>4. ASSUME NEW w \in Writers,
             MakeTemp(w) \/ Close(w) \/ Replace(w) \/ Fail(w) \/ Kill(w)
      PROVE  KnownInv'
  BY <1>4 DEF MakeTemp, Close, Replace, Fail, Kill
<1>5. ASSUME NEW w \in Writers, NEW chunk \in Seq(Nat), WriteChunk(w, chunk)
      PROVE  KnownInv'
  BY <1>5 DEF WriteChunk
<1>6. ASSUME NEW w \in Writers, GoTo(w, "failed"), UNCHANGED <<kind, overwrite, known>>
      PROVE  KnownInv'
  BY <1>6
<1>7. CASE UNCHANGED <<kind, overwrite, pc, known>>
  BY <1>7
<1>8. CASE PowerLoss \/ ForeignCreate \/ ForeignRemove
  BY <1>8 DEF PowerLoss, ForeignCreate, ForeignRemove
<1> QED
  BY <1>1, <1>2, <1>3, <1>4, <1>5, <1>6, <1>7, <1>8 DEF FileStep, fileVars

\* Only a rename puts a file of UBIN at the destination, and a writer that is
\* about to rename has seen no file it promised to keep.
LEMMA RenameKeeps ==
    ASSUME FileTypes, KnownInv, FileStep
    PROVE  \A w \in Writers :
              dest' = w /\ dest \notin {None, w} /\ kind[w].checks /\ ~overwrite[w] =>
                  known[w] # dest
<1> SUFFICES ASSUME NEW w \in Writers, dest' = w, dest \notin {None, w},
                    kind[w].checks, ~overwrite[w]
             PROVE  known[w] # dest
  OBVIOUS
<1>1. dest' # dest /\ dest' \notin {None, Foreign}
  BY WritersAssumption
<1>2. PICK v \in Writers : Replace(v)
  BY <1>1 DEF FileStep, Check, MakeTemp, WriteChunk, Flush, Close, Recheck, Fail, Kill,
              PowerLoss, ForeignCreate, ForeignRemove, fileVars
<1>3. v = w /\ pc[w] = "ready"
  BY <1>2 DEF Replace
<1> QED
  BY <1>3 DEF KnownInv, Looked

DirectoryInv == TypeInv /\ NoLitter /\ KnownInv

LEMMA DirectoryInit == Init => DirectoryInv
BY TypeInit DEF Init, FileInit, DirectoryInv, NoLitter, KnownInv, Looked

LEMMA DirectoryStep == DirectoryInv /\ [Next]_vars => FileStep /\ DirectoryInv'
<1> SUFFICES ASSUME DirectoryInv, [Next]_vars
             PROVE  FileStep /\ DirectoryInv'
  OBVIOUS
<1>1. FileStep
  BY StepIsFileStep DEF FileStep, vars, DirectoryInv
<1> QED
  BY <1>1, NetTypesStep, NoLitterStep, KnownStep DEF DirectoryInv, TypeInv

\* Whatever fails, is killed or loses power, and however many writers race for
\* one name: a temporary file is left only by a writer that was killed.
THEOREM TemporariesGo == Spec => []NoLitter
<1>1. DirectoryInv => NoLitter
  BY DEF DirectoryInv
<1> QED
  BY <1>1, DirectoryInit, DirectoryStep, PTL DEF Spec

\* A writer without overwrite never replaces a file it saw, or could have seen,
\* when it last looked.
THEOREM KnownFilesStay == Spec => KnownFileKept
<1>1. DirectoryInv /\ [Next]_vars =>
        [\A w \in Writers :
            dest' = w /\ dest \notin {None, w} /\ kind[w].checks /\ ~overwrite[w] =>
                known[w] # dest]_fileVars
  BY DirectoryStep, RenameKeeps DEF DirectoryInv, TypeInv
<1> QED
  BY <1>1, DirectoryInit, DirectoryStep, PTL DEF Spec, KnownFileKept
-----------------------------------------------------------------------------
(* What is published, when raw writes store what they are given.           *)

Complete == {"flushed", "closed", "ready", "done"}

\* The file of a writer follows its data, and stable storage the file.
ContentInv ==
    /\ \A w \in Writers :
           /\ pc[w] \in {"idle", "checked"} =>
                  data[w] = <<>> /\ file[w] = <<>> /\ synced[w] = <<>>
           /\ pc[w] = "writing" /\ kind[w].raw => file[w] = data[w]
           /\ pc[w] \in {"flushed", "closed", "ready"} => file[w] = data[w]
           /\ pc[w] = "done" /\ w \notin killed => file[w] = data[w]
           /\ pc[w] \in {"closed", "ready", "done"} /\ kind[w].syncs =>
                  file[w] = data[w] /\ synced[w] = data[w]
    /\ dest \in Writers => pc[dest] = "done"

\* The data of a client's handler is complete once the client has sent its
\* digest, which stays as it was sent.
ClientInv ==
    \A c \in Clients :
        /\ kind[c] = Sealed
        /\ \A i \in DOMAIN up[c] :
               up[c][i].kind = "final" => /\ cpc[c] \notin {"idle", "streaming"}
                                          /\ up[c][i].digest = digest[c]
        /\ pc[c] \in Complete => /\ cpc[c] \notin {"idle", "streaming"}
                                  /\ data[c] = digest[c] /\ Len(data[c]) = size[c]
        /\ down[c] # None /\ down[c].kind = "ack" => pc[c] = "done"
        /\ cpc[c] = "receipt" => pc[c] = "done"

LocalInv ==
    \A w \in Locals :
        /\ data[w] \o todo[w] = want[w]
        /\ pc[w] \in Complete => data[w] = want[w]

LEMMA ContentStep ==
    ASSUME FileTypes, ContentInv, FileStep, ~ShortWrites
    PROVE  ContentInv'
<1> USE WritersAssumption DEF ContentInv, FileTypes, GoTo, Abandon
<1>1. ASSUME NEW w \in Writers, Check(w) \/ MakeTemp(w)
      PROVE  ContentInv'
  <2>1. CASE Check(w)
    <3>1. pc' \in {[pc EXCEPT ![w] = "failed"], [pc EXCEPT ![w] = "checked"]}
      BY <2>1 DEF Check
    <3> QED
      BY <2>1, <3>1 DEF Check
  <2>2. CASE MakeTemp(w)
    BY <2>2 DEF MakeTemp
  <2> QED
    BY <1>1, <2>1, <2>2
<1>2. ASSUME NEW w \in Writers, NEW chunk \in Seq(Nat), WriteChunk(w, chunk)
      PROVE  ContentInv'
  <2>1. CASE kind[w].raw
    <3>1. StoredCounts(Len(chunk)) = {Len(chunk)}
      BY DEF StoredCounts
    <3>2. SubSeq(chunk, 1, Len(chunk)) = chunk
      OBVIOUS
    <3>3. file' = [file EXCEPT ![w] = @ \o chunk] /\ data' = [data EXCEPT ![w] = @ \o chunk]
      BY <1>2, <2>1, <3>1, <3>2 DEF WriteChunk
    <3> QED
      BY <1>2, <3>3, SMTT(60) DEF WriteChunk
  <2>2. CASE ~kind[w].raw
    BY <1>2, <2>2 DEF WriteChunk
  <2> QED
    BY <2>1, <2>2
<1>3. ASSUME NEW w \in Writers, Flush(w)
      PROVE  ContentInv'
  <2>1. CASE kind[w].raw
    BY <1>3, <2>1 DEF Flush
  <2>2. CASE ~kind[w].raw
    BY <1>3, <2>2 DEF Flush
  <2> QED
    BY <2>1, <2>2
<1>4. ASSUME NEW w \in Writers, Close(w)
      PROVE  ContentInv'
  <2>1. CASE kind[w].syncs
    BY <1>4, <2>1 DEF Close
  <2>2. CASE ~kind[w].syncs
    BY <1>4, <2>2 DEF Close
  <2> QED
    BY <2>1, <2>2
<1>5. ASSUME NEW w \in Writers, Recheck(w) \/ Replace(w)
      PROVE  ContentInv'
  BY <1>5 DEF Recheck, Replace
<1>6. ASSUME NEW w \in Writers, Fail(w) \/ Kill(w)
      PROVE  ContentInv'
  BY <1>6 DEF Fail, Kill, Running, Idle
<1>7. ASSUME NEW w \in Writers, pc[w] # "done", GoTo(w, "failed"),
             UNCHANGED <<kind, data, file, synced, dest, killed>>
      PROVE  ContentInv'
  BY <1>7
<1>8. CASE killed \subseteq killed' /\ UNCHANGED <<kind, pc, data, file, synced, dest>>
  BY <1>8
<1>9. CASE PowerLoss
  <2>1. \A w \in Writers : pc'[w] \in {pc[w], "failed"} /\ (pc'[w] = pc[w] => pc[w] \in Idle)
    BY <1>9 DEF PowerLoss, Running, Idle
  <2>2. \A w \in Writers : pc[w] = "done" => pc'[w] = "done"
    BY <1>9 DEF PowerLoss, Running, Idle
  <2> QED
    BY <1>9, <2>1, <2>2 DEF PowerLoss, Idle
<1>10. CASE ForeignCreate \/ ForeignRemove
  BY <1>10 DEF ForeignCreate, ForeignRemove
<1> QED
  BY <1>1, <1>2, <1>3, <1>4, <1>5, <1>6, <1>7, <1>8, <1>9, <1>10 DEF FileStep, fileVars

LEMMA ClientsAndLocals ==
    /\ \A c \in Clients : c \in Writers /\ c \notin Locals
    /\ \A w \in Locals : w \in Writers /\ w \notin Clients
BY OneShotAssumption

\* Steps that complete no file, undo none, and leave the channels alone.
LEMMA QuietClients ==
    ASSUME ClientInv, UNCHANGED <<netVars, kind>>,
           \A c \in Clients : /\ data'[c] = data[c]
                              /\ pc'[c] \in Complete => pc[c] \in Complete
                              /\ pc[c] = "done" => pc'[c] = "done"
    PROVE  ClientInv'
BY DEF ClientInv, netVars

LEMMA QuietLocals ==
    ASSUME LocalInv, UNCHANGED <<todo, want>>,
           \A w \in Locals : /\ data'[w] = data[w]
                             /\ pc'[w] \in Complete => pc[w] \in Complete
    PROVE  LocalInv'
BY DEF LocalInv

LEMMA WorldStep ==
    ASSUME TypeInv, ClientInv, LocalInv, UNCHANGED <<netVars, localVars>>,
           World \/ \E w \in Writers : Kill(w)
    PROVE  ClientInv' /\ LocalInv'
<1>1. UNCHANGED <<kind, data>>
  BY DEF World, Kill, PowerLoss, ForeignCreate, ForeignRemove
<1>2. \A w \in Writers : /\ pc'[w] \in Complete => pc[w] \in Complete
                         /\ pc[w] = "done" => pc'[w] = "done"
  BY DEF World, Kill, PowerLoss, ForeignCreate, ForeignRemove, GoTo, Running, Idle, Complete,
         TypeInv, FileTypes
<1> QED
  BY <1>1, <1>2, QuietClients, QuietLocals, ClientsAndLocals DEF localVars

LEMMA CutAndJoin ==
    ASSUME NEW d \in Seq(Nat), NEW t \in Seq(Nat), NEW k \in 1 .. Len(t)
    PROVE  (d \o SubSeq(t, 1, k)) \o SubSeq(t, k + 1, Len(t)) = d \o t
<1>1. SubSeq(t, 1, k) \in Seq(Nat) /\ SubSeq(t, k + 1, Len(t)) \in Seq(Nat)
  OBVIOUS
<1>2. SubSeq(t, 1, k) \o SubSeq(t, k + 1, Len(t)) = SubSeq(t, 1, Len(t))
  BY ConcatAdjacentSubSeq
<1>3. SubSeq(t, 1, Len(t)) = t
  BY SubSeqFull
<1>4. ASSUME NEW a \in Seq(Nat), NEW b \in Seq(Nat)
      PROVE  (d \o a) \o b = d \o (a \o b)
  <2>1. d \o a \in Seq(Nat) /\ a \o b \in Seq(Nat)
    OBVIOUS
  <2>2. Len(d \o a) = Len(d) + Len(a) /\ Len(a \o b) = Len(a) + Len(b)
    OBVIOUS
  <2>3. /\ (d \o a) \o b \in Seq(Nat) /\ d \o (a \o b) \in Seq(Nat)
        /\ Len((d \o a) \o b) = Len(d \o (a \o b))
    BY <2>1, <2>2
  <2>4. ASSUME NEW i \in 1 .. Len(d) + Len(a) + Len(b)
        PROVE  ((d \o a) \o b)[i] = (d \o (a \o b))[i]
    <3>1. ((d \o a) \o b)[i] = IF i <= Len(d) + Len(a) THEN (d \o a)[i]
                                ELSE b[i - (Len(d) + Len(a))]
      BY <2>1, <2>2, ConcatProperties
    <3>2. (d \o (a \o b))[i] = IF i <= Len(d) THEN d[i] ELSE (a \o b)[i - Len(d)]
      BY <2>1, <2>2, ConcatProperties
    <3>3. i <= Len(d) + Len(a) =>
             (d \o a)[i] = IF i <= Len(d) THEN d[i] ELSE a[i - Len(d)]
      BY ConcatProperties
    <3>4. i > Len(d) =>
             (a \o b)[i - Len(d)] = IF i - Len(d) <= Len(a) THEN a[i - Len(d)]
                                     ELSE b[i - Len(d) - Len(a)]
      BY ConcatProperties
    <3> QED
      BY <3>1, <3>2, <3>3, <3>4
  <2>5. ASSUME NEW x \in Seq(Nat), NEW y \in Seq(Nat), Len(x) = Len(y),
               \A i \in 1 .. Len(x) : x[i] = y[i]
        PROVE  x = y
    BY <2>5, SeqEqual
  <2>6. Len((d \o a) \o b) = Len(d) + Len(a) + Len(b)
    BY <2>1, <2>2
  <2>7. \A i \in 1 .. Len((d \o a) \o b) : ((d \o a) \o b)[i] = (d \o (a \o b))[i]
    BY <2>4, <2>6
  <2> QED
    BY <2>3, <2>5, <2>7, Zenon
<1>5. (d \o SubSeq(t, 1, k)) \o SubSeq(t, k + 1, Len(t))
         = d \o (SubSeq(t, 1, k) \o SubSeq(t, k + 1, Len(t)))
  BY <1>1, <1>4, Zenon
<1> QED
  BY <1>2, <1>3, <1>5

LEMMA LocalStepKeeps ==
    ASSUME TypeInv, ClientInv, LocalInv, NEW w \in Locals, LocalStep(w)
    PROVE  ClientInv' /\ LocalInv'
<1> USE ClientsAndLocals DEF TypeInv, FileTypes
<1>1. UNCHANGED <<netVars, kind>>
  BY DEF LocalStep, WriteNext, Check, MakeTemp, WriteChunk, Close, Recheck, Replace, Fail, Flush
<1>2. \A v \in Writers \ {w} : pc'[v] = pc[v] /\ data'[v] = data[v]
  BY DEF LocalStep, WriteNext, Check, MakeTemp, WriteChunk, Close, Recheck, Replace, Fail,
         Flush, GoTo, Abandon
<1>3. ClientInv'
  BY <1>1, <1>2, QuietClients
<1>4. CASE WriteNext(w)
  <2>1. PICK n \in 1 .. Len(todo[w]) :
             /\ WriteChunk(w, SubSeq(todo[w], 1, n))
             /\ todo' = [todo EXCEPT ![w] = SubSeq(@, n + 1, Len(@))]
    BY <1>4 DEF WriteNext
  <2>2. todo[w] \in Seq(Nat) /\ data[w] \in Seq(Nat)
    BY DEF NetTypes
  <2>3. data'[w] \o todo'[w] = (data[w] \o SubSeq(todo[w], 1, n))
                                   \o SubSeq(todo[w], n + 1, Len(todo[w]))
    BY <2>1 DEF WriteChunk, NetTypes
  <2>5. data'[w] \o todo'[w] = data[w] \o todo[w]
    BY <2>2, <2>3, CutAndJoin
  <2>6. pc' = pc /\ pc[w] = "writing" /\ want' = want
    BY <1>4, <2>1 DEF WriteNext, WriteChunk
  <2>7. \A v \in Locals \ {w} : data'[v] = data[v] /\ todo'[v] = todo[v]
    BY <1>2, <2>1 DEF NetTypes
  <2>8. LocalInv'
    BY <2>5, <2>6, <2>7 DEF LocalInv, Complete
  <2> QED
    BY <1>3, <2>8
<1>5. CASE todo[w] = <<>> /\ Flush(w) /\ UNCHANGED localVars
  <2>1. data[w] \o <<>> = data[w]
    OBVIOUS
  <2>2. data[w] = want[w]
    BY <1>5, <2>1 DEF LocalInv
  <2>3. data' = data /\ todo' = todo /\ want' = want
    BY <1>5 DEF Flush, localVars
  <2>4. LocalInv'
    BY <1>2, <2>2, <2>3 DEF LocalInv
  <2> QED
    BY <1>3, <2>4
<1>6. CASE /\ Check(w) \/ MakeTemp(w) \/ Close(w) \/ Recheck(w) \/ Replace(w) \/ Fail(w)
           /\ UNCHANGED localVars
  <2>1. data' = data /\ (pc'[w] \in Complete => pc[w] \in Complete)
    BY <1>6 DEF Check, MakeTemp, Close, Recheck, Replace, Fail, GoTo, Abandon, Complete
  <2>2. LocalInv'
    BY <1>2, <1>6, <2>1, QuietLocals DEF localVars
  <2> QED
    BY <1>3, <2>2
<1> QED
  BY <1>4, <1>5, <1>6 DEF LocalStep

LEMMA ClientStepKeeps ==
    ASSUME TypeInv, ClientInv, LocalInv, NEW c \in Clients, ClientStep(c)
    PROVE  ClientInv' /\ LocalInv'
<1> USE DEF TypeInv, NetTypes
<1>1. UNCHANGED <<kind, pc, data, todo, want>>
  BY DEF ClientStep, Open, SendFrame, AbandonShortSource, SendFinal, ReceiveAck, ReceiveError,
         ClientAbort, EditSource, fileVars, localVars
<1>2. LocalInv'
  BY <1>1, QuietLocals
<1>3. ASSUME NEW m, NEW d \in Clients, cpc[c] \in {"idle", "streaming"}, 
             up' = [up EXCEPT ![c] = Append(@, m)],
             m.kind # "final" \/ (m.digest = digest'[c] /\ cpc'[c] = "finishing"),
             NEW i \in DOMAIN up'[c], up'[c][i].kind = "final"
      PROVE  up'[c][i] = m /\ m.kind = "final"
  <2>1. up[c] \in Seq(Message) /\ up'[c] = Append(up[c], m)
    BY <1>3
  <2>2. i \in DOMAIN up[c] => up'[c][i] = up[c][i]
    BY <2>1
  <2>3. i \notin DOMAIN up[c] => up'[c][i] = m
    BY <2>1
  <2> QED
    BY <1>3, <2>2, <2>3 DEF ClientInv
<1>4. CASE Open(c)
  <2>1. ClientInv'
    BY <1>1, <1>3, <1>4 DEF Open, CallGoes, ClientInv, Header
  <2> QED
    BY <1>2, <2>1
<1>5. CASE SendFrame(c)
  <2>1. ClientInv'
    BY <1>1, <1>3, <1>5 DEF SendFrame, ClientInv, Frame
  <2> QED
    BY <1>2, <2>1
<1>6. CASE SendFinal(c)
  <2>1. ClientInv'
    BY <1>1, <1>3, <1>6 DEF SendFinal, CallGoes, ClientInv, Final
  <2> QED
    BY <1>2, <2>1
<1>7. CASE ReceiveAck(c)
  <2>1. ClientInv'
    BY <1>1, <1>7 DEF ReceiveAck, CallGoes, ClientInv
  <2> QED
    BY <1>2, <2>1
<1>8. CASE AbandonShortSource(c) \/ ReceiveError(c) \/ ClientAbort(c)
  <2>1. ClientInv'
    BY <1>1, <1>8 DEF AbandonShortSource, ReceiveError, ClientAbort, CallGoes, ClientInv
  <2> QED
    BY <1>2, <2>1
<1>9. CASE EditSource(c)
  <2>1. ClientInv'
    BY <1>1, <1>9 DEF EditSource, ClientInv
  <2> QED
    BY <1>2, <2>1
<1> QED
  BY <1>4, <1>5, <1>6, <1>7, <1>8, <1>9 DEF ClientStep

\* A message is taken from the channel of c.
LEMMA ConsumeClients ==
    ASSUME TypeInv, ClientInv, NEW c \in Clients, NEW k, UpHead(c, k),
           up' = [up EXCEPT ![c] = Tail(@)], UNCHANGED <<cpc, digest>>
    PROVE  /\ \A d \in Clients : \A i \in DOMAIN up'[d] :
                 up'[d][i].kind = "final" => /\ cpc'[d] \notin {"idle", "streaming"}
                                            /\ up'[d][i].digest = digest'[d]
           /\ k = "final" => /\ cpc[c] \notin {"idle", "streaming"}
                             /\ Head(up[c]).digest = digest[c]
<1> USE DEF TypeInv, NetTypes
<1>1. up[c] \in Seq(Message) /\ up[c] # <<>> /\ up'[c] = Tail(up[c])
  BY DEF UpHead
<1>2. /\ \A i \in DOMAIN up'[c] : i + 1 \in DOMAIN up[c] /\ up'[c][i] = up[c][i + 1]
      /\ 1 \in DOMAIN up[c] /\ Head(up[c]) = up[c][1]
  BY <1>1
<1>3. \A d \in Clients \ {c} : up'[d] = up[d]
  OBVIOUS
<1> QED
  BY <1>2, <1>3 DEF ClientInv, UpHead

LEMMA HandlerStepKeeps ==
    ASSUME TypeInv, ClientInv, LocalInv, NEW c \in Clients, HandlerStep(c)
    PROVE  ClientInv' /\ LocalInv'
<1> USE ClientsAndLocals DEF TypeInv, FileTypes, NetTypes
<1> DEFINE Others == \A v \in Writers \ {c} : pc'[v] = pc[v] /\ data'[v] = data[v]
           Fixed  == UNCHANGED <<kind, cpc, size, digest, todo, want>>
<1>1. ASSUME Others, Fixed
      PROVE  LocalInv'
  BY <1>1, QuietLocals
<1>2. CASE ReceiveHeader(c)
  <2>1. /\ data' = data /\ pc'[c] \in {"failed", "checked"} /\ pc[c] = "idle"
        /\ Others /\ Fixed
    BY <1>2 DEF ReceiveHeader, Check, GoTo, localVars
  <2>2. /\ down' \in {down, [down EXCEPT ![c] = Error]}
        /\ up' = [up EXCEPT ![c] = Tail(@)] /\ UpHead(c, "header")
    BY <1>2 DEF ReceiveHeader
  <2>3. \A d \in Clients : /\ pc'[d] \in Complete => pc[d] \in Complete /\ data'[d] = data[d]
                           /\ pc[d] = "done" => pc'[d] = "done"
                           /\ down'[d] = down[d] \/ down'[d].kind = "error"
    BY <2>1, <2>2 DEF Complete, Error
  <2>4. \A d \in Clients : \A i \in DOMAIN up'[d] :
            up'[d][i].kind = "final" => /\ cpc'[d] \notin {"idle", "streaming"}
                                       /\ up'[d][i].digest = digest'[d]
    BY <2>1, <2>2, ConsumeClients
  <2>5. ASSUME NEW d \in Clients
        PROVE  /\ kind'[d] = Sealed
               /\ pc'[d] \in Complete => /\ cpc'[d] \notin {"idle", "streaming"}
                                         /\ data'[d] = digest'[d] /\ Len(data'[d]) = size'[d]
               /\ cpc'[d] = "receipt" => pc'[d] = "done"
    BY <2>1, <2>3 DEF ClientInv
  <2>6. ASSUME NEW d \in Clients, down'[d] # None, down'[d].kind = "ack"
        PROVE  pc'[d] = "done"
    BY <2>3, <2>6 DEF ClientInv
  <2>7. ClientInv'
    BY <2>4, <2>5, <2>6 DEF ClientInv
  <2> QED
    BY <1>1, <2>1, <2>7
<1>3. CASE ReceiveFrame(c)
  <2>1. /\ pc' = pc /\ pc[c] = "writing" /\ down' = down /\ up' = [up EXCEPT ![c] = Tail(@)]
        /\ UpHead(c, "frame") /\ Others /\ Fixed
    BY <1>3 DEF ReceiveFrame, WriteChunk, localVars
  <2>2. \A d \in Clients : pc'[d] \in Complete => data'[d] = data[d]
    BY <2>1 DEF Complete
  <2>3. \A d \in Clients : \A i \in DOMAIN up'[d] :
            up'[d][i].kind = "final" => /\ cpc'[d] \notin {"idle", "streaming"}
                                       /\ up'[d][i].digest = digest'[d]
    BY <2>1, ConsumeClients
  <2>4. ClientInv'
    BY <2>1, <2>2, <2>3 DEF ClientInv
  <2> QED
    BY <1>1, <2>1, <2>4
<1>4. CASE ReceiveFinal(c)
  <2>1. /\ data' = data /\ pc'[c] = "flushed" /\ pc[c] = "writing" /\ down' = down
        /\ up' = [up EXCEPT ![c] = Tail(@)] /\ UpHead(c, "final") /\ Others /\ Fixed
    BY <1>4 DEF ReceiveFinal, Flush, GoTo, localVars
  <2>2. Len(data[c]) = size[c] /\ data[c] = digest[c] /\ cpc[c] \notin {"idle", "streaming"}
    BY <1>4, <2>1, ConsumeClients DEF ReceiveFinal
  <2>3. ClientInv'
    BY <2>1, <2>2, ConsumeClients DEF ClientInv, Complete
  <2> QED
    BY <1>1, <2>1, <2>3
<1>5. CASE Acknowledge(c)
  <2>1. Others /\ Fixed
    BY <1>5 DEF Acknowledge, fileVars, localVars
  <2>2. ClientInv'
    BY <1>5 DEF Acknowledge, Unanswered, ClientInv, fileVars
  <2> QED
    BY <1>1, <2>1, <2>2
<1>6. CASE PeerGone(c) \/ HandlerFail(c)
  <2>1. /\ data' = data /\ pc'[c] = "failed" /\ pc[c] # "done" /\ Others /\ Fixed
        /\ up' = up /\ down' = [down EXCEPT ![c] = Error]
    BY <1>6 DEF PeerGone, HandlerFail, Fail, Abandon, GoTo, Running, Idle, localVars
  <2>2. cpc[c] # "receipt"
    BY <2>1 DEF ClientInv
  <2>3. ClientInv'
    BY <2>1, <2>2 DEF ClientInv, Complete, Error
  <2> QED
    BY <1>1, <2>1, <2>3
<1>7. CASE DropQueued(c) \/ CreateTemp(c) \/ Finish(c) \/ EndUnanswered(c)
  <2>1. Others /\ Fixed /\ data' = data
    BY <1>7 DEF DropQueued, CreateTemp, Finish, EndUnanswered, MakeTemp, Close, Recheck,
         Replace, GoTo, Abandon, netVars, localVars
  <2>2. /\ UNCHANGED netVars /\ (pc'[c] \in Complete => pc[c] \in Complete)
        /\ pc[c] = "done" => pc'[c] = "done"
    BY <1>7 DEF DropQueued, CreateTemp, Finish, EndUnanswered, MakeTemp, Close, Recheck,
         Replace, GoTo, Abandon, Complete
  <2>3. ClientInv'
    BY <2>1, <2>2, QuietClients
  <2> QED
    BY <1>1, <2>1, <2>3
<1> QED
  BY <1>2, <1>3, <1>4, <1>5, <1>6, <1>7 DEF HandlerStep

OneShotInv == DirectoryInv /\ ContentInv /\ ClientInv /\ LocalInv

LEMMA OneShotInit == Init => OneShotInv
<1> SUFFICES ASSUME Init
             PROVE  OneShotInv
  OBVIOUS
<1>1. ContentInv
  BY WritersAssumption DEF Init, FileInit, ContentInv
<1>2. ClientInv
  BY ClientsAndLocals DEF Init, FileInit, ClientInv, Complete
<1>3. LocalInv
  <2>1. \A w \in Locals : data[w] = <<>> /\ todo[w] = want[w] /\ want[w] \in Seq(Nat)
    BY ClientsAndLocals, OneShotAssumption DEF Init, FileInit
  <2>2. \A s \in Seq(Nat) : <<>> \o s = s
    OBVIOUS
  <2> QED
    BY <2>1, <2>2, ClientsAndLocals DEF Init, FileInit, LocalInv, Complete
<1> QED
  BY <1>1, <1>2, <1>3, DirectoryInit DEF OneShotInv

LEMMA OneShotStep ==
    ASSUME ~ShortWrites
    PROVE  OneShotInv /\ [Next]_vars => OneShotInv'
<1> SUFFICES ASSUME OneShotInv, [Next]_vars
             PROVE  OneShotInv'
  OBVIOUS
<1>1. DirectoryInv' /\ ContentInv'
  BY DirectoryStep, ContentStep DEF OneShotInv, DirectoryInv, TypeInv
<1>2. ClientInv' /\ LocalInv'
  <2>1. CASE UNCHANGED vars
    BY <2>1, QuietClients, QuietLocals DEF OneShotInv, vars, fileVars, localVars
  <2>2. CASE Next
    BY <2>2, ClientStepKeeps, HandlerStepKeeps, LocalStepKeeps, WorldStep
       DEF Next, OneShotInv, DirectoryInv
  <2> QED
    BY <2>1, <2>2
<1> QED
  BY <1>1, <1>2 DEF OneShotInv

\* If raw writes store what they are given, the destination holds a complete
\* file whatever fails and whoever races, on stable storage too, where its
\* writer syncs; the file of gzip_file is complete as long as power lasts.
THEOREM OneShotPublishesWhole ==
    ASSUME ~ShortWrites
    PROVE  Spec => []PublishedWhole
<1>1. OneShotInv => PublishedWhole
  <2> SUFFICES ASSUME OneShotInv, dest \in Writers
               PROVE  PublishedWhole
    BY DEF PublishedWhole
  <2>1. pc[dest] = "done" /\ pc[dest] \in Complete
    BY DEF OneShotInv, ContentInv, Complete
  <2>2. /\ kind[dest].syncs \/ dest \notin killed => file[dest] = data[dest]
        /\ kind[dest].syncs => synced[dest] = data[dest]
    BY <2>1 DEF OneShotInv, ContentInv
  <2>3. CASE dest \in Clients
    BY <2>1, <2>2, <2>3, ClientsAndLocals
       DEF OneShotInv, ClientInv, PublishedWhole, Intended, Sealed
  <2>4. CASE dest \in Locals
    BY <2>1, <2>2, <2>4, ClientsAndLocals DEF OneShotInv, LocalInv, PublishedWhole, Intended
  <2> QED
    BY <2>3, <2>4, OneShotAssumption
<1> QED
  BY <1>1, OneShotInit, OneShotStep, PTL DEF Spec

\* Under the same assumption a receipt is never returned for a file that was
\* not published, and its digest is the digest of what was published.
THEOREM OneShotReceipts ==
    ASSUME ~ShortWrites
    PROVE  Spec => []ReceiptMeansPublished
<1>1. OneShotInv => ReceiptMeansPublished
  BY ClientsAndLocals
     DEF OneShotInv, ContentInv, ClientInv, ReceiptMeansPublished, Complete, Sealed
<1> QED
  BY <1>1, OneShotInit, OneShotStep, PTL DEF Spec
=============================================================================
