----------------------------- MODULE AtomicFile -----------------------------
(***************************************************************************)
(* How UBIN publishes a file: every writer fills a temporary file in the   *)
(* directory of the destination and renames it over the destination.  The  *)
(* code has this sequence in ten places, which differ in what they check   *)
(* and in what they make durable; a kind names the differences:            *)
(*                                                                         *)
(*   checks    an existing destination is refused at the start             *)
(*   rechecks  and once more before the rename                             *)
(*   syncs     the temporary file is fsynced before the rename             *)
(*   raw       writes go straight to the file, their counts are ignored    *)
(*                                                                         *)
(* Writers are processes; each publishes at most one file, under one       *)
(* common destination name.  The inode of a writer's temporary file is     *)
(* named after the writer.                                                 *)
(***************************************************************************)
EXTENDS Naturals, Sequences, SequencesExt

CONSTANTS
    Writers,      \* processes that publish to the destination
    ShortWrites,  \* may a raw write store less than it was given?
    MaxFaults,    \* bound: failures, kills, power losses
    Foreign,      \* a file that some other program put at the destination
    None

VARIABLES
    kind,       \* kind[w]: which of the writers of the code w runs
    overwrite,  \* overwrite[w]: its argument of that name
    pc,         \* pc[w]: where the call stands
    data,       \* data[w]: bytes the writer has written, as it believes
    file,       \* file[w]: content of its temporary file, later the published one
    synced,     \* synced[w]: what stable storage holds of it
    temps,      \* writers whose temporary name is in the directory
    dest,       \* the writer whose file is at the destination, Foreign, or None
    known,      \* known[w]: what w last promised not to replace
    killed,     \* writers that were killed, or lost their machine
    faults

fileVars == <<kind, overwrite, pc, data, file, synced, temps, dest, known, killed, faults>>

Published == [checks |-> TRUE,  rechecks |-> TRUE,  syncs |-> TRUE,  raw |-> FALSE]
Gzipped   == [checks |-> TRUE,  rechecks |-> TRUE,  syncs |-> FALSE, raw |-> FALSE]
Created   == [checks |-> TRUE,  rechecks |-> FALSE, syncs |-> TRUE,  raw |-> FALSE]
Locked    == [checks |-> FALSE, rechecks |-> FALSE, syncs |-> TRUE,  raw |-> FALSE]
Sealed    == [checks |-> TRUE,  rechecks |-> FALSE, syncs |-> TRUE,  raw |-> TRUE]

\* _pipeline.write, json.write, csv.write_rows and plot.line; gzip_file;
\* environment.init; environment.lock; SecureSource.save, decrypt_file and
\* the image carrier.
Kinds == {Published, Gzipped, Created, Locked, Sealed}

ASSUME WritersAssumption ==
    /\ ShortWrites \in BOOLEAN /\ MaxFaults \in Nat
    /\ Foreign \notin Writers /\ None \notin Writers /\ None # Foreign

Idle == {"idle", "done", "failed"}
Running(w) == pc[w] \notin Idle

Refused(w) == dest # None /\ ~overwrite[w]
-----------------------------------------------------------------------------
GoTo(w, label) == pc' = [pc EXCEPT ![w] = label]

\* The existence check that opens the call.
Check(w) ==
    /\ pc[w] = "idle"
    /\ IF kind[w].checks /\ Refused(w)
       THEN GoTo(w, "failed") /\ UNCHANGED known
       ELSE GoTo(w, "checked") /\ known' = [known EXCEPT ![w] = dest]
    /\ UNCHANGED <<kind, overwrite, data, file, synced, temps, dest, killed, faults>>

\* tempfile.mkstemp.
MakeTemp(w) ==
    /\ pc[w] = "checked"
    /\ temps' = temps \cup {w}
    /\ GoTo(w, "writing")
    /\ UNCHANGED <<kind, overwrite, data, file, synced, dest, known, killed, faults>>

\* What one raw write stores of k bytes.
StoredCounts(k) == IF ShortWrites /\ k > 0 THEN 1 .. k ELSE {k}

\* One write.  A buffered writer's bytes reach the file when it is flushed.
WriteChunk(w, chunk) ==
    /\ pc[w] = "writing"
    /\ data' = [data EXCEPT ![w] = @ \o chunk]
    /\ IF kind[w].raw
       THEN \E k \in StoredCounts(Len(chunk)) :
                file' = [file EXCEPT ![w] = @ \o SubSeq(chunk, 1, k)]
       ELSE UNCHANGED file
    /\ UNCHANGED <<kind, overwrite, pc, synced, temps, dest, known, killed, faults>>

\* Everything is written, and flushed.
Flush(w) ==
    /\ pc[w] = "writing"
    /\ file' = IF kind[w].raw THEN file ELSE [file EXCEPT ![w] = data[w]]
    /\ known' = IF kind[w].rechecks THEN [known EXCEPT ![w] = dest] ELSE known
    /\ GoTo(w, "flushed")
    /\ UNCHANGED <<kind, overwrite, data, synced, temps, dest, killed, faults>>

\* Mutant: the fsync is forgotten.
CloseOnly(w) ==
    /\ pc[w] = "flushed"
    /\ GoTo(w, "closed")
    /\ UNCHANGED <<kind, overwrite, data, file, synced, temps, dest, known, killed, faults>>
\* fsync, where the writer has one, and close.
Close(w) ==
    /\ pc[w] = "flushed"
    /\ synced' = IF kind[w].syncs THEN [synced EXCEPT ![w] = file[w]] ELSE synced
    /\ GoTo(w, "closed")
    /\ UNCHANGED <<kind, overwrite, data, file, temps, dest, known, killed, faults>>

\* The exception leaves the call; its temporary file is unlinked.
Abandon(w) == GoTo(w, "failed") /\ temps' = temps \ {w}

\* Mutant: the second check is left out.
NoSecondLook(w) ==
    /\ pc[w] = "closed"
    /\ GoTo(w, "ready")
    /\ UNCHANGED <<kind, overwrite, data, file, synced, temps, dest, known, killed, faults>>
\* The second existence check, where the writer has one.
Recheck(w) ==
    /\ pc[w] = "closed"
    /\ IF kind[w].rechecks /\ Refused(w) THEN Abandon(w)
       ELSE GoTo(w, "ready") /\ UNCHANGED temps
    /\ known' = IF kind[w].rechecks THEN [known EXCEPT ![w] = dest] ELSE known
    /\ UNCHANGED <<kind, overwrite, data, file, synced, dest, killed, faults>>

\* os.replace.
Replace(w) ==
    /\ pc[w] = "ready"
    /\ dest' = w
    /\ temps' = temps \ {w}
    /\ GoTo(w, "done")
    /\ UNCHANGED <<kind, overwrite, data, file, synced, known, killed, faults>>

Fault == faults < MaxFaults /\ faults' = faults + 1

\* Mutant: the exception handler does not unlink.
FailDirty(w) ==
    /\ Running(w) /\ pc[w] # "checked"
    /\ GoTo(w, "failed")
    /\ Fault
    /\ UNCHANGED <<kind, overwrite, data, file, synced, temps, dest, known, killed>>
\* The source, a stage, a write or the rename raises.
Fail(w) ==
    /\ Running(w) /\ pc[w] # "checked"
    /\ Abandon(w)
    /\ Fault
    /\ UNCHANGED <<kind, overwrite, data, file, synced, dest, known, killed>>

\* The process is killed: nothing is unlinked.
Kill(w) ==
    /\ Running(w)
    /\ GoTo(w, "failed")
    /\ killed' = killed \cup {w}
    /\ Fault
    /\ UNCHANGED <<kind, overwrite, data, file, synced, temps, dest, known>>

\* Power is lost: names stay, unsynced bytes do not.
PowerLoss ==
    /\ pc' = [w \in Writers |-> IF Running(w) THEN "failed" ELSE pc[w]]
    /\ killed' = killed \cup {w \in Writers : Running(w) \/ pc[w] = "done"}
    /\ file' = synced
    /\ Fault
    /\ UNCHANGED <<kind, overwrite, data, synced, temps, dest, known>>

\* Another program creates or removes a file of that name.
ForeignCreate ==
    /\ dest = None /\ Fault
    /\ dest' = Foreign
    /\ UNCHANGED <<kind, overwrite, pc, data, file, synced, temps, known, killed>>
ForeignRemove ==
    /\ dest # None /\ Fault
    /\ dest' = None
    /\ UNCHANGED <<kind, overwrite, pc, data, file, synced, temps, known, killed>>

FileInit ==
    /\ pc = [w \in Writers |-> "idle"]
    /\ data = [w \in Writers |-> <<>>]
    /\ file = [w \in Writers |-> <<>>]
    /\ synced = [w \in Writers |-> <<>>]
    /\ temps = {} /\ dest = None
    /\ known = [w \in Writers |-> None]
    /\ killed = {} /\ faults = 0
-----------------------------------------------------------------------------
FileTypes ==
    /\ kind \in [Writers -> Kinds] /\ overwrite \in [Writers -> BOOLEAN]
    /\ pc \in [Writers -> {"idle", "checked", "writing", "flushed", "closed", "ready",
                           "done", "failed"}]
    /\ data \in [Writers -> Seq(Nat)] /\ file \in [Writers -> Seq(Nat)]
    /\ synced \in [Writers -> Seq(Nat)]
    /\ temps \subseteq Writers /\ killed \subseteq Writers
    /\ dest \in Writers \cup {Foreign, None}
    /\ known \in [Writers -> Writers \cup {Foreign, None}]
    /\ faults \in 0 .. MaxFaults

\* Without overwrite, a file that was there when the writer last looked is
\* never replaced: for the writers that look twice that is every file there
\* before their own was complete (_pipeline.py, json.py, csv.py, plot.py,
\* compress.py), for the others every file there before they began.
KnownFileKept ==
    [][\A w \in Writers :
        dest' = w /\ dest \notin {None, w} /\ kind[w].checks /\ ~overwrite[w] =>
            known[w] # dest]_fileVars

\* A temporary file outlives its writer only when the writer was killed: every
\* exception path unlinks it, every success renames it.
NoLitter == \A w \in temps : Running(w) \/ w \in killed
=============================================================================
