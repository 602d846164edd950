# UBIN in TLA+

Specifications, model-checking runs and machine-checked proofs for UBIN 2.0.0
(`src/src/ubin`, Python).  The core of UBIN is its *secure* package: files are
moved over TLS in authenticated frames, a transfer can be interrupted and
resumed, and a destination file only ever appears complete and verified.  That
core is modelled in most detail; around it are the writers that publish local
files, the binary objects everything is read through, the task graphs of
`_workflow.py`, and the parts of the package that only compute.

## 1. Inventory

| Component | Code | State | Operations | What makes it correct | Hard part |
|---|---|---|---|---|---|
| Resumable transfer v0.4 | `secure/resume.py`, `resume_format.py` | client state file; per transfer a partial file and a checkpoint on the server; destination; server secret | `send_resumable_file`, `receive_resumable_after_magic` | only complete, verified, durable files are published; checkpoints cover durable bytes; stored tickets are honoured; receipts are true | crashes between write, fsync, checkpoint, rename, acknowledgement; retries that overlap; sources edited meanwhile |
| KRP transfer v0.5 | `secure/krp_transfer.py`, `krp_format.py` | as v0.4 | as v0.4, frames permuted | as v0.4, and the layout is restored exactly | same |
| One-shot transfer v0.3, dispatch | `secure/network.py`, `network_format.py` | listener, one connection, temporary file | `send_file`, `SecureServer.serve_once` | publication is all or nothing | short writes, late existence check |
| Session | `secure/session.py`, `crypto.py` | ephemeral keys | handshake, key derivation | both sides derive the same key, of one session | binding to the session |
| Container | `secure/container.py`, `format.py` | temporary file | `save`, `decrypt_file`, `send` | round trip, nothing published on failure | short writes |
| KRP permutation | `secure/krp.py` | none | `permute_blocks`, `restore_blocks`, file versions | a bijection, undone exactly | cycle walking at sizes that are no power of four |
| PNG codec, carrier | `secure/png_codec.py`, `image_carrier.py` | temporary files | embed, extract | exact reversal | lengths and filters |
| Binary objects | `core.py`, `_resource.py` | descriptor, shared cursor, recorded size | `read`, `seek`, `read_at`, `stream`, `hash`, `close` | positioned reads leave the cursor alone | threads, `close` during a read, sizes gone stale |
| Pipeline, atomic writers | `_pipeline.py`, `json.py`, `csv.py`, `compress.py`, `environment.py` | temporary file | `write` | all or nothing, no overwrite unless asked | check then replace |
| Workflow | `_workflow.py` | task graph, results | `task`, `run` | dependencies first, cycles found first | failures inside a parallel layer |
| Protocol 2 | `protocol.py` | reader offset, item count | encode, decode | canonical, round trip, bounded | limits of nested counts |
| Capabilities, providers | `_capabilities.py`, `runtime.py`, `providers.py`, `sdk.py`, `catalog.py` | installed metadata | list, info, load, verify | listing, description and loading agree | conflicting providers |
| Algorithms | `sort.py`, `search.py`, `ds.py` | containers | sorts, searches, heaps, graphs | against their definitions | partition bounds |
| CLI, demo, wrappers | `cli.py`, `demo.py`, `devcert.py`, ... | none | argument parsing, one-line wrappers | — | — |

How they interact: `container.send` calls `send_resumable_file`, which opens
the source as a binary object, hashes it, opens a TLS connection, runs the
session handshake and speaks the transfer protocol.  `SecureServer.serve_once`
accepts one connection, runs the handshake and dispatches on the first four
bytes to the v0.3, v0.4 or v0.5 receiver.  Client and server share nothing but
the connection; successive handlers of one server communicate through the
partial files, checkpoints and the destination directory.

The hazards each of these parts is exposed to are listed line by line in
`PROJECT.json`; the properties below were chosen from that list.

## 2. Modules

| Module | What it is |
|---|---|
| `ResumeFormat` | frame arithmetic (`FrameCount`, `ExpectedBytes`, `FrameLen`) and file primitives (`ReadAt`, `WriteAt`, `TruncateTo`) |
| `AbstractTransfer` | what a transfer promises: contents are offered, an offered content appears at the destination in one step, receipts follow deliveries |
| `AbstractDelivery` | the same on a disk that learns of a new name some time after the rename: a power loss may put the destination back, as a whole, and takes back no receipt |
| `ResumableTransfer` | both sides of the v0.4 transfer, the network, the server's disk and the faults |
| `KrpLayout` | the keyed layout of blocks: Feistel rounds, cycle walk, permuting and restoring buffers and files |
| `KrpTransfer` | both sides of the v0.5 transfer: keys and nonces per connection, permuted frames, tickets, the server secret, directories that lag behind |
| `AtomicFile` | the sequence temporary file, write, fsync, check, rename, with what its ten writers do differently |
| `OneShotTransfer` | both sides of the v0.3 transfer, publishing as one of the writers of `AtomicFile` beside others |
| `BinaryObject` | one object shared by threads: reads, seeks, streams, close |
| `Workflow` | registration, layering and execution of a task graph |
| `Search`, `Sorting`, `Algorithms`, `ProtocolValue`, `SecureContainer`, `Registry` | pure parts: searching; merge sort; quicksort, tree and walks; Protocol 2; containers and image carriers; capabilities and the lockfile |
| `PureParts`, `Library` | one task per behaviour for the pure parts, and their properties; `PureParts` has those that are written with recursive functions at most, `Library` adds quicksort, the tree and the walks, which are recursive operators |
| `MCResumableTransfer`, `MCKrpTransfer`, `MCOneShotTransfer`, `MCBinaryObject`, `MCLibrary` | values of the constants for the runs |
| `FormatProofs` | the frame arithmetic and the file primitives; the layout is one to one, and restoring undoes permuting |
| `ResumableTransferProofs` | v0.4: type correctness; the inductive invariant of a single-threaded server and what follows from it; receipts, the refinement, durable checkpoints, tickets, owned progress |
| `KrpProofs` | v0.5: published files under power loss, secrets and tickets, frames, checkpoints |
| `OneShotProofs` | writers of one name, v0.3 among them |
| `BinaryObjectProofs` | threads of one object |
| `WorkflowProofs` | the inductive invariant of a flow and what follows from it |
| `ProtocolProofs` | Protocol 2: what is read is written as it was read, what is written is read back |
| `LibraryProofs` | the layout, containers and carriers, the registry, the searches, the merge sort and Protocol 2 for every argument |

`ResumableTransfer` extends `ResumeFormat` and instantiates `AbstractTransfer`;
`AbstractDelivery` extends `AbstractTransfer`; `KrpTransfer` extends `KrpLayout`,
which extends `ResumeFormat`, and instantiates `AbstractDelivery`;
`OneShotTransfer` extends `AtomicFile` and instantiates `ResumeFormat`;
`BinaryObject` extends `ResumeFormat`, `SecureContainer` extends `KrpLayout`;
`Sorting` extends `Search` and `Algorithms` extends `Sorting`; `PureParts` extends
`SecureContainer`, `Registry`, `Sorting` and `ProtocolValue`, and `Library` extends
it and instantiates `Algorithms`.  `Workflow` stands alone.  A module
of proofs extends the module it is about (`FormatProofs` is about `ResumeFormat` and
`KrpLayout`); `ResumableTransferProofs`, `KrpProofs` and `ProtocolProofs` also extend
`FormatProofs`, and `LibraryProofs` extends `ProtocolProofs`.

### State of `ResumableTransfer` and the code

* `source, cpc, size, hashed, conn, sent` are the file, program point and locals
  of one running `send_resumable_file` per client; `saved` is its state file
  (`_client_state_path`).  Each client has one source path, so it has one state
  file.
* `request[n], up[n], down[n]` are connection `n`: the header and request, the
  records towards the server and those towards the client.  A channel is a FIFO
  queue that may be cut at any point (`ClientAbort`, `HandlerAbort`): TLS and
  AES-GCM deliver what was sent or raise.
* `spc, nxt, cur, fd, pos` are the program point and locals of
  `receive_resumable_after_magic` on connection `n`; `fd` is the inode the
  `with partial_path.open("r+b")` block holds, `pos` its own offset, which is
  not `cur` once a write was short.
* `file[i]` is what processes read from inode `i`, `synced[i]` what a power loss
  leaves; `partial[t], ckpt[t], dest` are the names.  A transfer identifier and
  the inode of its partial file are named after the connection that sent NEW
  (`secrets.token_bytes(16)` is taken to be fresh).
* `outcome` is a history variable, `faults` and `edits` are the counters of the
  bounds.

One action is one point between two effects that a crash or another process can
separate.  The order of the server's actions is the order of the code:

    Accept -> CreatePartial -> WriteFirstCheckpoint -> SendStatus       (NEW)
    Accept -> LoadCheckpoint -> RollBack -> SendStatus                  (RESUME)
    SendStatus -> (ReceiveFrame -> SyncFrame -> AdvanceCheckpoint)*
               -> ReceiveFinal -> Rehash -> Publish
               -> RemoveCheckpoint -> Acknowledge
    Rehash -> DiscardPartial -> DiscardCheckpoint                       (mismatch)

and `RejectRequest`, `RefuseShortPartial`, `DropQueued`, `ReachEndOfInput` are
the error exits.  The client's order is `Open`, `HashOneBlock`*, `Connect` (or
`RefuseChangedSource`), `ReceiveStatus`, `SendFrame`* (or `AbandonShortSource`),
`SendFinal`, `ReceiveAck`; `ReceiveEnd` is the exit for an error record or a
closed connection.  `_atomic_write_json` is one step because a crash inside it
leaves the old file; `OlderCheckpoints` gives what a power loss may undo of it.

Abstractions.  SHA-256 is injective: a digest is the content it was computed
from.  The ticket HMAC is the tuple of the fields it covers.  File names are
left out because all clients send to one destination name, the interesting case.
Frame bytes are small numbers.  A connection the client has left is noticed by
the server when it has consumed what was sent.

### State of `KrpTransfer` and the code

The protocol is that of v0.4 and the actions have the same names, so this module
keeps what v0.4 takes for granted and simplifies the rest: opening and hashing
the source is one step (`Hash`), raw writes are complete, one server `Main`
serves one connection at a time (`hconn, hpc, start, nxt, cur`), and the local
variables of its handler are therefore not indexed by the connection.

* Connection `n` has session key `n` and nonce base `n`.  `Binding` is everything
  an AES-GCM frame is bound to (transfer key, nonce, associated data) and
  `FrameLayout` the permutation under its context.  `Acceptable` asks both ends
  for the same binding and restores the cells with the layout the server
  derives; a frame that is refused would be an `InvalidTag` in the code.
  `RoundTable` stands for the HMAC of the Feistel rounds, and `KrpRounds` assumes
  of it what the code takes of an HMAC: a number for every right half.
* A sender whose source is shorter than it was, or whose layout meets the limit
  of the cycle walk (`Found`, part of `Sealable`), gives up (`AbandonFrame`); the
  code raises in both cases.
* `dir` are the names every process sees, `journal` those a power loss leaves.
  `WriteBack` brings `journal` up to date, as a file system does that writes
  names back in order; `PowerLoss` returns to it.  The code fsyncs files and
  never directories.
* `held, spc, mine, drawn, text, stored` follow `_load_or_create_server_secret` in
  `Main` and in the other servers of the same state directory: find, read or refuse,
  draw and create with `O_EXCL`, lose the race, write, fsync.  What is written
  (`text`) can be read by every server at once, and survives a power loss for
  certain only when the fsync has returned (`stored`); before that, a power loss
  keeps or drops it.  A crash between creation and write leaves a name without a
  secret that every later start refuses.  A write or an fsync that fails unlinks
  the name (`FailSecret`), whoever has read the secret in the meantime.  `close`
  after an fsync that returned is taken to succeed, the one write of 32 bytes to
  store all of them or none, and a failed fsync to have stored nothing.
* `triggered` is the one simulated interruption (`_interrupt_once_after_frames`).
* `delivered` is the one history variable: the transfers whose file has been at the
  destination, whether or not the name is still there.  No guard reads it; the
  refinement maps it.

### State of `AtomicFile`, `OneShotTransfer` and the code

Ten functions publish a file in the same way.  `kind[w]` says which one `w` runs:
`Published` (`_pipeline.write`, `json.write`, `csv.write_rows`, `plot.line`),
`Gzipped` (`gzip_file`, which does not fsync), `Created` (`environment.init`, no
second check), `Locked` (`environment.lock`, no check), `Sealed` (`save`,
`decrypt_file`, the image carrier and the v0.3 receiver: raw writes, no second
check).  `Check, MakeTemp, WriteChunk, Flush, Close, Recheck, Replace, Fail` are
the steps of one call in the order of the code; `temps` are the temporary names,
`dest` names whose inode is at the destination, `known[w]` is a history variable:
what `w` saw at the destination when it last looked.  `Kill` and `PowerLoss` end
writers, `ForeignCreate` and `ForeignRemove` are other programs.

`OneShotTransfer` adds the sender (`source, cpc, size, digest`), one connection
per client (`up, down`) and its handler, whose program point is the `pc` of the
client's writer.  A local writer writes its payload (`want`, of which `todo` is
left) in chunks of any length.

### State of `BinaryObject` and the code

`backend` is the class: a file with `os.pread`, a file without it, a buffer, a
stream of the caller.  `number` is what the descriptor number stands for: the
file, nothing, or another file that was opened since (`ReuseNumber`).  `cursor`
is the position, `lock` is `_cursor_lock`, and per thread `pc, op, saved, block,
at, got` are the call and its locals (reset when it returns).  The constructor is
two steps, because the size is taken from the path and not from the descriptor
(`Open`, `Stat`); `close` is two steps because it closes the file before it sets
`_closed`.  A method of the file object itself is atomic, as it is under the
interpreter's lock; a read may be short (`Reads`).  Any operation on a file or
stream may raise while it is open: a sequential one ends its call (`ErrorHere`), a
positioned read goes through the `finally` clause that moves the cursor back
(`ErrorThere`, then `MoveBack`), and `pread` raises without having touched the
cursor (`RaiseDirect`).  A read that raises may have passed part of its bytes
(`Passed`): a stream that returned something else than bytes has moved on.  That
going back to a position `tell` gave succeeds, while the source is open, is taken
for granted.  `expected` is a history variable: where the last `read` or `seek`
left the cursor.

### Pure parts

`PureParts` and `Library` take one task of `Tasks` and compute it in one step.

* `Search`: `linear` and `binary` of `search.py`; a round of the loop of `binary`
  leaves one part of a range, and the function of the range is the loop.
* `Sorting`: `merge` of `sort.py`, rounds over runs of doubling width.  The cursor
  of the left run is a function of the number of items written, that of the right
  run follows from it.  Compared with the stable order: an item stands where as
  many positions come before its own.
* `Algorithms`: `quick` is the loop over a stack of ranges that are partitioned
  from both ends; the tree and the two walks are compared with their definitions.
* `ProtocolValue`: numbers and strings are tokens, lengths and tags are as in the
  code.  A map is a function on its keys, as a dictionary is; the writer sorts
  them.  The recursion of writer and reader goes over the levels that may still be
  entered, `MAX_DEPTH + 1` at the root: the function of a level is made of the one
  below.  `OneForm` says a wire that is accepted is the encoding of what it means.
* `SecureContainer`: bytes, tags and headers are cells, a key or nonce that
  differs makes a cell unreadable; containers and carriers are read after every
  single removal, exchange or doubling of a part.  Deflate is a stream of bytes
  with an end.
* `Registry`: installed distributions as sets of entry points, providers ordered
  by their value.  An entry point written `Plug` is listed as `plug`, and a
  lookup of `plug` does not find it; the list keeps the first of several
  entries, a lookup raises a conflict.  `ListingAgrees` and `LockIsReproducible`
  therefore tell names apart that every package spells in normal form (`Spelled`),
  that none does (`Misspelled`), and that are registered both ways (`SpelledTwice`).
  A manifest is its name, the interface it is
  written for, its two bounds, and whether version and bounds have the form they
  must have.

### State of `Workflow` and the code

`tasks, deps` are `self._tasks`; `remaining, completed, layers` are the locals of
`_layers`, one `PlanLayer` per round of its loop; `level` is the layer `run` is
at, `results` the keys of its dictionary, `status` the outcome of a call or of a
future.  `Call`, `Return`, `Raise` are the branch in the calling thread (no
`parallel`, or a layer of one task); `Submit`, `Take`, `Complete`, `Collect`,
`CollectFailure`, `LeavePool` the branch with `ThreadPoolExecutor`, of which
`Take` and `Complete` are the library's.  Leaving the `with` block waits for
every future and cancels none, so siblings of a failed task still run.  Task
functions may register further tasks; `run` keeps to the layers it planned.

## 3. Runs

`MCResume*.cfg` run on `MCResumableTransfer`, `MCOneShot*.cfg` on
`MCOneShotTransfer`, `MCWorkflow.cfg` on `Workflow`, and the others on the module
of their name.  All say `CHECK_DEADLOCK FALSE`, because a system whose
connections are used up, or whose calls have returned, stops.

| Run | Instance | Checks |
|---|---|---|
| `resume_faults` | one client, sources of 0, 1 and 2 frames (`Boundaries`: empty, exact, two of three bytes), 3 connections, 2 faults, 2 edits, overwrite | `TypeOK`, `PublishedVerified`, `CheckpointDurable`, `ResumableUntilFinished`, `ProgressHasOwner`, `ReceiptMeansPublished`, `ImplementsAbstract` |
| `resume_senders` | two clients, one-frame sources, 3 connections, 2 faults, short raw writes, no overwrite (2.2 million states) | `SequentialInv`, `DestinationKept` |
| `resume_live` | one client, 4 connections, 3 faults, no edits, weak fairness | `AttemptEnds`, `Delivered` |
| `krp_transfer` | one client, two versions of its source, 2 connections, 2 faults, 1 edit, one other server, 2 secrets, the simulated interruption (1.1 million states) | `PublishedVerified`, `CheckpointBacked`, `HonestFramesAccepted`, `TicketsVerify`, `ImplementsAbstract` |
| `one_shot` | one client and one local writer of any kind, each with or without overwrite, 2 faults, 1 edit, other programs (1.1 million states) | `PublishedWhole`, `NoLitter`, `ReceiptMeansPublished`, `KnownFileKept` |
| `binary_object` | two threads on each of the four backends, 3 calls, 1 edit, weak fairness (0.57 million states) | `ReadsOwnBytes`, `CursorKept`, `StreamWhole`, `CallsEnd` |
| `workflow_graphs` | every graph over at most four tasks, in the caller or with 1 or 2 threads, weak fairness | `TypeOK`, `NothingOutlivesRun`, `VerdictIsFirst`, `RefusalIsRight`, `DependenciesFirst`, `RunEnds` |
| `library` | 69 thousand tasks (`MCLibrary`) | `OrdersRight`, `MergeStable`, `LookupsRight`, `ProtocolCanonical`, `LayoutReversible`, `CarrierRestores`, `RegistryConsistent` |
| `resume_lost_ack` | violation | `IdleTicketResumable` |
| `resume_two_handlers` | violation | `PublishedVerified` |
| `one_shot_short_write` | violation | `PublishedFileVerified` |
| `krp_secret` | violation, the instance of `krp_transfer` | `StateSurvivesRestart` |

Bounds.  `FrameSize = 2` with contents of up to three bytes gives a full frame,
a short last frame, a source of exactly one frame and an empty one: every branch
of the frame arithmetic.  `HashBlock = 2` makes an edit possible in the middle
of the digest.  Three connections and two faults allow: interrupted, resumed,
interrupted again, resumed; a handler still draining while its client retries;
a server crash followed by a power loss.  Faults at every point are enumerated,
so two of them reach every pair of program points.  A third connection is also
the first that can see the effect of two predecessors.  Two edits let a source
change and change back.

Four names give every shape of dependency a layer can have (chains, forks,
joins, diamonds, cycles behind a runnable prefix, names never registered) and
two threads a queue that is longer than the pool.

`krp_transfer`: two connections make one resumption, where key, nonce, ticket and
frame numbers of two sessions meet; blocks of one byte with a tag of one byte give
the two frames three and two blocks to permute.  Two servers are enough for every
race for the secret, since the third finds what the first two left, and two
secrets let each of them draw one, or one of them be drawn after the first was
lost.  Two faults allow a crash and the power loss after it, or a failed fsync and
the restart that shows what it took.  The run takes states as one that differ only
in what nobody reads any more (`Readable`): the variables of a call or handler that has
ended, messages whose receiver has left, the text of a secret file without a name;
no guard and no property looks at these.  `one_shot`: a second writer races at every step of the first, and a
third adds nothing that another program's file (`Foreign`) does not show.  A
payload of two bytes has a proper prefix.  `binary_object`: two threads, and a
third call that closes the object or moves the cursor while the other two are in
the middle; offsets 0 and 3 of sources of three and four bytes give a full read, one that
is cut by the end and one at the end.  `library`: all sequences of up to four keys of three for the
sorts, every eight-element pattern of two keys, all permutations of six, and
inputs that divide badly; every table of round values for up to four blocks and
samples for up to 17; values three deep with limits on both sides of their size;
all wires of up to four tokens, and longer ones one token away from a valid
form; all pairs of installations of up to two entry points.

Properties in words:

* `PublishedVerified` — the destination is byte for byte what its sender
  announced, and on stable storage.
* `CheckpointDurable` — a checkpoint never covers bytes a power loss could take.
* `ResumableUntilFinished` — a stored ticket is honoured until its transfer was
  published or discarded, whatever crashed in between.
* `ProgressHasOwner` — checkpointed frames belong to a client that can go on.
* `ReceiptMeansPublished` — a receipt implies that exactly the hashed content
  was published before.
* `DestinationKept` — a published file is not modified in place and not replaced
  without `overwrite`.
* `ImplementsAbstract` — refinement of `AbstractTransfer!Spec`: offers are the
  digests announced, deliveries the digests published, the place is the file at
  the destination, receipts are those of finished calls.
* `ImplementsAbstract` (v0.5) — refinement of `AbstractDelivery!DeliverySpec`:
  `stable` is the file the journal has at the destination.  A receipt does not mean
  that the name survives a power loss: the code does not fsync the directory after
  `os.replace`, so `LoseName` is a step of the abstract specification, and only of
  that one.
* `AttemptEnds`, `Delivered` — every call ends; a client that keeps calling gets
  its file across.
* `IdleTicketResumable` — the documented promise that an interrupted transfer
  can be continued; it does not hold (below).
* `CheckpointBacked` — v0.5, also after a power loss that takes back names: a
  checkpoint covers durable bytes, and those the sender announced.
* `HonestFramesAccepted` — both ends derive the same key, nonce, associated data
  and layout for every frame, on resumed connections too.
* `TicketsVerify` — of a secret whose fsync has returned (`Settled`): every server
  that holds it holds what is on disk, and a ticket made with it stays valid as
  long as its transfer has a checkpoint, whatever fails, crashes or loses power
  afterwards.  A server that reads the file of another one before the fsync holds a
  secret of which this cannot be said:
* `StateSurvivesRestart` — what the name of a test says for every ticket: a client
  is not refused for its ticket where checkpoint and partial file are there.  It
  does not hold (below).
* `PublishedWhole` — the file at the destination has every byte of what its writer
  was to write: on stable storage, and whatever fails, for every writer that syncs;
  until power is lost for `gzip_file`, the one that does not.  What a power loss
  leaves of that file is not claimed to be anything: no property covers it.
* `NoLitter` — a temporary file is left by a killed writer only.
* `KnownFileKept` — without `overwrite`, a writer does not replace a file that was
  there when it last looked.  A file that appears after the last check is replaced:
  the check and the rename are two calls.
* `ReceiptMeansPublished` (v0.3) — who gets a receipt has published what it hashed.
* `ReadsOwnBytes` — a positioned read returns the bytes at its offset, whatever
  the other threads do; stated while the descriptor number still belongs to the
  object, because `close` does not wait for a read.
* `CursorKept` — while the source is open, only `read` and `seek` move the cursor: a
  positioned read puts it back whether it returns or raises.
* `StreamWhole` — a stream that ends by itself has yielded every byte once, and
  never more than the recorded size.
* `CallsEnd` — no error leaves the cursor locked.
* `LayoutReversible` — every block finds a target of its own, unless more indices
  are spare than a walk may visit, and restoring undoes permuting.
* `RegistryConsistent` — what a lookup finds is listed, once, and nothing takes over
  a bundled name.  Of a name that every package spells in normal form, what is
  listed, described and locked is one provider, or the lookup reports that several
  compete.  A name that none spells so is listed, locked and found by no lookup.  A
  provider that loads and verifies where the lockfile holds is the locked one, unless
  the name is registered in both ways.
* `MergeStable` — the merge sort orders by key and keeps the order of equal keys, in
  both directions.
* `OrdersRight`, `LookupsRight`, `ProtocolCanonical`, `CarrierRestores` — the other
  pure parts against definitions.
* `DependenciesFirst`, `NothingOutlivesRun` — a task starts after what it depends
  on, and none is alive when `run` returns or raises.
* `VerdictIsFirst` — the result is complete, or the exception is that of the
  first failed name, whatever order the threads finished in.
* `RefusalIsRight` — graphs are refused before anything runs, exactly the ones
  with a cycle or an unknown name (against a definition of a cycle by sets).
* `RunEnds` — a flow whose task functions end, ends.

Fairness.  In `BinaryObject`, a thread inside a method goes on; nobody has to
call one, and whoever holds the cursor's lock is such a thread.  In `Workflow`,
`run` takes every step it can and task functions end;
that they do is the caller's part.  In `ResumableTransfer`, `FairSpec` assumes weak fairness of each client's own steps and of
each connection's handler.  The code is sequential on both sides, blocking
socket calls carry a timeout and a closed peer raises, so an enabled step is
eventually taken; `serve_once` is called in a loop.  That a client calls again
after a failure (`Open` is part of `ClientStep`) is the user's assumption, not
the code's, and only `Delivered` depends on it.  No fairness is assumed of
faults.  `MaxFaults < MaxAttempts` leaves one attempt without a fault.

### What the violation runs show

* `resume_lost_ack`: the server renames the file, unlinks its checkpoint and
  then acknowledges.  The run ends the handler by one fault between the rename and
  the unlink: the client raises and keeps its state file, the checkpoint is still
  there, the partial file is not.  Each later call sends RESUME and is refused with
  "resumable partial file is missing"; when the fault comes after the unlink, or
  only the acknowledgement is lost, with "no resumable server state exists for
  transfer".  The file has arrived, but the call cannot succeed until the state
  file is removed by hand.
* `one_shot_short_write`: the v0.3 receiver drops the count returned by the raw
  `write`, hashes the plaintext in memory and never reads the file again.  After a short write the
  digests agree, and the damaged file is renamed into place and acknowledged.
  `decrypt_file` has the same sequence.
* `resume_two_handlers`: with `serve_once` called from two threads, the handler
  of a retried call can truncate the partial file between the re-hash and the
  rename of the first one, and the truncated file is published.  The reference
  server is single-threaded, where it cannot happen: that is what is proved.
* `krp_secret`: the bytes of a new secret are readable under their final name before
  they are fsynced, and the name is unlinked when the fsync fails.  The run has
  `Main` read the secret in between, admit a transfer and give its client a ticket;
  `Main` is killed, finds no secret when it starts again and creates another; the
  client, whose checkpoint and partial file are in place, is refused with "invalid
  UBIN resume ticket".  `resume.py` has the same function.  A secret that was
  fsynced has no such end: that is `TicketsVerify`.

Two more things the model allows and no run is about, because a passing property
states where they end.  The v0.4 receiver ignores the count of its raw `write`
(`resume.py:812`), so that a short write is followed by a checkpoint over bytes that
do not exist, against `SPEC.md:15` ("Resume checkpoints represent only
authenticated, durable progress."): with `ShortWrites = TRUE`, `CheckpointDurable`
fails.  `resume_senders` runs with short writes and shows that the damage stops at
the re-hash; the file is discarded, never published.  And where one package
registers `Plug` and another `plug`, the lockfile names the first, `sync` accepts
it, and the second is what loads (`_capabilities.py:147` and `173`):
`RegistryConsistent` says that this takes both spellings of the name.

## 4. Proofs

Every theorem is for arbitrary constants that satisfy the assumptions of its
module (`ConstantsAssumption`, `KrpConstants` and `KrpRounds`, `WritersAssumption`
and `OneShotAssumption`, `ObjectAssumption`, `NamesAssumption`): any clients,
contents, frame and block sizes, and bounds on connections, faults, edits and
calls.  Those of `PureParts` say what the arguments of a task can be:
`LayoutArguments` (the HMAC has a value for every half; the number of blocks is
any), `ContainerArguments` and `CarrierArguments` (contents are sequences of
numbers, sizes are positive, and the HMAC has a value for every half), `RegistryArguments` (finitely many entry points),
`SearchArguments` and `ProtocolArguments` (items have a key, what is written is a
value, what is read is a sequence of tokens), `RegistryNames` (a name
that is valid is its own normal form, strings are ordered) and `RegistryErrors`
(an error is no entry point and no description).

The v0.4 transfer:

* `FrameCountBounds`, `ExpectedBytesStep`, `FrameNumberOfOffset`: the arithmetic
  that both sides rely on; the frame number a sender derives from its offset is
  the one the server expects.
* `TypeCorrect == Spec => []TypeOK`.  `TypeOK` is not inductive: that the
  message a client takes from `down[conn[c]]` has a header to compare with, and
  that a handler writes through a descriptor it has, are the four conjuncts of
  `Connected`.  `TypeInv == TypeOK /\ Connected` is.
* `PublicationSafe`, `DestinationSafe`, `SequentialSafe` assume `~Concurrent`.
  `PublishedVerified` is preserved by the rename only if the bytes that were
  hashed are still there and are the ones announced by the transfer the inode
  belongs to.  `SequentialInv` says why: at most one handler is active
  (`OneHandler`), an inode has one name at most and belongs to a transfer that
  was started (`NamesDisjoint`), checkpoints and admitted handlers agree with
  the header that started the transfer (`DigestsAgree`), what a handler wrote,
  synced and hashed is still what it sees (`HandlerOwnsPartial`), and the
  destination that was free at admission still is (`RoomForOne`).  The proof has
  one lemma per conjunct, with a case per action that can disturb it, one for
  the faults, and needs no assumption on short writes.  `resume_two_handlers`
  shows that `~Concurrent` cannot be dropped.
* `ReceiptsAreTrue` (`ReceiptMeansPublished`) and `TransferRefines`
  (`ImplementsAbstract`) assume `~Concurrent`.  `DeliveryInv` follows a digest
  from the client that hashed it through its header, the published file and the
  acknowledgement back to the client; `PublishedStays` adds that a published
  inode has no partial name and is out of reach of every later handler.
  `AbstractStep` maps each step: `Connect` offers, `Publish` delivers,
  `ReceiveAck` is the receipt, everything else stutters.
* `CheckpointsAreDurable` (`CheckpointDurable`), `TicketsAreHonoured`
  (`ResumableUntilFinished`) and `ProgressIsOwned` (`ProgressHasOwner`) assume
  `~ShortWrites` as well, and cannot do without: a checkpoint advances by what was
  to be written (`resume.py:812`).  `DurableInv` keeps four things in step: the frames on their way, the
  bytes of the partial file, the part of them that is durable, and the
  checkpoint.  `TicketInv` says that a stored ticket, a status on its way and a
  running handler all keep the checkpoint and the partial file they need.
  `OwnerInv` adds who owns what was written: the handler that writes, the sender
  that is still connected, or the client that has stored the ticket.

The v0.5 transfer (`KrpProofs`), for any number of clients and servers and any
faults, from `KrpConstants` alone:

* `PublishedStaysVerified` (`PublishedVerified`).  A power loss returns to
  `journal`, so what is true of the names has to be true of both states of the
  directories: `NamesTrue(dir)` and `NamesTrue(journal)`.  A name stands for a
  transfer that has begun (`Begun`), its checkpoint carries the digest announced,
  and a published inode is verified, synced and not a partial file in either
  state.  A handler touches partial files only, and a new transfer takes a name
  that has not begun, so it reaches no published inode (`OutOfReach`); `Serving`
  is what the handler has verified of its own.
* `TicketsStand` (`TicketsVerify`).  That the secret is settled is a premise of the
  property, as `krp_secret` shows it has to be, and no invariant as it stands: a
  server may hold a secret that settles later.  So the invariant is about secrets
  that are `Alive`, settled or still in the hands of a creator that may sync them;
  one that is not alive never settles again.  `SecretsTrue`: a file that was synced
  reads as it was (`SecretFiles`), what a server holds is on disk if it is alive
  (`SecretsHeld`), and a creator is the only one and nothing of its file has settled
  (`SecretMakers`), so that the name it unlinks is its own.  `Granted`: a ticket was
  made with a secret that, if alive, is on every disk where its transfer has a
  checkpoint, and no first checkpoint of that transfer is still to come; this holds
  of tickets in state files, in requests and in statuses on their way
  (`TicketsTrue`), and `HandlerTickets` carries it through the handler that makes
  one.
* `HonestFramesStand` (`HonestFramesAccepted`).  `FramesInv` says what the two ends
  have in common although neither sees the other: nothing is on the wire before
  the status (`Silent`), the frames on it are numbered on from what the server
  expects (`QueueTrue`), the status carries the checkpoint the server stands at
  (`StatusTrue`), the client's offset is that of its frame (`SourcesTrue`), and a
  connection has one client (`Talks`, `ClientsApart`).  The binding then agrees
  field by field, and the layouts do because both are computed from it; that the
  cells come back as they were sealed is `PermutationReversible` below.
* `CheckpointsStand` (`CheckpointBacked`).  `BackedInv`: in `dir` and in `journal`,
  what is durable of a partial file reaches at least to its checkpoint and is
  what was announced, unless a source was edited.  A handler writes at the end of
  the file, past every checkpoint, it syncs before it moves one, and a checkpoint
  in `journal` is never ahead of the one in `dir`.
* `KrpRefines` (`ImplementsAbstract`).  `DeliveryInv` adds to `VerifiedInv` that the
  digest a call hashed is the one in its header (`Announced`), that the place was
  free or may be replaced from admission to the rename, that a handler past the
  rename has delivered (`Publishing`), and that every acknowledgement on its way is
  for a delivered transfer and its digest (`AcksTrue`).  `VisibleStep` maps each
  step: `Connect` offers, `Publish` delivers, `ReceiveAck` is the receipt, `Hash`
  gives it up, `WriteBack` settles, `PowerLoss` loses the name, everything else
  stutters.  A file that is at the destination in either state of the names does
  not change (`PublishedStays`), so the place changes with the name alone.

The layout of blocks (`FormatProofs`), for every number and size of blocks and
every family of round values:

* `LayoutOneToOne`: the Feistel network permutes its indices, because each round
  can be read backwards (`Xor` with the same value is its own inverse), and a
  walk from one block cannot meet a walk from another: going back from where they
  met, one would have to pass through the start of the other, which is a block
  and would have ended it.
* `LayoutFound`: a walk visits every index at most once, so it ends within the
  limit when fewer indices than that are spare.  With more, the code may raise
  (`_permuted_index` allows 128 steps), and nothing is claimed.
* `RestoreUndoesPermute`, `PermutationReversible` for buffers;
  `RestoreFileUndoesPermute`, `FileLaidOutAsBuffer` for `permute_file` and
  `restore_file`, which copy block by block with positioned reads and writes: a
  block lands whole at its place, a later one does not touch it
  (`CopiedHolds`), and buffers and files are laid out alike.
* The library's induction theorems take an operator and cannot be used, so the
  inductions on rounds, steps and blocks go by the least number that fails.

The pure parts (`LibraryProofs`), for every set of tasks:

* `LayoutsStand` (`LayoutReversible`) puts the above together.
* `CarriersStand` (`CarrierRestores`) puts together two theorems that need no
  task.  `ContainersRestored` follows from `ContainersUnmixed`: of any set of
  containers with ids of their own (`Identified`), `decrypt_file` accepts no
  mixture of their cells.  The header that is read first decides everything: the
  frames are bound to it, to their number and their length, and the final record,
  which holds the digest of the plaintext, is bound to it as well (`SealsOnly`),
  so an accepted file is determined cell by cell.  This is where the ideal AEAD
  is used.
* `ImagesRestored`: the encoder keeps `Gathered` from row to row, that the
  data chunks written so far followed by what is pending are the filtered rows
  up to there, for every chunk limit, width and size; so decoding gives the
  pixels back, and the payload is cut out of them where its header says.  A wrong
  passphrase is a wrong key for every frame whatever its layout does.  In an
  image that was disturbed there is still one carrier header at most, so it
  announces the same payload, and what is restored from it is a rearrangement of
  cells of one container, which is that container or refused.  Nothing is claimed
  of an image that cannot be made because a walk meets its limit; a reader that
  meets it refuses.  The layouts are one to one by `LayoutOneToOne`.
* `RegistryStands` (`RegistryConsistent`): there is a first entry point of every
  listed name, because names and providers are ordered and finitely many; a name
  is listed once; what is described is then what is resolved, case by case, and a
  match of a name in normal form is one of the entries the list chose from.  A name
  that nobody spells so has no match at all, so what was verified was spelled by
  somebody; that nobody else spells it otherwise is then what is left to assume.
* `SearchesStand` (`LookupsRight`), for items of any length and any range: a round
  of the binary search keeps what is looked for within the range (`Halve`), by the
  order of the items, and a range is found right if every shorter one is; so none
  is found wrong, because of such ranges there would be a shortest.
* `SortsStand` (`MergeStable`), for any items and both directions: `Arranges` names
  the position in the original sequence of every place of the array.  A run keeps
  the positions it started from (`RunAt`), so of two neighbouring runs the left has
  the earlier ones, and taking the left item unless the right one strictly precedes
  it orders the pair by key and then position (`PairMerges`).  A round doubles the
  runs (`RoundMerges`), the last short one included; after as many rounds as there
  are items one run is left (`SortEndsInOneRun`), and in it the positions that come
  before a place are as many as the places before it (`PlaceIsRank`).
* `ProtocolStands` (`ProtocolCanonical`), for any value, nested as deep as it may
  be, any wire and any limits.  What Python hands over is assumed to be a value
  (`IsValue`): its lists and maps are finite and its tokens are numbers.  Both
  directions are in `ProtocolProofs` and go by level, from the deepest values up:
  * `ReadIsWritten`: each value that was read is written as the tokens it was read
    from (`ReadsWell`, `FormsAreRead`).  The parts of a list or a map lie side by
    side on the wire (`Stretch`), and the keys of a map ascended there, so sorting
    finds them in the same order (`SortedIs`): there is one ascending sequence of
    the same keys (`AscendingUnique`).  The reader refuses equal keys, without
    which two wires would give one map.
  * `ValueReadsBack`: where the form of a value stands in a wire, the reader
    returns that value and moves behind the form, or refuses because the limit of
    values is met (`Expected`, `EveryLevel`).  The reader checks a count against
    what is left of the limit before it reads the parts; this refuses nothing it
    would have accepted, because every part counts one value and every entry of a
    map two (`Fewest`).  A value is written exactly when no level of it holds
    anything unsuited and there is no level too many (`WhenWritten`).

The writers of one name and the v0.3 transfer (`OneShotProofs`), for any number
and mixture of writers:

* `FileStep` says what any step of the system does to the directory; all file
  arguments start from it instead of from 30 actions.
* `TemporariesGo` (`NoLitter`) and `KnownFilesStay` (`KnownFileKept`) rest on
  `DirectoryInv` and `KnownInv`: a writer past its check knows a file it must not
  replace only if it may overwrite.  They need no assumption.
* `OneShotPublishesWhole` and `OneShotReceipts` assume `~ShortWrites`.
  `ContentInv` relates what a writer believes it wrote to the file, `ClientInv`
  what the client hashed to the messages on their way and to what the handler
  has, `LocalInv` the payload to what is left of it.  `one_shot_short_write` shows
  that the assumption cannot be dropped.

A shared object (`BinaryObjectProofs`), for any number of threads:

* `CursorStays`: between calls the cursor is the expected one because a thread
  that moved it away holds the lock and remembers where to put it, also while its
  read is failing (`CursorInv`).
* `ReadsAreExact`, `StreamsAreWhole`: what a thread has read is a prefix of what
  stands at its offset as long as nobody changed the source, whatever short reads
  did (`ThreadsOk`, which is `ReadOk`, `StreamOk` and `BlockOk` of every thread).

Flows, for every set of names, graph and pool size: `FlowTypeCorrect`,
`PoolIsDrained` and `InputsAreReady` state `TypeOK`, `NothingOutlivesRun` and
`DependenciesFirst` of `Workflow`.  The invariant is `FlowInv`: a layer depends on
earlier layers only (`PlanInv`), and the results of all earlier layers are in
while a layer runs (`RunInv`).  `RefusalsAreRight` (`RefusalIsRight`) adds
`CycleInv`: the names that have a layer contain the dependencies of
each, and no cycle.  A round of the layering keeps it, because a cycle through
the new layer would lie in it and its members depend on earlier layers only; the
round that finds nothing to run has found a cycle.  `VerdictsAreFirst`
(`VerdictIsFirst`) adds `BlameInv`: whoever runs, waits or has failed is in the
current layer, and `run` leaves with the first failed name of that layer.

Only model-checked: `OrdersRight` of `Library` (quicksort, the tree and the walks,
written with recursive operators), and `AttemptEnds`, `Delivered`, `RunEnds`,
`CallsEnd` (liveness under fairness is out of reach of the prover).

## 5. Not modelled

* Header, status and state-file parsing, file-name validation, permissions, error
  texts.
* The session's hello messages, X25519 and HKDF, TLS and AES-GCM: a message is
  delivered as sent or the connection ends; keys are compared, not computed.
  SHA-256 is injective, HMAC and AEAD are ideal, deflate is external.
* `ResumableTransfer` takes names as durable once made and the server secret as
  given; `KrpTransfer` models both, with the same code in v0.5.
* Errors of single file operations that leave a process running end the handler
  (`HandlerAbort`, `Fail`) between two actions.
* `BinaryObject`: `tell`, type detection, the normalisation of unusual buffers, and
  a caller who uses a stream directly while it is wrapped.
* `catalog.py`, `providers.py`, `permissions.py`, `diagnostics.py`, `__init__.py`:
  tables, reports and re-exports without state.  Of manifests, the
  patterns of names and versions: whether they match is part of the input.
* Stack, queue, heap and linked list of `ds.py`, `data.py`: a line or two around
  Python's containers per method.
* `cli.py`, `demo.py`, `devcert.py`, `run.py` and the other wrappers: argument
  parsing and calls of what is modelled.

## 6. Plan

What is left, most useful first:

1. `Algorithms` with recursive functions for recursive operators, so that
   quicksort, the tree and the walks can be proved about, as `Sorting` is.
2. The hello messages of `session.py` as a module of their own.
3. The parsers of headers, requests and state files against what their writers
   produce.
