----------------------------- MODULE PureParts -----------------------------
(***************************************************************************)
(* The parts of UBIN that compute and keep no state: every behaviour takes *)
(* one task, an algorithm of the package with its arguments, and finishes  *)
(* it; the properties compare the results with the definitions that stand  *)
(* beside the algorithm.  Library adds what recurses over data.            *)
(***************************************************************************)
EXTENDS SecureContainer, Registry, Sorting, ProtocolValue

CONSTANTS
    Tasks     \* per algorithm a set of records: a field name, and the arguments

VARIABLES
    task,
    finished,
    layout     \* what the task has computed of krp.py: targets, or per passphrase
               \* and number of blocks the targets

vars == <<task, finished, layout>>

\* The arguments krp.py is called with: any number of blocks, and a round value
\* for every half.
ASSUME LayoutArguments ==
    \A a \in DOMAIN Tasks : \A t \in Tasks[a] :
        t.name = "layout" =>
            /\ t.count \in Nat /\ t.bs \in Nat \ {0} /\ t.tail \in 0 .. t.bs - 1
            /\ t.count > 1 => RoundValues(t.f, HalfBits(t.count))

\* What a container is made of.
ASSUME ContainerArguments ==
    \A a \in DOMAIN Tasks : \A t \in Tasks[a] :
        t.name = "container" =>
            t.bytes \in Seq(Nat) /\ t.other \in Seq(Nat) /\ t.frame \in Nat \ {0}

\* What an image is made of; both passphrases have round values for any number
\* of blocks that a container can make.
MostBlocks(t) == 2 * FrameCount(Len(t.bytes), t.frame) + 3
ASSUME CarrierArguments ==
    \A a \in DOMAIN Tasks : \A t \in Tasks[a] :
        t.name = "carrier" =>
            /\ t.bytes \in Seq(Nat) /\ {t.frame, t.bs, t.width} \subseteq Nat \ {0}
            /\ \A pass \in {"right", "wrong"}, n \in 2 .. MostBlocks(t) :
                   RoundValues(t.rounds[pass][n], HalfBits(n))

\* What is sorted, and which way.
ASSUME SortArguments ==
    \A a \in DOMAIN Tasks : \A t \in Tasks[a] :
        t.name = "sort" => t.items \in Seq(Int \X Nat) /\ t.reverse \in BOOLEAN

\* What is searched, and what for.
ASSUME SearchArguments ==
    \A a \in DOMAIN Tasks : \A t \in Tasks[a] :
        t.name = "search" => t.items \in Seq(Int \X Nat) /\ t.target \in Int

\* What is written as a value, and read as one.
ASSUME ProtocolArguments ==
    \A a \in DOMAIN Tasks : \A t \in Tasks[a] :
        /\ t.name = "value" => IsValue(t.value) /\ t.max \in Nat
        /\ t.name = "wire" => t.data \in Seq(Nat) /\ t.max \in Nat

\* What is installed when a registry task runs.
ASSUME RegistryArguments ==
    \A a \in DOMAIN Tasks : \A t \in Tasks[a] :
        t.name = "registry" => Installation(t.installed) /\ Installation(t.later)

\* Every index gets a target below count, no two the same.
OneToOne(count, target) ==
    /\ \A i \in DOMAIN target : target[i] \in 0 .. count - 1
    /\ \A i, j \in DOMAIN target : target[i] = target[j] => i = j

Bytes(n) == [p \in 1 .. n |-> p]

\* A walk may take more steps than the network has indices to spare.
FewSpare(count) ==
    count > 1 => Shift[HalfBits(count)] * Shift[HalfBits(count)] - count < WalkLimit

\* What permute does, restore undoes, of buffers and of files, which are laid
\* out alike; a tail shorter than a block is not moved.
Reversible(raw, bs, target) ==
    /\ RestoreBlocks(PermuteBlocks(raw, bs, target), bs, target) = raw
    /\ RestoreFile(PermuteFile(raw, bs, target), bs, target) = raw
    /\ PermuteFile(raw, bs, target) = PermuteBlocks(raw, bs, target)

\* The layouts of an image, for any number of blocks a container may have.
Layouts(t) == [pass \in {"right", "wrong"} |->
                  [n \in 0 .. MostBlocks(t) |-> Layout(n, t.rounds[pass][n])]]

Init == (\E a \in DOMAIN Tasks : task \in Tasks[a]) /\ finished = FALSE /\ layout = <<>>
Next ==
    /\ ~finished /\ finished' = TRUE
    /\ layout' = CASE task.name = "layout"  -> Layout(task.count, task.f)
                   [] task.name = "carrier" -> Layouts(task)
                   [] OTHER                 -> <<>>
    /\ UNCHANGED task
Spec == Init /\ [][Next]_vars

Done(name) == finished /\ task.name = name
-----------------------------------------------------------------------------
\* krp.py finds targets for all blocks unless more indices are spare than a walk
\* may visit; found targets are all different, and the permutation is undone, of
\* buffers and of files.
LayoutReversible ==
    Done("layout") =>
        /\ FewSpare(task.count) => Found(layout, task.count)
        /\ Found(layout, task.count) =>
               /\ OneToOne(task.count, layout)
               /\ Reversible(Bytes(task.count * task.bs + task.tail), task.bs, layout)

\* container.py and image_carrier.py give back the source or nothing at all.
CarrierRestores ==
    /\ Done("container") => ContainerRestored(task.bytes, task.other, task.frame, "k1", "k2")
    /\ Done("carrier") => ImageRestored(task.bytes, "right", "wrong", layout,
                                        task.frame, task.bs, task.width)

\* sort.merge orders the items, and keeps those of one key in their order.
MergeStable == Done("sort") => MergeSort(task.items, task.reverse) = StableSort(task.items, task.reverse)

\* search.py finds what is there, and what is not there it does not.
LookupsRight == Done("search") => FoundRight(task.items, task.target)

\* protocol.py gives every value one form, reads that form back exactly up to
\* its limits, and accepts no other form.
ProtocolCanonical ==
    /\ Done("value") => ReadsBack(task.value, task.max)
    /\ Done("wire") => OneForm(task.data, task.max)

\* _capabilities.py and environment.py: what a lookup finds is listed; where
\* packages spell the name in normal form, list, lookup and lockfile mean one
\* provider by it, or the lookup refuses to choose; where none of them does, the
\* name is listed and locked and no lookup finds it; and only where some do and
\* others do not, another provider may load than the one that was locked.
RegistryConsistent ==
    Done("registry") =>
        /\ ListingAgrees(task.installed)
        /\ LockIsReproducible(task.installed, task.later, task.requested)
=============================================================================
