------------------------------ MODULE Registry ------------------------------
(***************************************************************************)
(* Capabilities, their providers and the lockfile of a project:            *)
(* _capabilities.py, runtime.py, sdk.py, environment.lock and             *)
(* environment.sync.                                                       *)
(*                                                                         *)
(* An installation is a set of entry points [name, provider, manifest].    *)
(* The names of entry points are as their packages wrote them; Normal maps *)
(* a name to its stripped lower-case form, and ValidNames are the forms    *)
(* that _NAME_RE matches.                                                  *)
(***************************************************************************)
EXTENDS Naturals, FiniteSets, Sequences

CONSTANTS
    Builtins,    \* names bundled with UBIN
    ValidNames,
    Normal,      \* function on all names in use
    UbinVersion, \* ubin.__version__, as a number
    ApiVersion,  \* the api_version a manifest must have
    Order,       \* rank of a name or a provider among the strings
    NotFound,
    Conflict

\* A name that matches _NAME_RE is in normal form, and strings are ordered.
ASSUME RegistryNames ==
    /\ \A n \in DOMAIN Normal : Normal[n] \in DOMAIN Normal /\ Normal[Normal[n]] = Normal[n]
    /\ ValidNames \subseteq DOMAIN Normal /\ \A n \in ValidNames : Normal[n] = n
    /\ Builtins \subseteq ValidNames /\ IsFiniteSet(Builtins)
    /\ DOMAIN Normal \subseteq DOMAIN Order /\ Order \in [DOMAIN Order -> Nat]
    /\ \A x, y \in DOMAIN Order : Order[x] = Order[y] => x = y

\* What is installed: entry points as importlib.metadata lists them.
Installation(installed) ==
    /\ IsFiniteSet(installed) /\ NotFound \notin installed /\ Conflict \notin installed
    /\ \A e \in installed :
           /\ e = [name |-> e.name, provider |-> e.provider, manifest |-> e.manifest]
           /\ e.name \in DOMAIN Normal /\ e.provider \in DOMAIN Order

\* The two errors are told apart from what is found.
ASSUME RegistryErrors ==
    /\ NotFound # Conflict
    /\ \A x \in {NotFound, Conflict} :
           /\ x \notin [name : DOMAIN Normal, kind : {"builtin", "plugin"}, provider : DOMAIN Order]
           /\ x \notin [name : DOMAIN Normal, ok : BOOLEAN]

Valid(name)   == Normal[name] \in ValidNames
Builtin(name) == [name |-> name, kind |-> "builtin", provider |-> name]
Plugin(name, e) == [name |-> name, kind |-> "plugin", provider |-> e.provider]

\* The order of sorted(): by name as it was written, then by provider.
Precedes(e, d) == Order[e.name] < Order[d.name]
                  \/ (e.name = d.name /\ Order[e.provider] <= Order[d.provider])

\* list_capabilities: what is bundled, and of the entry points of one name,
\* once it is normalised, the first.
List(installed) ==
    LET plugins == {e \in installed : Valid(e.name) /\ Normal[e.name] \notin Builtins}
        first(n) == CHOOSE e \in plugins : /\ Normal[e.name] = n
                        /\ \A d \in plugins : Normal[d.name] = n => Precedes(e, d)
    IN {Builtin(n) : n \in Builtins}
       \cup {Plugin(n, first(n)) : n \in {Normal[e.name] : e \in plugins}}

Listed(installed) == {c.name : c \in List(installed)}
Entry(installed, name) == CHOOSE c \in List(installed) : c.name = name

\* What metadata.entry_points(name = ...) finds: names are compared as they
\* were written.
Matches(installed, name) == {e \in installed : e.name = name}

\* What a name stands for: what is bundled, else the only match, else an error.
Resolve(installed, name) ==
    LET n       == Normal[name]
        matches == Matches(installed, n)
    IN CASE ~Valid(name)                   -> NotFound
         [] Valid(name) /\ n \in Builtins -> Builtin(n)
         [] OTHER -> CASE Cardinality(matches) = 0 -> NotFound
                       [] Cardinality(matches) = 1 -> CHOOSE e \in matches : TRUE
                       [] OTHER -> Conflict

\* get_capability_info describes it, load_capability yields it.
Info(installed, name) ==
    LET found == Resolve(installed, name)
    IN IF found \in installed THEN Plugin(Normal[name], found) ELSE found
Load(installed, name) == Resolve(installed, name)

\* CapabilityManifest.validate and supports: m.formed says that the version and
\* both bounds have the form of versions, m.api is the number of the interface.
ManifestIsValid(m) ==
    m.name \in ValidNames /\ m.formed /\ m.api = ApiVersion /\ m.low < m.high
Supports(m, version) == m.low <= version /\ version < m.high

\* Runtime.verify: is the capability usable?  A provider is only loaded, and
\* its manifest only looked at, on request; an unknown name raises.
Verify(installed, name, loadProvider) ==
    LET info     == Info(installed, name)
        manifest == Load(installed, name).manifest
    IN IF info \in {NotFound, Conflict} THEN info
       ELSE [name |-> info.name,
             ok |-> \/ info.kind = "builtin" \/ ~loadProvider
                    \/ /\ manifest # NotFound /\ ManifestIsValid(manifest)
                       /\ manifest.name = info.name /\ Supports(manifest, UbinVersion)]
-----------------------------------------------------------------------------
(* environment.sync.                                                       *)

\* The lockfile: the provider of every name the project asks for, or an error
\* that lists the names that are missing.
LockFails(installed, requested) == ~(requested \subseteq Listed(installed))
Lock(installed, requested) ==
    [n \in requested |-> Entry(installed, n).provider]

\* Mutant: providers are not compared.
SyncByName(lock, installed) ==
    [missing |-> DOMAIN lock \ Listed(installed), changed |-> {}]
Sync(lock, installed) ==
    [missing |-> DOMAIN lock \ Listed(installed),
     changed |-> {n \in DOMAIN lock \cap Listed(installed) :
                      lock[n] # Entry(installed, n).provider}]
SyncOk(lock, installed) == Sync(lock, installed) = [missing |-> {}, changed |-> {}]
-----------------------------------------------------------------------------
(* What a name means, to the list, to a lookup and to the lockfile.        *)

Provided(x) == x \notin {NotFound, Conflict}

\* Who registers n: packages that write it in normal form, packages that do
\* not, or both.
Spelled(installed, n) == \A e \in installed : Normal[e.name] = n => e.name = n
Misspelled(installed, n) == n \notin Builtins /\ \A e \in installed : e.name # n
SpelledTwice(installed, n) == ~Spelled(installed, n) /\ ~Misspelled(installed, n)

\* Names are listed once, bundled ones cannot be taken over, and what a lookup
\* finds is listed.  What is listed is found as it is listed, or refused because
\* several packages claim it, if all of them spell its name in normal form; if
\* none of them does, no lookup finds it.
ListingAgrees(installed) ==
    /\ Cardinality(List(installed)) = Cardinality(Listed(installed))
    /\ \A n \in Builtins : Entry(installed, n) = Info(installed, n)
    /\ \A name \in DOMAIN Normal :
           Provided(Info(installed, name)) => Normal[name] \in Listed(installed)
    /\ \A n \in Listed(installed) :
           /\ Spelled(installed, n) => Info(installed, n) \in {Entry(installed, n), Conflict}
           /\ Misspelled(installed, n) => Info(installed, n) = NotFound

Verified(installed, n) ==
    LET v == Verify(installed, n, TRUE) IN Provided(v) /\ v.ok

\* A lockfile holds in the installation it was made in.  Where it holds, later
\* or elsewhere, a name that packages spell in normal form is described with the
\* provider it was locked with, or refused as a conflict; and a provider that is
\* loaded and verified is the one that was locked, unless the name is registered
\* in its normal form and in another.
LockIsReproducible(installed, later, requested) ==
    ~LockFails(installed, requested) =>
        LET lock == Lock(installed, requested) IN
        /\ SyncOk(lock, installed)
        /\ SyncOk(lock, later) =>
               \A n \in requested :
                   /\ Spelled(later, n) =>
                          Info(later, n) = Conflict \/ Info(later, n).provider = lock[n]
                   /\ Verified(later, n) =>
                          Load(later, n).provider = lock[n] \/ SpelledTwice(later, n)
=============================================================================
