------------------------------ MODULE Workflow ------------------------------
(***************************************************************************)
(* The task graph of _workflow.py: tasks are registered with the names     *)
(* they depend on (Flow.task), ordered into layers (Flow._layers) and run  *)
(* layer by layer (Flow.run), in the caller or in a thread pool.           *)
(*                                                                         *)
(* A name is a number: only the order of names matters, by which a layer   *)
(* is sorted.  A task function ends with a value or an exception, and may  *)
(* register further tasks while it runs.  Flow makes no claim for a task   *)
(* registered by another thread during _layers, and none is made here.     *)
(***************************************************************************)
EXTENDS Naturals, Sequences, FiniteSets

CONSTANTS
    Names,       \* what tasks may be called or depend on
    MaxWorkers   \* bound: the largest max_workers a caller passes

ASSUME NamesAssumption == Names \subseteq Nat /\ MaxWorkers \in Nat

VARIABLES
    tasks,      \* names registered in self._tasks
    deps,       \* deps[t]: depends_on of a registered task, {} for others
    phase,      \* where run stands
    workers,    \* size of the thread pool; 0 for parallel=False
    remaining,  \* _layers: tasks without a layer
    completed,  \* _layers: tasks with one
    layers,     \* the layers, each a set that is run in the order of names
    level,      \* number of the layer that is running
    status,     \* status[t]: what became of the task or of its future
    results,    \* keys of the results dictionary
    verdict,    \* how run ended
    blame       \* {} or {t}: the task whose exception leaves run

builderVars == <<tasks, deps>>
planVars    == <<remaining, completed, layers>>
vars == <<builderVars, phase, workers, planVars, level, status, results, verdict, blame>>

Started == {t \in Names : status[t] # "idle"}
Queued  == {t \in Names : status[t] = "queued"}
Running == {t \in Names : status[t] = "running"}
Failed  == {t \in Names : status[t] = "failed"}

\* t is the first name of the set S.
FirstOf(t, S) == t \in S /\ \A u \in S : t <= u
-----------------------------------------------------------------------------
(* Registration. *)

\* Flow.task: a new name, not depending on itself; from outside before the
\* run, from a task function during it.
AddTask(t, d) ==
    /\ phase = "building" \/ Running # {}
    /\ t \notin tasks /\ t \notin d
    /\ tasks' = tasks \cup {t}
    /\ deps' = [deps EXCEPT ![t] = d]
    /\ UNCHANGED <<phase, workers, planVars, level, status, results, verdict, blame>>
-----------------------------------------------------------------------------
(* Flow._layers. *)

\* Flow.run is called: remaining = dict(self._tasks).
Run(k) ==
    /\ phase = "building"
    /\ phase' = "planning"
    /\ workers' = k
    /\ remaining' = tasks
    /\ UNCHANGED <<builderVars, completed, layers, level, status, results, verdict, blame>>

Missing == (UNION {deps[t] : t \in remaining}) \ tasks

\* Mutant: a task is ready when one of its dependencies has a layer.
ReadyTooEarly ==
    {t \in remaining : deps[t] = {} \/ deps[t] \cap completed # {}}
Ready == {t \in remaining : deps[t] \subseteq completed}

End(v) == phase' = "over" /\ verdict' = v

RefuseUnknown ==
    /\ phase = "planning" /\ remaining # {} /\ Missing # {}
    /\ End("unknown")
    /\ UNCHANGED <<builderVars, workers, planVars, level, status, results, blame>>

\* Mutant: a round that finds nothing ready is not noticed.
CycleUnnoticed == FALSE
RefuseCycle ==
    /\ phase = "planning" /\ remaining # {} /\ Missing = {} /\ Ready = {}
    /\ End("cycle")
    /\ UNCHANGED <<builderVars, workers, planVars, level, status, results, blame>>

PlanLayer ==
    /\ phase = "planning" /\ remaining # {} /\ Missing = {} /\ Ready # {}
    /\ layers' = Append(layers, Ready)
    /\ completed' = completed \cup Ready
    /\ remaining' = remaining \ Ready
    /\ UNCHANGED <<builderVars, phase, workers, level, status, results, verdict, blame>>

FinishPlan ==
    /\ phase = "planning" /\ remaining = {}
    /\ phase' = "running"
    /\ level' = 1
    /\ UNCHANGED <<builderVars, workers, planVars, status, results, verdict, blame>>
-----------------------------------------------------------------------------
(* Flow.run: one layer at a time. *)

InLayer == phase = "running" /\ level <= Len(layers)
Layer   == layers[level]
\* Layers of one task, and all layers without parallel=True, run in the caller.
Inline  == workers = 0 \/ \E t \in Layer : Layer = {t}

Become(t, s) == status' = [status EXCEPT ![t] = s]

\* task.function(inputs) in the calling thread.
Call(t) ==
    /\ InLayer /\ Inline
    /\ FirstOf(t, Layer \ results) /\ status[t] = "idle"
    /\ Become(t, "running")
    /\ UNCHANGED <<builderVars, phase, workers, planVars, level, results, verdict, blame>>

Return(t) ==
    /\ InLayer /\ Inline /\ status[t] = "running"
    /\ Become(t, "ok")
    /\ results' = results \cup {t}
    /\ UNCHANGED <<builderVars, phase, workers, planVars, level, verdict, blame>>

\* The exception of an inline task leaves run at once.
Raise(t) ==
    /\ InLayer /\ Inline /\ status[t] = "running"
    /\ Become(t, "failed")
    /\ blame' = {t}
    /\ End("task")
    /\ UNCHANGED <<builderVars, workers, planVars, level, results>>

\* executor.submit for each task of the layer, in the order of names.
Submit(t) ==
    /\ InLayer /\ ~Inline
    /\ FirstOf(t, Layer \ Started)
    /\ Become(t, "queued")
    /\ UNCHANGED <<builderVars, phase, workers, planVars, level, results, verdict, blame>>

\* A pool thread takes the head of the queue; submission order is name order.
Take(t) ==
    /\ FirstOf(t, Queued) /\ Cardinality(Running) < workers
    /\ Become(t, "running")
    /\ UNCHANGED <<builderVars, phase, workers, planVars, level, results, verdict, blame>>

\* The function ends in its pool thread and its future holds the outcome.
Complete(t, outcome) ==
    /\ status[t] = "running" /\ phase \in {"running", "leaving"} /\ ~Inline
    /\ Become(t, outcome)
    /\ UNCHANGED <<builderVars, phase, workers, planVars, level, results, verdict, blame>>

\* futures[name].result(), in the order of names, after the last submit.
Collect(t) ==
    /\ InLayer /\ ~Inline /\ Layer \subseteq Started
    /\ FirstOf(t, Layer \ results) /\ status[t] = "ok"
    /\ results' = results \cup {t}
    /\ UNCHANGED <<builderVars, phase, workers, planVars, level, status, verdict, blame>>

\* Mutant: results are looked at in the order in which they arrive.
CollectAnyFailure(t) ==
    /\ InLayer /\ ~Inline /\ Layer \subseteq Started
    /\ t \in Layer /\ status[t] = "failed"
    /\ blame' = {t}
    /\ phase' = "leaving"
    /\ UNCHANGED <<builderVars, workers, planVars, level, status, results, verdict>>

\* The first failed future in the order of names raises inside the with block.
CollectFailure(t) ==
    /\ InLayer /\ ~Inline /\ Layer \subseteq Started
    /\ FirstOf(t, Layer \ results) /\ status[t] = "failed"
    /\ blame' = {t}
    /\ phase' = "leaving"
    /\ UNCHANGED <<builderVars, workers, planVars, level, status, results, verdict>>

\* Mutant: the pool is shut down without waiting.
LeaveAtOnce ==
    /\ phase = "leaving"
    /\ End("task")
    /\ UNCHANGED <<builderVars, workers, planVars, level, status, results, blame>>

\* Mutant: what is still queued is cancelled.
LeaveCancelling ==
    /\ phase = "leaving" /\ Running = {}
    /\ End("task")
    /\ status' = [t \in Names |-> IF t \in Queued THEN "cancelled" ELSE status[t]]
    /\ UNCHANGED <<builderVars, workers, planVars, level, results, blame>>

\* ThreadPoolExecutor.__exit__ waits for all futures, cancelling none.
LeavePool ==
    /\ phase = "leaving" /\ Queued = {} /\ Running = {}
    /\ End("task")
    /\ UNCHANGED <<builderVars, workers, planVars, level, status, results, blame>>

\* Every result of the layer is in.
NextLayer ==
    /\ InLayer /\ Layer \subseteq results
    /\ level' = level + 1
    /\ UNCHANGED <<builderVars, phase, workers, planVars, status, results, verdict, blame>>

\* return results.
Finish ==
    /\ phase = "running" /\ level > Len(layers)
    /\ End("value")
    /\ UNCHANGED <<builderVars, workers, planVars, level, status, results, blame>>
-----------------------------------------------------------------------------
Init ==
    /\ tasks = {} /\ deps = [t \in Names |-> {}]
    /\ phase = "building" /\ workers = 0
    /\ remaining = {} /\ completed = {} /\ layers = <<>>
    /\ level = 0
    /\ status = [t \in Names |-> "idle"]
    /\ results = {}
    /\ verdict = "none" /\ blame = {}

Plan == RefuseUnknown \/ RefuseCycle \/ PlanLayer \/ FinishPlan

Execute(t) ==
    \/ Call(t) \/ Return(t) \/ Raise(t)
    \/ Submit(t) \/ Take(t) \/ Complete(t, "ok") \/ Complete(t, "failed")
    \/ Collect(t) \/ CollectFailure(t)

Conclude == LeavePool \/ NextLayer \/ Finish

Next ==
    \/ \E t \in Names, d \in SUBSET Names : AddTask(t, d)
    \/ \E k \in 0 .. MaxWorkers : Run(k)
    \/ Plan
    \/ \E t \in Names : Execute(t)
    \/ Conclude

Spec == Init /\ [][Next]_vars

\* run itself takes every step it can, and task functions end: a function
\* that never returns is the caller's.
Fairness == WF_vars(Plan) /\ WF_vars(\E t \in Names : Execute(t)) /\ WF_vars(Conclude)
FairSpec == Spec /\ Fairness
-----------------------------------------------------------------------------
(* Properties. *)

Phases   == {"building", "planning", "running", "leaving", "over"}
Statuses == {"idle", "queued", "running", "ok", "failed"}
Verdicts == {"none", "value", "unknown", "cycle", "task"}

\* The type of every variable.
TypeOK ==
    /\ tasks \in SUBSET Names /\ deps \in [Names -> SUBSET Names]
    /\ phase \in Phases /\ workers \in 0 .. MaxWorkers
    /\ remaining \in SUBSET Names /\ completed \in SUBSET Names
    /\ layers \in Seq(SUBSET Names) /\ level \in Nat
    /\ status \in [Names -> Statuses] /\ results \in SUBSET Names
    /\ verdict \in Verdicts /\ blame \in SUBSET Names

\* No task starts before every task it depends on has returned, whatever the
\* pool does, and the inputs it is given are all there: results[dep] never
\* raises KeyError (run).
DependenciesFirst ==
    [][\A t \in Names :
        status[t] = "idle" /\ status'[t] # "idle" =>
            \A d \in deps[t] : d \in results /\ status[d] = "ok"]_vars

\* When run has returned or raised, none of its tasks is still running or
\* waiting in the pool (with ThreadPoolExecutor).
NothingOutlivesRun == phase = "over" => Queued = {} /\ Running = {}

\* A run that returns has the value of every task registered when it was
\* called; one that raises names the first failure of the earliest layer, the
\* same whatever order the threads finished in (sorted(futures)).
VerdictIsFirst ==
    /\ verdict = "value" => results = completed /\ Failed = {}
    /\ verdict = "task" => \E t \in Failed : blame = {t} /\ FirstOf(t, Failed)

\* S holds a cycle: a nonempty part in which everyone waits on another member.
Cyclic(S) == \E C \in SUBSET S : C # {} /\ \A t \in C : deps[t] \cap C # {}

\* Unknown names and cycles are found before anything runs, and only real
\* ones are reported (_layers).
RefusalIsRight ==
    /\ verdict \in {"unknown", "cycle"} => Started = {}
    /\ verdict = "unknown" => \E t \in tasks : ~(deps[t] \subseteq tasks)
    /\ verdict = "cycle" => Cyclic(tasks)
    /\ phase \in {"running", "leaving"} =>
           ~Cyclic(completed) /\ \A t \in completed : deps[t] \subseteq completed

\* A run whose task functions end, ends.
RunEnds == phase = "planning" ~> phase = "over"
-----------------------------------------------------------------------------
(* The inductive invariant behind DependenciesFirst and NothingOutlivesRun. *)

Before(i) == UNION {layers[j] : j \in 1 .. i - 1}

\* A layer depends on the layers before it alone.
PlanInv ==
    /\ remaining \subseteq tasks /\ completed \subseteq tasks
    /\ completed = Before(Len(layers) + 1)
    /\ \A i \in 1 .. Len(layers) : \A t \in layers[i] : deps[t] \subseteq Before(i)

\* The layers before the running one are in, the later ones untouched; a
\* layer that runs in the caller runs its tasks one by one.
RunInv ==
    /\ phase \in {"building", "planning"} => Started = {}
    /\ \A t \in results : status[t] = "ok"
    /\ phase \in {"running", "leaving"} => level > 0 /\ Before(level) \subseteq results
    /\ phase = "running" =>
           \A t \in Queued \cup Running : level <= Len(layers) /\ t \in Layer
    /\ InLayer /\ Inline =>
           Queued = {} /\ \A t \in Running : FirstOf(t, Layer \ results)
    /\ NothingOutlivesRun

FlowInv == TypeOK /\ PlanInv /\ RunInv
=============================================================================
