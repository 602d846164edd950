--------------------------- MODULE WorkflowProofs ---------------------------
(***************************************************************************)
(* For every set of task names, every graph over them and every size of    *)
(* the pool: tasks start after what they depend on, none outlives run,     *)
(* the exception is that of the first failure, and the graphs refused are  *)
(* those with a cycle or an unknown name.                                  *)
(***************************************************************************)
EXTENDS Workflow, Integers, TLAPS

LEMMA InitFlow == Init => FlowInv
BY NamesAssumption
   DEF Init, FlowInv, TypeOK, PlanInv, RunInv, Phases, Statuses, Verdicts, Before, Started,
       Queued, Running, InLayer, NothingOutlivesRun

\* A step that changes nothing preserves the invariant.
LEMMA StutterFlow ==
    ASSUME FlowInv, UNCHANGED vars
    PROVE  FlowInv'
BY DEF vars, builderVars, planVars, FlowInv, TypeOK, PlanInv, RunInv, Before, Started, Queued,
       Running, InLayer, Inline, Layer, FirstOf, NothingOutlivesRun

\* Registering a task changes no dependencies of a task that has a layer.
LEMMA AddTaskFlow ==
    ASSUME FlowInv, NEW t \in Names, NEW d \in SUBSET Names, AddTask(t, d)
    PROVE  FlowInv'
<1>1. TypeOK'
  BY DEF AddTask, FlowInv, TypeOK, planVars
<1>2. PlanInv'
  <2>1. \A i \in 1 .. Len(layers) : t \notin layers[i]
    BY DEF AddTask, FlowInv, PlanInv, Before, TypeOK
  <2> QED
    BY <2>1 DEF AddTask, FlowInv, TypeOK, PlanInv, Before, planVars
<1>3. RunInv'
  BY DEF AddTask, FlowInv, RunInv, Before, Started, Queued, Running, InLayer, Inline, Layer,
         FirstOf, NothingOutlivesRun, planVars
<1> QED
  BY <1>1, <1>2, <1>3 DEF FlowInv

\* What a call of run and its planning leave alone.
LEMMA NothingStarted ==
    ASSUME TypeOK, RunInv, phase \in {"building", "planning"}
    PROVE  Started = {} /\ Queued = {} /\ Running = {} /\ results = {}
BY DEF TypeOK, RunInv, Started, Queued, Running

LEMMA RunFlow ==
    ASSUME FlowInv, NEW k \in 0 .. MaxWorkers, Run(k)
    PROVE  FlowInv'
<1>1. TypeOK' /\ PlanInv'
  BY DEF Run, FlowInv, TypeOK, PlanInv, Phases, Before, builderVars
<1>2. RunInv'
  BY NothingStarted
     DEF Run, FlowInv, TypeOK, RunInv, Started, Queued, Running, InLayer, NothingOutlivesRun
<1> QED
  BY <1>1, <1>2 DEF FlowInv

\* Each round of _layers adds a layer whose dependencies have one.
LEMMA PlanFlow ==
    ASSUME FlowInv, Plan
    PROVE  FlowInv'
<1>1. Queued = {} /\ Running = {} /\ Started = {} /\ results = {} /\ phase = "planning"
  BY NothingStarted DEF Plan, RefuseUnknown, RefuseCycle, PlanLayer, FinishPlan, FlowInv
<1>2. CASE RefuseUnknown \/ RefuseCycle
  <2>1. TypeOK' /\ PlanInv'
    BY <1>2 DEF RefuseUnknown, RefuseCycle, End, FlowInv, TypeOK, PlanInv, Phases, Verdicts,
                Before, builderVars, planVars
  <2>2. RunInv'
    BY <1>1, <1>2 DEF RefuseUnknown, RefuseCycle, End, RunInv, Started, Queued, Running,
                      InLayer, NothingOutlivesRun
  <2> QED
    BY <2>1, <2>2 DEF FlowInv
<1>3. CASE PlanLayer
  <2>1. Ready \in SUBSET Names /\ layers \in Seq(SUBSET Names)
    BY DEF FlowInv, TypeOK, Ready
  <2>2. PICK n \in Nat : n = Len(layers)
    BY <2>1
  <2>3. layers' = Append(layers, Ready) /\ Len(layers') = n + 1 /\ layers'[n + 1] = Ready
          /\ \A i \in 1 .. n : layers'[i] = layers[i]
    BY <1>3, <2>1, <2>2 DEF PlanLayer
  <2>4. TypeOK'
    BY <1>3, <2>1, <2>3 DEF PlanLayer, FlowInv, TypeOK, builderVars
  <2>5. \A i \in 1 .. n + 1 : Before(i)' = Before(i)
    BY <2>1, <2>3, <2>2 DEF Before
  <2>6. Before(n + 2)' = Before(n + 1) \cup Ready
    <3>1. 1 .. (n + 2) - 1 = (1 .. (n + 1) - 1) \cup {n + 1}
      OBVIOUS
    <3>2. \A j \in 1 .. (n + 1) - 1 : layers'[j] = layers[j]
      BY <2>3
    <3> QED
      BY <2>3, <3>1, <3>2 DEF Before
  <2>7. \A t \in Ready : deps[t] \subseteq Before(n + 1)
    BY <2>2 DEF Ready, FlowInv, PlanInv
  <2>8. \A i \in 1 .. n + 1 : \A t \in layers'[i] : deps[t] \subseteq Before(i)'
    <3>1. ASSUME NEW i \in 1 .. n, NEW t \in layers'[i]
          PROVE  deps[t] \subseteq Before(i)'
      BY <2>3, <2>5, <2>2, <3>1 DEF FlowInv, PlanInv
    <3>2. ASSUME NEW t \in layers'[n + 1]
          PROVE  deps[t] \subseteq Before(n + 1)'
      BY <2>1, <2>3, <2>5, <2>7, <3>2
    <3>3. \A i \in 1 .. n + 1 : i \in 1 .. n \/ i = n + 1
      OBVIOUS
    <3> QED
      BY <3>1, <3>2, <3>3
  <2>9. PlanInv'
    <3>1. remaining' \subseteq tasks' /\ completed' \subseteq tasks' /\ deps' = deps
      BY <1>3 DEF PlanLayer, Ready, FlowInv, PlanInv, builderVars
    <3>2. completed' = Before(Len(layers) + 1)'
      <4>1. completed' = Before(n + 1) \cup Ready
        BY <1>3, <2>2 DEF PlanLayer, FlowInv, PlanInv
      <4>2. (n + 1) + 1 = n + 2
        OBVIOUS
      <4> QED
        BY <2>3, <2>6, <4>1, <4>2
    <3> QED
      BY <2>3, <2>8, <3>1, <3>2 DEF PlanInv
  <2>10. RunInv'
    BY <1>1, <1>3 DEF PlanLayer, RunInv, Started, Queued, Running, InLayer, NothingOutlivesRun
  <2> QED
    BY <2>4, <2>9, <2>10 DEF FlowInv
<1>4. CASE FinishPlan
  <2>1. TypeOK' /\ PlanInv'
    BY <1>4 DEF FinishPlan, FlowInv, TypeOK, PlanInv, Phases, Before, builderVars, planVars
  <2>2. Before(1) = {}
    BY DEF Before
  <2>3. Before(level)' = {}
    BY <1>4, <2>2 DEF FinishPlan, Before, planVars
  <2>4. RunInv'
    BY <1>1, <1>4, <2>3 DEF FinishPlan, RunInv, Started, Queued, Running, NothingOutlivesRun
  <2> QED
    BY <2>1, <2>4 DEF FlowInv
<1> QED
  BY <1>2, <1>3, <1>4 DEF Plan
-----------------------------------------------------------------------------
\* A task that is queued or running in a running flow is one of its layer.
LEMMA AllReturned ==
    ASSUME FlowInv, phase = "running", level > Len(layers) \/ Layer \subseteq results
    PROVE  Queued = {} /\ Running = {}
BY DEF FlowInv, RunInv, TypeOK, Queued, Running

\* Tasks change their status one by one.
LEMMA StatusStep ==
    ASSUME TypeOK, NEW t \in Names, NEW s \in Statuses, Become(t, s)
    PROVE  /\ status' \in [Names -> Statuses] /\ status'[t] = s
           /\ \A u \in Names \ {t} : status'[u] = status[u]
           /\ Queued \ {t} = Queued' \ {t} /\ Running \ {t} = Running' \ {t}
           /\ t \in Queued' <=> s = "queued"
           /\ t \in Running' <=> s = "running"
BY DEF TypeOK, Become, Queued, Running

LEMMA ExecuteFlow ==
    ASSUME FlowInv, NEW t \in Names, Execute(t)
    PROVE  FlowInv'
<1>1. TypeOK /\ PlanInv /\ RunInv
  BY DEF FlowInv
<1>2. UNCHANGED <<builderVars, workers, planVars, level>>
  BY DEF Execute, Call, Return, Raise, Submit, Take, Complete, Collect, CollectFailure
<1>3. PlanInv' /\ (Before(level)' = Before(level)) /\ Layer' = Layer /\ (Inline' <=> Inline)
  BY <1>1, <1>2 DEF PlanInv, Before, Layer, Inline, builderVars, planVars
<1>4. TypeOK'
  <2>1. CASE Call(t) \/ Return(t) \/ Submit(t) \/ Take(t) \/ Complete(t, "ok")
               \/ Complete(t, "failed")
    BY <1>1, <1>2, <2>1 DEF Call, Return, Submit, Take, Complete, Become, TypeOK, Statuses,
                            builderVars, planVars
  <2>2. CASE Raise(t) \/ Collect(t) \/ CollectFailure(t)
    BY <1>1, <1>2, <2>2 DEF Raise, Collect, CollectFailure, Become, End, TypeOK, Statuses,
                            Phases, Verdicts, builderVars, planVars
  <2> QED
    BY <2>1, <2>2 DEF Execute
<1>5. CASE Call(t)
  <2>1. Become(t, "running") /\ status[t] = "idle" /\ Inline /\ InLayer
          /\ FirstOf(t, Layer \ results) /\ phase' = phase /\ results' = results
    BY <1>5 DEF Call
  <2>2. Queued = {} /\ Queued' = {} /\ Running' \subseteq Running \cup {t}
    BY <1>1, <2>1, StatusStep DEF RunInv, Statuses
  <2>3. \A u \in results' : status'[u] = "ok"
    BY <1>1, <2>1, StatusStep DEF RunInv, FirstOf, Statuses, TypeOK
  <2>4. phase = "running" /\ level <= Len(layers) /\ t \in Layer
    BY <2>1 DEF InLayer, FirstOf
  <2> QED
    BY <1>1, <1>2, <1>3, <1>4, <2>1, <2>2, <2>3, <2>4
       DEF FlowInv, RunInv, NothingOutlivesRun, planVars
<1>6. CASE Return(t)
  <2>1. Become(t, "ok") /\ status[t] = "running" /\ Inline /\ InLayer
          /\ phase' = phase /\ results' = results \cup {t}
    BY <1>6 DEF Return
  <2>2. Queued = {} /\ Queued' = {} /\ Running' = {}
    <3>1. \A u \in Running : u = t
      BY <1>1, <2>1, NamesAssumption DEF RunInv, FirstOf, Running
    <3> QED
      BY <1>1, <2>1, <3>1, StatusStep DEF RunInv, Statuses
  <2>3. \A u \in results' : status'[u] = "ok"
    BY <1>1, <2>1, StatusStep DEF RunInv, Statuses, TypeOK
  <2> QED
    BY <1>1, <1>2, <1>3, <1>4, <2>1, <2>2, <2>3
       DEF FlowInv, RunInv, InLayer, NothingOutlivesRun, planVars
<1>7. CASE Raise(t)
  <2>1. Become(t, "failed") /\ status[t] = "running" /\ Inline /\ InLayer
          /\ phase' = "over" /\ results' = results
    BY <1>7 DEF Raise, End
  <2>2. Queued = {} /\ Queued' = {} /\ Running' = {}
    <3>1. \A u \in Running : u = t
      BY <1>1, <2>1, NamesAssumption DEF RunInv, FirstOf, Running
    <3> QED
      BY <1>1, <2>1, <3>1, StatusStep DEF RunInv, Statuses
  <2>3. \A u \in results' : status'[u] = "ok"
    BY <1>1, <2>1, StatusStep DEF RunInv, Statuses, TypeOK
  <2> QED
    BY <1>3, <1>4, <2>1, <2>2, <2>3 DEF FlowInv, RunInv, InLayer, NothingOutlivesRun
<1>8. CASE Submit(t)
  <2>1. Become(t, "queued") /\ status[t] = "idle" /\ ~Inline /\ InLayer /\ t \in Layer
          /\ phase' = phase /\ results' = results
    BY <1>8 DEF Submit, FirstOf, Started
  <2>2. Queued' \cup Running' \subseteq Queued \cup Running \cup {t}
    BY <1>1, <2>1, StatusStep DEF Statuses
  <2>3. \A u \in results' : status'[u] = "ok"
    BY <1>1, <2>1, StatusStep DEF RunInv, Statuses, TypeOK
  <2>4. phase = "running" /\ level <= Len(layers)
    BY <2>1 DEF InLayer
  <2> QED
    BY <1>1, <1>2, <1>3, <1>4, <2>1, <2>2, <2>3, <2>4
       DEF FlowInv, RunInv, InLayer, NothingOutlivesRun, planVars
<1>9. CASE Take(t) \/ Complete(t, "ok") \/ Complete(t, "failed")
  <2>1. PICK s \in {"running", "ok", "failed"} :
            Become(t, s) /\ (s = "running" \/ status[t] = "running")
    BY <1>9 DEF Take, Complete
  <2>2. t \in Queued \cup Running /\ phase' = phase /\ results' = results
    BY <1>9 DEF Take, Complete, FirstOf, Running
  <2>3. phase \in {"running", "leaving"} /\ (InLayer => ~Inline)
    <3>1. phase \notin {"building", "planning", "over"}
      BY <1>1, <2>2, NothingStarted DEF RunInv, NothingOutlivesRun
    <3>2. CASE Take(t)
      BY <1>1, <3>1, <3>2 DEF Take, FirstOf, RunInv, TypeOK, Phases
    <3>3. CASE Complete(t, "ok") \/ Complete(t, "failed")
      BY <3>3 DEF Complete
    <3> QED
      BY <1>9, <3>2, <3>3
  <2>4. Queued' \cup Running' \subseteq Queued \cup Running
    BY <1>1, <2>1, <2>2, StatusStep DEF Statuses
  <2>5. \A u \in results' : status'[u] = "ok"
    BY <1>1, <2>1, <2>2, StatusStep DEF RunInv, Statuses, TypeOK, Queued, Running
  <2> QED
    BY <1>1, <1>2, <1>3, <1>4, <2>2, <2>3, <2>4, <2>5
       DEF FlowInv, RunInv, InLayer, NothingOutlivesRun, planVars
<1>10. CASE Collect(t)
  <2>1. status' = status /\ phase' = phase /\ results' = results \cup {t} /\ status[t] = "ok"
          /\ ~Inline
    BY <1>10 DEF Collect
  <2>2. Queued' = Queued /\ Running' = Running /\ Started' = Started
    BY <2>1 DEF Queued, Running, Started
  <2> QED
    BY <1>1, <1>2, <1>3, <1>4, <2>1, <2>2
       DEF FlowInv, RunInv, InLayer, NothingOutlivesRun, planVars
<1>11. CASE CollectFailure(t)
  <2>1. status' = status /\ phase = "running" /\ phase' = "leaving" /\ results' = results
    BY <1>11 DEF CollectFailure, InLayer
  <2>2. Queued' = Queued /\ Running' = Running /\ Started' = Started
    BY <2>1 DEF Queued, Running, Started
  <2> QED
    BY <1>1, <1>2, <1>3, <1>4, <2>1, <2>2
       DEF FlowInv, RunInv, InLayer, NothingOutlivesRun, planVars
<1> QED
  BY <1>5, <1>6, <1>7, <1>8, <1>9, <1>10, <1>11 DEF Execute

LEMMA ConcludeFlow ==
    ASSUME FlowInv, Conclude
    PROVE  FlowInv'
<1>1. TypeOK /\ PlanInv /\ RunInv
  BY DEF FlowInv
<1>2. UNCHANGED <<builderVars, workers, planVars, status, results>>
  BY DEF Conclude, LeavePool, NextLayer, Finish
<1>3. PlanInv' /\ Queued' = Queued /\ Running' = Running /\ Started' = Started
  BY <1>1, <1>2 DEF PlanInv, Before, Queued, Running, Started, builderVars, planVars
<1>4. TypeOK'
  BY <1>1, <1>2 DEF Conclude, LeavePool, NextLayer, Finish, End, TypeOK, Phases, Verdicts,
                    builderVars, planVars
<1>5. Queued = {} /\ Running = {}
  <2>1. CASE LeavePool
    BY <2>1 DEF LeavePool
  <2>2. CASE NextLayer \/ Finish
    BY <2>2, AllReturned DEF NextLayer, Finish, InLayer
  <2> QED
    BY <2>1, <2>2 DEF Conclude
<1>6. CASE LeavePool \/ Finish
  <2>1. phase' = "over"
    BY <1>6 DEF LeavePool, Finish, End
  <2> QED
    BY <1>1, <1>2, <1>3, <1>4, <1>5, <2>1 DEF FlowInv, RunInv, InLayer, NothingOutlivesRun
<1>7. CASE NextLayer
  <2>1. level \in Nat /\ level > 0 /\ level <= Len(layers) /\ Layer \subseteq results
          /\ Before(level) \subseteq results /\ phase = "running" /\ phase' = phase
          /\ level' = level + 1
    BY <1>1, <1>7 DEF NextLayer, InLayer, RunInv, TypeOK
  <2>2. Before(level)' \subseteq Before(level) \cup Layer
    <3>1. 1 .. (level + 1) - 1 = (1 .. level - 1) \cup {level}
      BY <2>1
    <3> QED
      BY <1>2, <2>1, <3>1 DEF Before, Layer, planVars
  <2> QED
    BY <1>1, <1>2, <1>3, <1>4, <1>5, <2>1, <2>2 DEF FlowInv, RunInv, NothingOutlivesRun
<1> QED
  BY <1>6, <1>7 DEF Conclude

LEMMA NextFlow ==
    ASSUME FlowInv, [Next]_vars
    PROVE  FlowInv'
BY StutterFlow, AddTaskFlow, RunFlow, PlanFlow, ExecuteFlow, ConcludeFlow DEF Next

LEMMA FlowInvariant == Spec => []FlowInv
<1>1. FlowInv /\ [Next]_vars => FlowInv'
  BY NextFlow
<1> QED
  BY InitFlow, <1>1, PTL DEF Spec
-----------------------------------------------------------------------------
\* Every variable of a flow stays within its type (_workflow.py).
THEOREM FlowTypeCorrect == Spec => []TypeOK
<1>1. FlowInv => TypeOK
  BY DEF FlowInv
<1> QED
  BY FlowInvariant, <1>1, PTL

\* Whether it returns or raises, run leaves no task in the pool.
THEOREM PoolIsDrained == Spec => []NothingOutlivesRun
<1>1. FlowInv => NothingOutlivesRun
  BY DEF FlowInv, RunInv
<1> QED
  BY FlowInvariant, <1>1, PTL

\* No task starts before the tasks it depends on have returned: the inputs
\* are looked up in a dictionary that has them.
THEOREM InputsAreReady == Spec => DependenciesFirst
<1> DEFINE Step == \A t \in Names :
               status[t] = "idle" /\ status'[t] # "idle" =>
                   \A d \in deps[t] : d \in results /\ status[d] = "ok"
<1>1. FlowInv /\ [Next]_vars => [Step]_vars
  <2> SUFFICES ASSUME FlowInv, Next, NEW t \in Names, status[t] = "idle", status'[t] # "idle",
                      NEW d \in deps[t]
               PROVE  d \in results /\ status[d] = "ok"
    OBVIOUS
  <2>1. PICK u \in Names : Execute(u)
    BY DEF Next, AddTask, Run, Plan, RefuseUnknown, RefuseCycle, PlanLayer, FinishPlan,
           Conclude, LeavePool, NextLayer, Finish
  <2>2. Call(t) \/ Submit(t)
    <3>1. CASE Call(u) \/ Submit(u)
      BY <3>1 DEF Call, Submit, Become, FlowInv, TypeOK
    <3>2. CASE Return(u) \/ Raise(u) \/ Complete(u, "ok") \/ Complete(u, "failed")
      BY <3>2 DEF Return, Raise, Complete, Become, FlowInv, TypeOK
    <3>3. CASE Take(u)
      BY <3>3 DEF Take, FirstOf, Queued, Become, FlowInv, TypeOK
    <3>4. CASE Collect(u) \/ CollectFailure(u)
      BY <3>4 DEF Collect, CollectFailure
    <3> QED
      BY <2>1, <3>1, <3>2, <3>3, <3>4 DEF Execute
  <2>3. InLayer /\ t \in Layer
    BY <2>2 DEF Call, Submit, FirstOf
  <2>4. level \in 1 .. Len(layers) /\ Before(level) \subseteq results
    BY <2>3 DEF InLayer, FlowInv, TypeOK, RunInv
  <2>5. d \in results
    BY <2>3, <2>4 DEF Layer, FlowInv, PlanInv
  <2> QED
    BY <2>5 DEF FlowInv, RunInv
<1>2. Spec => [][Step]_vars
  BY FlowInvariant, <1>1, PTL DEF Spec
<1> QED
  BY <1>2 DEF DependenciesFirst
-----------------------------------------------------------------------------
(* Refusals.  That no cycle gets a layer needs no induction over layers:   *)
(* each round keeps it, because a cycle through the new layer would have   *)
(* to lie in it, and its members depend on the layers before.              *)

CycleInv ==
    /\ phase # "over" => verdict = "none"
    /\ phase = "building" => completed = {}
    /\ phase = "planning" => tasks = remaining \cup completed
    /\ \A t \in completed : deps[t] \subseteq completed
    /\ ~Cyclic(completed)
    /\ RefusalIsRight

LEMMA InitCycle == Init => CycleInv
BY DEF Init, CycleInv, Cyclic, RefusalIsRight

LEMMA CycleFreeLayers ==
    ASSUME FlowInv, \A t \in completed : deps[t] \subseteq completed, ~Cyclic(completed)
    PROVE  ~Cyclic(completed \cup Ready)
<1> SUFFICES ASSUME NEW C \in SUBSET (completed \cup Ready), C # {},
                    \A t \in C : deps[t] \cap C # {}
             PROVE  FALSE
  BY DEF Cyclic
<1>1. C \cap completed = {}
  <2> SUFFICES ASSUME C \cap completed # {}
               PROVE  Cyclic(completed)
    OBVIOUS
  <2>1. \A t \in C \cap completed : deps[t] \cap (C \cap completed) # {}
    OBVIOUS
  <2> QED
    BY <2>1 DEF Cyclic
<1>2. PICK t \in C : deps[t] \subseteq completed
  BY <1>1 DEF Ready
<1> QED
  BY <1>1, <1>2

\* Nothing ready: the tasks that are left wait on each other.
LEMMA CycleFound ==
    ASSUME FlowInv, tasks = remaining \cup completed, remaining # {}, Missing = {}, Ready = {}
    PROVE  Cyclic(tasks)
<1>1. \A t \in remaining : deps[t] \cap remaining # {}
  <2> SUFFICES ASSUME NEW t \in remaining
               PROVE  deps[t] \cap remaining # {}
    OBVIOUS
  <2>1. deps[t] \subseteq tasks /\ ~(deps[t] \subseteq completed)
    BY DEF Missing, Ready
  <2> QED
    BY <2>1
<1> QED
  BY <1>1 DEF Cyclic

LEMMA PlanCycle ==
    ASSUME FlowInv, CycleInv, Plan
    PROVE  CycleInv'
<1>1. /\ phase = "planning" /\ verdict = "none" /\ UNCHANGED <<builderVars, status>> /\ Started = {}
      /\ TypeOK /\ PlanInv
  BY DEF Plan, RefuseUnknown, RefuseCycle, PlanLayer, FinishPlan, CycleInv, FlowInv, RunInv
<1>2. UNCHANGED <<tasks, deps>> /\ Started' = {}
  BY <1>1 DEF builderVars, Started
<1>3. CASE RefuseUnknown
  <2>1. UNCHANGED completed /\ phase' = "over" /\ verdict' = "unknown"
    BY <1>3 DEF RefuseUnknown, End, planVars
  <2>2. \E t \in tasks : ~(deps[t] \subseteq tasks)
    BY <1>1, <1>3 DEF RefuseUnknown, Missing, PlanInv
  <2> QED
    BY <1>2, <2>1, <2>2 DEF CycleInv, RefusalIsRight, Cyclic
<1>4. CASE RefuseCycle
  <2>1. UNCHANGED completed /\ phase' = "over" /\ verdict' = "cycle"
    BY <1>4 DEF RefuseCycle, End, planVars
  <2>2. Cyclic(tasks)
    BY <1>1, <1>4, CycleFound DEF RefuseCycle, CycleInv
  <2> QED
    BY <1>2, <2>1, <2>2 DEF CycleInv, RefusalIsRight, Cyclic
<1>5. CASE PlanLayer
  <2>1. /\ completed' = completed \cup Ready /\ remaining' = remaining \ Ready
        /\ phase' = "planning" /\ verdict' = "none"
    BY <1>1, <1>5 DEF PlanLayer
  <2>2. \A t \in completed' : deps[t] \subseteq completed'
    BY <2>1 DEF CycleInv, Ready
  <2>3. ~Cyclic(completed \cup Ready)
    BY CycleFreeLayers DEF CycleInv
  <2>4. tasks = remaining' \cup completed'
    BY <1>1, <2>1 DEF CycleInv, Ready
  <2> QED
    BY <1>2, <2>1, <2>2, <2>3, <2>4 DEF CycleInv, RefusalIsRight, Cyclic
<1>6. CASE FinishPlan
  <2>1. UNCHANGED <<completed, verdict>> /\ phase' = "running"
    BY <1>6 DEF FinishPlan, planVars
  <2> QED
    BY <1>1, <1>2, <2>1 DEF CycleInv, RefusalIsRight, Cyclic
<1> QED
  BY <1>3, <1>4, <1>5, <1>6 DEF Plan

LEMMA NextCycle ==
    ASSUME FlowInv, CycleInv, [Next]_vars
    PROVE  CycleInv'
<1>1. TypeOK /\ PlanInv /\ RunInv
  BY DEF FlowInv
<1>2. ASSUME NEW t \in Names, NEW d \in SUBSET Names, AddTask(t, d)
      PROVE  CycleInv'
  <2>1. /\ t \notin tasks /\ tasks' = tasks \cup {t} /\ deps' = [deps EXCEPT ![t] = d]
        /\ UNCHANGED <<phase, completed, remaining, verdict, status>>
    BY <1>2 DEF AddTask, planVars
  <2>2. phase \notin {"planning", "over"}
    BY <1>1, <1>2, NothingStarted DEF AddTask, RunInv, NothingOutlivesRun
  <2>3. \A u \in completed : deps'[u] = deps[u]
    BY <1>1, <2>1 DEF PlanInv, TypeOK
  <2>4. \A u \in completed' : deps'[u] \subseteq completed'
    BY <2>1, <2>3 DEF CycleInv
  <2>5. ~Cyclic(completed)'
    BY <2>1, <2>3 DEF CycleInv, Cyclic
  <2> QED
    BY <2>1, <2>2, <2>4, <2>5 DEF CycleInv, RefusalIsRight
<1>3. ASSUME NEW k \in 0 .. MaxWorkers, Run(k)
      PROVE  CycleInv'
  <2>1. /\ UNCHANGED <<tasks, deps, completed, verdict, status>> /\ remaining' = tasks
        /\ phase = "building" /\ phase' = "planning"
    BY <1>3 DEF Run, builderVars
  <2> QED
    BY <2>1 DEF CycleInv, RefusalIsRight, Cyclic
<1>4. CASE (\E t \in Names : Execute(t)) \/ Conclude
  <2>1. UNCHANGED <<tasks, deps, completed>>
    BY <1>4 DEF Execute, Call, Return, Raise, Submit, Take, Complete, Collect, CollectFailure,
                Conclude, LeavePool, NextLayer, Finish, builderVars, planVars
  <2>2. phase \in {"running", "leaving"}
    <3>1. CASE Conclude
      BY <3>1 DEF Conclude, LeavePool, NextLayer, Finish, InLayer
    <3>2. ASSUME NEW t \in Names, Take(t)
          PROVE  phase \in {"running", "leaving"}
      BY <1>1, <3>2, NothingStarted
         DEF Take, FirstOf, RunInv, NothingOutlivesRun, TypeOK, Phases
    <3>3. ASSUME NEW t \in Names, Execute(t), ~Take(t)
          PROVE  phase \in {"running", "leaving"}
      BY <3>3 DEF Execute, Call, Return, Raise, Submit, Complete, Collect, CollectFailure, InLayer
    <3> QED
      BY <1>4, <3>1, <3>2, <3>3
  <2>3. \/ phase' \in {"running", "leaving"} /\ verdict' = verdict
        \/ phase' = "over" /\ verdict' \in {"task", "value"}
    <3>1. CASE Conclude
      BY <2>2, <3>1 DEF Conclude, LeavePool, NextLayer, Finish, End
    <3>2. ASSUME NEW t \in Names, Raise(t) \/ CollectFailure(t)
          PROVE  \/ phase' = "leaving" /\ verdict' = verdict
                 \/ phase' = "over" /\ verdict' = "task"
      BY <3>2 DEF Raise, CollectFailure, End
    <3>3. ASSUME NEW t \in Names, Execute(t), ~Raise(t), ~CollectFailure(t)
          PROVE  phase' = phase /\ verdict' = verdict
      BY <3>3 DEF Execute, Call, Return, Submit, Take, Complete, Collect
    <3> QED
      BY <1>4, <2>2, <3>1, <3>2, <3>3
  <2> QED
    BY <2>1, <2>2, <2>3 DEF CycleInv, RefusalIsRight, Cyclic
<1>5. CASE UNCHANGED vars
  BY <1>5 DEF vars, builderVars, planVars, CycleInv, RefusalIsRight, Cyclic, Started
<1> QED
  BY <1>2, <1>3, <1>4, <1>5, PlanCycle DEF Next

\* A refusal names a real fault of the graph and comes before any task: for
\* every graph, and no layer ever holds a part of a cycle (_layers).
THEOREM RefusalsAreRight == Spec => []RefusalIsRight
<1>1. Init => FlowInv /\ CycleInv
  BY InitFlow, InitCycle
<1>2. FlowInv /\ CycleInv /\ [Next]_vars => (FlowInv /\ CycleInv)'
  BY NextFlow, NextCycle
<1>3. FlowInv /\ CycleInv => RefusalIsRight
  BY DEF CycleInv
<1> QED
  BY <1>1, <1>2, <1>3, PTL DEF Spec
-----------------------------------------------------------------------------
(* Verdicts.  Failures are of the running layer, and once one is collected *)
(* every task before it in the order of names has a result.                *)

Blamed ==
    \E t \in Failed : level <= Len(layers) /\ blame = {t} /\ FirstOf(t, Layer \ results)

BlameInv ==
    /\ phase # "over" => verdict = "none"
    /\ results \subseteq completed /\ level <= Len(layers) + 1
    /\ phase \in {"running", "leaving"} =>
           \A t \in Queued \cup Running \cup Failed : level <= Len(layers) /\ t \in Layer
    /\ InLayer /\ Inline => Failed = {}
    /\ phase = "leaving" => Blamed
    /\ VerdictIsFirst

LEMMA InitBlame == Init => BlameInv
<1> SUFFICES ASSUME Init
             PROVE  BlameInv
  OBVIOUS
<1>1. layers = <<>> /\ Len(layers) = 0 /\ level = 0 /\ results = {} /\ phase = "building"
        /\ verdict = "none"
  BY DEF Init
<1> QED
  BY <1>1 DEF BlameInv, InLayer, VerdictIsFirst

\* Results and failures exclude each other, and a layer has been planned.
LEMMA BlameFacts ==
    ASSUME FlowInv, BlameInv
    PROVE  /\ TypeOK /\ PlanInv /\ RunInv
           /\ Failed \cap results = {} /\ Len(layers) \in Nat /\ level \in Nat
           /\ level \in 1 .. Len(layers) => Layer \subseteq completed
           /\ Before(Len(layers) + 1) = completed
<1>1. TypeOK /\ PlanInv /\ RunInv /\ Len(layers) \in Nat /\ level \in Nat
  BY DEF FlowInv, TypeOK
<1>2. Failed \cap results = {}
  BY <1>1 DEF RunInv, Failed
<1>3. level \in 1 .. Len(layers) => Layer \subseteq completed
  BY <1>1 DEF PlanInv, Before, Layer
<1> QED
  BY <1>1, <1>2, <1>3 DEF PlanInv

\* Steps before the first layer runs.
LEMMA EarlyBlame ==
    ASSUME FlowInv, BlameInv,
           \/ \E t \in Names, d \in SUBSET Names : AddTask(t, d)
           \/ \E k \in 0 .. MaxWorkers : Run(k)
           \/ Plan
    PROVE  BlameInv'
<1>1. /\ UNCHANGED <<results, status, blame>>
      /\ TypeOK /\ PlanInv /\ RunInv
  BY DEF AddTask, Run, Plan, RefuseUnknown, RefuseCycle, PlanLayer, FinishPlan, FlowInv
<1>2. Started' = Started /\ Queued' = Queued /\ Running' = Running /\ Failed' = Failed
  BY <1>1 DEF Started, Queued, Running, Failed
<1>3. CASE \E t \in Names, d \in SUBSET Names : AddTask(t, d)
  <2>1. UNCHANGED <<phase, workers, completed, layers, level, verdict>>
    BY <1>3 DEF AddTask, planVars
  <2> QED
    BY <1>1, <1>2, <2>1 DEF BlameInv, Blamed, InLayer, Inline, Layer, FirstOf, VerdictIsFirst
<1>4. CASE \E k \in 0 .. MaxWorkers : Run(k)
  <2>1. UNCHANGED <<completed, layers, level, verdict>> /\ phase = "building" /\ phase' = "planning"
    BY <1>4 DEF Run, planVars
  <2> QED
    BY <1>1, <1>2, <2>1 DEF BlameInv, InLayer, VerdictIsFirst
<1>5. CASE Plan
  <2>1. phase = "planning" /\ results = {} /\ Started = {} /\ Queued = {} /\ Running = {}
          /\ Failed = {} /\ verdict = "none"
    BY <1>1, <1>5, NothingStarted
       DEF Plan, RefuseUnknown, RefuseCycle, PlanLayer, FinishPlan, BlameInv, Started, Failed
  <2>2. CASE RefuseUnknown \/ RefuseCycle
    <3>1. UNCHANGED <<completed, layers, level>> /\ phase' = "over" /\ verdict' \in {"unknown", "cycle"}
      BY <2>2 DEF RefuseUnknown, RefuseCycle, End, planVars
    <3> QED
      BY <1>1, <2>1, <3>1 DEF BlameInv, InLayer, VerdictIsFirst
  <2>3. CASE PlanLayer
    <3>1. /\ layers' = Append(layers, Ready) /\ level' = level /\ phase' = phase
          /\ verdict' = verdict
      BY <2>3 DEF PlanLayer
    <3>2. Ready \in SUBSET Names /\ layers \in Seq(SUBSET Names) /\ level \in Nat
      BY <1>1 DEF TypeOK, Ready
    <3>3. Len(layers') = Len(layers) + 1 /\ Len(layers) \in Nat
      BY <3>1, <3>2
    <3>4. level' <= Len(layers') + 1
      BY <3>1, <3>2, <3>3 DEF BlameInv
    <3> QED
      BY <1>1, <2>1, <3>1, <3>4 DEF BlameInv, InLayer, VerdictIsFirst
  <2>4. CASE FinishPlan
    <3>1. UNCHANGED <<completed, layers, verdict>> /\ level' = 1 /\ phase' = "running"
      BY <2>4 DEF FinishPlan, planVars
    <3>2. Len(layers) \in Nat
      BY <1>1 DEF TypeOK
    <3>3. level' <= Len(layers') + 1
      BY <3>1, <3>2
    <3> QED
      BY <1>1, <1>2, <2>1, <3>1, <3>3 DEF BlameInv, InLayer, VerdictIsFirst
  <2> QED
    BY <1>5, <2>2, <2>3, <2>4 DEF Plan
<1> QED
  BY <1>3, <1>4, <1>5

LEMMA ExecuteBlame ==
    ASSUME FlowInv, BlameInv, NEW t \in Names, Execute(t)
    PROVE  BlameInv'
<1>1. /\ UNCHANGED <<workers, completed, layers, level>>
      /\ Layer' = Layer /\ (Inline' <=> Inline)
  BY DEF Execute, Call, Return, Raise, Submit, Take, Complete, Collect, CollectFailure,
         builderVars, planVars, Inline, Layer
<1>2. /\ TypeOK /\ PlanInv /\ RunInv /\ Failed \cap results = {}
      /\ Len(layers) \in Nat /\ level \in Nat
      /\ level \in 1 .. Len(layers) => Layer \subseteq completed
  BY BlameFacts
<1>3. InLayer => phase = "running" /\ level \in 1 .. Len(layers) /\ Layer \subseteq completed
                   /\ verdict = "none"
  BY <1>2 DEF InLayer, RunInv, BlameInv
<1>4. CASE Call(t) \/ Return(t) \/ Submit(t)
  <2>1. /\ InLayer /\ t \in Layer /\ UNCHANGED <<phase, verdict>>
        /\ \E s \in {"running", "ok", "queued"} : Become(t, s)
        /\ results' \subseteq results \cup {t}
    <3>1. CASE Call(t) \/ Submit(t)
      BY <3>1 DEF Call, Submit, FirstOf
    <3>2. CASE Return(t)
      BY <1>2, <3>2 DEF Return, RunInv, InLayer, FirstOf, Running
    <3> QED
      BY <1>4, <3>1, <3>2
  <2>2. /\ Failed' \subseteq Failed
        /\ Queued' \cup Running' \subseteq Queued \cup Running \cup {t}
    BY <1>2, <2>1, StatusStep DEF Statuses, Failed
  <2> QED
    BY <1>1, <1>2, <1>3, <2>1, <2>2 DEF BlameInv, InLayer, VerdictIsFirst
<1>5. CASE Raise(t)
  <2>1. /\ InLayer /\ Inline /\ Become(t, "failed") /\ blame' = {t} /\ results' = results
        /\ phase' = "over" /\ verdict' = "task"
    BY <1>5 DEF Raise, End
  <2>2. Failed = {}
    BY <2>1 DEF BlameInv
  <2>3. Failed' = {t}
    BY <1>2, <2>1, <2>2, StatusStep DEF Statuses, Failed
  <2>4. FirstOf(t, {t})
    BY NamesAssumption DEF FirstOf
  <2> QED
    BY <1>1, <2>1, <2>3, <2>4 DEF BlameInv, InLayer, VerdictIsFirst
<1>6. CASE Take(t) \/ Complete(t, "ok") \/ Complete(t, "failed")
  <2>1. PICK s \in {"running", "ok", "failed"} : Become(t, s) /\ (s = "failed" => ~Inline)
    BY <1>6 DEF Take, Complete
  <2>2. t \in Queued \cup Running /\ UNCHANGED <<phase, verdict, results, blame>>
    BY <1>6 DEF Take, Complete, FirstOf, Running
  <2>3. phase \in {"running", "leaving"}
    BY <1>2, <2>2, NothingStarted DEF RunInv, NothingOutlivesRun, TypeOK, Phases
  <2>4. t \in Layer /\ level <= Len(layers) /\ t \notin results /\ t \notin Failed
    BY <1>2, <2>2, <2>3 DEF BlameInv, RunInv, Queued, Running, Failed
  <2>5. /\ Queued' \cup Running' \cup Failed' \subseteq Queued \cup Running \cup Failed
        /\ Failed \subseteq Failed' /\ (Inline => Failed' = Failed)
    <3>1. Failed \subseteq Failed' /\ Failed' \subseteq Failed \cup {t}
            /\ (s # "failed" => Failed' = Failed)
      BY <1>2, <2>1, <2>4, StatusStep DEF Statuses, Failed
    <3>2. Queued' \cup Running' \subseteq Queued \cup Running
      BY <1>2, <2>1, <2>2, StatusStep DEF Statuses
    <3> QED
      BY <2>1, <2>2, <3>1, <3>2
  <2>6. phase = "leaving" => Blamed'
    BY <1>1, <2>2, <2>5 DEF BlameInv, Blamed
  <2> QED
    BY <1>1, <2>2, <2>3, <2>5, <2>6 DEF BlameInv, InLayer, VerdictIsFirst
<1>7. CASE Collect(t)
  <2>1. /\ InLayer /\ ~Inline /\ t \in Layer /\ UNCHANGED <<phase, verdict, status>>
        /\ results' = results \cup {t}
    BY <1>7 DEF Collect, FirstOf
  <2>2. Failed' = Failed /\ Queued' = Queued /\ Running' = Running
    BY <2>1 DEF Failed, Queued, Running
  <2> QED
    BY <1>1, <1>3, <2>1, <2>2 DEF BlameInv, InLayer, VerdictIsFirst
<1>8. CASE CollectFailure(t)
  <2>1. /\ InLayer /\ t \in Failed /\ FirstOf(t, Layer \ results) /\ blame' = {t}
        /\ phase' = "leaving" /\ UNCHANGED <<verdict, status, results>>
    BY <1>8 DEF CollectFailure, Failed
  <2>2. Failed' = Failed /\ Queued' = Queued /\ Running' = Running
    BY <2>1 DEF Failed, Queued, Running
  <2>3. Blamed'
    BY <1>1, <1>3, <2>1, <2>2 DEF Blamed
  <2> QED
    BY <1>1, <1>3, <2>1, <2>2, <2>3 DEF BlameInv, InLayer, VerdictIsFirst
<1> QED
  BY <1>4, <1>5, <1>6, <1>7, <1>8 DEF Execute

LEMMA ConcludeBlame ==
    ASSUME FlowInv, BlameInv, Conclude
    PROVE  BlameInv'
<1>1. UNCHANGED <<workers, completed, layers, status, results, blame>>
  BY DEF Conclude, LeavePool, NextLayer, Finish, planVars
<1>2. Queued' = Queued /\ Running' = Running /\ Failed' = Failed
  BY <1>1 DEF Queued, Running, Failed
<1>3. /\ TypeOK /\ RunInv /\ Failed \cap results = {} /\ Len(layers) \in Nat /\ level \in Nat
      /\ Before(Len(layers) + 1) = completed
  BY BlameFacts
<1>4. CASE LeavePool
  <2>1. phase = "leaving" /\ phase' = "over" /\ verdict' = "task" /\ level' = level
    BY <1>4 DEF LeavePool, End
  <2>2. PICK t \in Failed : level <= Len(layers) /\ blame = {t} /\ FirstOf(t, Layer \ results)
    BY <2>1 DEF BlameInv, Blamed
  <2>3. \A u \in Failed : u \in Layer \ results
    BY <1>3, <2>1 DEF BlameInv
  <2>4. FirstOf(t, Failed)
    BY <2>2, <2>3 DEF FirstOf
  <2> QED
    BY <1>1, <1>2, <2>1, <2>2, <2>4 DEF BlameInv, InLayer, VerdictIsFirst
<1>5. CASE NextLayer
  <2>1. /\ phase = "running" /\ phase' = phase /\ level' = level + 1 /\ level <= Len(layers)
        /\ verdict' = verdict /\ Layer \subseteq results
    BY <1>5 DEF NextLayer, InLayer
  <2>2. Failed = {}
    BY <1>3, <2>1 DEF BlameInv
  <2>3. Queued = {} /\ Running = {}
    BY <2>1, AllReturned
  <2>4. level' <= Len(layers') + 1
    BY <1>1, <1>3, <2>1
  <2> QED
    BY <1>1, <1>2, <2>1, <2>2, <2>3, <2>4 DEF BlameInv, VerdictIsFirst
<1>6. CASE Finish
  <2>1. /\ phase = "running" /\ phase' = "over" /\ verdict' = "value" /\ level' = level
        /\ level > Len(layers)
    BY <1>6 DEF Finish, End
  <2>2. level = Len(layers) + 1
    BY <1>3, <2>1 DEF BlameInv
  <2>3. results = completed
    BY <1>3, <2>1, <2>2 DEF RunInv, BlameInv
  <2>4. Failed = {}
    BY <1>3, <2>1 DEF BlameInv
  <2> QED
    BY <1>1, <1>2, <2>1, <2>3, <2>4 DEF BlameInv, InLayer, VerdictIsFirst
<1> QED
  BY <1>4, <1>5, <1>6 DEF Conclude

\* Whatever order the threads end in: a run that returns has every result,
\* one that raises names the first failure of the first layer that has one.
THEOREM VerdictsAreFirst == Spec => []VerdictIsFirst
<1>1. Init => FlowInv /\ BlameInv
  BY InitFlow, InitBlame
<1>2. FlowInv /\ BlameInv /\ [Next]_vars => (FlowInv /\ BlameInv)'
  <2> SUFFICES ASSUME FlowInv, BlameInv, [Next]_vars
               PROVE  BlameInv'
    BY NextFlow
  <2>1. CASE UNCHANGED vars
    BY <2>1 DEF vars, builderVars, planVars, BlameInv, Blamed, InLayer, Inline, Layer, FirstOf,
                VerdictIsFirst, Queued, Running, Failed
  <2> QED
    BY <2>1, EarlyBlame, ExecuteBlame, ConcludeBlame DEF Next
<1>3. FlowInv /\ BlameInv => VerdictIsFirst
  BY DEF BlameInv
<1> QED
  BY <1>1, <1>2, <1>3, PTL DEF Spec
=============================================================================
