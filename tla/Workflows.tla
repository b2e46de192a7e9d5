---------------------------- MODULE Workflows ----------------------------
(* Workflows over the other plugins. A linear workflow (plugins/mutsuki-plugin-
   workflow-linear) and a broadcast (mutsuki-plugin-workflow-broadcast) derive
   tasks, which the runtime schedules like any other: permission checks, logs,
   mock tasks, further workflows, and HTTP requests, whose facade derives an
   effect task that the HTTP runner executes later.

   The scheduler is the runtime's: it may run any task that is ready, except
   that tasks of one strict sequence run in the order in which they came. *)
EXTENDS HttpEffects

CONSTANTS
    Submissions,   \* what the host submits: [protocol, payload, correlation]
    Steps,         \* what workflows list: [id, protocol, payload]
    MaxSources,    \* bound: how many
    Unlucky        \* ids whose hash random_fail finds divisible by the modulus

VARIABLES tasks, state
workflowVars == <<tasks, state>>
vars == <<runtimeVars, socketVars, workflowVars>>

(* A task of the runtime. History: `parent` is the position of the task that
   derived it, 0 for a submission, and `root` the submission's. *)
Node(id, step, correlation, sequence, parent, root) ==
    [id |-> id, protocol |-> step.protocol, payload |-> step.payload,
     correlation |-> correlation, sequence |-> sequence, parent |-> parent, root |-> root]

Linear == <<"workflow", "linear">>
Broadcast == <<"workflow", "broadcast">>

(* The payload of a workflow lists steps, or leaves them out; what is left out
   of a task is told from the ids the runners make up. *)
ASSUME WorkflowsListSteps ==
    \A s \in Submissions \cup Steps :
      s.protocol \in {Linear, Broadcast} => s.payload.steps \in {None} \cup Seq(Steps)
IdParts == Nat \cup {"step", "target", "workflow.linear"}
ASSUME NoneIsNoId == None \notin Seq(IdParts)

-----------------------------------------------------------------------------
(* Derivation of child tasks. *)

(* correlation_id.or(task_id). *)
CorrelationParentOnly(parent) == parent.id   \* mutant
Correlation(parent) == IF parent.correlation = None THEN parent.id ELSE parent.correlation

ChildIdOfProtocol(parent, step, kind, index) ==   \* mutant
    IF step.id = None THEN parent.id \o <<kind, step.protocol>> ELSE step.id
ChildId(parent, step, kind, index) ==
    IF step.id = None THEN parent.id \o <<kind, index>> ELSE step.id

SequenceIdOfStep(parent, index) == parent.id \o <<"step", index>>   \* mutant
SequenceId(parent, index) ==
    IF parent.payload.sequence = None THEN <<"workflow.linear">> \o parent.id
    ELSE parent.payload.sequence

(* step_task and target_task: a task of the named protocol with the parent's
   correlation. Steps are of one strict sequence, targets of none. *)
StepTask(n, index) ==
    LET step == tasks[n].payload.steps[index]
    IN  Node(ChildId(tasks[n], step, "step", index), step,
             Correlation(tasks[n]), SequenceId(tasks[n], index), n, tasks[n].root)
TargetTask(n, index) ==
    LET target == tasks[n].payload.steps[index]
    IN  Node(ChildId(tasks[n], target, "target", index), target,
             Correlation(tasks[n]), None, n, tasks[n].root)

(* linear_result and broadcast_result: a task per step, or an error and none. *)
ListsNone(task) == task.payload.steps \in {None, <<>>}
DerivableFirst(task) ==   \* mutant: only the first step is looked at
    /\ ~ListsNone(task)
    /\ task.payload.steps[1].protocol # None
Derivable(task) ==
    /\ ~ListsNone(task)
    /\ \A i \in DOMAIN task.payload.steps : task.payload.steps[i].protocol # None
LinearChildren(n) == [i \in DOMAIN tasks[n].payload.steps |-> StepTask(n, i)]
BroadcastChildren(n) == [i \in DOMAIN tasks[n].payload.steps |-> TargetTask(n, i)]

-----------------------------------------------------------------------------
(* The runners that only answer: config and permission, log, mock. *)

(* permission_check_result: paths by prefix, domains and resource kinds
   exactly, no other kind at all. A path is the sequence of its characters. *)
PermissionAnswer(payload) ==
    IF payload.request = None \/ payload.grants = None \/ payload.request.kind = None
      THEN "invalid_request"
    ELSE LET kind == payload.request.kind
             value == payload.request.value
             granted == IF kind \in DOMAIN payload.grants THEN payload.grants[kind] ELSE {}
             allowed ==
               CASE value = None -> FALSE
                 [] kind \in {"fs", "db"} -> \E grant \in granted : IsPrefix(grant, value)
                 [] kind \in {"http", "resource"} -> value \in granted
                 [] OTHER -> FALSE
         IN  IF allowed THEN "ok" ELSE "denied"

(* random_fail_result: a modulus of 1, or 0 which is taken as 1, always fails. *)
RandomFails(task) == task.payload.modulus < 2 \/ task.id \in Unlucky

DevAnswer(task) ==
    CASE task.protocol = <<"dev", "random_fail">> -> IF RandomFails(task) THEN "failed" ELSE "ok"
      [] task.protocol = <<"dev", "fail">> -> "failed"
      [] task.protocol \in {<<"dev", "echo">>, <<"dev", "sleep">>, <<"dev", "produce">>,
                            <<"dev", "consume">>} -> "ok"
      [] OTHER -> "unsupported"

ConfigAnswer(task) ==
    CASE task.protocol = <<"config", "describe">> -> "ok"
      [] task.protocol = <<"permission", "check">> -> PermissionAnswer(task.payload)
      [] OTHER -> "unsupported"

LogAnswer(task) ==
    IF task.protocol \in {<<"log", "emit">>, <<"trace", "span_start">>, <<"trace", "span_end">>,
                          <<"trace", "event">>} THEN "ok" ELSE "unsupported"

PureAnswer(task) ==
    CASE task.protocol[1] = "dev" -> DevAnswer(task)
      [] task.protocol[1] \in {"config", "permission"} -> ConfigAnswer(task)
      [] OTHER -> LogAnswer(task)

-----------------------------------------------------------------------------
Init ==
    /\ HttpInit
    /\ tasks = <<>>
    /\ state = <<>>

Derive(children) ==
    /\ tasks' = tasks \o children
    /\ UNCHANGED <<runtimeVars, socketVars>>

Sources == {i \in DOMAIN tasks : tasks[i].parent = 0}
Submit ==
    /\ Cardinality(Sources) < MaxSources
    /\ \E s \in Submissions :
         LET n == Len(tasks) + 1
         IN  s.protocol[1] # "effect" /\ Derive(<<Node(<<n>>, s, s.correlation, None, 0, n)>>)
    /\ state' = Append(state, "ready")

(* A task of the effect protocol may also come straight from the host. *)
SubmitDirect ==
    /\ \E s \in Submissions :
         /\ s.protocol[1] = "effect"
         /\ SubmitEffect(Task(<<0, submitted + 1>>, s.protocol, s.payload))
    /\ UNCHANGED <<socketVars, workflowVars>>

Ready(n) ==
    /\ state[n] = "ready"
    /\ \A k \in 1 .. n - 1 :
         (tasks[n].sequence # None /\ tasks[k].sequence = tasks[n].sequence) => state[k] # "ready"

Answers(n, answer, children) ==
    state' = [state EXCEPT ![n] = answer] \o [i \in DOMAIN children |-> "ready"]

(* One task through its runner. *)
RunLinear(n) ==
    /\ Ready(n) /\ tasks[n].protocol = Linear
    /\ LET children == IF Derivable(tasks[n]) THEN LinearChildren(n) ELSE <<>>
       IN  /\ Derive(children)
           /\ Answers(n, IF children # <<>> THEN "ok"
                         ELSE IF ListsNone(tasks[n]) THEN "invalid_steps" ELSE "invalid_step",
                      children)
RunBroadcast(n) ==
    /\ Ready(n) /\ tasks[n].protocol = Broadcast
    /\ LET children == IF Derivable(tasks[n]) THEN BroadcastChildren(n) ELSE <<>>
       IN  /\ Derive(children)
           /\ Answers(n, IF children # <<>> THEN "ok"
                         ELSE IF ListsNone(tasks[n]) THEN "invalid_targets" ELSE "invalid_target",
                      children)
RunRequest(n) ==
    /\ Ready(n) /\ tasks[n].protocol = ProtocolPairs[1].public
    /\ RunFacade(tasks[n], FacadeRefuses(tasks[n]), ProtocolPairs)
    /\ Answers(n, IF FacadeRefuses(tasks[n]) THEN "refused" ELSE "ok", <<>>)
    /\ UNCHANGED <<socketVars, tasks>>
RunPure(n) ==
    /\ Ready(n)
    /\ tasks[n].protocol \notin {Linear, Broadcast, ProtocolPairs[1].public}
    /\ Derive(<<>>)
    /\ Answers(n, PureAnswer(tasks[n]), <<>>)
Run(n) == RunLinear(n) \/ RunBroadcast(n) \/ RunRequest(n) \/ RunPure(n)

(* A crash takes the tasks that have not run with it. *)
ProcessCrash ==
    /\ HttpCrash
    /\ state' = [n \in DOMAIN state |-> IF state[n] = "ready" THEN "lost" ELSE state[n]]
    /\ UNCHANGED tasks

Next ==
    \/ Submit \/ SubmitDirect
    \/ \E n \in DOMAIN tasks : Run(n)
    \/ /\ HttpDispatch \/ Server \/ \E w \in Workers : EffectStep(w) \/ HttpAnswer(w)
       /\ UNCHANGED workflowVars
    \/ ProcessCrash

Spec == Init /\ [][Next]_vars

(* The scheduler runs ready tasks, the executor takes up batches, and a runner
   whose read timeout is set goes on: a server may stop or say nothing, but what
   it sends has an end. *)
Fairness ==
    /\ WF_vars(\E n \in DOMAIN tasks : Run(n))
    /\ WF_vars(HttpDispatch /\ UNCHANGED workflowVars)
    /\ \A w \in Workers : /\ WF_vars(EffectStep(w) /\ UNCHANGED workflowVars)
                          /\ WF_vars(HttpAnswer(w) /\ UNCHANGED workflowVars)
LiveSpec == Spec /\ Fairness

-----------------------------------------------------------------------------
(* Properties. *)

TypeOK ==
    /\ HttpTypeOK
    /\ Len(state) = Len(tasks)
    /\ \A n \in DOMAIN tasks :
         /\ tasks[n].parent \in 0 .. n - 1 /\ tasks[n].root \in Sources
         /\ tasks[n].parent # 0 => tasks[n].root = tasks[tasks[n].parent].root

(* Whatever a workflow derives, through any depth of nested workflows, carries
   the correlation of the submission, or its id when it has none
   (workflow-linear lib.rs:182, workflow-broadcast lib.rs:171). *)
CorrelationReaches ==
    \A n \in DOMAIN tasks :
      LET root == tasks[tasks[n].root]
      IN  n # tasks[n].root =>
            tasks[n].correlation = IF root.correlation = None THEN root.id ELSE root.correlation

(* A workflow derives a task for each of its steps, in their order and once, or
   answers an error and derives none: a malformed step leaves no half of a
   workflow behind (workflow-linear lib.rs:121, workflow-broadcast lib.rs:120). *)
Children(n) == {k \in DOMAIN tasks : tasks[k].parent = n}
WorkflowsAreWhole ==
    \A n \in DOMAIN tasks :
      LET steps == tasks[n].payload.steps
      IN  tasks[n].protocol \in {Linear, Broadcast} =>
            IF state[n] = "ok"
              THEN \E before \in 0 .. Len(tasks) :
                     /\ Children(n) = before + 1 .. before + Len(steps)
                     /\ \A i \in DOMAIN steps :
                          steps[i].protocol # None /\ tasks[before + i].protocol = steps[i].protocol
              ELSE Children(n) = {}

(* Derived ids are distinct, those of effect tasks included, when no step
   brings one that is taken (workflow-linear lib.rs:152, workflow-broadcast
   lib.rs:135, std-effect lib.rs:108). *)
IdsDistinct ==
    /\ \A m, n \in DOMAIN tasks : m # n => tasks[m].id # tasks[n].id
    /\ \A i, j \in DOMAIN issued : i # j => issued[i].id # issued[j].id
    /\ \A i \in DOMAIN issued, n \in DOMAIN tasks : issued[i].id # tasks[n].id

(* The HTTP requests of one linear workflow reach their servers in the order
   of its steps, although each is two tasks, the runtime runs what it likes in
   between and a step may fail (StrictSequence, workflow-linear lib.rs:187;
   preserve_order and max_inflight_batches, io-http-client lib.rs:140). *)
EffectOf(n) == Append(tasks[n].id, "effect")
RequestsFollowSteps ==
    \A a, b \in DOMAIN server : \A m, n \in DOMAIN tasks :
      (/\ m < n /\ tasks[m].parent = tasks[n].parent
       /\ tasks[m].parent # 0 /\ tasks[tasks[m].parent].protocol = Linear
       /\ issued[server[a].task].id = EffectOf(m) /\ issued[server[b].task].id = EffectOf(n))
      => a < b
=============================================================================
