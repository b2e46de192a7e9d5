---------------------------- MODULE EffectRuntime ----------------------------
(* The runtime as an effect plugin sees it: source tasks come to the facade,
   the effect tasks it derives are queued, and a batch of queued tasks is given
   to the effect runner on one of the executor's threads, never more batches at
   a time than the runner's descriptor allows. A batch is answered as a whole,
   when every entry has a result.

   The runtime is another repository: its queue and its threads are modelled
   from what the runners here are written against. *)
EXTENDS EffectFacade

CONSTANTS
    MaxWorkers,   \* threads of the executor
    MaxTasks,     \* bound: tasks submitted in a behaviour
    MaxBatch,     \* entries of a batch
    MaxCrashes,   \* bound: process crashes
    None          \* what a payload leaves out

ASSUME BoundsAssumption == {MaxWorkers, MaxTasks, MaxBatch, MaxCrashes} \subseteq Nat

VARIABLES
    submitted,    \* tasks submitted so far, the source of their ids
    issued,       \* every effect task ever queued, in order
    taken,        \* how many of them have left the queue
    batch,        \* what each worker runs, NoBatch when it is idle
    outcome,      \* by position in issued: the answered result, NoResult before
    crashes
runtimeVars == <<submitted, issued, taken, batch, outcome, crashes>>

Workers == 1 .. MaxWorkers

Batch(first, last, results) == [first |-> first, last |-> last, results |-> results]
Failure(code) == [code |-> code, value |-> {}]
Success(value) == [code |-> "ok", value |-> value]
NoBatch == Batch(0, 0, <<>>)
NoResult == Failure("none")

RuntimeInit ==
    /\ submitted = 0
    /\ issued = <<>>
    /\ taken = 0
    /\ batch = [w \in Workers |-> NoBatch]
    /\ outcome = <<>>
    /\ crashes = 0

(* The entry of its batch a worker is at. *)
Busy(w) == batch[w] # NoBatch /\ Len(batch[w].results) < batch[w].last + 1 - batch[w].first
Position(w) == batch[w].first + Len(batch[w].results)
Current(w) == issued[Position(w)]

NextTask(protocol, payload) == Task(<<submitted + 1>>, protocol, payload)

Enqueue(tasks) ==
    /\ issued' = issued \o tasks
    /\ outcome' = outcome \o [i \in DOMAIN tasks |-> NoResult]

(* A source task goes through the facade, a pure runner, which refuses it or
   derives its effect task. *)
RunFacade(source, refused, table) ==
    /\ submitted < MaxTasks
    /\ submitted' = submitted + 1
    /\ Enqueue(IF refused THEN <<>> ELSE DeriveEffectFromPair(source, table))
    /\ UNCHANGED <<taken, batch, crashes>>

(* A task of an effect protocol may also come straight from the host. *)
SubmitEffect(task) ==
    /\ submitted < MaxTasks
    /\ submitted' = submitted + 1
    /\ Enqueue(<<task>>)
    /\ UNCHANGED <<taken, batch, crashes>>

(* preserve_order: a batch is a prefix of the queue. The threads are alike, so
   the first idle one takes it. *)
Dispatch(w, size, maxInflight) ==
    /\ batch[w] = NoBatch /\ \A v \in 1 .. w - 1 : batch[v] # NoBatch
    /\ Cardinality({v \in Workers : batch[v] # NoBatch}) < maxInflight
    /\ size \in 1 .. MaxBatch
    /\ taken + size =< Len(issued)
    /\ taken' = taken + size
    /\ batch' = [batch EXCEPT ![w] = Batch(taken + 1, taken + size, <<>>)]
    /\ UNCHANGED <<submitted, issued, outcome, crashes>>

(* map_work_batch_entries: an entry's result, an error like any other, is kept
   and the next entry is run. *)
FinishEntry(w, result) ==
    /\ batch' = [batch EXCEPT ![w] =
                   Batch(batch[w].first, batch[w].last, Append(batch[w].results, result))]
    /\ UNCHANGED <<submitted, issued, taken, outcome, crashes>>

(* The whole batch is answered at once, when its last entry is done. *)
Answer(w) ==
    /\ batch[w] # NoBatch /\ ~Busy(w)
    /\ outcome' = [i \in DOMAIN outcome |->
                     IF i \in batch[w].first .. batch[w].last
                       THEN batch[w].results[i + 1 - batch[w].first] ELSE outcome[i]]
    /\ batch' = [batch EXCEPT ![w] = NoBatch]
    /\ UNCHANGED <<submitted, issued, taken, crashes>>

(* The process dies: its queue and its batches are gone, and it starts anew. *)
Crash ==
    /\ crashes < MaxCrashes
    /\ crashes' = crashes + 1
    /\ taken' = Len(issued)
    /\ batch' = [w \in Workers |-> NoBatch]
    /\ UNCHANGED <<submitted, issued, outcome>>

(* A task's result so far: answered, or kept in a batch that is still running. *)
Kept(i, w) ==
    batch[w] # NoBatch /\ i \in batch[w].first .. batch[w].first + Len(batch[w].results) - 1
Result(i) ==
    IF outcome[i] # NoResult THEN outcome[i]
    ELSE IF \E w \in Workers : Kept(i, w)
      THEN LET w == CHOOSE v \in Workers : Kept(i, v)
           IN  batch[w].results[i + 1 - batch[w].first]
    ELSE NoResult

RuntimeTypeOK ==
    /\ submitted \in 0 .. MaxTasks
    /\ Len(issued) =< submitted
    /\ Len(outcome) = Len(issued)
    /\ taken \in 0 .. Len(issued)
    /\ \A w \in Workers : batch[w] # NoBatch =>
          /\ 1 =< batch[w].first /\ batch[w].first =< batch[w].last /\ batch[w].last =< taken
          /\ Len(batch[w].results) =< batch[w].last + 1 - batch[w].first
    /\ crashes \in 0 .. MaxCrashes

(* Every effect task is answered, whatever became of the entries before it in
   its batch, unless it is lost in a crash (a property of the plugins' own
   specifications, under their fairness). *)
Pending(i) ==
    /\ i =< Len(issued)
    /\ i > taken \/ \E w \in Workers : batch[w] # NoBatch /\ i \in batch[w].first .. batch[w].last
Answered(i) == i =< Len(outcome) /\ outcome[i] # NoResult
EveryEffectAnswered ==
    \A i \in 1 .. MaxTasks :
      Pending(i) ~> (Answered(i) \/ (crashes > 0 /\ ~Pending(i)))
=============================================================================
