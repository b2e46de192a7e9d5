# MutsukiStdPlugins in TLA+

Formal models, model-checking runs and machine-checked proofs for the standard
plugins of Mutsuki. Paths are relative to the repository; `provider.rs`,
`descriptor.rs` and `mapping.rs` without a directory are those of
`plugins/mutsuki-plugin-resource-shared-memory/src/`, and a `lib.rs` in a module's
comments is that of the plugin the module names.

## 1. Inventory

The repository holds plugins for the Mutsuki runtime. The runtime (another
repository) owns scheduling, routing and registries; it calls a plugin through
`Runner::run_batch` or through a resource gateway trait, possibly from several
threads, and a plugin answers with results, with child tasks for the runtime to
schedule, or with a structured error.

| Component | State | Operations | Interactions | Hard behaviour |
| --- | --- | --- | --- | --- |
| shared-memory resource provider (`mutsuki-plugin-resource-shared-memory`) | per instance: `next_slot`, resources by slot, retired queue, all under one mutex; process-wide `MAPPING_SEQUENCE`; named OS mappings owned by handles | create blob / COW state, `collect`, `export`, `mapped_view`, `snapshot`, `commit`, `collect_garbage`, `SharedMemoryView::open` in another process | threads of the runtime; other instances and processes, through mapping names in descriptors | operations that take the mutex two or three times, commits that race, generations released under snapshots and views, descriptors that outlive an instance |
| in-memory resource provider (`mutsuki-plugin-resource-memory`) | slot counter and entries under one mutex | create, collect, export, snapshot, commit, command plans, command batches and sagas | threads of the runtime, the browser runner | snapshot in two critical sections, batches and sagas that fail half-way |
| Chromium browser runner (`mutsuki-plugin-io-browser-chromium`) | none of its own; Chromium and its tabs, the COW output resource | `run_batch`, `snapshot`, `dispose`, `cancel` | memory provider (commits the page to a pre-created output) | a page loaded before its commit is refused; tabs left open by an error; redirects and tabs that move on while they are read; cancellation; a browser that goes away |
| filesystem effects (`mutsuki-plugin-io-fs`) | the directory tree, temporary files | facade (public protocol to effect task), effect runner (ten operations) | runtime (child task), file system | non-atomic write through a shared temporary name, crash between two host calls, operations that are many calls, links that lead out of what a task may touch |
| SQLite effects (`mutsuki-plugin-db-sqlite`) | the database file | open, query, execute, transaction, close | runtime, SQLite, other processes on the same file | all-or-nothing of a transaction, a connection per task, a write lock that is another's |
| HTTP effects (`mutsuki-plugin-io-http-client`) | a socket per request | request facade, effect runner | runtime, remote server | replies that break off, a server that says nothing more, a timeout of zero |
| effect facade helper (`mutsuki-std-effect`) | a static pair table | `effect_for`, `public_for`, `derive_effect_task` | the three facades above | ids and payload of derived tasks, uniqueness of pairs |
| linear workflow (`mutsuki-plugin-workflow-linear`) | none; derives tasks | one task per step under one sequence id | runtime scheduler | all-or-nothing derivation, order through two stages of tasks, colliding ids |
| broadcast workflow (`mutsuki-plugin-workflow-broadcast`) | none; derives tasks | one task per target | runtime scheduler | all-or-nothing derivation, ids |
| config and permission (`mutsuki-plugin-config-permission`) | none | describe the configuration, check a request against grants | host | prefix and exact rules, deny by default |
| observe log (`mutsuki-plugin-observe-log`) | none | turn a task into a log event | host | none: one pure mapping |
| dev mock (`mutsuki-plugin-dev-mock`) | none | echo, sleep, fail, random fail, produce, consume | test hosts | none: a test double |
| protocol crates (`protocols/*`) | none | ids, schemas, DTOs | every plugin | none: data declarations |
| catalog (`mutsuki-std-plugins`) | a static catalog | factories | host | none: construction only |
| benchmarks, scripts, artifacts | none | measure | - | none |

What makes each correct:

* **shared-memory provider** - a version of a slot names one mapping for good
  (no lost update); a read returns the bytes of the descriptor in its plan; a
  plan is called stale only if it is; current and retained generations can be
  opened by name; the generations retained are the newest replaced ones and
  never too many; a sealed resource never changes; a snapshot is honest about
  `is_latest`; owned bytes respect the caps; together: it implements an atomic
  versioned store.
* **memory provider** - the same store, without names; a batch stops at its
  first failure; a saga stops there too and then runs every compensation, the
  last one first, whatever other threads do in between.
* **browser runner** - as long as the provider is not loaded again, a page
  replaces the very version its task named, or nothing; an answer tells which;
  what is stored names a URL of an allowed site and keeps to the size limit; every
  tab is closed; every task is answered.
* **filesystem** - a write replaces its target whole or not at all, whatever
  crashes; the tree stays a tree; tasks take effect one after the other in the
  order of the queue; nothing outside a task's allow-list changes, wherever links
  lead, except what section 5 lists.
* **SQLite** - a file changes by whole transactions only; the answer says
  whether a task's is among them; queries show committed states in order; a
  read-only task changes nothing; a held lock stops nobody for good.
* **HTTP** - a request is sent at most once and in order; a task completes with
  the reply to its own request, up to where the server closed the connection, or
  with an error; a reply that stops until the read timeout is an error.
* **workflows** - a workflow yields all of its tasks or none, with distinct ids
  and the correlation of the submission they come from; the requests of a
  linear workflow arrive in the order of its steps.
* **runtime and facades** - every effect task that is queued is answered,
  whatever became of the entries before it in its batch, unless it is lost in a
  crash.

## 2. Modules

| Module | What it is |
| --- | --- |
| `SharedMemoryProvider` | any number of provider instances and threads, one action per critical section or OS call; properties and the mutated forms of definitions used to test them |
| `ResourceStore` | the abstract specification: a store whose operations are atomic |
| `SharedMemoryRefinement` | the refinement mapping from one provider instance to the store |
| `SharedMemoryProofs` | theorems about `SharedMemoryProvider` with proofs, and of the refinement |
| `MCSharedMemory`, `MCSharedMemoryRefinement` | constants and symmetry for TLC |
| `MemoryProvider` | one in-memory provider and any number of threads, one action per critical section |
| `MemoryRefinement` | the refinement mapping from it to the same `ResourceStore` |
| `MemoryProofs` | theorems about `MemoryProvider` with proofs, and of the refinement |
| `MCMemory` | constants and symmetry for TLC |
| `EffectFacade` | the pair table of public and effect protocols, and the derivation of an effect task |
| `EffectRuntime` | queue, batches, workers, answers and crashes, as effect plugins see the runtime; the part all plugin modules below extend |
| `EffectRuntimeProofs` | lemmas about `EffectRuntime` that the plugins' proofs share |
| `FsEffects`, `MCFs` | the filesystem plugin with the tree, one action per host call |
| `FsProofs`, `FsSerialProofs` | theorems about `FsEffects` with proofs; the second has that effects happen as if one after the other |
| `SqlStatements` | what SQLite does with a statement |
| `SqliteEffects`, `MCSqlite` | the SQLite plugin with the lock, connections and another process |
| `AtomicDatabase` | the abstract specification: a database that changes by whole transactions, each task's at most once |
| `SqliteRefinement` | the refinement mapping from the plugin to it |
| `SqliteProofs` | theorems about `SqliteEffects` with proofs, and of the refinement |
| `HttpEffects` | the HTTP plugin with sockets and servers |
| `Workflows`, `MCWorkflows` | both workflow plugins, the runners that only answer (permission, log, mock), the scheduler, composed with `HttpEffects` |
| `WorkflowsProofs` | theorems about `Workflows` and the `HttpEffects` in it |
| `BrowserRunner`, `MCBrowser` | the browser plugin with Chromium, composed with `MemoryProvider` |
| `BrowserProofs` | theorems about `BrowserRunner` |

In every module a definition whose comment says `mutant` is a wrong form of the
one below it; nothing uses it but the check that the properties notice.

### How `SharedMemoryProvider` corresponds to the code

| Variables | Code |
| --- | --- |
| `sequence`, `maps` | `MAPPING_SEQUENCE` and the named OS mappings. The bytes behind a name never change: `create_mapping` fills them before the name is published, so `maps` only grows. A name whose creation failed holds `None` |
| `nextSlot`, `resources`, `retired` | the fields of `SharedMemoryResourceState`, per instance |
| `call` | a thread's position inside an operation, with the locals it carries over an unlock |
| `held` | the `SharedMemoryView` a thread keeps |
| `reply` | what the step just taken returned; `None` for a step inside a call |
| `published` | every descriptor ever handed out, which is what plans can carry; a history, never read by a critical section |
| `drops` | counts instance drops, for the bound only |

A *handle* is an `Arc<OwnedMapping>`. Handles are not counted: the live clones
are exactly the values reachable from the state (`Handles`), and a name is
linked (`Linked`) while an owning one is among them. That is the drop behaviour
of `Shmem`, the one external thing the model depends on, next to the threads
that call the provider.

| Action | Code |
| --- | --- |
| `Create`, `CreateHostFails`, `CreateExhausted` | `create_blob_resource`, `create_cow_state_resource`: one critical section; a failing host call has used its slot and its name |
| `DescriptorFor` | the first critical section of `collect` and `export`. When the slot is unknown the caller's descriptor goes on unchanged |
| `StartView`, `ContinueRead` (`MappedView`) | the critical section of `mapped_view`, reached directly (view, snapshot) or after `DescriptorFor` |
| `OpenMapping` | `mapped_view` of an unknown slot: `SharedMemoryView::open`, outside the mutex |
| `OpenView`, `DropView` | `SharedMemoryView::open` by another process, and the view's drop |
| `UseView` | what `collect`, `export`, `view` and `snapshot` do with the view, in the step that obtained it: the view owns its mapping and the mapping is immutable, so nothing can come in between that would show |
| `InsertSnapshot`, `InsertSnapshotExhausted` | the second critical section of `snapshot_read_plan` |
| `RefuseCommit`, `PrepareCommit`, `CommitHostFails` | the part of `commit_write_plan` before its critical section |
| `InstallCommit`, `RejectCommit` | its critical section. A slot the instance does not know is adopted without a check, as in the code |
| `CollectGarbage`, `DropProvider` | `collect_garbage`; an instance dropped by its host when no call uses it, then loaded again with slot numbers from 1 |

Abstractions. Descriptors keep the fields that some check reads or that a
property tells apart (`provider_id` is the same constant for every instance, so
it cannot tell them apart, and is left out). Error codes keep the classes
callers can act on. Plans enter through `published` descriptors, base versions
equal to or one below the descriptor's (`Bases`), and `Limits`. The copy
metrics (atomic counters that nothing reads back) and mutex poisoning (a thread
panicking inside the mutex; no code there panics) are left out.

### How `MemoryProvider` corresponds to the code

| Variables | Code |
| --- | --- |
| `nextSlot`, `resources` | the fields of `MemoryResourceState` |
| `call` | a thread between two critical sections of one operation, with the locals it carries: a snapshot's copied source, or what a batch or saga has run and has left |
| `reply` | what the step just taken returned; `None` for a step inside a call |
| `published` | every descriptor handed out, with the bytes it was handed out for. Plans carry these; the bytes are read by the properties only |
| `reloads` | counts reloads, for the bound only |

| Action | Code |
| --- | --- |
| `Create` | `create_blob_resource`, `create_cow_state_resource`, `create_capability_resource`, all through `create_resource` |
| `Read` | `collect_read_plan` for `collect` and `get`, `execute_export_plan` for `inline_utf8` |
| `SnapshotRead`, `SnapshotInsert` | the two critical sections of `snapshot_read_plan` |
| `Commit` | `commit_write_plan`, which is one critical section here |
| `CommandPlan` | `execute_command_plan` |
| `StartCommands`, `RunStep`, `Compensate`, `FinishCommands` | `execute_command_batch` and `execute_saga_plan`; each command is a critical section of its own |
| `Unsupported` | operations, targets, streams and batches the provider refuses by their name |
| `Reload` | the runtime replaces the provider when no call is under way: its state is gone, descriptors stay in the callers' plans |

Abstractions. A resource id is its slot; `generation` is 1 for good and left
out with its two comparisons; `provider_id` is one constant, so
`ensure_provider` cannot fail for a descriptor this provider handed out; kinds,
schemas, receipts' wording and `is_latest` (the constant `true`) are left out.
A command is the capability it names and whether its operation is `query`.

### How `EffectFacade` and `EffectRuntime` correspond to the code

`EffectFacade` is `mutsuki-std-effect`: `ValidateUnique`, `PairForPublic` (the
first match, as `find` gives it), `DeriveEffectTask` (the source's payload under
`{id}:effect`) and `DeriveEffectFromPair`.

`EffectRuntime` is the runtime of another repository, as far as the runners here
rely on it: the tests that drive a runner through `run_batch`, its
`RunnerDescriptor` (`preserve_order`, `max_inflight_batches`) and
`map_work_batch_entries`.

| Variables | Meaning |
| --- | --- |
| `submitted` | tasks submitted, the source of ids and a bound |
| `issued`, `taken` | every effect task ever queued, in order, and how many have left the queue |
| `batch` | per worker, the entries of its batch and the results kept so far |
| `outcome` | answers, by position in `issued` |
| `crashes` | counts crashes, for the bound |

| Action | Code |
| --- | --- |
| `RunFacade` | a facade's `run_batch` on one task: an error and no task, or the derived effect task |
| `SubmitEffect` | an effect task the host submits itself, past the facade and its checks |
| `Dispatch` | a batch, a prefix of the queue, given to an idle worker while fewer than `max_inflight_batches` are under way |
| `FinishEntry` | `map_work_batch_entries`: the entry's result, error or not, is kept and the next entry is run |
| `Answer` | the batch is answered as a whole after its last entry |
| `Crash` | the process dies; queue and batches are gone |

A plugin module refines what happens between `Dispatch` and `FinishEntry`: its
actions are steps of the worker's current entry. `Current(w)` is that entry.

### How `FsEffects` corresponds to the code

`tree` is the file system, by path: a directory, a file, a link with the name it
leads to, or nothing. `op` is what a half-done operation of a worker carries, and
`names` the paths its checks came to (`path`, `to` and the allow-list after
`absolute_path`). One action is one host call that changes the tree, so that a
crash or a failure of the host (`HostFails`) may come between any two.

`Walk` follows the links on a name, as the host does, at most `MaxLinks` of them;
`There` is `Path::exists`. `Absolute` is `absolute_path`: a name that is there is
followed to its end (`canonicalize`); of one that is not, the longest part that is
there is followed, and the rest is joined as it was given. A link at the end of
such a rest, one that leads nowhere, is therefore kept, and the call that opens
the file follows it (`Opened`).

| Action | Code |
| --- | --- |
| `Refuse`, `Check` | `checked_path` and `absolute_path` on path, target and allow-list, the unknown protocol and the missing content: the task is refused, or goes on with the names found |
| `Read`, `List`, `Stat`, `Exists` | `read`, `list`, `stat`, `exists` |
| `OpenWrite`, `Fill`, `FillEnds`, `RenameWritten` | `atomic_write`: create the temporary file, fill it, rename it over the target |
| `OpenAppend`, `Fill`, `FillEnds` | `append` |
| `OpenCopy`, `Fill`, `FillEnds` | `fs::copy`. Opening the target truncates it, the source too when they are one |
| `Move` | `fs::rename` |
| `RemoveFile`, `RemoveDir` | `remove_file`, which takes a link and not what it leads to; `remove_dir_all` leaf by leaf |
| `MakeDir` | `create_dir_all` from the top |

### How `SqliteEffects` corresponds to the code

`db` is what each file durably holds, `lock` SQLite's write lock, `conn` a
worker's connection, `commits` the history of commits.

| Action | Code |
| --- | --- |
| `Refuse`, `Close`, `Open`, `SqlMissing` | the checks, and the operations that run no SQL |
| `OpenConnection` | `open_connection`: read-only on a file that must be there, or writable and creating it |
| `Select` | `query_rows` of a SELECT |
| `Autocommit` | `execute_sql`, and `query_rows` of any other statement. Of the SQL only the first statement is prepared and run |
| `Begin`, `RunStatement`, `Commit` | `execute_transaction`; BEGIN takes no lock, the first write does |
| `LockTimesOut` | `busy_timeout` passes while another holds the lock that a write needs (`NeedsLock`; a write on a read-only connection is refused at once) |
| `HostFails` | disk full, file not readable |
| `OtherLocks`, `OtherCommits`, `OtherRollsBack` | another process on the same file |

An early return drops the transaction and the connection, which is what `Fail`
does: what was not committed is gone and the lock with it. A crash does the
same; the other process keeps its lock.

### How `HttpEffects` and `Workflows` correspond to the code

`stream` is a worker's socket, `server` the requests that arrived, each with what
was sent back. `tasks` and `state` are the tasks of the scheduler; a task keeps
its `parent` and its `root`, which the code does not and the properties need.

| Action | Code |
| --- | --- |
| `Refuse`, `Connect`, `Send`, `ReadEnds`, `ReadTimesOut` | `execute_http` with its checks: connect and set the timeouts (zero is an error), `write_all`, `read_to_string` up to the end of the stream or the read timeout |
| `ServerSends`, `ServerCloses` | the server, which owes nothing |
| `RunLinear`, `RunBroadcast` | `linear_result`, `broadcast_result`: a task per step or target, or an error and none |
| `RunRequest` | the HTTP facade |
| `RunPure` | the runners that only answer: `ConfigAnswer` (`config.describe`, `PermissionAnswer` for `permission_check_result`), `LogAnswer`, `DevAnswer` with `random_fail_result` |
| `Submit`, `SubmitDirect`, `ProcessCrash` | the host; the process's death |

The scheduler (`Ready`) runs any ready task, except that tasks of one strict
sequence run in the order in which they came. A crash loses tasks that have not
run. An effect task has the id and payload its facade gave it; correlation and
ordering of effect tasks are handed on by a function of another crate
(`derive_with_protocol`) and are left out.

### How `BrowserRunner` corresponds to the code

`browser`, `tabs` and `kept` are Chromium's, `fetch` is what `snapshot` is at and
what it has read so far, and the provider's variables are `MemoryProvider`'s, whose
actions `Create`, `Commit` and `Reload` are used as they stand. `handed` is a
history: every entry of the provider, each with the number of the reload it is of.

| Action | Code |
| --- | --- |
| `Refuse`, `OpenTab`, `Navigate`, `WaitForSelector`, `FetchFails`, `CloseTab` | `run_task` up to `snapshot`, and `snapshot`: each call of Chromium may fail or time out, and the tab is closed on every way out |
| `ReadUrl`, `ReadTitle`, `ReadContent` | `get_url`, `get_title` and `get_content`: the tab may show another page at each, so that the URL kept is of one page and the content of another |
| `CheckFails`, `CommitPage` | `run_task` after it: the redirect and the size are checked, the page is committed at the version the task's descriptor names |
| `CancelBatch` | `run_batch` looks for a cancel request once, before its entries |
| `BrowserGoes`, `Dispose` | Chromium goes away or is disposed of; it is not launched again |
| `HostStep` | other callers create and commit; the runtime reloads the provider, also between the loading of a page and its commit |

### Plan

1. *Done*: `SharedMemoryProvider`, `ResourceStore`, refinement, proofs.
2. *Done*: `MemoryProvider`, with command batches and sagas, shown to implement
   `ResourceStore` too; its proofs.
3. *Done*: `EffectFacade`, `EffectRuntime`; `FsEffects` and `SqliteEffects` with
   crashes, failures and another process; `AtomicDatabase` and the refinement.
4. *Done*: `HttpEffects` composed with both workflows and the scheduler.
5. *Done*: `BrowserRunner` composed with `MemoryProvider`.
6. *Done*: the lemmas about `EffectRuntime`, and theorems about every module that
   models a plugin, with both refinements of `AtomicDatabase` and both of
   `ResourceStore`: every invariant and action property that a run checks.

## 3. Runs

| Run | Instance | Shows |
| --- | --- | --- |
| `SharedMemoryRaces` | 1 instance, 2 threads, 3 slots, 5 mappings, 3 versions, 2 retained | types; no lost update; generations openable; snapshots honest; the newest replaced generations retained, of one resource or of two; rejections justified; sealed stays sealed |
| `SharedMemoryInstances` | 2 instances, 1 thread, 1 drop, failing host | descriptors and mappings stay paired although slots collide; no name is owned by two instances |
| `SharedMemoryRefinement` | 1 instance, 2 threads, 2 contents, every kind of `max_bytes` | the provider implements `ResourceStore`; byte limits of collect and export |
| `SharedMemoryForeignSlot` | small | a disagreement between code and comment (section 5) |
| `MemoryCommands` | 1 thread running commands, 1 creating and committing, 2 slots, 2 versions, lists of up to 2 commands | types; batches and sagas as if atomic |
| `MemoryReload` | 1 thread, 1 reload, 2 slots, 2 versions, 2 contents | entries honest although old descriptors are in use |
| `MemoryRefinement` | 2 threads, 2 slots begun, 2 versions, 2 contents | snapshots faithful; the provider implements `ResourceStore` |
| `FsEffects` | 2 tasks of 27 kinds in a tree of 17 names, 5 of them links, 2 workers, batches of up to 2, 1 crash, failing host | the tree is one; writes atomic; effects serial and in order; only what is allowed touched |
| `SqliteEffects` | 2 tasks of 20 kinds on 2 files, 2 workers, 1 crash, 1 commit of another process, failing host | types and lock; success is commit; queries in order; the plugin implements `AtomicDatabase`; read-only is; every task answered |
| `SqliteSecondStatement` | the same | a disagreement between code and test (section 5) |
| `Workflows` | 1 workflow of 10 kinds or direct requests, up to 2 requests, 2 workers, 1 crash | types and sockets; correlation; whole workflows; distinct ids; requests in the order of steps, once; replies to the request, up to the server's close; every request answered |
| `Browser` | 2 tasks, 3 pages that a tab may show at any read, 1 output, 3 versions, 1 reload, other commits | types; no tab left open; what is stored names an allowed URL and is short enough; no lost update; errors store nothing; every task answered |

Bounds. For `SharedMemoryProvider`, `MaxNames` bounds the mappings, and with
them creates and commits; `MaxSlot` and `MaxVersion` are `u64::MAX` scaled down,
so that exhaustion happens and is checked; `MaxDrops` bounds instance drops;
`ReadOps` selects the read operations a run exercises and `HostMayFail` whether
the OS may refuse a mapping, to keep each run to the operations its question is
about. Two threads are enough for a race on one mutex between two critical
sections of one operation. In `SharedMemoryRaces`, whose only read is `snapshot`,
five mappings allow two resources with two commits on one and one on the other, or
racing commits on either: the retired queue holds two generations of one resource,
or one of each of the two, which compete for it, and a third drops the oldest.
Three slots allow two resources and a snapshot of one. In the refinement run, with its reads, three mappings allow a
resource and a racing pair of commits on it, or a commit followed by another.
`SharedMemoryRaces` has one content: bytes are only copied there, and the
mappings that hold them are told apart by name; the refinement run has two.
Threads, instances and contents are interchangeable where a run declares
symmetry, and those runs check safety only. Deadlock is checked in these runs: a
thread can always call `collect_garbage`.

For `MemoryProvider`, `MaxSlot` and `MaxVersion` bound creations and commits
only: the code's counters are unchecked `u64` additions that no execution
exhausts. A create or snapshot is begun below `MaxSlot`; snapshots begun by
several threads may end above it, which the refinement's slots allow for. Two
commands in a list are enough for a failure first, last and not at all, and for
an order of compensations to show; two slots give a capability and a resource
that is none, or a resource and its snapshot; two versions a descriptor that is
current and one that is stale. `UsesOf` selects each thread's operations, to
keep a run to its question; `MaxReloads` bounds reloads.

For the effect plugins, `MaxTasks` bounds submissions, `MaxBatch` the entries of
a batch, `MaxWorkers` the executor's threads, `MaxCrashes` the crashes, and
`MaxForeign` the other process's commits, `MaxSources` the submitted workflows,
`MaxStatements` the length of an abstract transaction. Two tasks are enough for
one to disturb, overtake or follow another, in one batch or in two; two workers
let two batches run at once if `max_inflight_batches` allowed it, which the
mutant with two shows. One crash divides a behaviour into what was before and
what comes after, on a tree or a database it left. The tasks offered cover every
operation, each check that refuses one, and pairs that share a file, a
directory, or the name of a temporary file; the file tasks meet a link out of the
allow-list to a file and one to a name that is not there, one into it, one at the
name of a temporary file, and one that leads to itself, on their own names and
among the allow-list's. `MaxLinks` is the host's limit on links followed in one
name; every name of this tree but the one that leads to itself needs at most one.
The workflows nest, name their own sequence, bring an id of their own, and list
malformed steps. The browser has one thread because its runner is one object that
a batch has to itself; its pages are one that may be stored, one that is too long,
and one of another site.
These runs say `CHECK_DEADLOCK FALSE`: when the bounded submissions are used up
and all is answered, the system rests.

Fairness. `EveryEffectAnswered` is checked under `LiveSpec` of the three plugin
modules that wait for something: the runtime dispatches what is queued and takes
answers (it is not blocked by anything of these plugins); a runner goes on, one
step after the other, since each of its calls returns: host calls return, a read
of a socket ends at the read timeout, a statement at the busy timeout, a call of
Chromium at its timeout. Of a server it is assumed that what it sends has an end:
it may stop, say nothing or close at any point, but one that goes on sending a
byte before each read timeout is never timed out by the code, and a task that
reads from it has no answer. Nothing is assumed of the other process, which may
keep the lock for ever, of Chromium, of callers of the provider, or of
submissions. Each fairness condition is weak: the step stays enabled until it
is taken, or until something else answers the entry. The runs show that no
entry waits for another plugin, a lost browser or a silent server, and that a
failed entry does not stop its batch. The two providers have no liveness
property: no operation of theirs waits beyond the mutex, which every critical
section releases, so their specifications state safety only.

## 4. Theorems

All for every value of the constants that satisfies the assumptions of the
component's module, which TLC evaluates in every run: sizes and bounds are
natural numbers, limits are numbers or one of three other values, the empty
content is UTF-8; the value for "absent" is none of the values it stands in for
(`NoneIsNoReply`, `NoneIsNoId`, `NoneHoldsNoLock`); the in-memory provider is
used by finitely many threads (`ClientsAreFinite`), as the runtime's pool is; a workflow's payload lists
steps or leaves them out (`WorkflowsListSteps`); every database file has an
initial state (`EveryFileHasAState`), database tasks name such files and SQL of
the texts offered (`RequestsNameFiles`), and the abstract database's statements
are those of these texts (`StatementsAreListed`); paths are sequences of names,
those the tree has room for closed under parents and under the temporary name
(`PathsAreClosed`), tasks name such paths and a content in chunks
(`RequestsNamePaths`), and the tree is one at first, of directories and of files
with chunks (`InitTreeIsTree`, `InitTreeHoldsNodes`), with links anywhere; what others store is told from a page (`ContentsDiffer`), a browser task names its output
(`RequestsNameOutputs`), and the provider next to the browser satisfies the
provider's own assumptions (`ProviderAssumption`).

### `SharedMemoryProofs`

*Any number of instances and threads, instances dropped and loaded again.* The
inductive invariant `GInv` says that whatever is kept anywhere - an entry, a
retired generation, a view, a half-done call - names a mapping that was
created, and pairs a descriptor with that mapping; and that the retired queue
is within its bound. From it: `TypeCorrect`, `BytesMatchDescriptorHolds`,
`RetentionBoundHolds`. `TypeOK` alone is not inductive: a read that is half
done copies bytes from `maps`, so that its mapping was created has to be
carried along.

*One instance that is never dropped* (`OneInstance`; with two, the findings of
section 5 break most of these). `SInv` adds: a slot and version name one
descriptor for good; the current descriptor of a slot is published and no
published one is newer; a half-done call holds a descriptor that was published,
or, for a commit, the successor of one; entries, calls and views of this
instance hold the owning handle. From it: `NoLostUpdate`,
`ReadsAreConsistent`, `SnapshotsAreHonest`, `CurrentAlwaysOpenable`, and the
action properties `RejectionsAreJustified` and `SealedStaysSealed`. The
invariant has to speak of published descriptors because a commit checks in its
critical section a plan made before it: that the new version is not already
taken follows from "no published version is newer than the current one" and
from nothing the critical section reads.

Each step lemma treats one action; `ClientInv` and `SClient` combine them.

Four theorems have invariants of their own on top of these. `NamesHaveOneOwner`,
of any number of instances: no two instances, nor half-done calls of two, keep an
owning handle of one name (`OwnersOK`), since an owning handle is made with a new
name and otherwise only copied inside one instance; what was opened by name
does not own, and the view a thread keeps is stored by nobody. `OwnedBytesStayBounded` follows
from the limit a half-done read carries. `NewestAreRetired`: the
entries of a slot that follow an entry in the queue, and the current one, are
the generations after it, and the queue is as long as its bound and the number
of replaced generations let it be (`QueueInv`, in cardinalities of finite sets). A
commit appends the generation it replaces, which adds one to every count of its
slot as it adds one to the current version; what it drops is at the front, where
no count of another entry includes it.

`ProviderIsAtomicStore` is the refinement, one instance and any number of
threads. The mapping reads a slot's log off `published` (`BytesOf`), so the proof
needs that every version up to the current one was published (`CompleteInv`) and,
from `SInv`, that there is one of each; `LogFact` turns these into what the log
is. The steps that store something (`Create`, `InsertSnapshot`, `InstallCommit`)
extend the log of one slot (`CommitLog`) and map to the store's own operations;
`StoringSteps` shows that there are no others, and `AnswerMaps` that whatever
else a step answers is what the store may answer at that moment: a successful
read has the current bytes of its slot, although it looked the slot up in one
critical section and read it in another, and a mismatch is of a version that is
really not current.

### `MemoryProofs`

*Any number of threads and reloads.* The inductive invariant `GInv` is `TypeOK`
and `EntriesHonest`. `TypeOK` needs `EntriesHonest`: a commit replaces what it
finds under the slot of the plan's descriptor, and the slot its own descriptor
says is the same only because entries are honest. From it: `TypeCorrect`,
`EntriesStayHonest`.

*Not loaded again* (`LoadedOnce`; section 5 shows why). `DInv` adds
`CurrentSound` - a published descriptor is not beyond the current one of its
slot, and of the current version there is one, the entry itself - and
`CallSound`, which says of a half-done call where it is: a snapshot holds an
entry that was published for its plan's descriptor, a batch has run a prefix of
its list whose commands were all granted, a saga past its first failure has run
that prefix and the compensations from the last one on. Why a list of commands
ends as if it had run in one step: a commit never touches a capability, so the
outcome of a command is fixed by the plan alone (`Granted`), and what a command
found when it ran is what it would find at the end. From it:
`ReadsAreConsistent`, `SnapshotsAreFaithful`, `CommandsAreAtomic`.

`MemoryIsAtomicStore` is the refinement of `ResourceStore`, under the same
condition. `RInv` adds what the mapping needs: every version of a slot up to the
current one was handed out, once, so that the slot's log can be read off
`published` (`HandedOut`); a half-done call works on a descriptor that is there
(`AskedFor`); and a slot is only begun while there are fewer than `MaxSlot`, but
threads that are past that test each add one (`RoomLeft`), which is why the
store below has `MaxSlot` slots and one per thread. `StepCases` says that a step
adds a resource, adds a version to one, or leaves all of them alone; the first two
map to the store's own operations (`CreateMaps`, `SnapshotMaps`, `CommitMaps`), the
third to an answer the store may give at that moment, or to nothing (`QuietMaps`).

### `EffectRuntimeProofs`

`RuntimeInv` is the invariant the plugins' proofs share, for runners that allow
one batch at a time, which all of them do: the counters fit the queue
(`QueueInv`), at most one worker has a batch (`OneBatch`), its entries have left
the queue, and whatever is in the queue or in that batch has no answer
(`UnansweredInv`). `Gave(i, r)` says that task `i` was given the answer `r`, by an
answered batch or by one still under way. There is one lemma per action of the
runtime: it keeps the invariant and gives no task an answer, except that
`FinishEntry` gives one to the entry the worker is at (`FinishEntryInv`), to
which none had been given (`GaveFacts`). A plugin's proof therefore looks at its
own variables, and at answers only where it finishes an entry. The batch under
way is the last that was taken (`BatchInv`), so the entry a worker is at comes
after every task that was answered. The module also has the facts about
numbers and sequences that several proofs need; `LeastNatural` (a set of natural
numbers that is not empty has a least member, from the well-founded order of the
library) does where a proof would use induction: suppose a counterexample and take
the least.

### `FsProofs`

`FsInv` adds to it: what is there is in a directory (`IsTree`); every queued task
carries a payload that was submitted (`IssuedInv`); the names a task's checks came
to are in the tree, under its allow-list, and of a task that has been taken up
(`NamesInv`, `FoundOK`, `Fresh`); and an operation half done belongs to the busy
worker, has passed the checks, and fills or removes what its protocol says
(`OpInv`, `Underway`). The two theorems need each other: `AllowListsConfine` holds
of the rename that ends a write only because no directory is at the temporary name
while the write is under way, so that the rename takes away that one name and no
path under it. The first part is a list of facts about prefixes, by index, since a
path may have any length; `CarriedPrefix` is the one that lets a renamed directory
keep its shape (`TreeRename`).

Links come in through `NoLinkOn` and `AbsoluteOfThere`: a name that is there leads,
by `absolute_path`, to a name with no link on it, so the file that is opened is the
name that was checked against the allow-list; of a name that was not there nothing
of the kind holds, which is why `MayChange` has an exception for it. Any other
change is at a checked name or below it (`CoveredBelow`), or makes a directory
above one, for a rename, a removal and the making of directories do not follow a
link at the end of a name. `NodesInv` adds that every name has nothing, a directory,
a link or a file of chunks. From them: `TypeCorrect` and the action property
`AllowListsConfine`.

For `WritesAtomic`, a write under way has its temporary file hold what it has
stored so far, what it has left being the rest of its content (`FillInv`), and a
file that only writes touch holds what one write stored, whole, no later write
having succeeded (`AtomicInv`); a write whose temporary name is a link is not one
of these (`Disturbs`), since the target becomes that link. That no second write is between the two halves of
the first, on the same temporary name, is `OneBatch`; that a torn temporary file
is never renamed is that `RenameWritten` comes only when nothing is left.

### `FsSerialProofs`

`EffectsAsIfSerial` needs no induction over the steps of a task, only an invariant
that remembers the tree the task began with, and that its names are those its
checks find in that tree (`Named`): with one batch under way nothing moves between
the checks and the work. `Midway(w, base)` says how far from
that tree a half-done task can be: one file filled with the beginning of what it is
to hold (`Filling`), some names below a directory gone (`Removing`), some
directories above a name made (`Making`). `EffectStepSerial` is the heart: a step
of any of the ten operations goes on in this way, or ends the task with the tree
and the answer of `Applied(base, task)`, unless the host or a write failed. For
`remove_dir_all` it is that whatever is left when a directory has no children is
the base without it and what was below; for a write, that the rename of the
temporary file, or of the link at its name, leaves the base with two names changed
beside the file filled (`RenameOfFile`). `SerialInv`
says that there is a number n such that the first n tasks have the answers of the
run of `Applied` up to n and the tree follows from that run's last, n + 1 being the
entry the worker is at: a batch is taken when no other is under way, so a task
begins with the tree its predecessor left. The run is a recursive function, of
which the proof needs only that it exists (one step is added at a time,
`RunOneMore`) and that there is no other (`RunIsOne`, by the least argument at
which two would differ).

### `SqliteProofs`

`SqlInv` adds to it: only a busy worker has a connection; what was committed was
committed by tasks before the one under way (`CommitsInv`); a read-only
transaction has seen nothing but what the file holds (`FilesInv`); and every
answer given tells the truth (`ReportInv`). `CommitsInv` is what makes the rest
inductive: a task that ends with an error has committed nothing because no
commit bears its position, and no earlier answer is made untrue by a commit
because the commit's position is that of the task under way. From it:
`SuccessMeansCommitted`, and the action property `ReadOnlyIsReadOnly`. Both hold
for any statements, files, crashes and interference.

`DbInv` says what a connection is at: a worker that holds a lock is in a
transaction on that file (`LockInv`), has run some first statements of its list,
and its pending state is what they make of what the file still holds
(`Progress`). That makes a
commit one step of `AtomicDatabase` whose transaction is the list of its statements
(`WholeTransactionsOnly`), and gives `SqlTypes`. `ReplayInv` says that a file holds
what all commits on it, run one after the other, leave (`Replayed`, a recursive
function of which only "equal up to k implies equal at k + 1" is needed). A
query then shows the state after all commits there are; those of earlier tasks
are among them and none is of a later task, and `SelectInv` keeps that true of
answers given long ago, because commits are only added at the end, by tasks
further down the queue (`QueriesShowOneState`).

### `WorkflowsProofs`

`HttpInv` adds to `RuntimeInv`: an open socket belongs to the entry under way,
and its request to that entry (`SocketInv`); requests are in the order of the
queue, and none is of a task after the one under way, nor of that one unless
it is being read (`ServerInv`); a task given a success has its reply
(`RepliesInv`). From it: `RequestsAreOnceInOrder`, `RepliesAreTheirOwn`, which
says of a task that completed that it holds what was sent back to its own request
up to where the server closed: a reply the server itself cuts short is one, as in
the code, and a reply that stops until the read timeout is none.

`TaskInv` says of each task of the scheduler that its parent is an earlier task,
its root a submission, the same as its parent's, and that a derived task carries
the root's correlation, or the root's id. A nested workflow hands on what it
was given because what it was given is something: an id is never left out
(`NoneIsNoId`). `TaskInvGrows` is the one lemma about tasks being added; both
kinds of workflow and submissions are instances of it. From it:
`CorrelationIsHandedOn` and, with `HttpInv`, `TypeCorrect`.

`TreeInv`, for `WorkflowsDeriveWhole`: the children of a task that has derived are
an interval of `tasks`, one per step and in their order, and a task with children
is one that has derived; a later workflow adds an interval after it.

`IdInv`, for `IdsNeverMeet`: an id of a task has odd length, an effect's even; a
child's is its parent's followed by its kind and place, so two equal ids have
equal parents (`ConcatCancels`) and, by `LeastNatural`, are of one task. This
holds when no step brings an id of its own (`StepsNameNoId`): the code takes such
an id unchecked, and two steps may bring the same. The run `Workflows` has steps
with ids, distinct ones.

`OrderInv`, for `RequestsKeepStepOrder`, under the same condition: an effect task has
the id of a task that has run (`OriginInv`), ids of effects are distinct, and of
two tasks in a strict sequence the earlier runs first, so that its effect is
before the other's in the queue (`SiblingInv`); from there `ServerInv` has the
order.

### `BrowserProofs`

`NoTabIsLeaked` and `OnlyAllowedPagesStored`: both invariants are inductive
nearly as they stand, since a tab is counted with the step of the snapshot that
has it open, and only `CommitPage` stores a page, after it has checked the URL that
is stored with the content, whichever pages the two are of. `BrowserInv`, for the
others, joins `RuntimeInv` with what the provider keeps through other writers and
reloads (`ProviderInv`); that in one load of the provider a slot and a version name
one entry, none ahead of the one the provider has now (`HandedInv`); that every
task names an output that was handed out (`OutputsInv`); that what was read so far
belongs to the entry under way (`FetchInv`); and `GivenInv`: a success answers an
entry that was handed out, with a page for its content and the version after the one
its task named (`AnswersInv`, `WasHanded`), not one that another success answered;
and every page stored is one that was answered. A commit adds the one version that
is beyond the current, so its answer is new. From it: `BrowserTypes`,
`StoredPagesAreAnswered`, and `NoUpdateIsLost`: the entry before the one a success
answered is, since a slot and a version name one entry in a load, the very entry
its task named, unless the provider was loaded again after it was handed out; then
the theorem says only that the page is the sole holder of its own version.

### What is only model-checked

Liveness (`EveryEffectAnswered`, three times): fairness and ENABLED are out of the
prover's reach.

## 5. Where code and documentation differ

Two runs show a disagreement:

* `SharedMemoryForeignSlot`: a descriptor carries no instance identity, and
  `mapped_view` looks it up by slot and counters alone. An instance with a
  resource of the same number serves its own bytes for another instance's
  descriptor, where the comment at `provider.rs:100` says that foreign
  resources are opened by their mapping name.
* `SqliteSecondStatement`: the SQL of one task is handed to rusqlite's
  `Connection::execute`, which runs its first statement only, and the task
  completes. The test at `plugins/mutsuki-plugin-db-sqlite/src/lib.rs:533`
  executes a CREATE and an INSERT as one task and takes its success for both.

Others were met while modelling and are kept out of the properties; no run of
this project shows them:

* A snapshot of another instance's resource holds a handle that does not own the
  mapping's name. Once the owner releases the generation, the snapshot's
  descriptor can no longer be opened by another process, which README.md
  promises of live snapshots.
* A `max_bytes` that is a negative or fractional number is taken as absent,
  although the error message next to it says that it must be an unsigned
  integer.
* The in-memory provider counts its resources from 1 each time it is loaded and
  gives every descriptor generation 1, so after a reload a descriptor of the old
  provider is answered with the bytes of whatever resource now has its number,
  and a commit with such a descriptor replaces that resource when the version is
  the same: a page that was being loaded by the browser runner while the provider
  was loaded again may so replace a resource, or another caller's commit, that its
  task never named. `skills/resource-state-providers/SKILL.md:11` asks for a
  structured failure of stale references. `NoLostUpdate` of the browser therefore
  says what was replaced for tasks whose output is of the same load only.

Behaviours that are no disagreement and that a reader may not expect: copying a
file onto itself empties it (`OpenCopy`); a reply cut short by the server's close
is a reply (`Parsed` does not ask for the length); a timeout of 0 ms is an error
and no timeout; a browser that has gone is not launched again, so that every
later task fails; a cancel request that comes after a batch's first look changes
nothing; `deny_private` is looked at by the HTTP facade only; ids that steps
bring are not checked, so distinct ids are promised only when they are distinct;
the children of a linear workflow nested in another run after the outer one's
later steps, unless both name one sequence; a write's temporary file is shared by
targets that differ in their extension only, so that writing to one takes away a
file of that name. Of links: a name that is not there is checked by its directory
alone, so when a link that leads nowhere has that name, an append or a copy to it
makes the file where the link leads, be that in the allow-list or not; in the same
way a link at a write's temporary name is filled where it leads, and the target
then becomes the link. `OnlyAllowedTouched` names both as exceptions. What a tab
shows is read in several calls, so a stored page may hold the content of a page the
tab moved on to after its URL was read and before its content was.

## 6. Not modelled

* *Shared-memory plugin registration and child program*: static descriptors, and
  a test program that opens a view.
* *Protocol crates, catalog, benchmarks and scripts*: declarations, construction
  and measurement; no behaviour to check.
* Of the shared-memory provider: copy metrics that nothing reads back, and
  mutex poisoning. Of both providers: wording of receipts and errors beyond
  their class.
* Of the file effects: relative names, relative targets of links and "..", which
  are left to the host; links made or moved by others while an operation runs (the
  one batch under way is the only actor); hard links, case folding, names that are
  not UTF-8, permissions other than as a refusal by the host, `canonicalize`
  refused by the host, `stat` fields beyond kind and length. A name outside `Paths`
  is refused, which stands for a tree with more room.
* Of SQLite: SQL that controls transactions itself (BEGIN, COMMIT, ATTACH as
  statements), the count of changed rows, INSERT ... RETURNING, write-ahead
  logging, corrupt files.
* Of HTTP: URL syntax beyond scheme and host, headers, the operating system's
  own connect timeout, and a server that sends one byte before each read
  timeout for ever, which the timeout of a single read does not end: section 3
  assumes that what a server sends has an end.
* Of the workflows: lanes, priorities, deadlines, trace ids and hints, which no
  decision here reads; `mode` and `concurrency_limit` of a broadcast, which are
  only reported; and the correlation and ordering of effect tasks, which
  another crate hands on.
* Of the browser: URL syntax beyond scheme and host, the launch, what a page holds
  beyond its size and address, its title, and a `new_tab` that times out although
  Chromium made the tab, which nothing then closes (`NoTabLeak` speaks of tabs the
  runner was given).
