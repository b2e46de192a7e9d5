--------------------------- MODULE MemoryProvider ---------------------------
(***************************************************************************)
(* The in-memory resource provider (plugins/mutsuki-plugin-resource-memory).*)
(* Threads of the runtime call one provider, which keeps its resources      *)
(* behind one mutex; one action is one critical section.  A snapshot takes  *)
(* the mutex twice, a command batch or a saga once for every command, and   *)
(* other calls run in between.                                              *)
(*                                                                          *)
(* A caller's plan carries a descriptor it was given.  "published" keeps    *)
(* each of them with the bytes it was handed out for; the provider reads    *)
(* the descriptor, only the properties read those bytes.                    *)
(***************************************************************************)
EXTENDS Naturals, Sequences, FiniteSets, SequencesExt

CONSTANTS
    Clients,      \* threads that call the provider
    UsesOf,       \* the operations each of them calls
    Contents,     \* byte strings a caller can store
    Empty,        \* the empty one, which a capability holds
    Utf8,         \* those that std::str::from_utf8 accepts
    Size,         \* their lengths in bytes
    MaxSlot,      \* bound on the resources of one provider: no more are begun
    MaxVersion,   \* bound on the versions of a resource
    MaxCommands,  \* bound on the commands of a batch or a saga
    MaxReloads,   \* bound on the times the provider is loaded again
    None

Ops == {"create", "collect", "export", "snapshot", "commit", "command",
        "batch", "saga", "other"}

ASSUME ContentsAssumption ==
    /\ Empty \in Utf8
    /\ Utf8 \subseteq Contents
    /\ Size \in [Contents -> Nat]
    /\ None \notin Contents
ASSUME BoundsAssumption ==
    /\ UsesOf \in [Clients -> SUBSET Ops]
    /\ MaxSlot \in Nat
    /\ MaxVersion \in Nat \ {0}
    /\ MaxCommands \in Nat
    /\ MaxReloads \in Nat

VARIABLES
    nextSlot,   \* next_slot
    resources,  \* slot -> entry
    call,       \* the call each client has under way
    reply,      \* what the step just taken returned, if it ended a call
    published,  \* what was handed out so far: descriptors, with their bytes
    reloads     \* times the provider was loaded again

store == <<nextSlot, resources>>
vars  == <<nextSlot, resources, call, reply, published, reloads>>

Slots     == Nat \ {0}
Versions  == Nat \ {0}
Semantics == {"frozen", "cow", "snapshot", "capability"}

\* ResourceRef: the version is kept twice, there and in the resource id.  The
\* generation is 1 for good.
Descriptor == [slot : Slots, semantic : Semantics, version : Versions,
               idVersion : Versions, sizeHint : Nat]
\* MemoryResourceEntry
Entry      == [desc : Descriptor, bytes : Contents]
\* CommandPlan: the capability it names, and whether it asks for "query".
Command    == [capability : Entry, query : BOOLEAN]

Statuses == {"ok", "mismatch", "not_found", "unsupported", "saga_failed"}

Idle == [pc |-> "idle"]
Call ==
    {Idle}
    \cup [pc : {"insert"}, req : Entry, source : Entry]
    \cup [pc : {"steps", "compensate"}, op : {"batch", "saga"},
          steps : Seq(Command), compensations : Seq(Command),
          left : Seq(Command), ran : Seq(Command), cause : Statuses]
Reply == [op : Ops, status : Statuses, req : Entry \cup {None},
          got : Entry \cup {None}]

TypeOK ==
    /\ nextSlot \in Nat
    /\ DOMAIN resources \subseteq Slots
    /\ resources \in [DOMAIN resources -> Entry]
    /\ call \in [Clients -> Call]
    /\ reply \in Reply \cup {None}
    /\ published \subseteq Entry
    /\ reloads \in 0 .. MaxReloads

Init ==
    /\ nextSlot = 0
    /\ resources = [s \in {} |-> None]
    /\ call = [c \in Clients |-> Idle]
    /\ reply = None
    /\ published = {}
    /\ reloads = 0
-----------------------------------------------------------------------------
Put(f, k, v) == [x \in DOMAIN f \cup {k} |-> IF x = k THEN v ELSE f[x]]

\* Mutant: a resource is named before next_slot is counted up.
ResourceRefEarly(s, sem, version, bytes) ==
    [slot |-> s - 1, semantic |-> sem, version |-> version, idVersion |-> version,
     sizeHint |-> Size[bytes]]

\* resource_ref
ResourceRef(s, sem, version, bytes) ==
    [slot |-> s, semantic |-> sem, version |-> version, idVersion |-> version,
     sizeHint |-> Size[bytes]]

\* Mutant: any descriptor of the slot passes.
IsCurrentUnchecked(requested, current) == TRUE

\* ensure_descriptor_current
IsCurrent(requested, current) ==
    /\ requested.version = current.version
    /\ requested.idVersion = requested.version

\* with_entry: how the lookup of a descriptor ends.
Lookup(d) ==
    IF d.slot \notin DOMAIN resources THEN "not_found"
    ELSE IF IsCurrent(d, resources[d.slot].desc) THEN "ok"
    ELSE "mismatch"

Available(c, op) == call[c] = Idle /\ op \in UsesOf[c]

Proceed(c, k) ==
    /\ call' = [call EXCEPT ![c] = k]
    /\ reply' = None

Return(c, r) ==
    /\ call' = [call EXCEPT ![c] = Idle]
    /\ reply' = r

Answer(op, status, req, got) ==
    [op |-> op, status |-> status, req |-> req, got |-> got]
-----------------------------------------------------------------------------
\* Resources.

\* create_resource
CreateResource(e) ==
    /\ nextSlot' = nextSlot + 1
    /\ resources' = Put(resources, nextSlot + 1, e)
    /\ published' = published \cup {e}

\* create_blob_resource, create_cow_state_resource, create_capability_resource
Create(c, sem, b) ==
    LET e == [desc |-> ResourceRef(nextSlot + 1, sem, 1, b), bytes |-> b] IN
    /\ Available(c, "create")
    /\ nextSlot < MaxSlot
    /\ sem = "capability" => b = Empty
    /\ CreateResource(e)
    /\ Return(c, Answer("create", "ok", None, e))
    /\ UNCHANGED reloads

\* collect_read_plan and execute_export_plan, for "collect", "get" and
\* "inline_utf8".
Read(c, op, e) ==
    LET found == Lookup(e.desc)
        entry == resources[e.desc.slot] IN
    /\ Available(c, op)
    /\ \/ found # "ok" /\ Return(c, Answer(op, found, e, None))
       \/ /\ found = "ok"
          /\ op = "collect" \/ entry.bytes \in Utf8
          /\ Return(c, Answer(op, "ok", e, entry))
       \/ /\ found = "ok"
          /\ op = "export" /\ entry.bytes \notin Utf8
          /\ Return(c, Answer(op, "unsupported", e, None))
    /\ UNCHANGED <<store, published, reloads>>

\* Another read operation, export target or command operation, a stream, or a
\* batch that asks for rollback_guarantee.
Unsupported(c) ==
    /\ Available(c, "other")
    /\ Return(c, Answer("other", "unsupported", None, None))
    /\ UNCHANGED <<store, published, reloads>>

\* snapshot_read_plan, its first critical section.
SnapshotRead(c, e) ==
    LET found == Lookup(e.desc) IN
    /\ Available(c, "snapshot")
    /\ \/ found # "ok" /\ Return(c, Answer("snapshot", found, e, None))
       \/ /\ found = "ok"
          /\ nextSlot < MaxSlot
          /\ Proceed(c, [pc |-> "insert", req |-> e,
                         source |-> resources[e.desc.slot]])
    /\ UNCHANGED <<store, published, reloads>>

\* Mutant: the bytes are taken when the snapshot is entered.
SnapshotBytesLate(k) == resources[k.source.desc.slot].bytes

SnapshotBytes(k) == k.source.bytes

\* Its second: create_resource.
SnapshotInsert(c) ==
    LET k == call[c]
        e == [desc |-> ResourceRef(nextSlot + 1, "snapshot", 1, SnapshotBytes(k)),
              bytes |-> SnapshotBytes(k)] IN
    /\ k.pc = "insert"
    /\ CreateResource(e)
    /\ Return(c, Answer("snapshot", "ok", k.req, e))
    /\ UNCHANGED reloads

\* The checks of commit_write_plan, all in its critical section.  The semantic
\* is the one of the plan's descriptor.
PlanAgrees(d, base, patchBase) ==
    /\ d.semantic = "cow"
    /\ base = resources[d.slot].desc.version
    /\ patchBase = resources[d.slot].desc.version

\* Mutant: size_hint is not brought up to date.
CommittedDescStale(d, b) ==
    [ResourceRef(d.slot, d.semantic, d.version + 1, b) EXCEPT !.sizeHint = d.sizeHint]

\* commit_write_plan assigns both versions and size_hint, and keeps the rest.
CommittedDesc(d, b) == ResourceRef(d.slot, d.semantic, d.version + 1, b)

Commit(c, e, base, patchBase, b) ==
    LET d == e.desc
        found == Lookup(d)
        new == [desc |-> CommittedDesc(resources[d.slot].desc, b), bytes |-> b] IN
    /\ Available(c, "commit")
    /\ \/ /\ found # "ok"
          /\ Return(c, Answer("commit", found, e, None))
          /\ UNCHANGED <<resources, published>>
       \/ /\ found = "ok"
          /\ ~PlanAgrees(d, base, patchBase)
          /\ Return(c, Answer("commit", "mismatch", e, None))
          /\ UNCHANGED <<resources, published>>
       \/ /\ found = "ok"
          /\ PlanAgrees(d, base, patchBase)
          /\ d.version < MaxVersion
          /\ resources' = [resources EXCEPT ![d.slot] = new]
          /\ published' = published \cup {new}
          /\ Return(c, Answer("commit", "ok", e, new))
    /\ UNCHANGED <<nextSlot, reloads>>
-----------------------------------------------------------------------------
\* Commands.

\* execute_command_plan: one critical section, and no change of state.
Outcome(m) ==
    LET d == m.capability.desc IN
    IF Lookup(d) # "ok" THEN Lookup(d)
    ELSE IF resources[d.slot].desc.semantic = "capability" /\ m.query THEN "ok"
    ELSE "unsupported"

CommandPlan(c, m) ==
    /\ Available(c, "command")
    /\ Return(c, Answer("command", Outcome(m), m.capability, None))
    /\ UNCHANGED <<store, published, reloads>>

\* Mutant: in the order they are listed.
InListedOrder(compensations) == compensations

\* saga.compensations.iter().rev()
InReverse(compensations) == Reverse(compensations)

\* A batch or a saga after the next of its commands.
Ran(k, pc, cause, left) ==
    [pc |-> pc, op |-> k.op, steps |-> k.steps, compensations |-> k.compensations,
     left |-> left, ran |-> Append(k.ran, Head(k.left)), cause |-> cause]

\* execute_command_batch without rollback_guarantee, and execute_saga_plan.
StartCommands(c, op, steps, compensations) ==
    /\ Available(c, op)
    /\ Proceed(c, [pc |-> "steps", op |-> op, steps |-> steps,
                   compensations |-> compensations, left |-> steps,
                   ran |-> << >>, cause |-> "ok"])
    /\ UNCHANGED <<store, published, reloads>>

\* The next command of a batch or a saga; the first that fails is the last.
RunStep(c) ==
    LET k == call[c]
        outcome == Outcome(Head(k.left)) IN
    /\ k.pc = "steps" /\ k.left # << >>
    /\ \/ outcome = "ok" /\ Proceed(c, Ran(k, "steps", "ok", Tail(k.left)))
       \/ /\ outcome # "ok"
          /\ Proceed(c, Ran(k, "compensate", outcome, InReverse(k.compensations)))
    /\ UNCHANGED <<store, published, reloads>>

\* One compensation: its outcome is dropped, the next one runs in any case.
Compensate(c) ==
    LET k == call[c] IN
    /\ k.pc = "compensate" /\ k.left # << >>
    /\ Proceed(c, Ran(k, "compensate", k.cause, Tail(k.left)))
    /\ UNCHANGED <<store, published, reloads>>

FinishCommands(c) ==
    LET k == call[c] IN
    /\ k.pc \in {"steps", "compensate"} /\ k.left = << >>
    /\ Return(c, Answer(k.op, IF k.op = "saga" /\ k.cause # "ok" THEN "saga_failed"
                              ELSE k.cause, None, None))
    /\ UNCHANGED <<store, published, reloads>>
-----------------------------------------------------------------------------
\* The runtime loads the provider again when no call is using it.  Its state is
\* gone, the descriptors are still in the callers' plans.
Reload ==
    /\ reloads < MaxReloads
    /\ \A c \in Clients : call[c] = Idle
    /\ nextSlot > 0
    /\ nextSlot' = 0
    /\ resources' = [s \in {} |-> None]
    /\ reply' = None
    /\ reloads' = reloads + 1
    /\ UNCHANGED <<call, published>>

Commands == [capability : published, query : BOOLEAN]
CommandLists == UNION {[1 .. n -> Commands] : n \in 0 .. MaxCommands}
Bases(d) == {d.version, d.version - 1}

Begin(c) ==
    LET Uses(ops) == UsesOf[c] \cap ops IN
    \/ \E sem \in {"frozen", "cow", "capability"}, b \in Contents : Create(c, sem, b)
    \/ \E e \in published :
          \/ \E op \in Uses({"collect", "export"}) : Read(c, op, e)
          \/ SnapshotRead(c, e)
          \/ \E i, j \in Bases(e.desc), b \in Contents : Commit(c, e, i, j, b)
    \/ Unsupported(c)
    \/ \E m \in Commands : CommandPlan(c, m)
    \/ \E op \in Uses({"batch"}), steps \in CommandLists :
          StartCommands(c, op, steps, << >>)
    \/ \E op \in Uses({"saga"}), steps, compensations \in CommandLists :
          StartCommands(c, op, steps, compensations)

ClientStep(c) ==
    \/ call[c] = Idle /\ Begin(c)
    \/ SnapshotInsert(c)
    \/ RunStep(c)
    \/ Compensate(c)
    \/ FinishCommands(c)

Next == (\E c \in Clients : ClientStep(c)) \/ Reload

Spec == Init /\ [][Next]_vars
-----------------------------------------------------------------------------
\* Whatever was done to an entry, through however many instances of the
\* provider: its descriptor says where it is, agrees with itself on the version
\* and on the length of the bytes, and is the one that was last handed out for
\* them.
EntriesHonest ==
    \A s \in DOMAIN resources :
       LET e == resources[s] IN
       /\ e \in published
       /\ e.desc.slot = s
       /\ e.desc.idVersion = e.desc.version
       /\ e.desc.sizeHint = Size[e.bytes]

\* A read that succeeds returns the bytes the plan's descriptor was handed out
\* for, while the provider is not loaded again.
ReadReturnsRequested ==
    (reply # None /\ reply.op \in {"collect", "export"} /\ reply.status = "ok") =>
        reply.got.bytes = reply.req.bytes

\* A snapshot holds the bytes of the version its plan names, although a commit
\* may replace the source before the snapshot is entered.
SnapshotFaithful ==
    (reply # None /\ reply.op = "snapshot" /\ reply.status = "ok") =>
        reply.got.bytes = reply.req.bytes

\* A batch or a saga ends as if its commands had run in one step, however other
\* calls came in between: it succeeds when all its commands do; otherwise it
\* stops at the first that fails, and a saga then runs every compensation, the
\* last one first, whether it succeeds or not.
CommandsAsIfAtomic ==
    \A c \in Clients :
       LET k == call[c]
           Good(i) == Outcome(k.steps[i]) = "ok" IN
       (k.pc \in {"steps", "compensate"} /\ k.left = << >>) =>
          \/ /\ \A i \in DOMAIN k.steps : Good(i)
             /\ k.cause = "ok"
             /\ k.ran = k.steps
          \/ \E i \in DOMAIN k.steps :
                /\ \A j \in 1 .. i - 1 : Good(j)
                /\ ~Good(i)
                /\ k.cause # "ok"
                /\ k.ran = SubSeq(k.steps, 1, i) \o Reverse(k.compensations)
=============================================================================
