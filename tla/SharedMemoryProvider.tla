------------------------ MODULE SharedMemoryProvider ------------------------
(***************************************************************************)
(* The shared-memory resource provider                                     *)
(* (plugins/mutsuki-plugin-resource-shared-memory).  Several threads call   *)
(* one or more provider instances.  An instance keeps its resources behind  *)
(* one mutex, but most operations take that mutex more than once, or do     *)
(* part of their work outside it, so that other calls run in between.       *)
(*                                                                          *)
(* One action is one critical section of the state mutex, or one operating  *)
(* system call made outside it.  A mapping is named by its number in        *)
(* MAPPING_SEQUENCE; the bytes behind a name never change (create_mapping   *)
(* fills them before the name is known to anyone), so "maps" only grows.    *)
(*                                                                          *)
(* A handle stands for an Arc<OwnedMapping>.  The handle that created a     *)
(* mapping owns its name: the operating system forgets the name when the    *)
(* last clone of that handle is dropped.  A handle that was opened by name  *)
(* keeps the memory, not the name.                                          *)
(***************************************************************************)
EXTENDS Naturals, Sequences, FiniteSets

CONSTANTS
    Providers,            \* provider instances
    Clients,              \* threads that call them
    Contents,             \* byte strings a caller can store
    Utf8,                 \* those that std::str::from_utf8 accepts
    Size,                 \* their lengths in bytes
    MaxCollectBytes,      \* SharedMemoryProviderConfig::max_collect_bytes
    RetainedGenerations,  \* SharedMemoryProviderConfig::retained_generations
    MaxVersion,           \* u64::MAX of a version, scaled down
    MaxSlot,              \* u64::MAX of next_slot, scaled down
    MaxNames,             \* bound on the mappings a behaviour creates
    MaxDrops,             \* bound on the provider instances it drops
    ReadOps,              \* the reads its clients use
    HostMayFail,          \* whether the operating system refuses mappings
    Limits,               \* max_bytes arguments: a u64, or one of the next three
    Absent,               \* no max_bytes, or null arguments
    NotU64,               \* a JSON number that is negative or has a fraction
    NotNumber,            \* max_bytes of another type, or malformed arguments
    None

ASSUME ContentsAssumption ==
    /\ Utf8 \subseteq Contents
    /\ Size \in [Contents -> Nat]
    /\ None \notin Contents
ASSUME ConfigAssumption ==
    /\ MaxCollectBytes \in Nat
    /\ RetainedGenerations \in Nat
    /\ MaxVersion \in Nat \ {0}
    /\ MaxSlot \in Nat
    /\ MaxNames \in Nat
    /\ MaxDrops \in Nat
    /\ ReadOps \subseteq {"collect", "export", "view", "snapshot"}
    /\ HostMayFail \in BOOLEAN
ASSUME LimitsAssumption ==
    /\ Limits \subseteq Nat \cup {Absent, NotU64, NotNumber}
    /\ Nat \cap {Absent, NotU64, NotNumber} = {}
    /\ NotNumber \notin {Absent, NotU64}

VARIABLES
    sequence,   \* MAPPING_SEQUENCE: mappings named so far
    maps,       \* bytes of every mapping created so far, by name
    nextSlot,   \* next_slot of each instance
    resources,  \* resources of each instance: slot -> entry
    retired,    \* retired queue of each instance, oldest first
    call,       \* the call each client has under way
    held,       \* the SharedMemoryView each client holds
    reply,      \* what the last step returned to a caller, if it returned
    published,  \* descriptors handed out so far: what plans can carry
    drops       \* provider instances dropped so far

os    == <<sequence, maps>>
store == <<nextSlot, resources, retired>>
vars  == <<sequence, maps, nextSlot, resources, retired, call, held, reply,
           published, drops>>

Names     == 1 .. MaxNames
Slots     == 1 .. MaxSlot
Versions  == 1 .. MaxVersion
Semantics == {"frozen", "cow", "snapshot"}

\* ResourceRef: provider_id is the same constant for every instance.
Descriptor == [slot : Slots, name : Names, version : Versions,
               generation : Versions, semantic : Semantics]
\* An Arc<OwnedMapping>.
Handle     == [name : Names, owner : BOOLEAN]
\* SharedMemoryResourceEntry, and also SharedMemoryView.
Entry      == [desc : Descriptor, handle : Handle]

Ops      == {"create", "collect", "export", "view", "snapshot", "commit", "gc"}
Statuses == {"ok", "mismatch", "not_found", "unsupported", "host_failed"}

Idle == [pc |-> "idle"]
Call ==
    {Idle}
    \cup [pc : {"view", "open"}, op : Ops, provider : Providers,
          req : Descriptor, desc : Descriptor, limit : Limits \cup {Absent}]
    \cup [pc : {"insert", "install"}, provider : Providers, req : Descriptor,
          desc : Descriptor, handle : Handle]
Reply == [op : Ops, status : Statuses, req : Descriptor \cup {None},
          desc : Descriptor \cup {None}, content : Contents \cup {None},
          latest : BOOLEAN, released : Nat]

ASSUME NoneIsNoReply == None \notin Reply

TypeOK ==
    /\ sequence \in 0 .. MaxNames
    /\ maps \in [1 .. sequence -> Contents \cup {None}]
    /\ nextSlot \in [Providers -> 0 .. MaxSlot]
    /\ DOMAIN resources = Providers
    /\ \A p \in Providers :
          /\ DOMAIN resources[p] \subseteq Slots
          /\ resources[p] \in [DOMAIN resources[p] -> Entry]
    /\ retired \in [Providers -> Seq(Entry)]
    /\ call \in [Clients -> Call]
    /\ held \in [Clients -> Entry \cup {None}]
    /\ reply \in Reply \cup {None}
    /\ published \subseteq Descriptor
    /\ drops \in 0 .. MaxDrops

Init ==
    /\ sequence = 0
    /\ maps = [n \in {} |-> None]
    /\ nextSlot = [p \in Providers |-> 0]
    /\ resources = [p \in Providers |-> [s \in {} |-> None]]
    /\ retired = [p \in Providers |-> << >>]
    /\ call = [c \in Clients |-> Idle]
    /\ held = [c \in Clients |-> None]
    /\ reply = None
    /\ published = {}
    /\ drops = 0
-----------------------------------------------------------------------------
\* Values.

Put(f, k, v) == [x \in DOMAIN f \cup {k} |-> IF x = k THEN v ELSE f[x]]

\* ResourceSpec::resource_ref
ResourceRef(s, n, version, generation, sem) ==
    [slot |-> s, name |-> n, version |-> version, generation |-> generation,
     semantic |-> sem]

\* Mutant: any descriptor of the slot passes.
IsCurrentUnchecked(requested, current) == TRUE

\* ensure_descriptor_current: nothing but the two counters is compared.
IsCurrent(requested, current) ==
    /\ requested.generation = current.generation
    /\ requested.version = current.version

\* Mutant: pop_back for pop_front.
CollectNewestFirst(q) ==
    IF Len(q) > RetainedGenerations THEN SubSeq(q, 1, RetainedGenerations) ELSE q

\* collect_garbage_locked
CollectGarbageLocked(q) ==
    IF Len(q) > RetainedGenerations
    THEN SubSeq(q, Len(q) - RetainedGenerations + 1, Len(q))
    ELSE q

\* requested_byte_limit, before the provider's own cap is applied to it.  A
\* number that is not a u64 reads as an absent limit.
RequestedByteLimit(limit) ==
    IF limit \in {Absent, NotU64} THEN MaxCollectBytes ELSE limit

\* Mutant: the plan may raise the provider's cap.
OwnedBytesUncapped(content, limit) ==
    /\ limit # NotNumber
    /\ Size[content] <= RequestedByteLimit(limit)

\* ensure_owned_bytes_allowed
OwnedBytesAllowed(content, limit) ==
    /\ limit # NotNumber
    /\ RequestedByteLimit(limit) <= MaxCollectBytes
    /\ Size[content] <= RequestedByteLimit(limit)

StoredHandles(p) ==
    {resources[p][s].handle : s \in DOMAIN resources[p]}
    \cup {retired[p][i].handle : i \in DOMAIN retired[p]}

\* Every live clone of an Arc<OwnedMapping>, wherever it is kept.
Handles ==
    UNION {StoredHandles(p) : p \in Providers}
    \cup {held[c].handle : c \in {x \in Clients : held[x] # None}}
    \cup {call[c].handle :
             c \in {x \in Clients : call[x].pc \in {"insert", "install"}}}

\* The names the operating system resolves.
Linked == {h.name : h \in {x \in Handles : x.owner}}
-----------------------------------------------------------------------------
\* Calls and replies.

Available(c) == call[c].pc = "idle"

Proceed(c, k) ==
    /\ call' = [call EXCEPT ![c] = k]
    /\ reply' = None

Return(c, r) ==
    /\ call' = [call EXCEPT ![c] = Idle]
    /\ reply' = r

Answer(op, status, req, desc, content) ==
    [op |-> op, status |-> status, req |-> req, desc |-> desc,
     content |-> content, latest |-> FALSE, released |-> 0]

Fail(c, op, status, req) == Return(c, Answer(op, status, req, None, None))
-----------------------------------------------------------------------------
\* create_blob_resource and create_cow_state_resource: one critical section.

\* Mutant: the slot counter wraps instead of being checked.
HasNextSlotUnchecked(p) == TRUE

\* next_slot.checked_add(1)
HasNextSlot(p) == nextSlot[p] < MaxSlot

\* mapping_name: the sequence number is used up whether or not the operating
\* system then creates the mapping.
NameMapping(content) ==
    /\ sequence < MaxNames
    /\ sequence' = sequence + 1
    /\ maps' = Put(maps, sequence + 1, content)

Create(c, p, sem, content) ==
    LET s == nextSlot[p] + 1
        d == ResourceRef(s, sequence + 1, 1, 1, sem)
        h == [name |-> sequence + 1, owner |-> TRUE] IN
    /\ Available(c)
    /\ HasNextSlot(p)
    /\ NameMapping(content)
    /\ nextSlot' = [nextSlot EXCEPT ![p] = s]
    /\ resources' = [resources EXCEPT ![p] = Put(@, s, [desc |-> d, handle |-> h])]
    /\ published' = published \cup {d}
    /\ Return(c, Answer("create", "ok", None, d, None))
    /\ UNCHANGED <<retired, held, drops>>

\* create_mapping fails: the slot and the name are used up.
CreateHostFails(c, p) ==
    /\ HostMayFail
    /\ Available(c)
    /\ HasNextSlot(p)
    /\ NameMapping(None)
    /\ nextSlot' = [nextSlot EXCEPT ![p] = @ + 1]
    /\ Fail(c, "create", "host_failed", None)
    /\ UNCHANGED <<resources, retired, held, published, drops>>

CreateExhausted(c, p) ==
    /\ Available(c)
    /\ ~HasNextSlot(p)
    /\ Fail(c, "create", "host_failed", None)
    /\ UNCHANGED <<os, store, held, published, drops>>
-----------------------------------------------------------------------------
\* Reads: collect, export, mapped_view, and the first half of a snapshot.

Reading(p, op, d, limit) ==
    [pc |-> "view", op |-> op, provider |-> p, req |-> d, desc |-> d,
     limit |-> limit]

\* descriptor_for: the first critical section of collect and export.
DescriptorFor(c, p, op, d, limit) ==
    LET local == resources[p] IN
    /\ Available(c)
    /\ \/ /\ d.slot \in DOMAIN local
          /\ IsCurrent(d, local[d.slot].desc)
          /\ Proceed(c, [Reading(p, op, d, limit) EXCEPT !.desc = local[d.slot].desc])
       \/ /\ d.slot \in DOMAIN local
          /\ ~IsCurrent(d, local[d.slot].desc)
          /\ Fail(c, op, "mismatch", d)
       \/ /\ d.slot \notin DOMAIN local
          /\ Proceed(c, Reading(p, op, d, limit))
    /\ UNCHANGED <<os, store, held, published, drops>>

\* What each operation does with the view mapped_view returns: descriptor d and
\* mapping h.  A snapshot goes on to its second critical section.
UseView(c, k, d, h) ==
    LET bytes == maps[h.name] IN
    \/ /\ k.op \in {"collect", "export"}
       /\ OwnedBytesAllowed(bytes, k.limit)
       /\ k.op = "export" => bytes \in Utf8
       /\ Return(c, Answer(k.op, "ok", k.req, d, bytes))
       /\ UNCHANGED held
    \/ /\ k.op \in {"collect", "export"}
       /\ \/ ~OwnedBytesAllowed(bytes, k.limit)
          \/ k.op = "export" /\ bytes \notin Utf8
       /\ Fail(c, k.op, "unsupported", k.req)
       /\ UNCHANGED held
    \/ /\ k.op = "view"
       /\ held' = [held EXCEPT ![c] = [desc |-> d, handle |-> h]]
       /\ Return(c, Answer(k.op, "ok", k.req, d, None))
    \/ /\ k.op = "snapshot"
       /\ Proceed(c, [pc |-> "insert", provider |-> k.provider, req |-> k.req,
                      desc |-> d, handle |-> h])
       /\ UNCHANGED held

\* Mutant: the view carries the caller's descriptor, not the entry's.
MappedViewAsRequested(c, k) ==
    LET local == resources[k.provider] IN
    \/ /\ k.desc.slot \in DOMAIN local
       /\ IsCurrent(k.desc, local[k.desc.slot].desc)
       /\ UseView(c, k, k.desc, local[k.desc.slot].handle)
    \/ /\ k.desc.slot \notin DOMAIN local
       /\ Proceed(c, [k EXCEPT !.pc = "open"])
       /\ UNCHANGED held

\* mapped_view: its critical section copies the descriptor and the handle.
MappedView(c, k) ==
    LET local == resources[k.provider] IN
    \/ /\ k.desc.slot \in DOMAIN local
       /\ IsCurrent(k.desc, local[k.desc.slot].desc)
       /\ UseView(c, k, local[k.desc.slot].desc, local[k.desc.slot].handle)
    \/ /\ k.desc.slot \in DOMAIN local
       /\ ~IsCurrent(k.desc, local[k.desc.slot].desc)
       /\ Fail(c, k.op, "mismatch", k.req)
       /\ UNCHANGED held
    \/ /\ k.desc.slot \notin DOMAIN local
       /\ Proceed(c, [k EXCEPT !.pc = "open"])
       /\ UNCHANGED held

StartView(c, p, op, d) ==
    /\ Available(c)
    /\ MappedView(c, Reading(p, op, d, Absent))
    /\ UNCHANGED <<os, store, published, drops>>

ContinueRead(c) ==
    /\ call[c].pc = "view"
    /\ MappedView(c, call[c])
    /\ UNCHANGED <<os, store, published, drops>>

\* Mutant: the opened mapping keeps the ownership flag set.
OpenedAsOwner(n) == [name |-> n, owner |-> TRUE]

\* open_mapping
Opened(n) == [name |-> n, owner |-> FALSE]

\* SharedMemoryView::open, on the way from mapped_view: by name.
OpenMapping(c) ==
    LET k == call[c] IN
    /\ k.pc = "open"
    /\ \/ /\ k.desc.name \in Linked
          /\ UseView(c, k, k.desc, Opened(k.desc.name))
       \/ /\ k.desc.name \notin Linked
          /\ Fail(c, k.op, "not_found", k.req)
          /\ UNCHANGED held
    /\ UNCHANGED <<os, store, published, drops>>

\* SharedMemoryView::open called by another process with a descriptor alone.
OpenView(c, d) ==
    /\ Available(c)
    /\ \/ /\ d.name \in Linked
          /\ held' = [held EXCEPT ![c] = [desc |-> d, handle |-> Opened(d.name)]]
          /\ Return(c, Answer("view", "ok", d, d, None))
       \/ /\ d.name \notin Linked
          /\ Fail(c, "view", "not_found", d)
          /\ UNCHANGED held
    /\ UNCHANGED <<os, store, published, drops>>

\* Drop of a SharedMemoryView.
DropView(c) ==
    /\ held[c] # None
    /\ held' = [held EXCEPT ![c] = None]
    /\ reply' = None
    /\ UNCHANGED <<os, store, call, published, drops>>
-----------------------------------------------------------------------------
\* The second half of snapshot_read_plan: a new slot for the viewed mapping.

\* Mutant: the constant the memory provider returns.
AlwaysLatest(local, source) == TRUE

IsLatest(local, source) ==
    source.slot \in DOMAIN local => local[source.slot].desc = source

\* Mutant: the snapshot reopens the mapping instead of sharing its owner.
WithReopenedSnapshot(k, s, d) ==
    Put(resources[k.provider], s,
        [desc |-> d, handle |-> [k.handle EXCEPT !.owner = FALSE]])

WithSnapshot(k, s, d) ==
    Put(resources[k.provider], s, [desc |-> d, handle |-> k.handle])

InsertSnapshot(c) ==
    LET k == call[c]
        p == k.provider
        s == nextSlot[p] + 1
        d == ResourceRef(s, k.desc.name, 1, 1, "snapshot") IN
    /\ k.pc = "insert"
    /\ HasNextSlot(p)
    /\ nextSlot' = [nextSlot EXCEPT ![p] = s]
    /\ resources' = [resources EXCEPT ![p] = WithSnapshot(k, s, d)]
    /\ published' = published \cup {d}
    /\ Return(c, [Answer("snapshot", "ok", k.req, d, None) EXCEPT
          !.latest = IsLatest(resources[p], k.desc)])
    /\ UNCHANGED <<os, retired, held, drops>>

InsertSnapshotExhausted(c) ==
    /\ call[c].pc = "insert"
    /\ ~HasNextSlot(call[c].provider)
    /\ Fail(c, "snapshot", "host_failed", call[c].req)
    /\ UNCHANGED <<os, store, held, published, drops>>
-----------------------------------------------------------------------------
\* commit_write_plan.

\* Mutant: a sealed resource may be written.
PlanAgreesAnySemantic(d, base, patchBase) ==
    base = d.version /\ patchBase = d.version

PlanAgrees(d, base, patchBase) ==
    /\ d.semantic = "cow"
    /\ base = d.version
    /\ patchBase = d.version

HasSuccessor(d) == d.version < MaxVersion /\ d.generation < MaxVersion

\* The checks made on the plan alone, without the mutex.
RefuseCommit(c, d, base, patchBase) ==
    /\ Available(c)
    /\ ~PlanAgrees(d, base, patchBase) \/ ~HasSuccessor(d)
    /\ Fail(c, "commit", "mismatch", d)
    /\ UNCHANGED <<os, store, held, published, drops>>

\* The new generation is written before the mutex is taken.
PrepareCommit(c, p, d, base, patchBase, content) ==
    /\ Available(c)
    /\ PlanAgrees(d, base, patchBase)
    /\ HasSuccessor(d)
    /\ NameMapping(content)
    /\ Proceed(c, [
          pc |-> "install", provider |-> p, req |-> d,
          desc |-> ResourceRef(d.slot, sequence + 1, d.version + 1,
                               d.generation + 1, "cow"),
          handle |-> [name |-> sequence + 1, owner |-> TRUE]])
    /\ UNCHANGED <<store, held, published, drops>>

CommitHostFails(c, d, base, patchBase) ==
    /\ HostMayFail
    /\ Available(c)
    /\ PlanAgrees(d, base, patchBase)
    /\ HasSuccessor(d)
    /\ NameMapping(None)
    /\ Fail(c, "commit", "host_failed", d)
    /\ UNCHANGED <<store, held, published, drops>>

\* Mutant: no check under the mutex.
StillCurrentUnchecked(k) == TRUE

\* Mutant: the new descriptor is compared, not the plan's.
StillCurrentNew(k) ==
    k.req.slot \in DOMAIN resources[k.provider]
        => IsCurrent(k.desc, resources[k.provider][k.req.slot].desc)

\* Inside the mutex the plan must still name the current generation.  A slot
\* this instance does not know is adopted.
StillCurrent(k) ==
    k.req.slot \in DOMAIN resources[k.provider]
        => IsCurrent(k.req, resources[k.provider][k.req.slot].desc)

Retire(q, replaced) == CollectGarbageLocked(q \o replaced)

InstallCommit(c) ==
    LET k == call[c]
        p == k.provider
        s == k.req.slot
        replaced == IF s \in DOMAIN resources[p] THEN <<resources[p][s]>> ELSE << >> IN
    /\ k.pc = "install"
    /\ StillCurrent(k)
    /\ resources' = [resources EXCEPT
          ![p] = Put(@, s, [desc |-> k.desc, handle |-> k.handle])]
    /\ retired' = [retired EXCEPT ![p] = Retire(@, replaced)]
    /\ published' = published \cup {k.desc}
    /\ Return(c, Answer("commit", "ok", k.req, k.desc, None))
    /\ UNCHANGED <<os, nextSlot, held, drops>>

RejectCommit(c) ==
    /\ call[c].pc = "install"
    /\ ~StillCurrent(call[c])
    /\ Fail(c, "commit", "mismatch", call[c].req)
    /\ UNCHANGED <<os, store, held, published, drops>>
-----------------------------------------------------------------------------
\* collect_garbage, and the drop of a whole instance.

CollectGarbage(c, p) ==
    LET kept == CollectGarbageLocked(retired[p]) IN
    /\ Available(c)
    /\ retired' = [retired EXCEPT ![p] = kept]
    /\ Return(c, [Answer("gc", "ok", None, None, None) EXCEPT
          !.released = Len(retired[p]) - Len(kept)])
    /\ UNCHANGED <<os, nextSlot, resources, held, published, drops>>

\* The runtime drops an instance that no call is using and loads a fresh one.
\* Views outlive it; descriptors stay in the callers' plans.
DropProvider(p) ==
    /\ drops < MaxDrops
    /\ \A c \in Clients : ~Available(c) => call[c].provider # p
    /\ nextSlot[p] > 0
    /\ nextSlot' = [nextSlot EXCEPT ![p] = 0]
    /\ resources' = [resources EXCEPT ![p] = [s \in {} |-> None]]
    /\ retired' = [retired EXCEPT ![p] = << >>]
    /\ drops' = drops + 1
    /\ reply' = None
    /\ UNCHANGED <<os, call, held, published>>
-----------------------------------------------------------------------------
Bases(d) == {d.version, d.version - 1}

ClientStep(c) ==
    \/ \E p \in Providers :
          \/ \E sem \in {"frozen", "cow"}, b \in Contents : Create(c, p, sem, b)
          \/ CreateHostFails(c, p)
          \/ CreateExhausted(c, p)
          \/ CollectGarbage(c, p)
          \/ \E d \in published :
                \/ \E op \in ReadOps \cap {"collect", "export"}, l \in Limits :
                      DescriptorFor(c, p, op, d, l)
                \/ \E op \in ReadOps \cap {"view", "snapshot"} : StartView(c, p, op, d)
                \/ \E i, j \in Bases(d), b \in Contents :
                      PrepareCommit(c, p, d, i, j, b)
    \/ \E d \in published :
          \/ "view" \in ReadOps /\ OpenView(c, d)
          \/ \E i, j \in Bases(d) :
                \/ RefuseCommit(c, d, i, j)
                \/ CommitHostFails(c, d, i, j)
    \/ ContinueRead(c)
    \/ OpenMapping(c)
    \/ DropView(c)
    \/ InsertSnapshot(c)
    \/ InsertSnapshotExhausted(c)
    \/ InstallCommit(c)
    \/ RejectCommit(c)

Next ==
    \/ \E c \in Clients : ClientStep(c)
    \/ \E p \in Providers : DropProvider(p)

Spec == Init /\ [][Next]_vars
-----------------------------------------------------------------------------
(***************************************************************************)
(* Properties of any number of instances, dropped and loaded again.         *)
(***************************************************************************)

\* Every entry and every view shows the bytes its own descriptor names, however
\* a read, a commit and the drop of an instance interleave: the lock of
\* mapped_view copies descriptor and mapping together, and what is kept of a
\* snapshot or a commit between its two steps belongs together too.
BytesMatchDescriptor ==
    /\ \A p \in Providers :
          /\ \A s \in DOMAIN resources[p] :
                /\ resources[p][s].desc.slot = s
                /\ resources[p][s].desc.name = resources[p][s].handle.name
          /\ \A i \in DOMAIN retired[p] :
                retired[p][i].desc.name = retired[p][i].handle.name
    /\ \A c \in Clients :
          /\ held[c] # None => held[c].desc.name = held[c].handle.name
          /\ call[c].pc \in {"insert", "install"} =>
                call[c].desc.name = call[c].handle.name

\* A mapping's name is owned by at most one instance: a snapshot of another
\* instance's resource, or a commit on it, never makes two instances
\* responsible for unlinking one name.
OneOwner ==
    LET Owned(p) == {h.name : h \in {x \in StoredHandles(p) : x.owner}} IN
    \A p, q \in Providers : p # q => Owned(p) \cap Owned(q) = {}

\* No more generations are retained than configured, and the public
\* collect_garbage never finds anything to release: the commit that replaced
\* the last generation has released what was too old in the same critical
\* section.
RetentionBound ==
    /\ \A p \in Providers : Len(retired[p]) <= RetainedGenerations
    /\ reply # None => reply.released = 0

RespectsLimits ==
    \A c \in Clients :
       (/\ call[c].pc \in {"view", "open"}
        /\ call'[c].pc = "idle"
        /\ reply'.op \in {"collect", "export"}
        /\ reply'.status = "ok") =>
            /\ Size[reply'.content] <= MaxCollectBytes
            /\ call[c].limit \in Nat => Size[reply'.content] <= call[c].limit

\* The bytes a collect or an export returns respect the provider's cap, and a
\* u64 max_bytes of the plan as well.
OwnedBytesBounded == [][RespectsLimits]_vars
-----------------------------------------------------------------------------
(***************************************************************************)
(* Properties of one instance that is never dropped: a slot then names one  *)
(* resource.                                                                *)
(***************************************************************************)

Newer(d, e) == d.slot = e.slot /\ d.version > e.version

\* No lost update: a slot and a version name one mapping for good, so of two
\* commits racing on the same base at most one is published, and a plan's
\* descriptor never comes to mean other bytes.
GenerationUnique ==
    \A d, e \in published : d.slot = e.slot /\ d.version = e.version => d = e

\* A collect or an export that succeeds returns the bytes of the descriptor in
\* the caller's plan, although its checks and its copy are in three places and
\* commits run between them.
ReadReturnsRequested ==
    (reply # None /\ reply.op \in {"collect", "export"} /\ reply.status = "ok") =>
        /\ reply.desc = reply.req
        /\ reply.content = maps[reply.req.name]

\* The current generation of every resource can be opened by its name from
\* another process; so can every generation that is retained or in use.
CurrentOpenable ==
    \A p \in Providers :
       /\ \A s \in DOMAIN resources[p] : resources[p][s].desc.name \in Linked
       /\ \A i \in DOMAIN retired[p] : retired[p][i].desc.name \in Linked

RejectsOnlyStale ==
    (/\ reply' # None
     /\ reply'.status = "mismatch"
     /\ reply'.op = "commit" =>
           \E c \in Clients : call[c].pc = "install" /\ call'[c].pc = "idle") =>
        \E d \in published : Newer(d, reply'.req)

\* A read, or a write plan that agrees with its own descriptor, is rejected as
\* stale only if a newer generation of the slot has been published: of the
\* commits racing on one base, one wins.
NoSpuriousRejection == [][RejectsOnlyStale]_vars

\* The retired queue holds the generations replaced last: of every slot an
\* unbroken run that ends just below the current version, oldest first, and the
\* queue is full as soon as enough generations were replaced.
RetiredAreNewest ==
    \A p \in Providers :
       LET q == retired[p]
           Of(s) == {i \in DOMAIN q : q[i].desc.slot = s}
           replaced == {d \in published :
                          d.version < resources[p][d.slot].desc.version} IN
       /\ \A s \in DOMAIN resources[p], i \in DOMAIN q :
             i \in Of(s) =>
                q[i].desc.version = resources[p][s].desc.version
                                      - Cardinality({j \in Of(s) : j >= i})
       /\ Cardinality(replaced) >= RetainedGenerations => Len(q) = RetainedGenerations
       /\ Cardinality(replaced) <= RetainedGenerations => Len(q) = Cardinality(replaced)

KeepsSealed ==
    \A p \in Providers : \A s \in DOMAIN resources[p] :
       resources[p][s].desc.semantic # "cow" =>
           s \in DOMAIN resources'[p] /\ resources'[p][s] = resources[p][s]

\* A sealed resource (a blob or a snapshot) is never replaced, whatever plans
\* are committed.
SealedNeverReplaced == [][KeepsSealed]_vars

\* A snapshot says is_latest exactly when no newer generation of its source was
\* published before the snapshot was: the source may have been replaced between
\* the view and the insertion.
SnapshotLatestHonest ==
    reply # None /\ reply.op = "snapshot" /\ reply.status = "ok" =>
        (reply.latest <=> ~\E d \in published : Newer(d, reply.req))
-----------------------------------------------------------------------------
(***************************************************************************)
(* What comments and messages of the code promise and the code does not do. *)
(***************************************************************************)

\* provider.rs:100: "foreign provider instances open the OS mapping named by
\* ResourceAccess::SharedMemory".  A view returned for a descriptor shows the
\* mapping that descriptor names.
ViewShowsNamedMapping ==
    (reply # None /\ reply.op = "view" /\ reply.status = "ok") =>
        reply.desc.name = reply.req.name
=============================================================================
