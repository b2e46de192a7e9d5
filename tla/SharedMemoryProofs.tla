------------------------- MODULE SharedMemoryProofs -------------------------
(***************************************************************************)
(* Theorems about SharedMemoryProvider.  The first part holds for any       *)
(* number of instances, dropped and loaded again: what is stored is what    *)
(* its descriptor says, a mapping has one owner, and what an instance       *)
(* retains stays within its limits.  The second is about one instance that  *)
(* is never dropped: versions, reads, rejections, the retired queue, and at *)
(* the end that the provider implements ResourceStore.                      *)
(***************************************************************************)
EXTENDS SharedMemoryRefinement, TLAPS, FiniteSetTheorems

-----------------------------------------------------------------------------
(***************************************************************************)
(* The inductive invariant of any number of instances: whatever is kept     *)
(* anywhere names a mapping that was created, and pairs a descriptor with   *)
(* the mapping it names.                                                    *)
(***************************************************************************)

Created(n, m) == n \in DOMAIN m /\ m[n] # None

Fits(e, m) ==
    /\ e \in Entry
    /\ e.desc.name = e.handle.name
    /\ Created(e.handle.name, m)

CountersOK ==
    /\ sequence \in 0 .. MaxNames
    /\ maps \in [1 .. sequence -> Contents \cup {None}]
    /\ nextSlot \in [Providers -> 0 .. MaxSlot]
    /\ drops \in 0 .. MaxDrops

ResourcesOK ==
    /\ DOMAIN resources = Providers
    /\ \A p \in Providers :
          /\ DOMAIN resources[p] \subseteq Slots
          /\ resources[p] \in [DOMAIN resources[p] -> Entry]
          /\ \A s \in DOMAIN resources[p] :
                Fits(resources[p][s], maps) /\ resources[p][s].desc.slot = s

RetiredOK ==
    /\ retired \in [Providers -> Seq(Entry)]
    /\ \A p \in Providers :
          /\ Len(retired[p]) <= RetainedGenerations
          /\ \A i \in 1 .. Len(retired[p]) : Fits(retired[p][i], maps)

CallFits(k, m) ==
    /\ k \in Call
    /\ k.pc \in {"view", "open"} => Created(k.desc.name, m)
    /\ k.pc \in {"insert", "install"} =>
          k.desc.name = k.handle.name /\ Created(k.handle.name, m)
    /\ k.pc = "install" => k.desc.slot = k.req.slot

CallOK == call \in [Clients -> Call] /\ \A c \in Clients : CallFits(call[c], maps)

HeldOK ==
    /\ held \in [Clients -> Entry \cup {None}]
    /\ \A c \in Clients : held[c] # None => Fits(held[c], maps)

ReplyOK == reply # None => reply \in Reply /\ reply.released = 0

PublishedOK == published \subseteq Descriptor /\ \A d \in published : Created(d.name, maps)

GInv ==
    /\ CountersOK
    /\ ResourcesOK
    /\ RetiredOK
    /\ CallOK
    /\ HeldOK
    /\ ReplyOK
    /\ PublishedOK
-----------------------------------------------------------------------------
\* Facts about values.

LEMMA PutFact ==
    ASSUME NEW S, NEW f, f \in [DOMAIN f -> S], NEW k, NEW v \in S
    PROVE  /\ DOMAIN Put(f, k, v) = DOMAIN f \cup {k}
           /\ Put(f, k, v) \in [DOMAIN Put(f, k, v) -> S]
           /\ Put(f, k, v)[k] = v
           /\ \A x \in DOMAIN f : x # k => Put(f, k, v)[x] = f[x]
  BY DEF Put

\* Garbage collection keeps a suffix of at most RetainedGenerations entries.
LEMMA CollectFact ==
    ASSUME NEW S, NEW q \in Seq(S)
    PROVE  /\ CollectGarbageLocked(q) \in Seq(S)
           /\ Len(CollectGarbageLocked(q)) <= RetainedGenerations
           /\ Len(q) <= RetainedGenerations => CollectGarbageLocked(q) = q
           /\ \A i \in 1 .. Len(CollectGarbageLocked(q)) :
                 \E j \in 1 .. Len(q) : CollectGarbageLocked(q)[i] = q[j]
  BY ConfigAssumption DEF CollectGarbageLocked

\* A step of the operating system keeps the mappings that exist.
LEMMA NamingFact ==
    ASSUME CountersOK, NEW b \in Contents \cup {None}, NameMapping(b)
    PROVE  /\ sequence' \in 0 .. MaxNames
           /\ maps' \in [1 .. sequence' -> Contents \cup {None}]
           /\ \A n : Created(n, maps) => Created(n, maps')
           /\ \A n : n = sequence + 1 /\ b # None => Created(n, maps')
           /\ sequence + 1 \in Names
<1>1. /\ sequence \in Nat /\ sequence < MaxNames /\ sequence' = sequence + 1
      /\ maps \in [1 .. sequence -> Contents \cup {None}]
      /\ maps' = Put(maps, sequence + 1, b)
  BY ConfigAssumption DEF CountersOK, NameMapping
<1>2. DOMAIN maps \cup {sequence + 1} = 1 .. sequence'
  BY <1>1
<1>3. maps' \in [1 .. sequence' -> Contents \cup {None}]
  BY <1>1, <1>2 DEF Put
<1>4. \A n \in 1 .. sequence : maps'[n] = maps[n]
  BY <1>1, <1>2 DEF Put
<1>5. maps'[sequence + 1] = b
  BY <1>1, <1>2 DEF Put
<1>6. QED
  BY <1>1, <1>3, <1>4, <1>5, ConfigAssumption DEF Created, Names

\* What is not changed stays sound when the mappings that exist are kept.
LEMMA FrameFact ==
    ASSUME \A n : Created(n, maps) => Created(n, maps')
    PROVE  /\ ResourcesOK /\ UNCHANGED resources => ResourcesOK'
           /\ RetiredOK /\ UNCHANGED retired => RetiredOK'
           /\ HeldOK /\ UNCHANGED held => HeldOK'
           /\ PublishedOK /\ UNCHANGED published => PublishedOK'
           /\ \A e : Fits(e, maps) => Fits(e, maps')
           /\ \A k : CallFits(k, maps) => CallFits(k, maps')
<1>1. \A e : Fits(e, maps) => Fits(e, maps')
  BY DEF Fits
<1>2. \A k : CallFits(k, maps) => CallFits(k, maps')
  BY DEF CallFits
<1>3. QED
  BY <1>1, <1>2 DEF ResourcesOK, RetiredOK, HeldOK, PublishedOK

\* A client that starts, continues or ends a call.
LEMMA CallFact ==
    ASSUME CallOK, \A n : Created(n, maps) => Created(n, maps'), NEW c \in Clients,
           NEW k, CallFits(k, maps'), call' = [call EXCEPT ![c] = k]
    PROVE  CallOK'
<1>1. \A x \in Clients : CallFits(call[x], maps')
  <2>1. \A x \in Clients : call'[x] = IF x = c THEN k ELSE call[x]
    BY DEF CallOK
  <2>2. QED
    BY <2>1, FrameFact DEF CallOK, CallFits
<1>2. call' \in [Clients -> Call]
  BY <1>1 DEF CallOK, CallFits
<1>3. QED
  BY <1>1, <1>2 DEF CallOK

LEMMA IdleFact == CallFits(Idle, maps) /\ CallFits(Idle, maps')
  BY DEF CallFits, Idle, Call
-----------------------------------------------------------------------------
\* The steps.  Most of them end a call without changing what is kept.

LEMMA FailStep ==
    ASSUME GInv, NEW c \in Clients, NEW op \in Ops, NEW status \in Statuses,
           NEW req \in Descriptor \cup {None}, Fail(c, op, status, req),
           UNCHANGED <<os, store, held, published, drops>>
    PROVE  GInv'
<1>1. \A n : Created(n, maps) => Created(n, maps')
  BY DEF os, Created
<1>2. CountersOK' /\ ResourcesOK' /\ RetiredOK' /\ HeldOK' /\ PublishedOK'
  BY <1>1, FrameFact DEF GInv, CountersOK, os, store
<1>3. CallOK'
  BY <1>1, CallFact, IdleFact DEF GInv, Fail, Return
<1>4. ReplyOK'
  BY DEF ReplyOK, Fail, Return, Answer, Reply
<1>5. QED
  BY <1>2, <1>3, <1>4 DEF GInv

\* What a call does with the view it was given.
LEMMA UseViewStep ==
    ASSUME GInv, NEW c \in Clients, NEW k \in Call, k.pc \in {"view", "open"},
           NEW d \in Descriptor, NEW h \in Handle, d.name = h.name,
           Created(h.name, maps), UseView(c, k, d, h),
           UNCHANGED <<os, store, published, drops>>
    PROVE  GInv'
<1>1. \A n : Created(n, maps) => Created(n, maps')
  BY DEF os, Created
<1>2. CountersOK' /\ ResourcesOK' /\ RetiredOK' /\ PublishedOK'
  BY <1>1, FrameFact DEF GInv, CountersOK, os, store
<1>k. /\ k.op \in Ops /\ k.provider \in Providers
      /\ k.req \in Descriptor /\ maps[h.name] \in Contents \cup {None}
  BY DEF Call, Idle, GInv, CountersOK, Created
<1>3. CASE UNCHANGED held /\ \E r \in Reply : r.released = 0 /\ Return(c, r)
  BY <1>1, <1>2, <1>3, FrameFact, CallFact, IdleFact DEF GInv, Return, ReplyOK
<1>4. CASE /\ held' = [held EXCEPT ![c] = [desc |-> d, handle |-> h]]
           /\ \E r \in Reply : r.released = 0 /\ Return(c, r)
  <2>1. Fits([desc |-> d, handle |-> h], maps')
    BY <1>1 DEF Fits, Entry
  <2>2. HeldOK'
    BY <1>1, <1>4, <2>1, FrameFact DEF GInv, HeldOK, Fits
  <2>3. CallOK' /\ ReplyOK'
    BY <1>1, <1>4, CallFact, IdleFact DEF GInv, Return, ReplyOK
  <2>4. QED
    BY <1>2, <2>2, <2>3 DEF GInv
<1>5. CASE /\ UNCHANGED held
           /\ Proceed(c, [pc |-> "insert", provider |-> k.provider,
                          req |-> k.req, desc |-> d, handle |-> h])
  <2> DEFINE next == [pc |-> "insert", provider |-> k.provider, req |-> k.req,
                      desc |-> d, handle |-> h]
  <2>1. CallFits(next, maps')
    BY <1>1, <1>k DEF CallFits, Call
  <2>2. CallOK'
    BY <1>1, <1>5, <2>1, CallFact DEF GInv, Proceed
  <2>3. HeldOK' /\ ReplyOK'
    BY <1>1, <1>5, FrameFact DEF GInv, Proceed, ReplyOK
  <2>4. QED
    BY <1>2, <2>2, <2>3 DEF GInv
<1>6. QED
  <2>1. \A status \in Statuses, desc \in Descriptor \cup {None},
           bytes \in Contents \cup {None} :
           Return(c, Answer(k.op, status, k.req, desc, bytes)) =>
              \E r \in Reply : r.released = 0 /\ Return(c, r)
    BY <1>k DEF Reply, Answer
  <2>2. {"ok", "unsupported"} \subseteq Statuses
    BY DEF Statuses
  <2>3. QED
    BY <1>k, <1>3, <1>4, <1>5, <2>1, <2>2 DEF UseView, Fail

LEMMA ProceedStep ==
    ASSUME GInv, NEW c \in Clients, NEW k, CallFits(k, maps), Proceed(c, k),
           UNCHANGED <<os, store, held, published, drops>>
    PROVE  GInv'
<1>1. \A n : Created(n, maps) => Created(n, maps')
  BY DEF os, Created
<1>2. CountersOK' /\ ResourcesOK' /\ RetiredOK' /\ HeldOK' /\ PublishedOK'
  BY <1>1, FrameFact DEF GInv, CountersOK, os, store
<1>3. CallOK' /\ ReplyOK'
  BY <1>1, FrameFact, CallFact DEF GInv, Proceed, ReplyOK
<1>4. QED
  BY <1>2, <1>3 DEF GInv

\* What the reading calls of a client start from.
LEMMA ReadingFact ==
    ASSUME GInv, NEW p \in Providers, NEW op \in Ops, NEW d \in published,
           NEW limit \in Limits \cup {Absent}
    PROVE  /\ CallFits(Reading(p, op, d, limit), maps)
           /\ Reading(p, op, d, limit).pc = "view"
           /\ d \in Descriptor
  BY DEF GInv, PublishedOK, CallFits, Call, Reading

LEMMA MappedViewStep ==
    ASSUME GInv, NEW c \in Clients, NEW k, CallFits(k, maps), k.pc = "view",
           MappedView(c, k), UNCHANGED <<os, store, published, drops>>
    PROVE  GInv'
<1> DEFINE local == resources[k.provider]
<1>1. /\ k \in Call /\ k.provider \in Providers /\ k.op \in Ops
      /\ k.req \in Descriptor
  BY DEF CallFits, Call, Idle
<1>2. ASSUME k.desc.slot \in DOMAIN local,
             UseView(c, k, local[k.desc.slot].desc, local[k.desc.slot].handle)
      PROVE  GInv'
  <2>1. Fits(local[k.desc.slot], maps)
    BY <1>1, <1>2 DEF GInv, ResourcesOK
  <2>2. QED
    BY <1>1, <1>2, <2>1, UseViewStep DEF Fits, Entry
<1>3. ASSUME Fail(c, k.op, "mismatch", k.req), UNCHANGED held
      PROVE  GInv'
  BY <1>1, <1>3, FailStep DEF Statuses
<1>4. ASSUME Proceed(c, [k EXCEPT !.pc = "open"]), UNCHANGED held
      PROVE  GInv'
  <2>1. CallFits([k EXCEPT !.pc = "open"], maps)
    BY DEF CallFits, Call, Idle
  <2>2. QED
    BY <1>4, <2>1, ProceedStep
<1>5. QED
  BY <1>2, <1>3, <1>4 DEF MappedView

LEMMA DescriptorForStep ==
    ASSUME GInv, NEW c \in Clients, NEW p \in Providers, NEW op \in Ops,
           NEW d \in published, NEW limit \in Limits,
           DescriptorFor(c, p, op, d, limit)
    PROVE  GInv'
<1>1. CASE /\ d.slot \in DOMAIN resources[p]
           /\ Proceed(c, [Reading(p, op, d, limit) EXCEPT
                             !.desc = resources[p][d.slot].desc])
  <2>1. Fits(resources[p][d.slot], maps)
    BY <1>1 DEF GInv, ResourcesOK
  <2>2. CallFits([Reading(p, op, d, limit) EXCEPT
                    !.desc = resources[p][d.slot].desc], maps)
    BY <2>1, ReadingFact DEF CallFits, Reading, Call, Idle, Fits, Entry
  <2>3. QED
    BY <1>1, <2>2, ProceedStep DEF DescriptorFor
<1>2. CASE Fail(c, op, "mismatch", d)
  BY <1>2, FailStep, ReadingFact DEF DescriptorFor, Statuses
<1>3. CASE Proceed(c, Reading(p, op, d, limit))
  BY <1>3, ProceedStep, ReadingFact DEF DescriptorFor
<1>4. QED
  BY <1>1, <1>2, <1>3 DEF DescriptorFor

LEMMA OpenMappingStep ==
    ASSUME GInv, NEW c \in Clients, OpenMapping(c)
    PROVE  GInv'
<1> DEFINE k == call[c]
<1>1. /\ k \in Call /\ CallFits(k, maps) /\ k.pc = "open" /\ k.op \in Ops
      /\ k.req \in Descriptor /\ k.desc \in Descriptor
  BY DEF GInv, CallOK, CallFits, Call, Idle, OpenMapping
<1>2. CASE UseView(c, k, k.desc, Opened(k.desc.name))
  <2>1. /\ Opened(k.desc.name) \in Handle
        /\ Opened(k.desc.name).name = k.desc.name
    BY <1>1 DEF Opened, Handle, Descriptor
  <2>2. QED
    BY <1>1, <1>2, <2>1, UseViewStep DEF CallFits, OpenMapping
<1>3. CASE Fail(c, k.op, "not_found", k.req) /\ UNCHANGED held
  BY <1>1, <1>3, FailStep DEF OpenMapping, Statuses
<1>4. QED
  BY <1>2, <1>3 DEF OpenMapping

LEMMA OpenViewStep ==
    ASSUME GInv, NEW c \in Clients, NEW d \in published, OpenView(c, d)
    PROVE  GInv'
<1>1. d \in Descriptor /\ Created(d.name, maps)
  BY DEF GInv, PublishedOK
<1>2. CASE Fail(c, "view", "not_found", d) /\ UNCHANGED held
  BY <1>1, <1>2, FailStep DEF OpenView, Statuses, Ops
<1>3. CASE /\ held' = [held EXCEPT ![c] = [desc |-> d, handle |-> Opened(d.name)]]
           /\ Return(c, Answer("view", "ok", d, d, None))
  <2>1. \A n : Created(n, maps) => Created(n, maps')
    BY DEF OpenView, os, Created
  <2>2. CountersOK' /\ ResourcesOK' /\ RetiredOK' /\ PublishedOK'
    BY <2>1, FrameFact DEF OpenView, GInv, CountersOK, os, store
  <2>3. Fits([desc |-> d, handle |-> Opened(d.name)], maps)
    BY <1>1 DEF Fits, Entry, Opened, Handle, Descriptor
  <2>4. HeldOK'
    BY <1>3, <2>1, <2>3, FrameFact DEF GInv, HeldOK, Fits
  <2>5. CallOK'
    BY <1>3, <2>1, CallFact, IdleFact DEF GInv, Return
  <2>6. ReplyOK'
    BY <1>1, <1>3 DEF ReplyOK, Return, Answer, Reply, Ops, Statuses
  <2>7. QED
    BY <2>2, <2>4, <2>5, <2>6 DEF GInv
<1>4. QED
  BY <1>2, <1>3 DEF OpenView

LEMMA DropViewStep ==
    ASSUME GInv, NEW c \in Clients, DropView(c)
    PROVE  GInv'
<1>1. \A n : Created(n, maps) => Created(n, maps')
  BY DEF DropView, os, Created
<1>2. CountersOK' /\ ResourcesOK' /\ RetiredOK' /\ PublishedOK' /\ ReplyOK'
  BY <1>1, FrameFact DEF DropView, GInv, CountersOK, os, store, ReplyOK
<1>3. HeldOK'
  BY <1>1, FrameFact DEF DropView, GInv, HeldOK
<1>4. CallOK'
  BY <1>1, FrameFact DEF DropView, GInv, CallOK
<1>5. QED
  BY <1>2, <1>3, <1>4 DEF GInv
-----------------------------------------------------------------------------
\* The steps that store an entry, name a mapping or release entries.

LEMMA StoreFact ==
    ASSUME ResourcesOK, \A n : Created(n, maps) => Created(n, maps'), NEW p \in Providers,
           NEW s \in Slots, NEW e, Fits(e, maps'), e.desc.slot = s,
           resources' = [resources EXCEPT ![p] = Put(resources[p], s, e)]
    PROVE  ResourcesOK'
<1>1. e \in Entry
  BY DEF Fits
<1>2. /\ DOMAIN resources' = Providers
      /\ resources'[p] = Put(resources[p], s, e)
      /\ \A q \in Providers : q # p => resources'[q] = resources[q]
  BY DEF ResourcesOK
<1>3. ASSUME NEW q \in Providers
      PROVE  /\ DOMAIN resources'[q] \subseteq Slots
             /\ resources'[q] \in [DOMAIN resources'[q] -> Entry]
             /\ \A t \in DOMAIN resources'[q] :
                   Fits(resources'[q][t], maps') /\ resources'[q][t].desc.slot = t
  <2>1. CASE q # p
    BY <1>2, <2>1, FrameFact DEF ResourcesOK
  <2>2. CASE q = p
    <3> DEFINE f == resources[p]
    <3>1. f \in [DOMAIN f -> Entry] /\ DOMAIN f \subseteq Slots
      BY DEF ResourcesOK
    <3>2. /\ DOMAIN Put(f, s, e) = DOMAIN f \cup {s}
          /\ Put(f, s, e) \in [DOMAIN Put(f, s, e) -> Entry]
          /\ Put(f, s, e)[s] = e
          /\ \A x \in DOMAIN f : x # s => Put(f, s, e)[x] = f[x]
      BY <1>1, <3>1 DEF Put
    <3>3. \A t \in DOMAIN f : Fits(f[t], maps') /\ f[t].desc.slot = t
      BY FrameFact DEF ResourcesOK
    <3>4. QED
      BY <1>2, <2>2, <3>1, <3>2, <3>3
  <2>3. QED
    BY <2>1, <2>2
<1>4. QED
  BY <1>2, <1>3 DEF ResourcesOK

LEMMA CreateStep ==
    ASSUME GInv, NEW c \in Clients, NEW p \in Providers,
           NEW sem \in {"frozen", "cow"}, NEW b \in Contents, Create(c, p, sem, b)
    PROVE  GInv'
<1> DEFINE s == nextSlot[p] + 1
           n == sequence + 1
           d == ResourceRef(s, n, 1, 1, sem)
           e == [desc |-> d, handle |-> [name |-> n, owner |-> TRUE]]
<1>1. b # None /\ b \in Contents \cup {None}
  BY ContentsAssumption
<1>2. /\ \A m : Created(m, maps) => Created(m, maps')
      /\ \A m : m = n => Created(m, maps')
      /\ n \in Names
      /\ sequence' \in 0 .. MaxNames
      /\ maps' \in [1 .. sequence' -> Contents \cup {None}]
  BY <1>1, NamingFact DEF GInv, Create
<1>3. s \in Slots
  BY ConfigAssumption DEF GInv, CountersOK, Create, HasNextSlot, Slots
<1>4. CountersOK'
  BY <1>2, <1>3 DEF GInv, CountersOK, Create, Slots
<1>5. d \in Descriptor /\ d.slot = s /\ d.name = n
  BY <1>2, <1>3, ConfigAssumption DEF ResourceRef, Descriptor, Versions, Semantics
<1>6. Fits(e, maps')
  BY <1>2, <1>5 DEF Fits, Entry, Handle
<1>7. ResourcesOK'
  <2>1. resources' = [resources EXCEPT ![p] = Put(resources[p], s, e)]
    BY DEF Create
  <2>2. e.desc.slot = s
    BY <1>5
  <2> HIDE DEF e, s
  <2>3. QED
    BY <1>2, <1>3, <1>6, <2>1, <2>2, StoreFact DEF GInv
<1>8. RetiredOK' /\ HeldOK'
  BY <1>2, FrameFact DEF GInv, Create
<1>9. PublishedOK'
  BY <1>2, <1>5 DEF GInv, Create, PublishedOK
<1>10. CallOK' /\ ReplyOK'
  BY <1>2, <1>5, CallFact, IdleFact
     DEF GInv, Create, Return, Answer, ReplyOK, Reply, Ops, Statuses
<1>11. QED
  BY <1>4, <1>7, <1>8, <1>9, <1>10 DEF GInv

\* An operation whose mapping the operating system refuses.
LEMMA HostFailsStep ==
    ASSUME GInv, NEW c \in Clients, NameMapping(None), NEW op \in Ops,
           NEW req \in Descriptor \cup {None}, Fail(c, op, "host_failed", req),
           nextSlot' \in [Providers -> 0 .. MaxSlot],
           UNCHANGED <<resources, retired, held, published, drops>>
    PROVE  GInv'
<1>1. /\ \A m : Created(m, maps) => Created(m, maps')
      /\ CountersOK'
  BY NamingFact DEF GInv, CountersOK
<1>2. ResourcesOK' /\ RetiredOK' /\ HeldOK' /\ PublishedOK'
  BY <1>1, FrameFact DEF GInv
<1>3. CallOK' /\ ReplyOK'
  BY <1>1, CallFact, IdleFact
     DEF GInv, Fail, Return, Answer, ReplyOK, Reply, Statuses
<1>4. QED
  BY <1>1, <1>2, <1>3 DEF GInv

LEMMA InsertSnapshotStep ==
    ASSUME GInv, NEW c \in Clients, InsertSnapshot(c)
    PROVE  GInv'
<1> DEFINE k == call[c]
           p == k.provider
           s == nextSlot[p] + 1
           d == ResourceRef(s, k.desc.name, 1, 1, "snapshot")
           e == [desc |-> d, handle |-> k.handle]
<1>1. /\ p \in Providers /\ k.req \in Descriptor /\ k.desc \in Descriptor
      /\ k.handle \in Handle /\ k.desc.name = k.handle.name
      /\ Created(k.handle.name, maps)
  BY DEF GInv, CallOK, CallFits, Call, Idle, InsertSnapshot
<1>2. \A m : Created(m, maps) => Created(m, maps')
  BY DEF InsertSnapshot, os, Created
<1>3. s \in Slots
  BY <1>1, ConfigAssumption DEF GInv, CountersOK, InsertSnapshot, HasNextSlot, Slots
<1>4. CountersOK'
  BY <1>1, <1>3 DEF GInv, CountersOK, InsertSnapshot, os, Slots
<1>5. d \in Descriptor /\ d.slot = s /\ d.name = k.desc.name
  BY <1>1, <1>3, ConfigAssumption
     DEF ResourceRef, Descriptor, Versions, Semantics, Handle
<1>6. Fits(e, maps')
  BY <1>1, <1>2, <1>5 DEF Fits, Entry
<1>7. ResourcesOK'
  <2>1. resources' = [resources EXCEPT ![p] = Put(resources[p], s, e)]
    BY DEF InsertSnapshot, WithSnapshot
  <2>2. e.desc.slot = s
    BY <1>5
  <2> HIDE DEF e, s, p
  <2>3. QED
    BY <1>1, <1>2, <1>3, <1>6, <2>1, <2>2, StoreFact DEF GInv
<1>8. RetiredOK' /\ HeldOK'
  BY <1>2, FrameFact DEF GInv, InsertSnapshot
<1>9. PublishedOK'
  BY <1>1, <1>2, <1>5 DEF GInv, InsertSnapshot, PublishedOK
<1>10. IsLatest(resources[p], k.desc) \in BOOLEAN
  BY DEF IsLatest
<1>11. CallOK' /\ ReplyOK'
  BY <1>1, <1>2, <1>5, <1>10, CallFact, IdleFact
     DEF GInv, InsertSnapshot, Return, Answer, ReplyOK, Reply, Ops, Statuses
<1>12. QED
  BY <1>4, <1>7, <1>8, <1>9, <1>11 DEF GInv

LEMMA PrepareCommitStep ==
    ASSUME GInv, NEW c \in Clients, NEW p \in Providers, NEW d \in published,
           NEW i, NEW j, NEW b \in Contents, PrepareCommit(c, p, d, i, j, b)
    PROVE  GInv'
<1> DEFINE n == sequence + 1
           new == ResourceRef(d.slot, n, d.version + 1, d.generation + 1, "cow")
           k == [pc |-> "install", provider |-> p, req |-> d, desc |-> new,
                 handle |-> [name |-> n, owner |-> TRUE]]
<1>1. b # None /\ b \in Contents \cup {None}
  BY ContentsAssumption
<1>2. /\ \A m : Created(m, maps) => Created(m, maps')
      /\ \A m : m = n => Created(m, maps')
      /\ n \in Names
      /\ sequence' \in 0 .. MaxNames
      /\ maps' \in [1 .. sequence' -> Contents \cup {None}]
  BY <1>1, NamingFact DEF GInv, PrepareCommit
<1>3. CountersOK'
  BY <1>2 DEF GInv, CountersOK, PrepareCommit, store
<1>4. d \in Descriptor /\ new \in Descriptor /\ new.slot = d.slot /\ new.name = n
  BY <1>2, ConfigAssumption
     DEF GInv, PublishedOK, PrepareCommit, HasSuccessor, ResourceRef,
         Descriptor, Versions, Semantics
<1>5. CallFits(k, maps')
  BY <1>2, <1>4 DEF CallFits, Call, Handle
<1>6. CallOK' /\ ReplyOK'
  <2>1. call' = [call EXCEPT ![c] = k] /\ reply' = None
    BY DEF PrepareCommit, Proceed
  <2> HIDE DEF k
  <2>2. QED
    BY <1>2, <1>5, <2>1, CallFact DEF GInv, ReplyOK
<1>7. ResourcesOK' /\ RetiredOK' /\ HeldOK' /\ PublishedOK'
  BY <1>2, FrameFact DEF GInv, PrepareCommit, store
<1>8. QED
  BY <1>3, <1>6, <1>7 DEF GInv

\* Retiring an entry keeps the queue sound and within its bound.
LEMMA RetireFact ==
    ASSUME RetiredOK, \A m : Created(m, maps) => Created(m, maps'), NEW p \in Providers,
           NEW q, q = << >> \/ \E e : Fits(e, maps) /\ q = <<e>>,
           retired' = [retired EXCEPT ![p] = Retire(retired[p], q)]
    PROVE  RetiredOK'
<1> DEFINE all == retired[p] \o q
<1>1. retired[p] \in Seq(Entry) /\ q \in Seq(Entry)
  <2>1. CASE q = << >>
    BY <2>1 DEF RetiredOK
  <2>2. CASE \E e : Fits(e, maps) /\ q = <<e>>
    <3>1. PICK e \in Entry : q = <<e>>
      BY <2>2 DEF Fits
    <3>2. QED
      BY <3>1 DEF RetiredOK
  <2>3. QED
    BY <2>1, <2>2
<1>2. all \in Seq(Entry) /\ \A i \in 1 .. Len(all) : Fits(all[i], maps')
  <2>1. \A i \in 1 .. Len(retired[p]) : Fits(retired[p][i], maps')
    BY FrameFact DEF RetiredOK
  <2>2. \A i \in 1 .. Len(q) : Fits(q[i], maps')
    BY FrameFact
  <2>3. QED
    BY <1>1, <2>1, <2>2
<1>3. /\ CollectGarbageLocked(all) \in Seq(Entry)
      /\ Len(CollectGarbageLocked(all)) <= RetainedGenerations
      /\ \A i \in 1 .. Len(CollectGarbageLocked(all)) :
            \E j \in 1 .. Len(all) : CollectGarbageLocked(all)[i] = all[j]
  BY <1>2, CollectFact
<1>4. \A r \in Providers :
         retired'[r] = IF r = p THEN CollectGarbageLocked(all) ELSE retired[r]
  BY DEF RetiredOK, Retire
<1> HIDE DEF all
<1>5. \A i \in 1 .. Len(CollectGarbageLocked(all)) :
         Fits(CollectGarbageLocked(all)[i], maps')
  BY <1>2, <1>3
<1>6. retired' \in [Providers -> Seq(Entry)]
  BY <1>3, <1>4 DEF RetiredOK
<1>7. \A r \in Providers :
         /\ Len(retired'[r]) <= RetainedGenerations
         /\ \A i \in 1 .. Len(retired'[r]) : Fits(retired'[r][i], maps')
  BY <1>3, <1>4, <1>5, FrameFact DEF RetiredOK
<1>8. QED
  BY <1>6, <1>7 DEF RetiredOK

LEMMA InstallCommitStep ==
    ASSUME GInv, NEW c \in Clients, InstallCommit(c)
    PROVE  GInv'
<1> DEFINE k == call[c]
           p == k.provider
           s == k.req.slot
           e == [desc |-> k.desc, handle |-> k.handle]
           replaced == IF s \in DOMAIN resources[p] THEN <<resources[p][s]>>
                       ELSE << >>
<1>1. /\ p \in Providers /\ k.req \in Descriptor /\ k.desc \in Descriptor
      /\ k.handle \in Handle /\ k.desc.name = k.handle.name
      /\ Created(k.handle.name, maps) /\ k.desc.slot = s /\ s \in Slots
  BY DEF GInv, CallOK, CallFits, Call, Idle, InstallCommit, Descriptor
<1>2. \A m : Created(m, maps) => Created(m, maps')
  BY DEF InstallCommit, os, Created
<1>3. CountersOK' /\ HeldOK'
  BY <1>2, FrameFact DEF GInv, CountersOK, InstallCommit, os
<1>4. Fits(e, maps')
  BY <1>1, <1>2 DEF Fits, Entry
<1>5. ResourcesOK'
  <2>1. resources' = [resources EXCEPT ![p] = Put(resources[p], s, e)]
    BY DEF InstallCommit
  <2>2. e.desc.slot = s
    BY <1>1
  <2> HIDE DEF e, s, p
  <2>3. QED
    BY <1>1, <1>2, <1>4, <2>1, <2>2, StoreFact DEF GInv
<1>6. RetiredOK'
  <2>1. replaced = << >> \/ \E x : Fits(x, maps) /\ replaced = <<x>>
    BY <1>1 DEF GInv, ResourcesOK
  <2>2. retired' = [retired EXCEPT ![p] = Retire(retired[p], replaced)]
    BY DEF InstallCommit
  <2> HIDE DEF replaced, p
  <2>3. QED
    BY <1>1, <1>2, <2>1, <2>2, RetireFact DEF GInv
<1>7. PublishedOK'
  BY <1>1, <1>2 DEF GInv, InstallCommit, PublishedOK
<1>8. CallOK' /\ ReplyOK'
  BY <1>1, <1>2, CallFact, IdleFact
     DEF GInv, InstallCommit, Return, Answer, ReplyOK, Reply, Ops, Statuses
<1>9. QED
  BY <1>3, <1>5, <1>6, <1>7, <1>8 DEF GInv

LEMMA CollectGarbageStep ==
    ASSUME GInv, NEW c \in Clients, NEW p \in Providers, CollectGarbage(c, p)
    PROVE  GInv'
<1>1. CollectGarbageLocked(retired[p]) = retired[p]
  BY CollectFact DEF GInv, RetiredOK
<1>2. Len(retired[p]) \in Nat
  BY DEF GInv, RetiredOK
<1>3. retired' = retired
  BY <1>1 DEF CollectGarbage, GInv, RetiredOK
<1>4. \A m : Created(m, maps) => Created(m, maps')
  BY DEF CollectGarbage, os, Created
<1>5. CountersOK' /\ ResourcesOK' /\ RetiredOK' /\ HeldOK' /\ PublishedOK'
  BY <1>3, <1>4, FrameFact DEF CollectGarbage, GInv, CountersOK, os
<1>6. CallOK'
  BY <1>4, CallFact, IdleFact DEF GInv, CollectGarbage, Return
<1>7. ReplyOK'
  <2>1. reply' = [Answer("gc", "ok", None, None, None) EXCEPT !.released = 0]
    BY <1>1, <1>2 DEF CollectGarbage, Return
  <2>2. QED
    BY <2>1 DEF Answer, ReplyOK, Reply, Ops, Statuses
<1>8. QED
  BY <1>5, <1>6, <1>7 DEF GInv

LEMMA DropProviderStep ==
    ASSUME GInv, NEW p \in Providers, DropProvider(p)
    PROVE  GInv'
<1>1. \A m : Created(m, maps) => Created(m, maps')
  BY DEF DropProvider, os, Created
<1>2. CountersOK'
  BY ConfigAssumption DEF GInv, CountersOK, DropProvider, os
<1>3. HeldOK' /\ PublishedOK' /\ ReplyOK'
  BY <1>1, FrameFact DEF GInv, DropProvider, ReplyOK
<1>4. CallOK'
  BY <1>1, FrameFact DEF GInv, DropProvider, CallOK
<1>5. ResourcesOK'
  <2>1. \A q \in Providers :
           resources'[q] = IF q = p THEN [s \in {} |-> None] ELSE resources[q]
    BY DEF GInv, ResourcesOK, DropProvider
  <2>2. DOMAIN resources' = Providers
    BY DEF GInv, ResourcesOK, DropProvider
  <2>3. \A q \in Providers : \A s \in DOMAIN resources[q] : Fits(resources[q][s], maps')
    BY <1>1, FrameFact DEF GInv, ResourcesOK
  <2>4. [s \in {} |-> None] \in [{} -> Entry] /\ DOMAIN [s \in {} |-> None] = {}
    OBVIOUS
  <2>5. ASSUME NEW q \in Providers
        PROVE  /\ DOMAIN resources'[q] \subseteq Slots
               /\ resources'[q] \in [DOMAIN resources'[q] -> Entry]
               /\ \A t \in DOMAIN resources'[q] :
                     Fits(resources'[q][t], maps') /\ resources'[q][t].desc.slot = t
    <3>1. CASE q = p
      BY <2>1, <2>4, <3>1
    <3>2. CASE q # p
      BY <2>1, <2>3, <3>2 DEF GInv, ResourcesOK
    <3>3. QED
      BY <3>1, <3>2
  <2>6. QED
    BY <2>2, <2>5 DEF ResourcesOK
<1>6. RetiredOK'
  <2>1. \A q \in Providers :
           retired'[q] = IF q = p THEN << >> ELSE retired[q]
    BY DEF GInv, RetiredOK, DropProvider
  <2>2. retired' \in [Providers -> Seq(Entry)]
    BY <2>1 DEF GInv, RetiredOK, DropProvider
  <2>3. \A q \in Providers : \A i \in 1 .. Len(retired[q]) : Fits(retired[q][i], maps')
    BY <1>1, FrameFact DEF GInv, RetiredOK
  <2>4. QED
    BY <2>1, <2>2, <2>3, ConfigAssumption DEF GInv, RetiredOK
<1>7. QED
  BY <1>2, <1>3, <1>4, <1>5, <1>6 DEF GInv
-----------------------------------------------------------------------------
(***************************************************************************)
(* Theorems about any number of instances.                                  *)
(***************************************************************************)

LEMMA GInvInit == Init => GInv
<1> SUFFICES ASSUME Init PROVE GInv
  OBVIOUS
<1>1. CountersOK
  BY ConfigAssumption DEF Init, CountersOK
<1>2. ResourcesOK
  BY DEF Init, ResourcesOK
<1>3. RetiredOK
  BY ConfigAssumption DEF Init, RetiredOK
<1>4. CallOK
  BY IdleFact DEF Init, CallOK, CallFits
<1>5. HeldOK /\ ReplyOK /\ PublishedOK
  BY DEF Init, HeldOK, ReplyOK, PublishedOK
<1>6. QED
  BY <1>1, <1>2, <1>3, <1>4, <1>5 DEF GInv

LEMMA ClientInv ==
    ASSUME GInv, NEW c \in Clients, ClientStep(c)
    PROVE  GInv'
<1>0. published \subseteq Descriptor
  BY DEF GInv, PublishedOK
<1>1. ASSUME NEW p \in Providers, NEW sem \in {"frozen", "cow"},
             NEW b \in Contents, Create(c, p, sem, b)
      PROVE  GInv'
  BY <1>1, CreateStep
<1>2. ASSUME NEW p \in Providers, CreateHostFails(c, p)
      PROVE  GInv'
  <2>1. nextSlot' \in [Providers -> 0 .. MaxSlot]
    BY <1>2, ConfigAssumption DEF CreateHostFails, HasNextSlot, GInv, CountersOK
  <2>2. QED
    BY <1>2, <2>1, HostFailsStep DEF CreateHostFails, Ops
<1>3. ASSUME NEW p \in Providers, CreateExhausted(c, p)
      PROVE  GInv'
  BY <1>3, FailStep DEF CreateExhausted, Ops, Statuses
<1>4. ASSUME NEW p \in Providers, CollectGarbage(c, p)
      PROVE  GInv'
  BY <1>4, CollectGarbageStep
<1>5. ASSUME NEW p \in Providers, NEW d \in published,
             NEW op \in {"collect", "export"}, NEW l \in Limits,
             DescriptorFor(c, p, op, d, l)
      PROVE  GInv'
  BY <1>5, DescriptorForStep DEF Ops
<1>6. ASSUME NEW p \in Providers, NEW d \in published,
             NEW op \in {"view", "snapshot"}, StartView(c, p, op, d)
      PROVE  GInv'
  <2>1. /\ CallFits(Reading(p, op, d, Absent), maps)
        /\ Reading(p, op, d, Absent).pc = "view"
    BY ReadingFact DEF Ops
  <2>2. QED
    BY <1>6, <2>1, MappedViewStep DEF StartView
<1>7. ASSUME NEW p \in Providers, NEW d \in published, NEW i, NEW j,
             NEW b \in Contents, PrepareCommit(c, p, d, i, j, b)
      PROVE  GInv'
  BY <1>7, PrepareCommitStep
<1>8. ASSUME NEW d \in published, OpenView(c, d)
      PROVE  GInv'
  BY <1>8, OpenViewStep
<1>9. ASSUME NEW d \in published, NEW i, NEW j,
             RefuseCommit(c, d, i, j) \/ CommitHostFails(c, d, i, j)
      PROVE  GInv'
  <2>1. CASE RefuseCommit(c, d, i, j)
    BY <1>0, <2>1, FailStep DEF RefuseCommit, Ops, Statuses
  <2>2. CASE CommitHostFails(c, d, i, j)
    <3>1. nextSlot' \in [Providers -> 0 .. MaxSlot]
      BY <2>2 DEF CommitHostFails, store, GInv, CountersOK
    <3>2. QED
      BY <1>0, <2>2, <3>1, HostFailsStep DEF CommitHostFails, store, Ops
  <2>3. QED
    BY <1>9, <2>1, <2>2
<1>10. CASE ContinueRead(c)
  <2>1. CallFits(call[c], maps)
    BY DEF GInv, CallOK
  <2>2. QED
    BY <1>10, <2>1, MappedViewStep DEF ContinueRead
<1>11. CASE OpenMapping(c)
  BY <1>11, OpenMappingStep
<1>12. CASE DropView(c)
  BY <1>12, DropViewStep
<1>13. CASE InsertSnapshot(c)
  BY <1>13, InsertSnapshotStep
<1>14. CASE InsertSnapshotExhausted(c) \/ RejectCommit(c)
  <2>1. call[c].req \in Descriptor
    BY <1>14 DEF GInv, CallOK, CallFits, Call, Idle, InsertSnapshotExhausted,
                 RejectCommit
  <2>2. QED
    BY <1>14, <2>1, FailStep DEF InsertSnapshotExhausted, RejectCommit, Ops,
                                 Statuses
<1>15. CASE InstallCommit(c)
  BY <1>15, InstallCommitStep
<1>16. QED
  BY <1>1, <1>2, <1>3, <1>4, <1>5, <1>6, <1>7, <1>8, <1>9, <1>10, <1>11,
     <1>12, <1>13, <1>14, <1>15 DEF ClientStep

LEMMA GInvNext == GInv /\ [Next]_vars => GInv'
<1> SUFFICES ASSUME GInv, [Next]_vars PROVE GInv'
  OBVIOUS
<1>1. CASE UNCHANGED vars
  <2>1. CountersOK' /\ ResourcesOK' /\ RetiredOK' /\ PublishedOK'
    BY <1>1 DEF GInv, vars, CountersOK, ResourcesOK, RetiredOK, PublishedOK
  <2>2. CallOK' /\ HeldOK' /\ ReplyOK'
    BY <1>1 DEF GInv, vars, CallOK, HeldOK, ReplyOK
  <2>3. QED
    BY <2>1, <2>2 DEF GInv
<1>2. CASE Next
  BY <1>2, ClientInv, DropProviderStep DEF Next
<1>3. QED
  BY <1>1, <1>2

THEOREM GInvHolds == Spec => []GInv
<1>1. QED
  BY GInvInit, GInvNext, PTL DEF Spec

\* Every variable keeps its type: no operation of any client forges a
\* descriptor, stores an entry under a slot that was not given out, or leaves a
\* call half described.
THEOREM TypeCorrect == Spec => []TypeOK
<1>1. GInv => TypeOK
  <2> SUFFICES ASSUME GInv PROVE TypeOK
    OBVIOUS
  <2>1. reply \in Reply \cup {None}
    BY DEF GInv, ReplyOK
  <2>2. QED
    BY <2>1 DEF GInv, TypeOK, CountersOK, ResourcesOK, RetiredOK, CallOK, HeldOK,
                PublishedOK
<1>2. QED
  BY <1>1, GInvHolds, PTL

\* Every entry, view and half-done snapshot or commit pairs a descriptor with
\* the mapping that descriptor names.
THEOREM BytesMatchDescriptorHolds == Spec => []BytesMatchDescriptor
<1>1. GInv => BytesMatchDescriptor
  BY DEF GInv, BytesMatchDescriptor, ResourcesOK, RetiredOK, CallOK, CallFits,
         HeldOK, Fits
<1>2. QED
  BY <1>1, GInvHolds, PTL

\* The retired queue never exceeds its configured length, and the public
\* collect_garbage releases nothing.
THEOREM RetentionBoundHolds == Spec => []RetentionBound
<1>1. GInv => RetentionBound
  BY DEF GInv, RetentionBound, RetiredOK, ReplyOK
<1>2. QED
  BY <1>1, GInvHolds, PTL
-----------------------------------------------------------------------------
(***************************************************************************)
(* Who owns a name, for any number of instances.  An owning handle is made  *)
(* with a fresh name, and is then only moved and cloned between the calls   *)
(* on one instance and its store: what another instance opens by name owns  *)
(* nothing, and a view a client holds never goes back into a store.         *)
(***************************************************************************)

\* Handle h is stored by instance p or is in the hands of a call on it.
KeptBy(p, h) ==
    \/ \E s \in DOMAIN resources[p] : h = resources[p][s].handle
    \/ \E i \in DOMAIN retired[p] : h = retired[p][i].handle
    \/ \E c \in Clients : /\ call[c].pc \in {"insert", "install"}
                          /\ call[c].provider = p
                          /\ h = call[c].handle

OwnersOK ==
    \A p, q \in Providers : \A h, g :
       (KeptBy(p, h) /\ KeptBy(q, g) /\ h.owner /\ g.owner /\ h.name = g.name) => p = q

\* A kept handle has a name that was given out.
LEMMA KeptNames ==
    ASSUME GInv, NEW p \in Providers, NEW h, KeptBy(p, h)
    PROVE  h.name # sequence + 1
<1>1. sequence \in Nat /\ DOMAIN maps = 1 .. sequence
  BY DEF GInv, CountersOK
<1>2. Created(h.name, maps)
  <2>1. CASE \E s \in DOMAIN resources[p] : h = resources[p][s].handle
    BY <2>1 DEF GInv, ResourcesOK, Fits
  <2>2. CASE \E i \in DOMAIN retired[p] : h = retired[p][i].handle
    <3>1. DOMAIN retired[p] = 1 .. Len(retired[p])
      BY DEF GInv, RetiredOK
    <3>2. QED
      BY <2>2, <3>1 DEF GInv, RetiredOK, Fits
  <2>3. CASE \E c \in Clients : /\ call[c].pc \in {"insert", "install"}
                                /\ call[c].provider = p
                                /\ h = call[c].handle
    BY <2>3 DEF GInv, CallOK, CallFits
  <2>4. QED
    BY <2>1, <2>2, <2>3 DEF KeptBy
<1>3. QED
  BY <1>1, <1>2 DEF Created

\* What an instance keeps after a step it kept before, or it owns nothing, or
\* it has the name the step gave out, and then one instance keeps it.
LEMMA OwnersKept ==
    ASSUME GInv, OwnersOK, NEW r,
           \A p \in Providers : \A h :
              KeptBy(p, h)' =>
                 \/ KeptBy(p, h)
                 \/ ~h.owner
                 \/ p = r /\ h.name = sequence + 1
    PROVE  OwnersOK'
<1> SUFFICES ASSUME NEW p \in Providers, NEW q \in Providers, NEW h, NEW g,
                    KeptBy(p, h)', KeptBy(q, g)', h.owner, g.owner, h.name = g.name
             PROVE  p = q
  BY DEF OwnersOK
<1>1. KeptBy(p, h) \/ (p = r /\ h.name = sequence + 1)
  OBVIOUS
<1>2. KeptBy(q, g) \/ (q = r /\ g.name = sequence + 1)
  OBVIOUS
<1>3. KeptBy(p, h) => h.name # sequence + 1
  BY KeptNames
<1>4. KeptBy(q, g) => g.name # sequence + 1
  BY KeptNames
<1>5. QED
  BY <1>1, <1>2, <1>3, <1>4 DEF OwnersOK

\* A step that stores nothing and leaves a client without a handle of its own.
LEMMA OwnQuiet ==
    ASSUME GInv, OwnersOK, NEW c \in Clients, NEW k,
           k.pc \notin {"insert", "install"},
           call' = [call EXCEPT ![c] = k], UNCHANGED <<resources, retired>>
    PROVE  OwnersOK'
<1>1. \A x \in Clients : call'[x] = IF x = c THEN k ELSE call[x]
  BY DEF GInv, CallOK
<1>2. \A p \in Providers : \A h : KeptBy(p, h)' => KeptBy(p, h)
  BY <1>1 DEF KeptBy
<1>3. QED
  BY <1>2, OwnersKept

LEMMA OwnFail ==
    ASSUME GInv, OwnersOK, NEW c \in Clients, NEW r, Return(c, r),
           UNCHANGED <<resources, retired>>
    PROVE  OwnersOK'
  BY OwnQuiet DEF Return, Idle

\* A step that gives a client a handle to carry to its second critical section.
LEMMA OwnCarry ==
    ASSUME GInv, OwnersOK, NEW c \in Clients, NEW k,
           call' = [call EXCEPT ![c] = k], UNCHANGED <<resources, retired>>,
           \/ KeptBy(k.provider, k.handle)
           \/ ~k.handle.owner
           \/ k.handle.name = sequence + 1
    PROVE  OwnersOK'
<1>1. \A x \in Clients : call'[x] = IF x = c THEN k ELSE call[x]
  BY DEF GInv, CallOK
<1>2. \A p \in Providers : \A h :
         KeptBy(p, h)' => KeptBy(p, h) \/ (p = k.provider /\ h = k.handle)
  BY <1>1 DEF KeptBy
<1>3. QED
  BY <1>2, OwnersKept

\* A step that stores a handle.
LEMMA OwnStore ==
    ASSUME GInv, OwnersOK, NEW c \in Clients, NEW r, Return(c, r),
           NEW p \in Providers, NEW s, NEW e,
           KeptBy(p, e.handle) \/ e.handle.name = sequence + 1,
           resources' = [resources EXCEPT ![p] = Put(resources[p], s, e)],
           \A q \in Providers : \A i \in DOMAIN retired'[q] :
              KeptBy(q, retired'[q][i].handle)
    PROVE  OwnersOK'
<1>1. \A x \in Clients : call'[x] = IF x = c THEN Idle ELSE call[x]
  BY DEF GInv, CallOK, Return
<1>2. \A q \in Providers :
         resources'[q] = IF q = p THEN Put(resources[p], s, e) ELSE resources[q]
  BY DEF GInv, ResourcesOK
<1>3. \A t \in DOMAIN Put(resources[p], s, e) :
         \/ Put(resources[p], s, e)[t] = e
         \/ /\ t \in DOMAIN resources[p]
            /\ Put(resources[p], s, e)[t] = resources[p][t]
  BY DEF Put
<1>4. ASSUME NEW q \in Providers, NEW h, KeptBy(q, h)'
      PROVE  KeptBy(q, h) \/ (q = p /\ h.name = sequence + 1)
  <2>1. CASE \E t \in DOMAIN resources'[q] : h = resources'[q][t].handle
    <3>1. PICK t \in DOMAIN resources'[q] : h = resources'[q][t].handle
      BY <2>1
    <3>2. CASE q = p /\ resources'[q][t] = e
      BY <3>1, <3>2
    <3>3. CASE t \in DOMAIN resources[q] /\ resources'[q][t] = resources[q][t]
      BY <3>1, <3>3 DEF KeptBy
    <3>4. QED
      BY <1>2, <1>3, <3>1, <3>2, <3>3
  <2>2. CASE \E i \in DOMAIN retired'[q] : h = retired'[q][i].handle
    BY <2>2
  <2>3. CASE \E x \in Clients : /\ call'[x].pc \in {"insert", "install"}
                                /\ call'[x].provider = q
                                /\ h = call'[x].handle
    BY <1>1, <2>3 DEF KeptBy, Idle
  <2>4. QED
    BY <1>4, <2>1, <2>2, <2>3 DEF KeptBy
<1>5. QED
  BY <1>4, OwnersKept
\* A view is carried on only by a snapshot.
LEMMA OwnUseView ==
    ASSUME GInv, OwnersOK, NEW c \in Clients, NEW k, NEW d, NEW h,
           KeptBy(k.provider, h) \/ ~h.owner,
           UseView(c, k, d, h), UNCHANGED <<resources, retired>>
    PROVE  OwnersOK'
<1> DEFINE next == [pc |-> "insert", provider |-> k.provider, req |-> k.req,
                    desc |-> d, handle |-> h]
<1>1. CASE \E r : Return(c, r)
  BY <1>1, OwnFail
<1>2. CASE Proceed(c, next)
  <2>1. next.provider = k.provider /\ next.handle = h
    OBVIOUS
  <2>2. call' = [call EXCEPT ![c] = next]
    BY <1>2 DEF Proceed
  <2> HIDE DEF next
  <2>3. KeptBy(next.provider, next.handle) \/ ~next.handle.owner
    BY <2>1
  <2>4. QED
    BY <2>2, <2>3, OwnCarry
<1>3. (\E r : Return(c, r)) \/ Proceed(c, next)
  BY DEF UseView, Fail
<1>4. QED
  BY <1>1, <1>2, <1>3

LEMMA OwnMappedView ==
    ASSUME GInv, OwnersOK, NEW c \in Clients, NEW k, MappedView(c, k),
           UNCHANGED <<resources, retired>>
    PROVE  OwnersOK'
<1> DEFINE entry == resources[k.provider][k.desc.slot]
<1>1. CASE /\ k.desc.slot \in DOMAIN resources[k.provider]
           /\ UseView(c, k, entry.desc, entry.handle)
  <2>1. KeptBy(k.provider, entry.handle)
    BY <1>1 DEF KeptBy
  <2>2. QED
    BY <1>1, <2>1, OwnUseView
<1>2. CASE Fail(c, k.op, "mismatch", k.req)
  BY <1>2, OwnFail DEF Fail
<1>3. CASE Proceed(c, [k EXCEPT !.pc = "open"])
  <2>1. [k EXCEPT !.pc = "open"].pc \notin {"insert", "install"}
    OBVIOUS
  <2>2. QED
    BY <1>3, <2>1, OwnQuiet DEF Proceed
<1>4. QED
  BY <1>1, <1>2, <1>3 DEF MappedView

LEMMA OwnInstallCommit ==
    ASSUME GInv, OwnersOK, NEW c \in Clients, InstallCommit(c)
    PROVE  OwnersOK'
<1> DEFINE k == call[c]
           p == k.provider
           s == k.req.slot
           e == [desc |-> k.desc, handle |-> k.handle]
           replaced == IF s \in DOMAIN resources[p] THEN <<resources[p][s]>> ELSE << >>
<1>1. p \in Providers /\ KeptBy(p, k.handle)
  BY DEF GInv, CallOK, CallFits, Call, Idle, InstallCommit, KeptBy
<1>2. /\ resources' = [resources EXCEPT ![p] = Put(resources[p], s, e)]
      /\ retired' = [retired EXCEPT ![p] = Retire(retired[p], replaced)]
      /\ Return(c, Answer("commit", "ok", k.req, k.desc, None))
      /\ e.handle = k.handle
  BY DEF InstallCommit
<1>3. retired[p] \in Seq(Entry) /\ replaced \in Seq(Entry)
  BY <1>1 DEF GInv, RetiredOK, ResourcesOK
<1>4. \A i \in 1 .. Len(replaced) : KeptBy(p, replaced[i].handle)
  BY DEF KeptBy
<1>5. \A i \in 1 .. Len(retired[p]) : KeptBy(p, retired[p][i].handle)
  BY <1>3 DEF KeptBy
<1> DEFINE all == retired[p] \o replaced
<1> HIDE DEF replaced, e, s, p
<1>6. all \in Seq(Entry) /\ \A i \in 1 .. Len(all) : KeptBy(p, all[i].handle)
  BY <1>3, <1>4, <1>5
<1>7. retired'[p] = CollectGarbageLocked(all)
  BY <1>1, <1>2 DEF Retire, GInv, RetiredOK
<1> HIDE DEF all
<1>8. /\ CollectGarbageLocked(all) \in Seq(Entry)
      /\ \A i \in 1 .. Len(CollectGarbageLocked(all)) :
            \E j \in 1 .. Len(all) : CollectGarbageLocked(all)[i] = all[j]
  BY <1>6, CollectFact
<1>9. \A i \in DOMAIN retired'[p] : KeptBy(p, retired'[p][i].handle)
  BY <1>6, <1>7, <1>8
<1>10. \A q \in Providers : \A i \in DOMAIN retired'[q] :
          KeptBy(q, retired'[q][i].handle)
  <2>1. ASSUME NEW q \in Providers, q # p
        PROVE  retired'[q] = retired[q]
    BY <1>2, <2>1 DEF GInv, RetiredOK
  <2>2. QED
    BY <1>9, <2>1 DEF KeptBy
<1>11. QED
  BY <1>1, <1>2, <1>10, OwnStore

LEMMA OwnClient ==
    ASSUME GInv, OwnersOK, NEW c \in Clients, ClientStep(c)
    PROVE  OwnersOK'
<1>1. ASSUME NEW p \in Providers, NEW sem, NEW b, Create(c, p, sem, b)
      PROVE  OwnersOK'
  <2> DEFINE e == [desc |-> ResourceRef(nextSlot[p] + 1, sequence + 1, 1, 1, sem),
                   handle |-> [name |-> sequence + 1, owner |-> TRUE]]
  <2>1. /\ resources' = [resources EXCEPT ![p] = Put(resources[p], nextSlot[p] + 1, e)]
        /\ e.handle.name = sequence + 1
        /\ \E r : Return(c, r)
        /\ UNCHANGED retired
    BY <1>1 DEF Create
  <2> HIDE DEF e
  <2>2. \A q \in Providers : \A i \in DOMAIN retired'[q] :
           KeptBy(q, retired'[q][i].handle)
    BY <2>1 DEF KeptBy
  <2>3. QED
    BY <2>1, <2>2, OwnStore
<1>2. ASSUME NEW p \in Providers, CreateHostFails(c, p) \/ CreateExhausted(c, p)
      PROVE  OwnersOK'
  BY <1>2, OwnFail DEF CreateHostFails, CreateExhausted, Fail, store
<1>3. ASSUME NEW p \in Providers, CollectGarbage(c, p)
      PROVE  OwnersOK'
  <2>1. retired' = retired
    BY <1>3, CollectFact DEF CollectGarbage, GInv, RetiredOK
  <2>2. QED
    BY <1>3, <2>1, OwnFail DEF CollectGarbage
<1>4. ASSUME NEW p \in Providers, NEW op, NEW d, NEW l, DescriptorFor(c, p, op, d, l)
      PROVE  OwnersOK'
  <2>1. \/ \E r : Return(c, r)
        \/ \E k : k.pc = "view" /\ Proceed(c, k)
    BY <1>4 DEF DescriptorFor, Fail, Reading
  <2>2. QED
    BY <1>4, <2>1, OwnFail, OwnQuiet DEF DescriptorFor, Proceed, store
<1>5. ASSUME NEW p, NEW op, NEW d, StartView(c, p, op, d)
      PROVE  OwnersOK'
  BY <1>5, OwnMappedView DEF StartView, store
<1>6. ASSUME NEW p, NEW d, NEW i, NEW j, NEW b, PrepareCommit(c, p, d, i, j, b)
      PROVE  OwnersOK'
  <2>1. PICK k : k.handle.name = sequence + 1 /\ Proceed(c, k)
    BY <1>6 DEF PrepareCommit
  <2>2. QED
    BY <1>6, <2>1, OwnCarry DEF PrepareCommit, Proceed, store
<1>7. ASSUME NEW d, OpenView(c, d)
      PROVE  OwnersOK'
  BY <1>7, OwnFail DEF OpenView, Fail, store
<1>8. ASSUME NEW d, NEW i, NEW j, RefuseCommit(c, d, i, j) \/ CommitHostFails(c, d, i, j)
      PROVE  OwnersOK'
  BY <1>8, OwnFail DEF RefuseCommit, CommitHostFails, Fail, store
<1>9. CASE ContinueRead(c)
  BY <1>9, OwnMappedView DEF ContinueRead, store
<1>10. CASE OpenMapping(c)
  <2>1. CASE UseView(c, call[c], call[c].desc, Opened(call[c].desc.name))
    <3>1. ~Opened(call[c].desc.name).owner
      BY DEF Opened
    <3>2. QED
      BY <1>10, <2>1, <3>1, OwnUseView DEF OpenMapping, store
  <2>2. CASE Fail(c, call[c].op, "not_found", call[c].req)
    BY <1>10, <2>2, OwnFail DEF OpenMapping, Fail, store
  <2>3. QED
    BY <1>10, <2>1, <2>2 DEF OpenMapping
<1>11. CASE DropView(c)
  BY <1>11 DEF DropView, store, OwnersOK, KeptBy
<1>12. CASE InsertSnapshot(c)
  <2> DEFINE p == call[c].provider
             e == [desc |-> ResourceRef(nextSlot[p] + 1, call[c].desc.name, 1, 1,
                                        "snapshot"),
                   handle |-> call[c].handle]
  <2>1. p \in Providers /\ KeptBy(p, e.handle)
    BY <1>12 DEF GInv, CallOK, CallFits, Call, Idle, InsertSnapshot, KeptBy
  <2>2. /\ resources' = [resources EXCEPT ![p] = Put(resources[p], nextSlot[p] + 1, e)]
        /\ \E r : Return(c, r)
        /\ UNCHANGED retired
    BY <1>12 DEF InsertSnapshot, WithSnapshot
  <2> HIDE DEF e, p
  <2>3. \A q \in Providers : \A i \in DOMAIN retired'[q] :
           KeptBy(q, retired'[q][i].handle)
    BY <2>2 DEF KeptBy
  <2>4. QED
    BY <2>1, <2>2, <2>3, OwnStore
<1>13. CASE InsertSnapshotExhausted(c) \/ RejectCommit(c)
  BY <1>13, OwnFail DEF InsertSnapshotExhausted, RejectCommit, Fail, store
<1>14. CASE InstallCommit(c)
  BY <1>14, OwnInstallCommit
<1>15. QED
  BY <1>1, <1>2, <1>3, <1>4, <1>5, <1>6, <1>7, <1>8, <1>9, <1>10, <1>11, <1>12,
     <1>13, <1>14 DEF ClientStep

LEMMA OwnNext == GInv /\ OwnersOK /\ [Next]_vars => OwnersOK'
<1> SUFFICES ASSUME GInv, OwnersOK, [Next]_vars PROVE OwnersOK'
  OBVIOUS
<1>1. CASE UNCHANGED vars
  BY <1>1 DEF vars, OwnersOK, KeptBy
<1>2. ASSUME NEW r \in Providers, DropProvider(r)
      PROVE  OwnersOK'
  <2>1. \A p \in Providers :
           /\ resources'[p] = IF p = r THEN [s \in {} |-> None] ELSE resources[p]
           /\ retired'[p] = IF p = r THEN << >> ELSE retired[p]
    BY <1>2 DEF DropProvider, GInv, ResourcesOK, RetiredOK
  <2>2. DOMAIN << >> = {}
    OBVIOUS
  <2>3. \A p \in Providers : \A h : KeptBy(p, h)' => KeptBy(p, h)
    BY <1>2, <2>1, <2>2 DEF DropProvider, KeptBy
  <2>4. QED
    BY <2>3, OwnersKept
<1>3. QED
  BY <1>1, <1>2, OwnClient DEF Next

\* A mapping's name is owned by at most one instance: no snapshot of another
\* instance's resource and no commit on it makes two instances responsible for
\* unlinking one name.
THEOREM NamesHaveOneOwner == Spec => []OneOwner
<1>1. Init => OwnersOK
  BY DEF Init, OwnersOK, KeptBy, Idle
<1>2. OwnersOK => OneOwner
  <2>1. \A p \in Providers : \A h \in StoredHandles(p) : KeptBy(p, h)
    BY DEF StoredHandles, KeptBy
  <2>2. QED
    BY <2>1 DEF OwnersOK, OneOwner
<1>3. QED
  BY <1>1, <1>2, GInvHolds, OwnNext, PTL DEF Spec
-----------------------------------------------------------------------------
\* A client's step concerns no other client's call.
LEMMA OtherCalls ==
    ASSUME GInv, NEW c \in Clients, ClientStep(c), NEW x \in Clients, x # c
    PROVE  call'[x] = call[x]
<1>1. ASSUME NEW k, call' = [call EXCEPT ![c] = k] \/ UNCHANGED call
      PROVE  call'[x] = call[x]
  BY <1>1 DEF GInv, CallOK
<1>2. \A r : Return(c, r) => call'[x] = call[x]
  BY <1>1 DEF Return
<1>3. \A k : Proceed(c, k) => call'[x] = call[x]
  BY <1>1 DEF Proceed
<1>4. \A k, d, h : UseView(c, k, d, h) => call'[x] = call[x]
  BY <1>2, <1>3 DEF UseView, Fail
<1>5. \A k : MappedView(c, k) => call'[x] = call[x]
  BY <1>2, <1>3, <1>4 DEF MappedView, Fail
<1>6. /\ \A p, sem, b : Create(c, p, sem, b) => call'[x] = call[x]
      /\ \A p : CreateHostFails(c, p) => call'[x] = call[x]
      /\ \A p : CreateExhausted(c, p) => call'[x] = call[x]
      /\ \A p : CollectGarbage(c, p) => call'[x] = call[x]
  BY <1>2 DEF Create, CreateHostFails, CreateExhausted, CollectGarbage, Fail
<1>7. /\ \A p, op, d, l : DescriptorFor(c, p, op, d, l) => call'[x] = call[x]
      /\ \A p, op, d : StartView(c, p, op, d) => call'[x] = call[x]
      /\ \A p, d, i, j, b : PrepareCommit(c, p, d, i, j, b) => call'[x] = call[x]
  BY <1>2, <1>3, <1>5 DEF DescriptorFor, StartView, PrepareCommit, Fail
<1>8. /\ \A d : OpenView(c, d) => call'[x] = call[x]
      /\ \A d, i, j : RefuseCommit(c, d, i, j) => call'[x] = call[x]
      /\ \A d, i, j : CommitHostFails(c, d, i, j) => call'[x] = call[x]
  BY <1>2 DEF OpenView, RefuseCommit, CommitHostFails, Fail
<1>9. /\ ContinueRead(c) => call'[x] = call[x]
      /\ OpenMapping(c) => call'[x] = call[x]
      /\ DropView(c) => call'[x] = call[x]
  BY <1>2, <1>4, <1>5 DEF ContinueRead, OpenMapping, DropView, Fail
<1>10. /\ InsertSnapshot(c) => call'[x] = call[x]
       /\ InsertSnapshotExhausted(c) => call'[x] = call[x]
       /\ InstallCommit(c) => call'[x] = call[x]
       /\ RejectCommit(c) => call'[x] = call[x]
  BY <1>2 DEF InsertSnapshot, InsertSnapshotExhausted, InstallCommit, RejectCommit, Fail
<1>11. QED
  BY <1>6, <1>7, <1>8, <1>9, <1>10 DEF ClientStep

\* What ensure_owned_bytes_allowed lets through.
LEMMA AllowedFact ==
    ASSUME NEW b \in Contents, NEW l \in Limits \cup {Absent}, OwnedBytesAllowed(b, l)
    PROVE  Size[b] <= MaxCollectBytes /\ (l \in Nat => Size[b] <= l)
<1>1. Size[b] \in Nat /\ MaxCollectBytes \in Nat
  BY ContentsAssumption, ConfigAssumption
<1>2. RequestedByteLimit(l) \in Nat
  BY LimitsAssumption, ConfigAssumption DEF RequestedByteLimit, OwnedBytesAllowed
<1>3. l \in Nat => RequestedByteLimit(l) = l
  BY LimitsAssumption DEF RequestedByteLimit
<1>4. Size[b] <= RequestedByteLimit(l) /\ RequestedByteLimit(l) <= MaxCollectBytes
  BY DEF OwnedBytesAllowed
<1>5. QED
  BY <1>1, <1>2, <1>3, <1>4

LEMMA BoundedUseView ==
    ASSUME GInv, NEW c \in Clients, NEW k, k.limit \in Limits \cup {Absent}, NEW d,
           NEW h, Created(h.name, maps), UseView(c, k, d, h), call'[c].pc = "idle",
           reply'.op \in {"collect", "export"}, reply'.status = "ok"
    PROVE  /\ Size[reply'.content] <= MaxCollectBytes
           /\ k.limit \in Nat => Size[reply'.content] <= k.limit
<1>1. maps[h.name] \in Contents
  BY DEF GInv, CountersOK, Created
<1>2. OwnedBytesAllowed(maps[h.name], k.limit) /\ reply'.content = maps[h.name]
  <2>1. \A i : call' = [call EXCEPT ![c] = i] => call'[c] = i
    BY DEF GInv, CallOK
  <2>2. \A i : i.pc = "insert" => ~Proceed(c, i)
    BY <2>1 DEF Proceed
  <2>3. QED
    BY <2>2 DEF UseView, Return, Fail, Answer
<1>3. QED
  BY <1>1, <1>2, AllowedFact

LEMMA BoundedStep == GInv /\ [Next]_vars => [RespectsLimits]_vars
<1> SUFFICES ASSUME GInv, Next, NEW c \in Clients, call[c].pc \in {"view", "open"},
                    call'[c].pc = "idle", reply'.op \in {"collect", "export"},
                    reply'.status = "ok"
             PROVE  /\ Size[reply'.content] <= MaxCollectBytes
                    /\ call[c].limit \in Nat => Size[reply'.content] <= call[c].limit
  BY DEF RespectsLimits
<1>1. ClientStep(c)
  <2>1. \A p : ~DropProvider(p)
    BY DEF DropProvider
  <2>2. \A x \in Clients : ClientStep(x) => x = c
    BY OtherCalls
  <2>3. QED
    BY <2>1, <2>2 DEF Next
<1>2. CallFits(call[c], maps) /\ call[c].limit \in Limits \cup {Absent}
      /\ call[c].provider \in Providers
  BY DEF GInv, CallOK, CallFits, Call, Idle
<1>3. CASE ContinueRead(c)
  <2> DEFINE entry == resources[call[c].provider][call[c].desc.slot]
  <2>1. CASE /\ call[c].desc.slot \in DOMAIN resources[call[c].provider]
             /\ UseView(c, call[c], entry.desc, entry.handle)
    <3>1. Created(entry.handle.name, maps)
      BY <1>2, <2>1 DEF GInv, ResourcesOK, Fits
    <3>2. QED
      BY <1>2, <2>1, <3>1, BoundedUseView
  <2>2. CASE Fail(c, call[c].op, "mismatch", call[c].req)
    BY <2>2 DEF Fail, Return, Answer
  <2>3. CASE Proceed(c, [call[c] EXCEPT !.pc = "open"])
    <3>1. call'[c].pc = "open"
      BY <1>2, <2>3 DEF Proceed, GInv, CallOK, CallFits, Call, Idle
    <3>2. QED
      BY <3>1
  <2>4. QED
    BY <1>3, <2>1, <2>2, <2>3 DEF ContinueRead, MappedView
<1>4. CASE OpenMapping(c)
  <2>1. CASE UseView(c, call[c], call[c].desc, Opened(call[c].desc.name))
    <3>1. Created(Opened(call[c].desc.name).name, maps)
      BY <1>2 DEF CallFits, Opened
    <3>2. QED
      BY <1>2, <2>1, <3>1, BoundedUseView
  <2>2. CASE Fail(c, call[c].op, "not_found", call[c].req)
    BY <2>2 DEF Fail, Return, Answer
  <2>3. QED
    BY <1>4, <2>1, <2>2 DEF OpenMapping
<1>5. ~DropView(c)
  BY DEF DropView
<1>6. ~Available(c)
  BY DEF Available
<1>7. /\ \A p, sem, b : ~Create(c, p, sem, b)
      /\ \A p : ~CreateHostFails(c, p) /\ ~CreateExhausted(c, p) /\ ~CollectGarbage(c, p)
      /\ \A p, op, d, l : ~DescriptorFor(c, p, op, d, l)
      /\ \A p, op, d : ~StartView(c, p, op, d)
      /\ \A p, d, i, j, b : ~PrepareCommit(c, p, d, i, j, b)
  BY <1>6 DEF Create, CreateHostFails, CreateExhausted, CollectGarbage,
              DescriptorFor, StartView, PrepareCommit
<1>8. /\ \A d : ~OpenView(c, d)
      /\ \A d, i, j : ~RefuseCommit(c, d, i, j) /\ ~CommitHostFails(c, d, i, j)
  BY <1>6 DEF OpenView, RefuseCommit, CommitHostFails
<1>9. /\ ~InsertSnapshot(c) /\ ~InsertSnapshotExhausted(c)
      /\ ~InstallCommit(c) /\ ~RejectCommit(c)
  BY DEF InsertSnapshot, InsertSnapshotExhausted, InstallCommit, RejectCommit
<1>10. QED
  BY <1>1, <1>3, <1>4, <1>5, <1>7, <1>8, <1>9 DEF ClientStep

\* The bytes a collect or an export returns respect the provider's cap and the
\* plan's own limit, for every instance and every interleaving.
THEOREM OwnedBytesStayBounded == Spec => OwnedBytesBounded
<1>1. GInv /\ [Next]_vars => [RespectsLimits]_vars
  BY BoundedStep
<1>2. QED
  BY <1>1, GInvHolds, PTL DEF Spec, OwnedBytesBounded
-----------------------------------------------------------------------------
(***************************************************************************)
(* One instance that is never dropped.  Its slots are given out once, so    *)
(* the descriptors of a slot are the successive generations of a single     *)
(* resource: nothing published is newer than the current entry, and of two  *)
(* descriptors of a slot one is older.                                      *)
(***************************************************************************)

OneInstance == (\E p : Providers = {p}) /\ MaxDrops = 0

PublishedSound ==
    \A p \in Providers : \A d \in published :
       /\ d.slot \in DOMAIN resources[p]
       /\ d.version <= resources[p][d.slot].desc.version
       /\ d.version = d.generation

CurrentSound ==
    \A p \in Providers :
       /\ \A s \in DOMAIN resources[p] :
             /\ resources[p][s].desc \in published
             /\ resources[p][s].handle.owner
             /\ s <= nextSlot[p]
       /\ \A i \in 1 .. Len(retired[p]) : retired[p][i].handle.owner

CallSound(k, known) ==
    /\ k.pc # "open"
    /\ k.pc \in {"view", "insert", "install"} => k.req \in known
    /\ k.pc \in {"view", "insert"} => k.desc = k.req
    /\ k.pc \in {"insert", "install"} => k.handle.owner
    /\ k.pc = "install" =>
          /\ k.req.semantic = "cow"
          /\ k.desc.version = k.req.version + 1
          /\ k.desc.generation = k.req.generation + 1
          /\ k.desc.semantic = "cow"

CallsSound == \A c \in Clients : CallSound(call[c], published)

SInv ==
    /\ GInv
    /\ PublishedSound
    /\ CurrentSound
    /\ CallsSound
    /\ GenerationUnique
    /\ ReadReturnsRequested
    /\ SnapshotLatestHonest
-----------------------------------------------------------------------------
\* A descriptor that passes ensure_descriptor_current is the current one.
LEMMA CurrentFact ==
    ASSUME SInv, NEW p \in Providers, NEW d \in published
    PROVE  /\ d.slot \in DOMAIN resources[p]
           /\ resources[p][d.slot].desc \in published
           /\ resources[p][d.slot].desc.slot = d.slot
           /\ IsCurrent(d, resources[p][d.slot].desc) =>
                 resources[p][d.slot].desc = d
           /\ ~IsCurrent(d, resources[p][d.slot].desc) =>
                 Newer(resources[p][d.slot].desc, d)
<1> DEFINE cur == resources[p][d.slot].desc
<1>1. d.slot \in DOMAIN resources[p] /\ d.version <= cur.version
  BY DEF SInv, PublishedSound
<1>2. cur \in published /\ cur.slot = d.slot
  BY <1>1 DEF SInv, CurrentSound, GInv, ResourcesOK
<1>3. IsCurrent(d, cur) => cur = d
  BY <1>2 DEF SInv, GenerationUnique, IsCurrent
<1>4. ~IsCurrent(d, cur) => Newer(cur, d)
  <2>1. d.version = d.generation /\ cur.version = cur.generation
    BY <1>2 DEF SInv, PublishedSound
  <2>2. d.version \in Nat /\ cur.version \in Nat
    BY <1>2 DEF SInv, GInv, PublishedOK, Descriptor, Versions
  <2>3. QED
    BY <1>1, <1>2, <2>1, <2>2 DEF IsCurrent, Newer
<1>5. QED
  BY <1>1, <1>2, <1>3, <1>4

\* A step that neither stores nor publishes.
Quiet(r) ==
    r # None => r.status # "ok" \/ r.op \notin {"collect", "export", "snapshot"}

LEMMA QuietFact ==
    ASSUME Quiet(reply')
    PROVE  ReadReturnsRequested' /\ SnapshotLatestHonest'
  BY DEF Quiet, ReadReturnsRequested, SnapshotLatestHonest

LEMMA KeepStep ==
    ASSUME SInv, GInv', NEW c \in Clients, NEW k, CallSound(k, published),
           call' = [call EXCEPT ![c] = k],
           UNCHANGED <<resources, retired, published>>,
           \A p \in Providers : nextSlot'[p] >= nextSlot[p],
           ReadReturnsRequested', SnapshotLatestHonest'
    PROVE  SInv'
<1>1. PublishedSound' /\ GenerationUnique'
  BY DEF SInv, PublishedSound, GenerationUnique
<1>2. CurrentSound'
  <2>1. \A p \in Providers : \A s \in DOMAIN resources[p] :
           s \in Nat /\ nextSlot[p] \in Nat /\ nextSlot'[p] \in Nat
    BY ConfigAssumption DEF SInv, GInv, ResourcesOK, CountersOK, Slots
  <2>2. QED
    BY <2>1 DEF SInv, CurrentSound
<1>3. CallsSound'
  <2>1. \A x \in Clients : call'[x] = IF x = c THEN k ELSE call[x]
    BY DEF SInv, GInv, CallOK
  <2>2. QED
    BY <2>1 DEF SInv, CallsSound
<1>4. QED
  BY <1>1, <1>2, <1>3 DEF SInv

LEMMA IdleSound == \A known : CallSound(Idle, known)
  BY DEF CallSound, Idle

LEMMA QuietStep ==
    ASSUME SInv, GInv', NEW c \in Clients, NEW r, Return(c, r), Quiet(r),
           UNCHANGED <<resources, retired, published>>,
           \A p \in Providers : nextSlot'[p] >= nextSlot[p]
    PROVE  SInv'
  BY KeepStep, QuietFact, IdleSound DEF Return

LEMMA AdvanceStep ==
    ASSUME SInv, GInv', NEW c \in Clients, NEW k, Proceed(c, k),
           CallSound(k, published), UNCHANGED <<resources, retired, published>>,
           \A p \in Providers : nextSlot'[p] >= nextSlot[p]
    PROVE  SInv'
<1>1. Quiet(reply')
  BY DEF Proceed, Quiet
<1>2. QED
  BY <1>1, KeepStep, QuietFact DEF Proceed

LEMMA SlotKept ==
    ASSUME SInv, UNCHANGED nextSlot
    PROVE  \A p \in Providers : nextSlot'[p] >= nextSlot[p]
  BY ConfigAssumption DEF SInv, GInv, CountersOK

LEMMA SUseView ==
    ASSUME SInv, GInv', NEW c \in Clients, NEW k, k.req \in published,
           k.req = k.desc, NEW h, h.name = k.desc.name, h.owner,
           UseView(c, k, k.desc, h), UNCHANGED <<os, store, published>>
    PROVE  SInv'
<1>1. /\ UNCHANGED <<resources, retired, published>>
      /\ \A p \in Providers : nextSlot'[p] >= nextSlot[p]
  BY SlotKept DEF store
<1>2. CASE Return(c, Answer(k.op, "ok", k.req, k.desc, maps[h.name]))
           /\ k.op \in {"collect", "export"}
  <2>1. ReadReturnsRequested' /\ SnapshotLatestHonest'
    BY <1>2 DEF Return, Answer, ReadReturnsRequested, SnapshotLatestHonest, os
  <2>2. QED
    BY <1>1, <1>2, <2>1, KeepStep, IdleSound DEF Return
<1>3. CASE Fail(c, k.op, "unsupported", k.req)
  <2>1. Quiet(Answer(k.op, "unsupported", k.req, None, None))
    BY DEF Quiet, Answer
  <2>2. QED
    BY <1>1, <1>3, <2>1, QuietStep DEF Fail
<1>4. CASE k.op = "view" /\ Return(c, Answer(k.op, "ok", k.req, k.desc, None))
  <2>1. Quiet(Answer("view", "ok", k.req, k.desc, None))
    BY DEF Quiet, Answer
  <2>2. QED
    BY <1>1, <1>4, <2>1, QuietStep
<1>5. CASE Proceed(c, [pc |-> "insert", provider |-> k.provider, req |-> k.req,
                       desc |-> k.desc, handle |-> h])
  <2>1. CallSound([pc |-> "insert", provider |-> k.provider, req |-> k.req,
                   desc |-> k.desc, handle |-> h], published)
    BY DEF CallSound
  <2>2. QED
    BY <1>1, <1>5, <2>1, AdvanceStep
<1>6. QED
  BY <1>2, <1>3, <1>4, <1>5 DEF UseView

LEMMA SMappedView ==
    ASSUME SInv, GInv', NEW c \in Clients, NEW k, k.provider \in Providers,
           k.req \in published, k.desc = k.req, MappedView(c, k),
           UNCHANGED <<os, store, published>>
    PROVE  SInv'
<1> DEFINE entry == resources[k.provider][k.desc.slot]
<1>1. k.desc.slot \in DOMAIN resources[k.provider]
  BY CurrentFact
<1>2. CASE IsCurrent(k.desc, entry.desc) /\ UseView(c, k, entry.desc, entry.handle)
  <2>1. entry.desc = k.desc /\ entry.handle.owner
    BY <1>1, <1>2, CurrentFact DEF SInv, CurrentSound
  <2>2. entry.handle.name = k.desc.name
    BY <1>1, <2>1 DEF SInv, GInv, ResourcesOK, Fits
  <2>3. QED
    BY <1>2, <2>1, <2>2, SUseView
<1>3. CASE Fail(c, k.op, "mismatch", k.req)
  <2>1. Quiet(Answer(k.op, "mismatch", k.req, None, None))
    BY DEF Quiet, Answer
  <2>2. QED
    BY <1>3, <2>1, QuietStep, SlotKept DEF Fail, store
<1>4. QED
  BY <1>1, <1>2, <1>3 DEF MappedView

LEMMA SDescriptorFor ==
    ASSUME SInv, GInv', NEW c \in Clients, NEW p \in Providers, NEW op \in Ops,
           NEW d \in published, NEW limit, DescriptorFor(c, p, op, d, limit)
    PROVE  SInv'
<1>1. d.slot \in DOMAIN resources[p]
  BY CurrentFact
<1>2. CASE /\ IsCurrent(d, resources[p][d.slot].desc)
           /\ Proceed(c, [Reading(p, op, d, limit) EXCEPT
                             !.desc = resources[p][d.slot].desc])
  <2>1. resources[p][d.slot].desc = d
    BY <1>2, CurrentFact
  <2>2. CallSound([Reading(p, op, d, limit) EXCEPT
                     !.desc = resources[p][d.slot].desc], published)
    BY <2>1 DEF CallSound, Reading
  <2>3. QED
    BY <1>2, <2>2, AdvanceStep, SlotKept DEF DescriptorFor, store
<1>3. CASE Fail(c, op, "mismatch", d)
  <2>1. Quiet(Answer(op, "mismatch", d, None, None))
    BY DEF Quiet, Answer
  <2>2. QED
    BY <1>3, <2>1, QuietStep, SlotKept DEF Fail, DescriptorFor, store
<1>4. QED
  BY <1>1, <1>2, <1>3 DEF DescriptorFor
-----------------------------------------------------------------------------
\* The steps that publish.

\* Versions of descriptors and slots of entries are numbers.
LEMMA NumberFact ==
    ASSUME GInv
    PROVE  /\ \A d \in published :
                 d.version \in Nat /\ d.generation \in Nat /\ d.slot \in Nat
           /\ \A p \in Providers : nextSlot[p] \in Nat
           /\ \A p \in Providers : \A s \in DOMAIN resources[p] : s \in Nat
  BY ConfigAssumption
     DEF GInv, PublishedOK, CountersOK, ResourcesOK, Descriptor, Versions, Slots

LEMMA NewSlotFact ==
    ASSUME SInv, OneInstance, NEW p \in Providers, NEW e,
           e.desc.slot = nextSlot[p] + 1, e.desc.version = 1,
           e.desc.generation = 1, e.handle.owner,
           nextSlot' = [nextSlot EXCEPT ![p] = nextSlot[p] + 1],
           resources' = [resources EXCEPT ![p] = Put(resources[p], nextSlot[p] + 1, e)],
           published' = published \cup {e.desc}, UNCHANGED retired
    PROVE  PublishedSound' /\ CurrentSound' /\ GenerationUnique'
<1> DEFINE s == nextSlot[p] + 1
<1>1. \A q \in Providers : q = p
  BY DEF OneInstance
<1>2. /\ nextSlot'[p] = s
      /\ DOMAIN resources'[p] = DOMAIN resources[p] \cup {s}
      /\ resources'[p][s] = e
      /\ \A t \in DOMAIN resources[p] : t # s => resources'[p][t] = resources[p][t]
  BY DEF SInv, GInv, ResourcesOK, CountersOK, Put
<1>3. s \notin DOMAIN resources[p] /\ \A t \in DOMAIN resources[p] : t <= s
  BY NumberFact DEF SInv, CurrentSound
<1>4. \A d \in published : d.slot \in DOMAIN resources[p] /\ d.slot # s
  BY <1>3 DEF SInv, PublishedSound
<1>5. PublishedSound'
  BY <1>1, <1>2, <1>4 DEF SInv, PublishedSound
<1>6. CurrentSound'
  BY <1>1, <1>2, <1>3, NumberFact DEF SInv, CurrentSound
<1>7. GenerationUnique'
  BY <1>4 DEF SInv, GenerationUnique
<1>8. QED
  BY <1>5, <1>6, <1>7

\* What the other calls know stays published.
LEMMA CallsKept ==
    ASSUME SInv, NEW c \in Clients, NEW d, published' = published \cup {d},
           NEW r, Return(c, r)
    PROVE  CallsSound'
<1>1. \A x \in Clients : call'[x] = IF x = c THEN Idle ELSE call[x]
  BY DEF SInv, GInv, CallOK, Return
<1>2. \A k : CallSound(k, published) => CallSound(k, published')
  BY DEF CallSound
<1>3. QED
  BY <1>1, <1>2, IdleSound DEF SInv, CallsSound

LEMMA SCreate ==
    ASSUME SInv, GInv', OneInstance, NEW c \in Clients, NEW p \in Providers,
           NEW sem, NEW b, Create(c, p, sem, b)
    PROVE  SInv'
<1> DEFINE n == sequence + 1
           s == nextSlot[p] + 1
           d == ResourceRef(s, n, 1, 1, sem)
           e == [desc |-> d, handle |-> [name |-> n, owner |-> TRUE]]
<1>1. /\ e.desc.slot = s /\ e.desc.version = 1 /\ e.desc.generation = 1
      /\ e.handle.owner /\ e.desc = d
  BY DEF ResourceRef
<1>2. /\ nextSlot' = [nextSlot EXCEPT ![p] = s]
      /\ resources' = [resources EXCEPT ![p] = Put(resources[p], s, e)]
      /\ published' = published \cup {d}
      /\ UNCHANGED retired
      /\ Return(c, Answer("create", "ok", None, d, None))
  BY DEF Create
<1>3. ReadReturnsRequested' /\ SnapshotLatestHonest'
  BY <1>2, QuietFact DEF Quiet, Return, Answer
<1> HIDE DEF e, d
<1>4. PublishedSound' /\ CurrentSound' /\ GenerationUnique'
  BY <1>1, <1>2, NewSlotFact
<1>5. CallsSound'
  BY <1>2, CallsKept
<1>6. QED
  BY <1>3, <1>4, <1>5 DEF SInv

LEMMA SInsertSnapshot ==
    ASSUME SInv, GInv', OneInstance, NEW c \in Clients, InsertSnapshot(c)
    PROVE  SInv'
<1> DEFINE k == call[c]
           p == k.provider
           s == nextSlot[p] + 1
           d == ResourceRef(s, k.desc.name, 1, 1, "snapshot")
           e == [desc |-> d, handle |-> k.handle]
           latest == IsLatest(resources[p], k.desc)
           r == [Answer("snapshot", "ok", k.req, d, None) EXCEPT !.latest = latest]
<1>1. /\ p \in Providers /\ k.req \in published /\ k.desc = k.req
      /\ k.handle.owner
  BY DEF SInv, CallsSound, CallSound, GInv, CallOK, CallFits, Call, Idle,
         InsertSnapshot
<1>2. /\ e.desc.slot = s /\ e.desc.version = 1 /\ e.desc.generation = 1
      /\ e.handle.owner /\ e.desc = d
  BY <1>1 DEF ResourceRef
<1>3. /\ nextSlot' = [nextSlot EXCEPT ![p] = s]
      /\ resources' = [resources EXCEPT ![p] = Put(resources[p], s, e)]
      /\ published' = published \cup {d}
      /\ UNCHANGED retired
      /\ Return(c, r)
  BY DEF InsertSnapshot, WithSnapshot
<1>4. /\ reply'.op = "snapshot" /\ reply'.req = k.req /\ reply'.latest = latest
  BY <1>3 DEF Return, Answer
<1>5. latest <=> ~\E x \in published : Newer(x, k.req)
  <2> DEFINE cur == resources[p][k.req.slot].desc
  <2>1. /\ k.req.slot \in DOMAIN resources[p] /\ cur \in published
        /\ cur # k.req => Newer(cur, k.req)
        /\ \A x \in published : x.slot = k.req.slot => x.version <= cur.version
    BY <1>1, CurrentFact DEF SInv, PublishedSound
  <2>2. latest <=> cur = k.req
    BY <1>1, <2>1 DEF IsLatest
  <2>3. cur = k.req => ~\E x \in published : Newer(x, k.req)
    BY <1>1, <2>1, NumberFact DEF Newer, SInv
  <2>4. QED
    BY <2>1, <2>2, <2>3
<1>6. ~Newer(d, k.req)
  <2>1. k.req.slot \in DOMAIN resources[p] /\ k.req.slot <= nextSlot[p]
    BY <1>1 DEF SInv, PublishedSound, CurrentSound
  <2>2. QED
    BY <1>1, <1>2, <2>1, NumberFact DEF Newer, SInv
<1> HIDE DEF e, d, latest, r
<1>7. SnapshotLatestHonest'
  <2>1. SnapshotLatestHonest' <=>
          (reply' # None /\ reply'.op = "snapshot" /\ reply'.status = "ok" =>
             (reply'.latest <=> ~\E x \in published' : Newer(x, reply'.req)))
    BY DEF SnapshotLatestHonest, Newer
  <2>2. (\E x \in published' : Newer(x, k.req)) <=>
           \E x \in published : Newer(x, k.req)
    BY <1>3, <1>6
  <2>3. QED
    BY <1>4, <1>5, <2>1, <2>2
<1>8. ReadReturnsRequested'
  BY <1>4 DEF ReadReturnsRequested
<1>9. PublishedSound' /\ CurrentSound' /\ GenerationUnique'
  BY <1>1, <1>2, <1>3, NewSlotFact
<1>10. CallsSound'
  BY <1>3, CallsKept
<1>11. QED
  BY <1>7, <1>8, <1>9, <1>10 DEF SInv

LEMMA SPrepareCommit ==
    ASSUME SInv, GInv', NEW c \in Clients, NEW p, NEW d \in published,
           NEW i, NEW j, NEW b, PrepareCommit(c, p, d, i, j, b)
    PROVE  SInv'
<1> DEFINE k == [pc |-> "install", provider |-> p, req |-> d,
                 desc |-> ResourceRef(d.slot, sequence + 1, d.version + 1,
                                      d.generation + 1, "cow"),
                 handle |-> [name |-> sequence + 1, owner |-> TRUE]]
<1>1. CallSound(k, published)
  BY DEF CallSound, ResourceRef, PrepareCommit, PlanAgrees
<1>2. Proceed(c, k)
  BY DEF PrepareCommit
<1> HIDE DEF k
<1>3. QED
  BY <1>1, <1>2, AdvanceStep, SlotKept DEF PrepareCommit, store

LEMMA SInstallCommit ==
    ASSUME SInv, GInv', OneInstance, NEW c \in Clients, InstallCommit(c)
    PROVE  SInv'
<1> DEFINE k == call[c]
           p == k.provider
           s == k.req.slot
           old == resources[p][s]
           e == [desc |-> k.desc, handle |-> k.handle]
           all == retired[p] \o <<old>>
<1>1. /\ p \in Providers /\ k.req \in published /\ k.handle.owner
      /\ k.desc.version = k.req.version + 1
      /\ k.desc.generation = k.req.generation + 1
      /\ k.desc.slot = s
  BY DEF SInv, CallsSound, CallSound, GInv, CallOK, CallFits, Call, Idle,
         InstallCommit
<1>2. s \in DOMAIN resources[p] /\ old.desc = k.req
  BY <1>1, CurrentFact DEF InstallCommit, StillCurrent
<1>3. \A q \in Providers : q = p
  BY <1>1 DEF OneInstance
<1>4. /\ DOMAIN resources'[p] = DOMAIN resources[p]
      /\ resources'[p][s] = e
      /\ \A t \in DOMAIN resources[p] : t # s => resources'[p][t] = resources[p][t]
  <2>1. resources' = [resources EXCEPT ![p] = Put(resources[p], s, e)]
    BY DEF InstallCommit
  <2>2. p \in DOMAIN resources
    BY <1>1 DEF SInv, GInv, ResourcesOK
  <2>3. resources'[p] = Put(resources[p], s, e)
    BY <2>1, <2>2
  <2> HIDE DEF e, s, p
  <2>4. QED
    BY <1>2, <2>3 DEF Put
<1>5. published' = published \cup {k.desc} /\ UNCHANGED nextSlot
  BY DEF InstallCommit
<1>6. \A d \in published :
         /\ d.slot \in DOMAIN resources[p]
         /\ d.version = d.generation
         /\ d.version <= resources[p][d.slot].desc.version
         /\ d.slot = s => d.version < k.desc.version
  BY <1>1, <1>2, NumberFact DEF SInv, PublishedSound
<1>7. PublishedSound'
  <2>1. ASSUME NEW d \in published'
        PROVE  /\ d.slot \in DOMAIN resources'[p]
               /\ d.version <= resources'[p][d.slot].desc.version
               /\ d.version = d.generation
    <3>1. CASE d = k.desc
      <4>1. resources'[p][d.slot].desc = d
        BY <1>1, <1>4, <3>1
      <4>2. d.version \in Nat /\ k.req.version = k.req.generation
        BY <1>1, <1>6, <3>1, NumberFact DEF SInv
      <4>3. QED
        BY <1>1, <1>2, <1>4, <3>1, <4>1, <4>2
    <3>2. CASE d \in published /\ d.slot = s
      BY <1>1, <1>4, <1>6, <3>2, NumberFact DEF SInv
    <3>3. CASE d \in published /\ d.slot # s
      BY <1>4, <1>6, <3>3
    <3>4. QED
      BY <1>5, <3>1, <3>2, <3>3
  <2>2. QED
    BY <1>3, <2>1 DEF PublishedSound
<1>8. GenerationUnique'
  BY <1>1, <1>5, <1>6, NumberFact DEF SInv, GenerationUnique
<1>9. \A i \in 1 .. Len(retired'[p]) : retired'[p][i].handle.owner
  <2>1. retired[p] \in Seq(Entry) /\ old \in Entry /\ old.handle.owner
    BY <1>1, <1>2 DEF SInv, GInv, RetiredOK, ResourcesOK, Fits, CurrentSound
  <2>2. \A i \in 1 .. Len(retired[p]) : retired[p][i].handle.owner
    BY <1>1 DEF SInv, CurrentSound
  <2>3. retired'[p] = CollectGarbageLocked(all)
    BY <1>1, <1>2 DEF InstallCommit, Retire, SInv, GInv, RetiredOK
  <2> HIDE DEF old, p
  <2>4. all \in Seq(Entry) /\ \A i \in 1 .. Len(all) : all[i].handle.owner
    BY <2>1, <2>2
  <2> HIDE DEF all
  <2>5. \A i \in 1 .. Len(CollectGarbageLocked(all)) :
           \E j \in 1 .. Len(all) : CollectGarbageLocked(all)[i] = all[j]
    BY <2>4, CollectFact
  <2>6. QED
    BY <2>3, <2>4, <2>5
<1>10. CurrentSound'
  <2>1. ASSUME NEW t \in DOMAIN resources'[p]
        PROVE  /\ resources'[p][t].desc \in published'
               /\ resources'[p][t].handle.owner
               /\ t <= nextSlot'[p]
    <3>1. t \in DOMAIN resources[p] /\ t <= nextSlot[p]
      BY <1>1, <1>4 DEF SInv, CurrentSound
    <3>2. CASE t = s
      BY <1>1, <1>4, <1>5, <3>1, <3>2
    <3>3. CASE t # s
      BY <1>1, <1>4, <1>5, <3>1, <3>3 DEF SInv, CurrentSound
    <3>4. QED
      BY <3>2, <3>3
  <2>2. QED
    BY <1>3, <1>9, <2>1 DEF CurrentSound
<1>11. Return(c, Answer("commit", "ok", k.req, k.desc, None))
  BY DEF InstallCommit
<1>12. CallsSound'
  BY <1>5, <1>11, CallsKept
<1>13. ReadReturnsRequested' /\ SnapshotLatestHonest'
  BY <1>11, QuietFact DEF Quiet, Return, Answer
<1>14. QED
  BY <1>7, <1>8, <1>10, <1>12, <1>13 DEF SInv
-----------------------------------------------------------------------------
\* The other steps end a call without a word, or end none.

LEMMA SFail ==
    ASSUME SInv, GInv', NEW c \in Clients, NEW op, NEW status, NEW req,
           status # "ok", Fail(c, op, status, req),
           UNCHANGED <<resources, retired, published>>,
           \A p \in Providers : nextSlot'[p] >= nextSlot[p]
    PROVE  SInv'
<1>1. Quiet(Answer(op, status, req, None, None))
  BY DEF Quiet, Answer
<1>2. QED
  BY <1>1, QuietStep DEF Fail

LEMMA SClient ==
    ASSUME SInv, GInv', OneInstance, NEW c \in Clients, ClientStep(c)
    PROVE  SInv'
<1>1. ASSUME NEW p \in Providers, NEW sem, NEW b, Create(c, p, sem, b)
      PROVE  SInv'
  BY <1>1, SCreate
<1>2. ASSUME NEW p \in Providers, CreateHostFails(c, p)
      PROVE  SInv'
  <2>1. \A q \in Providers : nextSlot'[q] >= nextSlot[q]
    <3>1. \A q \in Providers :
             nextSlot'[q] = IF q = p THEN nextSlot[q] + 1 ELSE nextSlot[q]
      BY <1>2 DEF CreateHostFails, SInv, GInv, CountersOK
    <3>2. QED
      BY <3>1, NumberFact DEF SInv
  <2>2. QED
    BY <1>2, <2>1, SFail DEF CreateHostFails
<1>3. ASSUME NEW p \in Providers, CreateExhausted(c, p)
      PROVE  SInv'
  BY <1>3, SFail, SlotKept DEF CreateExhausted, store
<1>4. ASSUME NEW p \in Providers, CollectGarbage(c, p)
      PROVE  SInv'
  <2>1. retired' = retired
    BY <1>4, CollectFact DEF CollectGarbage, SInv, GInv, RetiredOK
  <2>2. \E r : Return(c, r) /\ r.op = "gc"
    BY <1>4 DEF CollectGarbage, Answer
  <2>3. QED
    BY <1>4, <2>1, <2>2, QuietStep, SlotKept DEF CollectGarbage, Quiet
<1>5. ASSUME NEW p \in Providers, NEW d \in published,
             NEW op \in {"collect", "export"}, NEW l \in Limits,
             DescriptorFor(c, p, op, d, l)
      PROVE  SInv'
  BY <1>5, SDescriptorFor DEF Ops
<1>6. ASSUME NEW p \in Providers, NEW d \in published, NEW op,
             StartView(c, p, op, d)
      PROVE  SInv'
  BY <1>6, SMappedView DEF StartView, Reading
<1>7. ASSUME NEW p \in Providers, NEW d \in published, NEW i, NEW j, NEW b,
             PrepareCommit(c, p, d, i, j, b)
      PROVE  SInv'
  BY <1>7, SPrepareCommit
<1>8. ASSUME NEW d \in published, OpenView(c, d)
      PROVE  SInv'
  <2>1. CASE Return(c, Answer("view", "ok", d, d, None))
    <3>1. Quiet(Answer("view", "ok", d, d, None))
      BY DEF Quiet, Answer
    <3>2. QED
      BY <1>8, <2>1, <3>1, QuietStep, SlotKept DEF OpenView, store
  <2>2. CASE Fail(c, "view", "not_found", d)
    BY <1>8, <2>2, SFail, SlotKept DEF OpenView, store
  <2>3. QED
    BY <1>8, <2>1, <2>2 DEF OpenView
<1>9. ASSUME NEW d \in published, NEW i, NEW j,
             RefuseCommit(c, d, i, j) \/ CommitHostFails(c, d, i, j)
      PROVE  SInv'
  BY <1>9, SFail, SlotKept DEF RefuseCommit, CommitHostFails, store
<1>10. CASE ContinueRead(c)
  <2>1. /\ call[c].provider \in Providers /\ call[c].req \in published
        /\ call[c].desc = call[c].req
    BY <1>10 DEF ContinueRead, SInv, CallsSound, CallSound, GInv, CallOK, CallFits,
                 Call, Idle
  <2>2. QED
    BY <1>10, <2>1, SMappedView DEF ContinueRead
<1>11. CASE OpenMapping(c)
  BY <1>11 DEF OpenMapping, SInv, CallsSound, CallSound
<1>12. CASE DropView(c)
  <2>1. PublishedSound' /\ CurrentSound' /\ CallsSound' /\ GenerationUnique'
    BY <1>12 DEF DropView, store, SInv, PublishedSound, CurrentSound, CallsSound,
                 GenerationUnique
  <2>2. Quiet(reply')
    BY <1>12 DEF DropView, Quiet
  <2>3. QED
    BY <2>1, <2>2, QuietFact DEF SInv
<1>13. CASE InsertSnapshot(c)
  BY <1>13, SInsertSnapshot
<1>14. CASE InsertSnapshotExhausted(c) \/ RejectCommit(c)
  BY <1>14, SFail, SlotKept DEF InsertSnapshotExhausted, RejectCommit, store
<1>15. CASE InstallCommit(c)
  BY <1>15, SInstallCommit
<1>16. QED
  BY <1>1, <1>2, <1>3, <1>4, <1>5, <1>6, <1>7, <1>8, <1>9, <1>10, <1>11,
     <1>12, <1>13, <1>14, <1>15 DEF ClientStep

LEMMA SInvInit == Init => SInv
<1> SUFFICES ASSUME Init PROVE SInv
  OBVIOUS
<1>1. PublishedSound /\ GenerationUnique /\ ReadReturnsRequested
      /\ SnapshotLatestHonest
  BY DEF Init, PublishedSound, GenerationUnique, ReadReturnsRequested,
         SnapshotLatestHonest
<1>2. CurrentSound
  BY DEF Init, CurrentSound
<1>3. CallsSound
  BY IdleSound DEF Init, CallsSound
<1>4. QED
  BY <1>1, <1>2, <1>3, GInvInit DEF SInv

LEMMA SInvNext == OneInstance /\ SInv /\ [Next]_vars => SInv'
<1> SUFFICES ASSUME OneInstance, SInv, [Next]_vars PROVE SInv'
  OBVIOUS
<1>1. GInv'
  BY GInvNext DEF SInv
<1>2. CASE UNCHANGED vars
  BY <1>1, <1>2 DEF vars, SInv, PublishedSound, CurrentSound, CallsSound,
                    GenerationUnique, ReadReturnsRequested, SnapshotLatestHonest,
                    Newer
<1>3. ASSUME NEW c \in Clients, ClientStep(c)
      PROVE  SInv'
  BY <1>1, <1>3, SClient
<1>4. ASSUME NEW p \in Providers, DropProvider(p)
      PROVE  FALSE
  BY <1>4 DEF DropProvider, OneInstance, SInv, GInv, CountersOK
<1>5. QED
  BY <1>2, <1>3, <1>4 DEF Next
-----------------------------------------------------------------------------
(***************************************************************************)
(* Theorems about one instance.                                             *)
(***************************************************************************)

LEMMA SInvHolds == OneInstance => (Spec => []SInv)
<1> SUFFICES ASSUME OneInstance PROVE Spec => []SInv
  OBVIOUS
<1>1. Init => SInv
  BY SInvInit
<1>2. SInv /\ [Next]_vars => SInv'
  BY SInvNext
<1>3. QED
  BY <1>1, <1>2, PTL DEF Spec

\* No lost update: two descriptors of one slot and version are the same, however
\* many threads commit on one base.
THEOREM NoLostUpdate == OneInstance => (Spec => []GenerationUnique)
<1>1. SInv => GenerationUnique
  BY DEF SInv
<1>2. QED
  BY <1>1, SInvHolds, PTL

\* A collect or an export that succeeds returns the bytes its plan names.
THEOREM ReadsAreConsistent == OneInstance => (Spec => []ReadReturnsRequested)
<1>1. SInv => ReadReturnsRequested
  BY DEF SInv
<1>2. QED
  BY <1>1, SInvHolds, PTL

\* is_latest is true of a snapshot exactly when its source had no newer
\* generation when the snapshot was entered.
THEOREM SnapshotsAreHonest == OneInstance => (Spec => []SnapshotLatestHonest)
<1>1. SInv => SnapshotLatestHonest
  BY DEF SInv
<1>2. QED
  BY <1>1, SInvHolds, PTL

\* Current and retained generations can be opened by name.
THEOREM CurrentAlwaysOpenable == OneInstance => (Spec => []CurrentOpenable)
<1>1. SInv => CurrentOpenable
  <2> SUFFICES ASSUME SInv, NEW p \in Providers
               PROVE  /\ \A s \in DOMAIN resources[p] :
                            resources[p][s].desc.name \in Linked
                      /\ \A i \in DOMAIN retired[p] :
                            retired[p][i].desc.name \in Linked
    BY DEF CurrentOpenable
  <2>1. \A h \in StoredHandles(p) : h.owner => h.name \in Linked
    BY DEF Linked, Handles
  <2>2. ASSUME NEW s \in DOMAIN resources[p]
        PROVE  resources[p][s].desc.name \in Linked
    <3>1. /\ resources[p][s].handle.owner
          /\ resources[p][s].desc.name = resources[p][s].handle.name
      BY DEF SInv, CurrentSound, GInv, ResourcesOK, Fits
    <3>2. resources[p][s].handle \in StoredHandles(p)
      BY DEF StoredHandles
    <3>3. QED
      BY <2>1, <3>1, <3>2
  <2>3. ASSUME NEW i \in DOMAIN retired[p]
        PROVE  retired[p][i].desc.name \in Linked
    <3>1. i \in 1 .. Len(retired[p])
      BY DEF SInv, GInv, RetiredOK
    <3>2. /\ retired[p][i].handle.owner
          /\ retired[p][i].desc.name = retired[p][i].handle.name
      BY <3>1 DEF SInv, CurrentSound, GInv, RetiredOK, Fits
    <3>3. retired[p][i].handle \in StoredHandles(p)
      BY DEF StoredHandles
    <3>4. QED
      BY <2>1, <3>2, <3>3
  <2>4. QED
    BY <2>2, <2>3
<1>2. QED
  BY <1>1, SInvHolds, PTL

LEMMA RejectionStep == OneInstance /\ SInv /\ [Next]_vars => [RejectsOnlyStale]_vars
<1> SUFFICES ASSUME SInv, NEW c \in Clients, ClientStep(c), reply' # None,
                    reply'.status = "mismatch",
                    reply'.op = "commit" =>
                       \E x \in Clients : call[x].pc = "install" /\ call'[x].pc = "idle"
             PROVE  \E d \in published : Newer(d, reply'.req)
  <2>1. ASSUME NEW p \in Providers, DropProvider(p) PROVE reply' = None
    BY <2>1 DEF DropProvider
  <2>2. QED
    BY <2>1 DEF Next, RejectsOnlyStale
<1>1. \A p \in Providers, d \in published :
         ~IsCurrent(d, resources[p][d.slot].desc) => \E x \in published : Newer(x, d)
  BY CurrentFact
<1>2. \A k, d, h : ~UseView(c, k, d, h)
  BY DEF UseView, Fail, Return, Proceed, Answer
<1>3. ASSUME NEW k, k.provider \in Providers, k.req \in published, k.desc = k.req,
             MappedView(c, k)
      PROVE  \E d \in published : Newer(d, reply'.req)
  <2>1. k.desc.slot \in DOMAIN resources[k.provider]
    BY <1>3, CurrentFact
  <2>2. /\ ~IsCurrent(k.desc, resources[k.provider][k.desc.slot].desc)
        /\ reply'.req = k.req
    BY <1>2, <1>3, <2>1 DEF MappedView, Fail, Return, Answer
  <2>3. QED
    BY <1>1, <1>3, <2>2
<1>4. ASSUME NEW p \in Providers, NEW d \in published, NEW op, NEW l,
             DescriptorFor(c, p, op, d, l)
      PROVE  \E x \in published : Newer(x, reply'.req)
  <2>1. ~IsCurrent(d, resources[p][d.slot].desc) /\ reply'.req = d
    BY <1>4, CurrentFact DEF DescriptorFor, Proceed, Fail, Return, Answer
  <2>2. QED
    BY <1>1, <2>1
<1>5. ASSUME NEW p \in Providers, NEW d \in published, NEW op,
             StartView(c, p, op, d)
      PROVE  \E x \in published : Newer(x, reply'.req)
  BY <1>3, <1>5 DEF StartView, Reading
<1>6. CASE ContinueRead(c)
  <2>1. /\ call[c].provider \in Providers /\ call[c].req \in published
        /\ call[c].desc = call[c].req
    BY <1>6 DEF ContinueRead, SInv, CallsSound, CallSound, GInv, CallOK, CallFits,
                Call, Idle
  <2>2. QED
    BY <1>3, <1>6, <2>1 DEF ContinueRead
<1>7. CASE RejectCommit(c)
  <2>1. call[c].provider \in Providers /\ call[c].req \in published
    BY <1>7 DEF RejectCommit, SInv, CallsSound, CallSound, GInv, CallOK, CallFits,
                Call, Idle
  <2>2. reply'.req = call[c].req
    BY <1>7 DEF RejectCommit, Fail, Return, Answer
  <2>3. QED
    BY <1>1, <1>7, <2>1, <2>2 DEF RejectCommit, StillCurrent
<1>8. \A d, i, j : ~RefuseCommit(c, d, i, j)
  <2> SUFFICES ASSUME NEW d, NEW i, NEW j, RefuseCommit(c, d, i, j) PROVE FALSE
    OBVIOUS
  <2>1. reply'.op = "commit"
    BY DEF RefuseCommit, Fail, Return, Answer
  <2>2. PICK x \in Clients : call[x].pc = "install" /\ call'[x].pc = "idle"
    BY <2>1
  <2>3. x # c /\ call'[x] = call[x]
    BY <2>2 DEF RefuseCommit, Available, Fail, Return, SInv, GInv, CallOK
  <2>4. QED
    BY <2>2, <2>3
<1>9. /\ \A p, sem, b : ~Create(c, p, sem, b)
      /\ \A p : ~CreateHostFails(c, p) /\ ~CreateExhausted(c, p)
      /\ \A d, i, j : ~CommitHostFails(c, d, i, j)
      /\ \A d : ~OpenView(c, d)
      /\ ~InsertSnapshotExhausted(c)
      /\ ~InstallCommit(c)
  BY DEF Create, CreateHostFails, CreateExhausted, CommitHostFails, OpenView,
         InsertSnapshotExhausted, InstallCommit, Fail, Return, Answer
<1>10. /\ \A p : ~CollectGarbage(c, p)
       /\ ~InsertSnapshot(c)
  BY DEF CollectGarbage, InsertSnapshot, Return, Answer
<1>11. /\ \A p, d, i, j, b : ~PrepareCommit(c, p, d, i, j, b)
       /\ ~DropView(c)
  BY DEF PrepareCommit, DropView, Proceed
<1>12. ~OpenMapping(c)
  BY DEF OpenMapping, SInv, CallsSound, CallSound
<1>13. QED
  BY <1>4, <1>5, <1>6, <1>7, <1>8, <1>9, <1>10, <1>11, <1>12 DEF ClientStep

\* A plan is rejected as stale only when it is: of the commits racing on one
\* base, one wins.
THEOREM RejectionsAreJustified == OneInstance => (Spec => NoSpuriousRejection)
<1> SUFFICES ASSUME OneInstance PROVE Spec => NoSpuriousRejection
  OBVIOUS
<1>1. SInv /\ [Next]_vars => [RejectsOnlyStale]_vars
  BY RejectionStep
<1>2. Spec => []SInv
  BY SInvHolds
<1>3. QED
  BY <1>1, <1>2, PTL DEF Spec, NoSpuriousRejection

\* Every step of a client that stores or publishes.
LEMMA StoringSteps ==
    ASSUME GInv, NEW c \in Clients, ClientStep(c)
    PROVE  \/ UNCHANGED <<resources, retired, published>>
           \/ \E p \in Providers, sem \in {"frozen", "cow"}, b \in Contents :
                 Create(c, p, sem, b)
           \/ InsertSnapshot(c)
           \/ InstallCommit(c)
<1> DEFINE Same == UNCHANGED <<resources, retired, published>>
<1>1. \A p : CreateHostFails(c, p) \/ CreateExhausted(c, p) => Same
  BY DEF CreateHostFails, CreateExhausted, store
<1>2. \A p \in Providers : CollectGarbage(c, p) => Same
  BY CollectFact DEF CollectGarbage, GInv, RetiredOK
<1>3. /\ \A p, op, d, l : DescriptorFor(c, p, op, d, l) => Same
      /\ \A p, op, d : StartView(c, p, op, d) => Same
      /\ \A d : OpenView(c, d) => Same
      /\ ContinueRead(c) \/ OpenMapping(c) \/ DropView(c) => Same
  BY DEF DescriptorFor, StartView, OpenView, ContinueRead, OpenMapping, DropView,
         store
<1>4. /\ \A p, d, i, j, b : PrepareCommit(c, p, d, i, j, b) => Same
      /\ \A d, i, j : RefuseCommit(c, d, i, j) \/ CommitHostFails(c, d, i, j) => Same
      /\ InsertSnapshotExhausted(c) \/ RejectCommit(c) => Same
  BY DEF PrepareCommit, RefuseCommit, CommitHostFails, InsertSnapshotExhausted,
         RejectCommit, store
<1> HIDE DEF Same
<1>5. Same \/ (\E p \in Providers, sem \in {"frozen", "cow"}, b \in Contents :
                  Create(c, p, sem, b)) \/ InsertSnapshot(c) \/ InstallCommit(c)
  BY <1>1, <1>2, <1>3, <1>4 DEF ClientStep
<1>6. QED
  BY <1>5 DEF Same
LEMMA SealedStep == OneInstance /\ SInv /\ [Next]_vars => [KeepsSealed]_vars
<1> SUFFICES ASSUME OneInstance, SInv, Next PROVE KeepsSealed
  OBVIOUS
<1>1. CASE UNCHANGED resources
  BY <1>1 DEF KeepsSealed
<1>2. ASSUME NEW p \in Providers, NEW t, NEW e,
             resources' = [resources EXCEPT ![p] = Put(resources[p], t, e)],
             t \in DOMAIN resources[p] => resources[p][t].desc.semantic = "cow"
      PROVE  KeepsSealed
  BY <1>2 DEF KeepsSealed, Put, SInv, GInv, ResourcesOK
<1>3. ASSUME NEW p \in Providers
      PROVE  nextSlot[p] + 1 \notin DOMAIN resources[p]
  BY NumberFact DEF SInv, CurrentSound
<1>4. ASSUME NEW c \in Clients, NEW p \in Providers, NEW sem, NEW b,
             Create(c, p, sem, b)
      PROVE  KeepsSealed
  <2>1. \E e : resources' = [resources EXCEPT
                                ![p] = Put(resources[p], nextSlot[p] + 1, e)]
    BY <1>4 DEF Create
  <2>2. QED
    BY <1>2, <1>3, <2>1
<1>5. ASSUME NEW c \in Clients, InsertSnapshot(c)
      PROVE  KeepsSealed
  <2>1. PICK p \in Providers : p = call[c].provider
    BY <1>5 DEF InsertSnapshot, SInv, GInv, CallOK, CallFits, Call, Idle
  <2>2. \E e : resources' = [resources EXCEPT
                                ![p] = Put(resources[p], nextSlot[p] + 1, e)]
    BY <1>5, <2>1 DEF InsertSnapshot, WithSnapshot
  <2>3. QED
    BY <1>2, <1>3, <2>2
<1>6. ASSUME NEW c \in Clients, InstallCommit(c)
      PROVE  KeepsSealed
  <2>1. PICK p \in Providers : p = call[c].provider
    BY <1>6 DEF InstallCommit, SInv, GInv, CallOK, CallFits, Call, Idle
  <2>2. PICK t : t = call[c].req.slot
    OBVIOUS
  <2>3. \E e : resources' = [resources EXCEPT ![p] = Put(resources[p], t, e)]
    BY <1>6, <2>1, <2>2 DEF InstallCommit
  <2>4. call[c].req \in published /\ call[c].req.semantic = "cow"
    BY <1>6 DEF InstallCommit, SInv, CallsSound, CallSound
  <2>5. resources[p][t].desc = call[c].req
    BY <1>6, <2>1, <2>2, <2>4, CurrentFact DEF InstallCommit, StillCurrent
  <2>6. QED
    BY <1>2, <2>3, <2>4, <2>5
<1>7. ASSUME NEW p \in Providers, DropProvider(p)
      PROVE  FALSE
  BY <1>7 DEF DropProvider, OneInstance, SInv, GInv, CountersOK
<1>8. ASSUME NEW c \in Clients, ClientStep(c)
      PROVE  \/ UNCHANGED resources
             \/ \E p \in Providers, sem \in {"frozen", "cow"}, b \in Contents :
                   Create(c, p, sem, b)
             \/ InsertSnapshot(c)
             \/ InstallCommit(c)
  BY <1>8, StoringSteps DEF SInv
<1>9. QED
  BY <1>1, <1>4, <1>5, <1>6, <1>7, <1>8 DEF Next

\* No commit replaces a blob or a snapshot.
THEOREM SealedStaysSealed == OneInstance => (Spec => SealedNeverReplaced)
<1> SUFFICES ASSUME OneInstance PROVE Spec => SealedNeverReplaced
  OBVIOUS
<1>1. SInv /\ [Next]_vars => [KeepsSealed]_vars
  BY SealedStep
<1>2. Spec => []SInv
  BY SInvHolds
<1>3. QED
  BY <1>1, <1>2, PTL DEF Spec, SealedNeverReplaced
-----------------------------------------------------------------------------
(***************************************************************************)
(* The retired queue of one instance.  The entries of a slot that follow an *)
(* entry in the queue, and the current one, are the generations after it.   *)
(***************************************************************************)

\* The places of slot s in queue q from place i on.
From(q, s, i) == {j \in DOMAIN q : q[j].desc.slot = s /\ j >= i}

\* The descriptors a commit has replaced.
Replaced(p) == {d \in published : d.version < resources[p][d.slot].desc.version}

Queued(q, local) ==
    \A i \in DOMAIN q :
       /\ q[i].desc.slot \in DOMAIN local
       /\ q[i].desc.version + Cardinality(From(q, q[i].desc.slot, i))
             = local[q[i].desc.slot].desc.version

Filled(n, len) ==
    /\ n >= RetainedGenerations => len = RetainedGenerations
    /\ n <= RetainedGenerations => len = n

QueueInv ==
    /\ IsFiniteSet(published)
    /\ \A p \in Providers :
          /\ Queued(retired[p], resources[p])
          /\ Filled(Cardinality(Replaced(p)), Len(retired[p]))

LEMMA FromFinite ==
    ASSUME NEW q \in Seq(Entry), NEW s, NEW i
    PROVE  /\ IsFiniteSet(From(q, s, i))
           /\ Cardinality(From(q, s, i)) \in Nat
<1>1. IsFiniteSet(1 .. Len(q))
  BY FS_Interval
<1>2. From(q, s, i) \in SUBSET (1 .. Len(q))
  BY DEF From
<1>3. IsFiniteSet(From(q, s, i))
  BY <1>1, <1>2, FS_Subset
<1>4. QED
  BY <1>3, FS_CardinalityType

\* Another entry at the end of the queue counts for its own slot.
LEMMA FromAppend ==
    ASSUME NEW q \in Seq(Entry), NEW e \in Entry, NEW s, NEW i \in 1 .. Len(q) + 1
    PROVE  Cardinality(From(q \o <<e>>, s, i)) =
              IF e.desc.slot = s THEN Cardinality(From(q, s, i)) + 1
              ELSE Cardinality(From(q, s, i))
<1> DEFINE m == Len(q) + 1
<1>1. /\ q \o <<e>> \in Seq(Entry) /\ Len(q \o <<e>>) = m
      /\ (q \o <<e>>)[m] = e
      /\ \A j \in 1 .. Len(q) : (q \o <<e>>)[j] = q[j]
  OBVIOUS
<1>2. /\ DOMAIN (q \o <<e>>) = 1 .. m /\ DOMAIN q = 1 .. Len(q)
      /\ 1 .. m = (1 .. Len(q)) \cup {m} /\ m \notin 1 .. Len(q) /\ i <= m
  BY <1>1
<1> DEFINE longer == q \o <<e>>
<1>3. From(longer, s, i) = IF e.desc.slot = s THEN From(q, s, i) \cup {m}
                           ELSE From(q, s, i)
  <2> HIDE DEF longer, m
  <2>1. longer[m] = e /\ \A j \in 1 .. Len(q) : longer[j] = q[j]
    BY <1>1 DEF longer
  <2>2. DOMAIN longer = (1 .. Len(q)) \cup {m} /\ m >= i
    BY <1>2 DEF longer, m
  <2>3. QED
    BY <1>2, <2>1, <2>2 DEF From
<1>4. m \notin From(q, s, i)
  BY <1>2 DEF From
<1>5. IsFiniteSet(From(q, s, i))
  BY FromFinite
<1> HIDE DEF m, longer
<1>6. Cardinality(From(longer, s, i)) =
         IF e.desc.slot = s THEN Cardinality(From(q, s, i)) + 1
         ELSE Cardinality(From(q, s, i))
  BY <1>3, <1>4, <1>5, FS_AddElement
<1>7. QED
  BY <1>6 DEF longer

\* What follows an entry is not changed by what is dropped before it.
LEMMA FromSuffix ==
    ASSUME NEW q \in Seq(Entry), NEW k \in 0 .. Len(q), NEW s,
           NEW i \in 1 .. Len(q) - k
    PROVE  /\ SubSeq(q, k + 1, Len(q))[i] = q[i + k]
           /\ Cardinality(From(SubSeq(q, k + 1, Len(q)), s, i)) =
                 Cardinality(From(q, s, i + k))
<1> DEFINE r == SubSeq(q, k + 1, Len(q))
           S == From(r, s, i)
           T == From(q, s, i + k)
           f == [j \in S |-> j + k]
<1>1. /\ Len(q) \in Nat /\ k \in Nat
      /\ r \in Seq(Entry) /\ Len(r) = Len(q) - k
      /\ \A j \in 1 .. Len(q) - k : r[j] = q[j + k]
  OBVIOUS
<1>2. DOMAIN r = 1 .. Len(q) - k /\ DOMAIN q = 1 .. Len(q)
  BY <1>1
<1> HIDE DEF r
<1>3. S \subseteq 1 .. Len(q) - k /\ T \subseteq 1 .. Len(q)
  BY <1>2 DEF From
<1>4. \A j \in S : j + k \in T
  BY <1>1, <1>2 DEF From
<1>5. \A j \in T : j - k \in S
  <2> SUFFICES ASSUME NEW j \in T PROVE j - k \in S
    OBVIOUS
  <2>1. j \in 1 .. Len(q) /\ j >= i + k /\ q[j].desc.slot = s
    BY <1>2 DEF From
  <2>2. j - k \in 1 .. Len(q) - k /\ j - k >= i /\ (j - k) + k = j
    BY <1>1, <2>1
  <2>3. r[j - k] = q[j]
    BY <1>1, <2>2
  <2>4. QED
    BY <1>2, <2>1, <2>2, <2>3 DEF From
<1>6. f \in Bijection(S, T)
  <2>1. f \in [S -> T]
    BY <1>4
  <2>2. \A a, b \in S : f[a] = f[b] => a = b
    BY <1>1, <1>3
  <2>3. \A t \in T : \E j \in S : f[j] = t
    <3> TAKE t \in T
    <3>1. t - k \in S /\ (t - k) + k = t
      BY <1>1, <1>3, <1>5
    <3>2. QED
      BY <3>1
  <2> HIDE DEF f, S, T
  <2>4. QED
    BY <2>1, <2>2, <2>3 DEF Bijection, Injection, Surjection, IsInjective
<1>7. IsFiniteSet(S)
  BY <1>1, FromFinite
<1>8. ExistsBijection(S, T)
  BY <1>6 DEF ExistsBijection
<1> HIDE DEF S, T
<1>9. Cardinality(T) = Cardinality(S)
  BY <1>7, <1>8, FS_Bijection
<1>10. QED
  BY <1>1, <1>9 DEF S, T, r
\* Replacing the current generation of slot s by its successor: the queue
\* receives what is replaced and drops what is too old.
LEMMA QueueReplaces ==
    ASSUME NEW q \in Seq(Entry), NEW local, NEW s \in DOMAIN local,
           NEW e, local[s] \in Entry, local[s].desc.slot = s,
           e.desc.version = local[s].desc.version + 1,
           Queued(q, local)
    PROVE  Queued(CollectGarbageLocked(q \o <<local[s]>>), Put(local, s, e))
<1> DEFINE old == local[s]
           all == q \o <<old>>
           next == Put(local, s, e)
           kept == CollectGarbageLocked(all)
<1>1. /\ next[s] = e
      /\ \A t \in DOMAIN local : t # s => next[t] = local[t]
      /\ DOMAIN next = DOMAIN local
  BY DEF Put
<1>2. /\ all \in Seq(Entry) /\ Len(all) = Len(q) + 1 /\ all[Len(q) + 1] = old
      /\ \A i \in 1 .. Len(q) : all[i] = q[i]
  OBVIOUS
<1>3. \A x \in Entry : x.desc.version \in Nat
  BY DEF Entry, Descriptor, Versions
<1>4. \A i \in 1 .. Len(q) + 1 : \A t :
         Cardinality(From(all, t, i)) =
            IF old.desc.slot = t THEN Cardinality(From(q, t, i)) + 1
            ELSE Cardinality(From(q, t, i))
  BY FromAppend
<1> HIDE DEF all, next, old
<1>5. ASSUME NEW i \in 1 .. Len(all)
      PROVE  /\ all[i].desc.slot \in DOMAIN next
             /\ all[i].desc.version + Cardinality(From(all, all[i].desc.slot, i))
                   = next[all[i].desc.slot].desc.version
  <2>1. CASE i \in 1 .. Len(q)
    <3> DEFINE t == q[i].desc.slot
    <3>1. /\ t \in DOMAIN local
          /\ q[i].desc.version + Cardinality(From(q, t, i)) = local[t].desc.version
      BY <2>1 DEF Queued
    <3>2. /\ all[i] = q[i] /\ q[i].desc.version \in Nat
          /\ Cardinality(From(q, t, i)) \in Nat
      BY <1>2, <1>3, <2>1, FromFinite
    <3>3. Cardinality(From(all, t, i)) =
             IF t = s THEN Cardinality(From(q, t, i)) + 1
             ELSE Cardinality(From(q, t, i))
      BY <1>2, <1>4 DEF old
    <3>4. all[i].desc.slot = t
      BY <3>2
    <3>5. next[s].desc.version = local[s].desc.version + 1
      BY <1>1
    <3> HIDE DEF t
    <3>6. q[i].desc.version + Cardinality(From(all, t, i)) = next[t].desc.version
      <4>1. CASE t = s
        <5>1. q[i].desc.version + Cardinality(From(q, t, i)) = local[s].desc.version
          BY <3>1, <4>1
        <5>2. Cardinality(From(all, t, i)) = Cardinality(From(q, t, i)) + 1
          BY <3>3, <4>1
        <5>3. next[t].desc.version = local[s].desc.version + 1
          BY <3>5, <4>1
        <5>4. PICK v \in Nat, n \in Nat :
                 v = q[i].desc.version /\ n = Cardinality(From(q, t, i))
          BY <3>2
        <5>5. local[s].desc.version = v + n
          BY <5>1, <5>4
        <5>6. next[t].desc.version = (v + n) + 1
          BY <5>3, <5>5
        <5>7. (v + n) + 1 = v + (n + 1)
          OBVIOUS
        <5>8. QED
          BY <5>2, <5>4, <5>6, <5>7
      <4>2. CASE t # s
        BY <1>1, <3>1, <3>3, <4>2
      <4>3. QED
        BY <4>1, <4>2
    <3>7. QED
      BY <1>1, <3>1, <3>2, <3>4, <3>6
  <2>2. CASE i = Len(q) + 1
    <3>1. From(q, s, i) = {}
      BY <2>2 DEF From
    <3>2. Cardinality(From(all, s, i)) = 1
      <4>1. i \in 1 .. Len(q) + 1 /\ old.desc.slot = s
        BY <1>2, <2>2 DEF old
      <4>2. Cardinality(From(all, s, i)) = Cardinality(From(q, s, i)) + 1
        BY <1>4, <4>1
      <4>3. QED
        BY <3>1, <4>2, FS_EmptySet
    <3>3. all[i] = old /\ old.desc.slot = s /\ old.desc.version + 1 = e.desc.version
      BY <1>2, <2>2 DEF old
    <3>4. QED
      BY <1>1, <3>2, <3>3
  <2>3. QED
    BY <1>2, <2>1, <2>2
<1>6. \E k \in 0 .. Len(all) : kept = SubSeq(all, k + 1, Len(all))
  <2>1. CASE Len(all) > RetainedGenerations
    <3> DEFINE k == Len(all) - RetainedGenerations
    <3>1. k \in 0 .. Len(all)
      BY <1>2, <2>1, ConfigAssumption
    <3>2. kept = SubSeq(all, k + 1, Len(all))
      BY <2>1 DEF CollectGarbageLocked
    <3>3. QED
      BY <3>1, <3>2
  <2>2. CASE ~(Len(all) > RetainedGenerations)
    <3>1. kept = all /\ all = SubSeq(all, 0 + 1, Len(all))
      BY <1>2, <2>2 DEF CollectGarbageLocked
    <3>2. 0 \in 0 .. Len(all)
      BY <1>2
    <3>3. QED
      BY <3>1, <3>2
  <2>3. QED
    BY <2>1, <2>2
<1>7. PICK k \in 0 .. Len(all) : kept = SubSeq(all, k + 1, Len(all))
  BY <1>6
<1>8. DOMAIN kept = 1 .. Len(all) - k
  BY <1>2, <1>7
<1> HIDE DEF kept
<1>9. ASSUME NEW i \in DOMAIN kept
      PROVE  /\ kept[i].desc.slot \in DOMAIN next
             /\ kept[i].desc.version + Cardinality(From(kept, kept[i].desc.slot, i))
                   = next[kept[i].desc.slot].desc.version
  <2>1. i \in 1 .. Len(all) - k /\ i + k \in 1 .. Len(all)
    BY <1>2, <1>8
  <2>2. /\ kept[i] = all[i + k]
        /\ \A t : Cardinality(From(kept, t, i)) = Cardinality(From(all, t, i + k))
    BY <1>2, <1>7, <2>1, FromSuffix
  <2>3. QED
    BY <1>5, <2>1, <2>2
<1>10. QED
  BY <1>9 DEF Queued, kept, all, next, old

\* The length of the queue after one more generation was replaced.
LEMMA FilledFact ==
    ASSUME NEW q \in Seq(Entry), NEW e \in Entry, NEW n \in Nat, Filled(n, Len(q))
    PROVE  Filled(n + 1, Len(CollectGarbageLocked(q \o <<e>>)))
<1> DEFINE all == q \o <<e>>
<1>1. /\ all \in Seq(Entry) /\ Len(all) = Len(q) + 1
      /\ RetainedGenerations \in Nat /\ Len(q) \in Nat
  BY ConfigAssumption
<1> HIDE DEF all
<1>2. CASE Len(all) > RetainedGenerations
  <2>1. Len(CollectGarbageLocked(all)) = RetainedGenerations
    BY <1>1, <1>2 DEF CollectGarbageLocked
  <2>2. QED
    BY <1>1, <1>2, <2>1 DEF Filled, all
<1>3. CASE ~(Len(all) > RetainedGenerations)
  <2>1. CollectGarbageLocked(all) = all
    BY <1>3 DEF CollectGarbageLocked
  <2>2. QED
    BY <1>1, <1>3, <2>1 DEF Filled, all
<1>4. QED
  BY <1>2, <1>3

LEMMA QueueInstall ==
    ASSUME SInv, QueueInv, OneInstance, NEW c \in Clients, InstallCommit(c)
    PROVE  QueueInv'
<1>0. PICK k, p, s : k = call[c] /\ p = k.provider /\ s = k.req.slot
  OBVIOUS
<1> DEFINE old == resources[p][s]
           e == [desc |-> k.desc, handle |-> k.handle]
<1>1. /\ p \in Providers /\ k.req \in published
      /\ k.desc.version = k.req.version + 1
      /\ k.desc.slot = s /\ k.req.slot = s
  BY <1>0 DEF SInv, CallsSound, CallSound, GInv, CallOK, CallFits, Call, Idle,
         InstallCommit
<1>2. s \in DOMAIN resources[p] /\ old.desc = k.req
  BY <1>0, <1>1, CurrentFact DEF InstallCommit, StillCurrent
<1>3. \A q \in Providers : q = p
  BY <1>1 DEF OneInstance
<1>4. /\ resources' = [resources EXCEPT ![p] = Put(resources[p], s, e)]
      /\ retired' = [retired EXCEPT ![p] = Retire(retired[p], <<old>>)]
      /\ published' = published \cup {k.desc}
      /\ e.desc = k.desc
  BY <1>0, <1>2 DEF InstallCommit
<1>5. /\ resources'[p] = Put(resources[p], s, e)
      /\ retired'[p] = CollectGarbageLocked(retired[p] \o <<old>>)
      /\ retired[p] \in Seq(Entry) /\ old \in Entry /\ old.desc.slot = s
  BY <1>1, <1>2, <1>4 DEF SInv, GInv, ResourcesOK, RetiredOK, Retire
<1>6. /\ DOMAIN resources'[p] = DOMAIN resources[p]
      /\ resources'[p][s].desc = k.desc
      /\ \A t \in DOMAIN resources[p] : t # s => resources'[p][t] = resources[p][t]
  BY <1>2, <1>4, <1>5 DEF Put
<1>7. \A d \in published :
         /\ d.slot \in DOMAIN resources[p] /\ d.version \in Nat
         /\ d.slot = s => d.version <= k.req.version
         /\ d.slot = s /\ d.version = k.req.version => d = k.req
  BY <1>1, <1>2, NumberFact DEF SInv, PublishedSound, GenerationUnique
<1>8. k.req.version \in Nat
  BY <1>1, NumberFact DEF SInv
<1>9. Replaced(p)' = {d \in published' : d.version < resources'[p][d.slot].desc.version}
  BY DEF Replaced
<1>10. Queued(retired[p], resources[p]) /\ Filled(Cardinality(Replaced(p)), Len(retired[p]))
      /\ IsFiniteSet(published)
  BY <1>1 DEF QueueInv
<1> HIDE DEF e
<1>11. ASSUME NEW d \in published'
       PROVE  d.version < resources'[p][d.slot].desc.version
                 <=> d \in Replaced(p) \cup {k.req}
  <2>1. CASE d \in published /\ d.slot # s
    BY <1>1, <1>6, <1>7, <2>1 DEF Replaced
  <2>2. CASE d \in published /\ d.slot = s
    <3>1. d.version < resources'[p][d.slot].desc.version
      BY <1>1, <1>6, <1>7, <1>8, <2>2
    <3>2. d.version < k.req.version \/ d = k.req
      BY <1>7, <1>8, <2>2
    <3>3. d.version < k.req.version => d \in Replaced(p)
      BY <1>2, <2>2 DEF Replaced, old
    <3>4. QED
      BY <3>1, <3>2, <3>3
  <2>3. CASE d = k.desc /\ d \notin published
    <3>1. ~(d.version < resources'[p][d.slot].desc.version)
      BY <1>1, <1>6, <1>8, <2>3
    <3>2. d \notin Replaced(p) \cup {k.req}
      BY <1>1, <2>3 DEF Replaced
    <3>3. QED
      BY <3>1, <3>2
  <2>4. QED
    BY <1>4, <2>1, <2>2, <2>3
<1>12. Replaced(p)' = Replaced(p) \cup {k.req}
  <2>1. Replaced(p) \subseteq published' /\ k.req \in published'
    BY <1>1, <1>4 DEF Replaced
  <2>2. QED
    BY <1>9, <1>11, <2>1
<1>13. k.req \notin Replaced(p)
  BY <1>1, <1>2, <1>8 DEF Replaced
<1>14. IsFiniteSet(Replaced(p)) /\ Cardinality(Replaced(p)) \in Nat
  <2>1. IsFiniteSet(published)
    BY <1>10
  <2>2. Replaced(p) \in SUBSET published
    BY DEF Replaced
  <2>3. QED
    BY <2>1, <2>2, FS_Subset, FS_CardinalityType
<1>15. Cardinality(Replaced(p)') = Cardinality(Replaced(p)) + 1
  BY <1>12, <1>13, <1>14, FS_AddElement
<1>16. Queued(retired'[p], resources'[p])
  BY <1>1, <1>2, <1>4, <1>5, <1>10, QueueReplaces
<1>17. Filled(Cardinality(Replaced(p)'), Len(retired'[p]))
  BY <1>5, <1>14, <1>15, <1>10, FilledFact
<1>18. IsFiniteSet(published')
  BY <1>4, <1>10, FS_AddElement
<1>19. ASSUME NEW q \in Providers
       PROVE  /\ Queued(retired'[q], resources'[q])
              /\ Filled(Cardinality(Replaced(q)'), Len(retired'[q]))
  BY <1>3, <1>16, <1>17
<1>20. QED
  BY <1>18, <1>19 DEF QueueInv, Queued, From, Filled

\* A new slot changes neither the queue nor what was replaced.
LEMMA QueueNewSlot ==
    ASSUME SInv, QueueInv, OneInstance, NEW p \in Providers, NEW e,
           e.desc.slot = nextSlot[p] + 1, e.desc.version = 1,
           resources' = [resources EXCEPT ![p] = Put(resources[p], nextSlot[p] + 1, e)],
           published' = published \cup {e.desc}, UNCHANGED retired
    PROVE  QueueInv'
<1> DEFINE s == nextSlot[p] + 1
<1>1. \A q \in Providers : q = p
  BY DEF OneInstance
<1>2. s \notin DOMAIN resources[p]
  BY NumberFact DEF SInv, CurrentSound
<1>3. resources'[p] = Put(resources[p], s, e)
  BY DEF SInv, GInv, ResourcesOK
<1>4. /\ resources'[p][s] = e /\ DOMAIN resources[p] \subseteq DOMAIN resources'[p]
      /\ \A t \in DOMAIN resources[p] : resources'[p][t] = resources[p][t]
  BY <1>2, <1>3 DEF Put
<1>5. \A d \in published : d.slot \in DOMAIN resources[p]
  BY DEF SInv, PublishedSound
<1>6. Replaced(p)' = {d \in published' : d.version < resources'[p][d.slot].desc.version}
  BY DEF Replaced
<1>7. Replaced(p)' = Replaced(p)
  <2>1. \A d \in published : resources'[p][d.slot] = resources[p][d.slot]
    BY <1>4, <1>5
  <2>2. ~(e.desc.version < resources'[p][e.desc.slot].desc.version)
    BY <1>4
  <2>3. QED
    BY <1>6, <2>1, <2>2 DEF Replaced
<1>8. Queued(retired[p], resources[p]) /\ Filled(Cardinality(Replaced(p)), Len(retired[p]))
  BY DEF QueueInv
<1>9. Queued(retired'[p], resources'[p])
  BY <1>4, <1>8 DEF Queued
<1>10. IsFiniteSet(published')
  BY FS_AddElement DEF QueueInv
<1>11. ASSUME NEW q \in Providers
       PROVE  /\ Queued(retired'[q], resources'[q])
              /\ Filled(Cardinality(Replaced(q)'), Len(retired'[q]))
  BY <1>1, <1>7, <1>8, <1>9
<1>12. QED
  BY <1>10, <1>11 DEF QueueInv, Queued, From, Filled

LEMMA QueueNext == OneInstance /\ SInv /\ QueueInv /\ [Next]_vars => QueueInv'
<1> SUFFICES ASSUME OneInstance, SInv, QueueInv, [Next]_vars PROVE QueueInv'
  OBVIOUS
<1>1. CASE UNCHANGED <<resources, retired, published>>
  BY <1>1 DEF QueueInv, Queued, From, Filled, Replaced
<1>2. ASSUME NEW c \in Clients, NEW p \in Providers, NEW sem, NEW b,
             Create(c, p, sem, b)
      PROVE  QueueInv'
  <2> DEFINE e == [desc |-> ResourceRef(nextSlot[p] + 1, sequence + 1, 1, 1, sem),
                   handle |-> [name |-> sequence + 1, owner |-> TRUE]]
  <2>1. /\ resources' = [resources EXCEPT ![p] = Put(resources[p], nextSlot[p] + 1, e)]
        /\ published' = published \cup {e.desc}
        /\ UNCHANGED retired
        /\ e.desc.slot = nextSlot[p] + 1 /\ e.desc.version = 1
    BY <1>2 DEF Create, ResourceRef
  <2> HIDE DEF e
  <2>2. QED
    BY <2>1, QueueNewSlot
<1>3. ASSUME NEW c \in Clients, InsertSnapshot(c)
      PROVE  QueueInv'
  <2> DEFINE p == call[c].provider
             e == [desc |-> ResourceRef(nextSlot[p] + 1, call[c].desc.name, 1, 1,
                                        "snapshot"),
                   handle |-> call[c].handle]
  <2>1. p \in Providers
    BY <1>3 DEF SInv, GInv, CallOK, CallFits, Call, Idle, InsertSnapshot
  <2>2. /\ resources' = [resources EXCEPT ![p] = Put(resources[p], nextSlot[p] + 1, e)]
        /\ published' = published \cup {e.desc}
        /\ UNCHANGED retired
        /\ e.desc.slot = nextSlot[p] + 1 /\ e.desc.version = 1
    BY <1>3 DEF InsertSnapshot, WithSnapshot, ResourceRef
  <2> HIDE DEF e, p
  <2>3. QED
    BY <2>1, <2>2, QueueNewSlot
<1>4. ASSUME NEW p \in Providers, DropProvider(p)
      PROVE  FALSE
  BY <1>4 DEF DropProvider, OneInstance, SInv, GInv, CountersOK
<1>5. CASE UNCHANGED vars
  BY <1>1, <1>5 DEF vars
<1>6. ASSUME NEW c \in Clients, ClientStep(c)
      PROVE  QueueInv'
  BY <1>1, <1>2, <1>3, <1>6, QueueInstall, StoringSteps DEF SInv
<1>7. QED
  BY <1>4, <1>5, <1>6 DEF Next

LEMMA QueueInit == OneInstance /\ Init => QueueInv
<1> SUFFICES ASSUME Init PROVE QueueInv
  OBVIOUS
<1>1. \A p \in Providers : Replaced(p) = {}
  BY DEF Init, Replaced
<1>2. \A p \in Providers : retired[p] = << >> /\ DOMAIN retired[p] = {} /\ Len(retired[p]) = 0
  BY DEF Init
<1>3. IsFiniteSet(published)
  BY FS_EmptySet DEF Init
<1>4. \A p \in Providers : Queued(retired[p], resources[p])
  BY <1>2 DEF Queued
<1>5. \A p \in Providers : Filled(Cardinality(Replaced(p)), Len(retired[p]))
  <2>1. Filled(0, 0)
    BY ConfigAssumption DEF Filled
  <2>2. \A p \in Providers : Cardinality(Replaced(p)) = 0 /\ Len(retired[p]) = 0
    BY <1>1, <1>2, FS_EmptySet
  <2>3. QED
    BY <2>1, <2>2
<1>6. QED
  BY <1>3, <1>4, <1>5 DEF QueueInv

\* The retired queue of an instance holds the generations replaced last: of a
\* slot an unbroken run that ends just below the current version, oldest first,
\* and it is full once enough generations were replaced.
THEOREM NewestAreRetired == OneInstance => (Spec => []RetiredAreNewest)
<1> SUFFICES ASSUME OneInstance PROVE Spec => []RetiredAreNewest
  OBVIOUS
<1>1. SInv /\ QueueInv => RetiredAreNewest
  <2> SUFFICES ASSUME SInv, QueueInv, NEW p \in Providers
               PROVE  LET q == retired[p]
                          Of(s) == {i \in DOMAIN q : q[i].desc.slot = s}
                          replaced == {d \in published :
                                 d.version < resources[p][d.slot].desc.version} IN
                      /\ \A s \in DOMAIN resources[p], i \in DOMAIN q :
                            i \in Of(s) =>
                               q[i].desc.version = resources[p][s].desc.version
                                     - Cardinality({j \in Of(s) : j >= i})
                      /\ Cardinality(replaced) >= RetainedGenerations =>
                            Len(q) = RetainedGenerations
                      /\ Cardinality(replaced) <= RetainedGenerations =>
                            Len(q) = Cardinality(replaced)
    BY DEF RetiredAreNewest
  <2> DEFINE q == retired[p]
             Of(s) == {i \in DOMAIN q : q[i].desc.slot = s}
  <2>1. ASSUME NEW s \in DOMAIN resources[p], NEW i \in DOMAIN q, i \in Of(s)
        PROVE  q[i].desc.version = resources[p][s].desc.version
                                     - Cardinality({j \in Of(s) : j >= i})
    <3>1. {j \in Of(s) : j >= i} = From(q, s, i)
      BY DEF From
    <3>2. q[i].desc.slot = s
      BY <2>1
    <3>3. q[i].desc.version + Cardinality(From(q, s, i)) = resources[p][s].desc.version
      BY <3>2 DEF QueueInv, Queued
    <3>4. q \in Seq(Entry) /\ i \in 1 .. Len(q)
      BY DEF SInv, GInv, RetiredOK
    <3>5. q[i] \in Entry
      BY <3>4
    <3>6. q[i].desc.version \in Nat
      BY <3>5 DEF Entry, Descriptor, Versions
    <3>7. Cardinality(From(q, s, i)) \in Nat
      BY <3>4, FromFinite
    <3> HIDE DEF q, Of
    <3>8. q[i].desc.version = resources[p][s].desc.version - Cardinality(From(q, s, i))
      BY <3>3, <3>6, <3>7
    <3>9. QED
      BY <3>1, <3>8
  <2>2. Filled(Cardinality(Replaced(p)), Len(q))
    BY DEF QueueInv
  <2>3. QED
    BY <2>1, <2>2 DEF Filled, Replaced
<1>2. Init => QueueInv
  BY QueueInit
<1>3. SInv /\ QueueInv /\ [Next]_vars => QueueInv'
  BY QueueNext
<1>4. Spec => []SInv
  BY SInvHolds
<1>5. QED
  BY <1>1, <1>2, <1>3, <1>4, PTL DEF Spec
-----------------------------------------------------------------------------
(***************************************************************************)
(* One instance implements ResourceStore.  Every version of a slot up to    *)
(* the current one has been published, so the descriptors handed out are    *)
(* the history of the slot.                                                 *)
(***************************************************************************)

CompleteInv ==
    \A p \in Providers : \A s \in DOMAIN resources[p] :
       \A v \in 1 .. resources[p][s].desc.version :
          \E d \in published : d.slot = s /\ d.version = v

\* A published descriptor says which bytes its version of the slot has.
LEMMA BytesFact ==
    ASSUME SInv, NEW d \in published
    PROVE  /\ BytesOf(d.slot, d.version) = maps[d.name]
           /\ maps[d.name] \in Contents
<1> DEFINE e == CHOOSE x \in published : x.slot = d.slot /\ x.version = d.version
<1>1. e \in published /\ e.slot = d.slot /\ e.version = d.version
  OBVIOUS
<1>2. e = d
  BY <1>1 DEF SInv, GenerationUnique
<1>3. Created(d.name, maps)
  BY DEF SInv, GInv, PublishedOK
<1>4. maps[d.name] \in Contents
  BY <1>3 DEF Created, SInv, GInv, CountersOK
<1>5. QED
  BY <1>2, <1>4 DEF BytesOf

LEMMA TheOnlyOne ==
    ASSUME OneInstance, NEW p \in Providers
    PROVE  TheProvider = p
  BY DEF OneInstance, TheProvider

\* A function on 1 .. n is a sequence of length n.
LEMMA LengthFact ==
    ASSUME NEW S, NEW n \in Nat, NEW f \in [1 .. n -> S]
    PROVE  f \in Seq(S) /\ Len(f) = n
<1>1. f \in Seq(S)
  OBVIOUS
<1>2. DOMAIN f = 1 .. n /\ DOMAIN f = 1 .. Len(f) /\ Len(f) \in Nat
  BY <1>1
<1>3. QED
  BY <1>1, <1>2

\* The abstract log: as long as the current version, with the bytes the
\* published descriptors name.
LEMMA LogFact ==
    ASSUME SInv, CompleteInv, OneInstance, NEW p \in Providers
    PROVE  /\ DOMAIN LogBar = DOMAIN resources[p]
           /\ \A s \in DOMAIN resources[p] :
                 /\ LogBar[s] \in Seq(Contents)
                 /\ Len(LogBar[s]) = resources[p][s].desc.version
                 /\ LogBar[s] = [v \in 1 .. resources[p][s].desc.version |-> BytesOf(s, v)]
           /\ \A d \in published :
                 /\ d.slot \in DOMAIN resources[p]
                 /\ d.version \in 1 .. Len(LogBar[d.slot])
                 /\ LogBar[d.slot][d.version] = maps[d.name]
<1>1. TheProvider = p
  BY TheOnlyOne
<1>2. DOMAIN LogBar = DOMAIN resources[p]
  BY <1>1 DEF LogBar
<1>3. ASSUME NEW s \in DOMAIN resources[p]
      PROVE  /\ LogBar[s] \in Seq(Contents)
             /\ Len(LogBar[s]) = resources[p][s].desc.version
             /\ LogBar[s] = [v \in 1 .. resources[p][s].desc.version |-> BytesOf(s, v)]
  <2> DEFINE n == resources[p][s].desc.version
  <2>1. n \in Nat
    BY NumberFact DEF SInv, CurrentSound
  <2>2. LogBar[s] = [v \in 1 .. n |-> BytesOf(s, v)]
    BY <1>1 DEF LogBar
  <2>3. \A v \in 1 .. n : BytesOf(s, v) \in Contents
    BY BytesFact DEF CompleteInv
  <2> HIDE DEF n
  <2>4. LogBar[s] \in [1 .. n -> Contents]
    BY <2>2, <2>3
  <2>5. QED
    BY <2>1, <2>2, <2>4, LengthFact DEF n
<1>4. ASSUME NEW d \in published
      PROVE  /\ d.slot \in DOMAIN resources[p]
             /\ d.version \in 1 .. Len(LogBar[d.slot])
             /\ LogBar[d.slot][d.version] = maps[d.name]
  <2>1. /\ d.slot \in DOMAIN resources[p]
        /\ d.version <= resources[p][d.slot].desc.version
    BY DEF SInv, PublishedSound
  <2>2. d.version \in Nat \ {0} /\ resources[p][d.slot].desc.version \in Nat
    BY <2>1, NumberFact DEF SInv, GInv, PublishedOK, CurrentSound, Descriptor, Versions
  <2>3. /\ Len(LogBar[d.slot]) = resources[p][d.slot].desc.version
        /\ LogBar[d.slot] = [v \in 1 .. resources[p][d.slot].desc.version
                                |-> BytesOf(d.slot, v)]
    BY <1>3, <2>1
  <2>4. d.version \in 1 .. resources[p][d.slot].desc.version
    BY <2>1, <2>2
  <2>5. LogBar[d.slot][d.version] = BytesOf(d.slot, d.version)
    BY <2>3, <2>4
  <2>6. QED
    BY <2>1, <2>3, <2>4, <2>5, BytesFact
<1>5. QED
  BY <1>2, <1>3, <1>4
\* No step changes the bytes behind a name that was published.
LEMMA MapsKept ==
    ASSUME SInv, [Next]_vars, NEW d \in published
    PROVE  maps'[d.name] = maps[d.name]
<1>1. d.name \in DOMAIN maps /\ DOMAIN maps = 1 .. sequence /\ sequence \in Nat
  BY DEF SInv, GInv, PublishedOK, Created, CountersOK
<1>2. ASSUME NEW b, NameMapping(b)
      PROVE  maps'[d.name] = maps[d.name]
  BY <1>1, <1>2 DEF NameMapping, Put
<1>3. CASE UNCHANGED vars
  BY <1>3 DEF vars
<1>4. ASSUME NEW p \in Providers, DropProvider(p)
      PROVE  maps' = maps
  BY <1>4 DEF DropProvider, os
<1>5. ASSUME NEW c \in Clients, ClientStep(c)
      PROVE  UNCHANGED maps \/ \E b : NameMapping(b)
  <2> DEFINE Kept == UNCHANGED maps \/ \E b : NameMapping(b)
  <2>1. /\ \A p, sem, b : Create(c, p, sem, b) => Kept
        /\ \A p : CreateHostFails(c, p) \/ CreateExhausted(c, p) \/ CollectGarbage(c, p)
                     => Kept
        /\ \A p, d1, i, j, b : PrepareCommit(c, p, d1, i, j, b) => Kept
    BY DEF Create, CreateHostFails, CreateExhausted, CollectGarbage, PrepareCommit, os
  <2>2. /\ \A p, op, d1, l : DescriptorFor(c, p, op, d1, l) => Kept
        /\ \A p, op, d1 : StartView(c, p, op, d1) => Kept
        /\ \A d1 : OpenView(c, d1) => Kept
        /\ \A d1, i, j : RefuseCommit(c, d1, i, j) \/ CommitHostFails(c, d1, i, j) => Kept
    BY DEF DescriptorFor, StartView, OpenView, RefuseCommit, CommitHostFails, os
  <2>3. /\ ContinueRead(c) \/ OpenMapping(c) \/ DropView(c) => Kept
        /\ InsertSnapshot(c) \/ InsertSnapshotExhausted(c) => Kept
        /\ InstallCommit(c) \/ RejectCommit(c) => Kept
    BY DEF ContinueRead, OpenMapping, DropView, InsertSnapshot,
           InsertSnapshotExhausted, InstallCommit, RejectCommit, os
  <2> HIDE DEF Kept
  <2>4. Kept
    BY <1>5, <2>1, <2>2, <2>3 DEF ClientStep
  <2>5. QED
    BY <2>4 DEF Kept
<1>6. QED
  BY <1>2, <1>3, <1>4, <1>5 DEF Next

\* The versions a slot already has keep their bytes.
LEMMA BytesKept ==
    ASSUME SInv, SInv', CompleteInv, [Next]_vars, published \subseteq published',
           NEW p \in Providers, NEW s \in DOMAIN resources[p],
           NEW v \in 1 .. resources[p][s].desc.version
    PROVE  BytesOf(s, v)' = BytesOf(s, v)
<1>1. PICK d \in published : d.slot = s /\ d.version = v
  BY DEF CompleteInv
<1>2. BytesOf(s, v) = maps[d.name]
  BY <1>1, BytesFact
<1>3. BytesOf(s, v)' = maps'[d.name]
  <2> DEFINE e == CHOOSE x \in published' : x.slot = s /\ x.version = v
  <2>1. e \in published' /\ e.slot = s /\ e.version = v /\ d \in published'
    BY <1>1
  <2>2. e = d
    BY <1>1, <2>1 DEF SInv, GenerationUnique
  <2>3. QED
    BY <2>2 DEF BytesOf
<1>4. QED
  BY <1>2, <1>3, MapsKept

\* A step that stores nothing keeps the abstract log and what is sealed.
LEMMA QuietLog ==
    ASSUME SInv, SInv', CompleteInv, OneInstance, [Next]_vars,
           UNCHANGED <<resources, published>>
    PROVE  LogBar' = LogBar /\ SealedBar' = SealedBar
<1>1. TheProvider \in Providers
  BY TheOnlyOne DEF OneInstance
<1>2. \A s \in DOMAIN resources[TheProvider] :
         \A v \in 1 .. resources[TheProvider][s].desc.version :
            BytesOf(s, v)' = BytesOf(s, v)
  BY <1>1, BytesKept
<1>3. QED
  BY <1>2 DEF LogBar, SealedBar

\* A new slot starts a new log.
LEMMA NewSlotLog ==
    ASSUME SInv, SInv', CompleteInv, OneInstance, [Next]_vars, NEW p \in Providers,
           NEW e, e.desc.slot = nextSlot[p] + 1, e.desc.version = 1,
           resources' = [resources EXCEPT ![p] = Put(resources[p], nextSlot[p] + 1, e)],
           published' = published \cup {e.desc}
    PROVE  /\ e.desc.slot \notin DOMAIN LogBar
           /\ LogBar' = [t \in DOMAIN LogBar \cup {e.desc.slot} |->
                            IF t = e.desc.slot THEN <<maps'[e.desc.name]>> ELSE LogBar[t]]
           /\ SealedBar' = IF e.desc.semantic # "cow" THEN SealedBar \cup {e.desc.slot}
                           ELSE SealedBar
           /\ CompleteInv'
<1> DEFINE s == e.desc.slot
           local == resources[p]
           next == Put(local, s, e)
<1>1. TheProvider = p /\ \A q \in Providers : q = p
  BY TheOnlyOne DEF OneInstance
<1>2. s \notin DOMAIN local
  BY NumberFact DEF SInv, CurrentSound
<1>3. /\ resources'[p] = next /\ DOMAIN next = DOMAIN local \cup {s} /\ next[s] = e
      /\ \A t \in DOMAIN local : next[t] = local[t]
  BY <1>2 DEF SInv, GInv, ResourcesOK, Put
<1>4. DOMAIN LogBar = DOMAIN local
  BY <1>1 DEF LogBar
<1> HIDE DEF next
<1>5. ASSUME NEW t \in DOMAIN local
      PROVE  [v \in 1 .. next[t].desc.version |-> BytesOf(t, v)'] = LogBar[t]
  <2>1. \A v \in 1 .. local[t].desc.version : BytesOf(t, v)' = BytesOf(t, v)
    BY BytesKept
  <2>2. LogBar[t] = [v \in 1 .. local[t].desc.version |-> BytesOf(t, v)]
    BY <1>1 DEF LogBar
  <2>3. QED
    BY <1>3, <2>1, <2>2
<1>6. [v \in 1 .. next[s].desc.version |-> BytesOf(s, v)'] = <<maps'[e.desc.name]>>
  <2>1. BytesOf(s, 1)' = maps'[e.desc.name]
    <3> DEFINE x == CHOOSE y \in published' : y.slot = s /\ y.version = 1
    <3>1. x \in published' /\ x.slot = s /\ x.version = 1 /\ e.desc \in published'
      OBVIOUS
    <3>2. x = e.desc
      BY <3>1 DEF SInv, GenerationUnique
    <3>3. QED
      BY <3>2 DEF BytesOf
  <2>2. 1 .. next[s].desc.version = {1}
    BY <1>3
  <2>3. \A b : <<b>> = [v \in {1} |-> b]
    OBVIOUS
  <2>4. QED
    BY <2>1, <2>2, <2>3
<1>7. LogBar' = [t \in DOMAIN next |->
                    [v \in 1 .. next[t].desc.version |-> BytesOf(t, v)']]
  BY <1>1, <1>3 DEF LogBar
<1>8. LogBar' = [t \in DOMAIN LogBar \cup {s} |->
                    IF t = s THEN <<maps'[e.desc.name]>> ELSE LogBar[t]]
  BY <1>2, <1>3, <1>4, <1>5, <1>6, <1>7
<1>9. SealedBar' = IF e.desc.semantic # "cow" THEN SealedBar \cup {s} ELSE SealedBar
  <2>1. SealedBar' = {t \in DOMAIN next : next[t].desc.semantic # "cow"}
    BY <1>1, <1>3 DEF SealedBar
  <2>2. SealedBar = {t \in DOMAIN local : local[t].desc.semantic # "cow"}
    BY <1>1 DEF SealedBar
  <2>3. QED
    BY <1>2, <1>3, <2>1, <2>2
<1>10. CompleteInv'
  <2>1. ASSUME NEW t \in DOMAIN next, NEW v \in 1 .. next[t].desc.version
        PROVE  \E d \in published' : d.slot = t /\ d.version = v
    <3>1. CASE t \in DOMAIN local
      BY <1>3, <3>1 DEF CompleteInv
    <3>2. CASE t = s
      BY <1>3, <3>2
    <3>3. QED
      BY <1>3, <3>1, <3>2
  <2>2. QED
    BY <1>1, <1>3, <2>1 DEF CompleteInv
<1>11. QED
  BY <1>2, <1>4, <1>8, <1>9, <1>10
\* A commit adds a version to the log of its slot.
\* The step that puts d in its slot appends d's bytes to the log of that slot
\* and leaves every other log as it is.
Extends(d) ==
    /\ d.slot \in DOMAIN LogBar \ SealedBar
    /\ maps'[d.name] \in Contents
    /\ d.version = Len(LogBar[d.slot]) + 1
    /\ LogBar' = [t \in DOMAIN LogBar \cup {d.slot} |->
                     IF t = d.slot THEN Append(LogBar[t], maps'[d.name])
                     ELSE LogBar[t]]
    /\ SealedBar' = SealedBar

LEMMA CommitLog ==
    ASSUME SInv, SInv', CompleteInv, OneInstance, [Next]_vars, NEW c \in Clients,
           InstallCommit(c), NEW d, d = call[c].desc
    PROVE  Extends(d) /\ CompleteInv'
<1>0. PICK k, p, s : k = call[c] /\ p = k.provider /\ s = k.req.slot
  OBVIOUS
<1> DEFINE local == resources[p]
           e == [desc |-> k.desc, handle |-> k.handle]
           next == Put(local, s, e)
<1>1. /\ p \in Providers /\ k.req \in published /\ d = k.desc
      /\ d.version = k.req.version + 1
      /\ d.slot = s /\ k.req.slot = s /\ k.req.semantic = "cow"
      /\ d.semantic = "cow"
  BY <1>0 DEF SInv, CallsSound, CallSound, GInv, CallOK, CallFits, Call, Idle,
         InstallCommit
<1>2. s \in DOMAIN local /\ local[s].desc = k.req
  <2>1. s \in DOMAIN local => IsCurrent(k.req, local[s].desc)
    BY <1>0 DEF InstallCommit, StillCurrent
  <2>2. QED
    BY <1>1, <2>1, CurrentFact
<1>3. TheProvider = p /\ \A q \in Providers : q = p
  BY <1>1, TheOnlyOne DEF OneInstance
<1>4. /\ resources' = [resources EXCEPT ![p] = next]
      /\ published' = published \cup {d}
      /\ e.desc = d
  BY <1>0, <1>1 DEF InstallCommit
<1>5. /\ resources'[p] = next /\ DOMAIN next = DOMAIN local /\ next[s].desc = d
      /\ \A t \in DOMAIN local : t # s => next[t] = local[t]
  BY <1>1, <1>2, <1>4 DEF SInv, GInv, ResourcesOK, Put
<1> DEFINE n == k.req.version
<1>6. n \in Nat /\ d.version = n + 1 /\ local[s].desc.version = n
  BY <1>1, <1>2, NumberFact DEF SInv
<1>7. /\ DOMAIN LogBar = DOMAIN local
      /\ LogBar[s] \in Seq(Contents) /\ Len(LogBar[s]) = n
      /\ \A t \in DOMAIN local :
            LogBar[t] = [v \in 1 .. local[t].desc.version |-> BytesOf(t, v)]
  BY <1>1, <1>2, <1>6, LogFact
<1>8. maps'[d.name] \in Contents
  <2>1. Created(d.name, maps)
    BY <1>0, <1>1 DEF SInv, GInv, CallOK, CallFits, InstallCommit
  <2>2. maps' = maps
    BY DEF InstallCommit, os
  <2>3. QED
    BY <2>1, <2>2 DEF Created, SInv, GInv, CountersOK
<1> HIDE DEF next, e, n
<1>9. ASSUME NEW t \in DOMAIN local, t # s
      PROVE  [v \in 1 .. next[t].desc.version |-> BytesOf(t, v)'] = LogBar[t]
  <2>1. \A v \in 1 .. local[t].desc.version : BytesOf(t, v)' = BytesOf(t, v)
    BY <1>1, <1>4, BytesKept
  <2>2. QED
    BY <1>5, <1>7, <1>9, <2>1
<1>10. [v \in 1 .. next[s].desc.version |-> BytesOf(s, v)']
          = Append(LogBar[s], maps'[d.name])
  <2>1. BytesOf(s, n + 1)' = maps'[d.name]
    <3> DEFINE x == CHOOSE y \in published' : y.slot = s /\ y.version = n + 1
    <3>1. x \in published' /\ x.slot = s /\ x.version = n + 1 /\ d \in published'
      BY <1>1, <1>4, <1>6
    <3>2. x = d
      BY <1>1, <1>6, <3>1 DEF SInv, GenerationUnique
    <3>3. QED
      BY <3>2 DEF BytesOf
  <2>2. \A v \in 1 .. n : BytesOf(s, v)' = BytesOf(s, v)
    BY <1>1, <1>2, <1>4, <1>6, BytesKept
  <2>3. \A v \in 1 .. n : LogBar[s][v] = BytesOf(s, v)'
    BY <1>2, <1>6, <1>7, <2>2
  <2>4. next[s].desc.version = n + 1
    BY <1>5, <1>6
  <2>5. Append(LogBar[s], maps'[d.name])
           = [v \in 1 .. n + 1 |-> IF v = n + 1 THEN maps'[d.name] ELSE LogBar[s][v]]
    BY <1>7
  <2>6. \A v \in 1 .. n + 1 :
           BytesOf(s, v)' = IF v = n + 1 THEN maps'[d.name] ELSE LogBar[s][v]
    <3>1. \A v \in 1 .. n + 1 : v \in 1 .. n \/ v = n + 1
      BY <1>6
    <3>2. n + 1 \notin 1 .. n
      BY <1>6
    <3>3. QED
      BY <2>1, <2>3, <3>1, <3>2
  <2>7. QED
    BY <2>4, <2>5, <2>6
<1>11. LogBar' = [t \in DOMAIN next |->
                    [v \in 1 .. next[t].desc.version |-> BytesOf(t, v)']]
  BY <1>3, <1>5 DEF LogBar
<1>12. LogBar' = [t \in DOMAIN LogBar \cup {s} |->
                    IF t = s THEN Append(LogBar[t], maps'[d.name]) ELSE LogBar[t]]
  BY <1>2, <1>5, <1>7, <1>9, <1>10, <1>11
<1>13. SealedBar' = SealedBar /\ s \notin SealedBar
  <2>1. SealedBar' = {t \in DOMAIN next : next[t].desc.semantic # "cow"}
    BY <1>3, <1>5 DEF SealedBar
  <2>2. SealedBar = {t \in DOMAIN local : local[t].desc.semantic # "cow"}
    BY <1>3 DEF SealedBar
  <2>3. QED
    BY <1>1, <1>2, <1>5, <2>1, <2>2
<1>14. CompleteInv'
  <2>1. ASSUME NEW t \in DOMAIN next, NEW v \in 1 .. next[t].desc.version
        PROVE  \E x \in published' : x.slot = t /\ x.version = v
    <3>1. CASE t # s
      BY <1>1, <1>4, <1>5, <3>1 DEF CompleteInv
    <3>2. CASE t = s /\ v \in 1 .. n
      BY <1>1, <1>2, <1>4, <1>6, <3>2 DEF CompleteInv
    <3>3. CASE t = s /\ v = n + 1
      BY <1>1, <1>4, <1>6, <3>3
    <3>4. v \in 1 .. n \/ v = n + 1 \/ t # s
      BY <1>5, <1>6
    <3>5. QED
      BY <3>1, <3>2, <3>3, <3>4
  <2>2. QED
    BY <1>3, <1>5, <2>1 DEF CompleteInv
<1>15. QED
  BY <1>1, <1>2, <1>6, <1>7, <1>8, <1>12, <1>13, <1>14 DEF Extends
\* Only a collect or an export stops between descriptor_for and mapped_view.
ReadsUnderWay ==
    \A c \in Clients : call[c].pc = "view" => call[c].op \in {"collect", "export"}

LEMMA ReadsUnderWayNext == SInv /\ ReadsUnderWay /\ [Next]_vars => ReadsUnderWay'
<1> SUFFICES ASSUME SInv, ReadsUnderWay, [Next]_vars PROVE ReadsUnderWay'
  OBVIOUS
<1>1. CASE UNCHANGED call
  BY <1>1 DEF ReadsUnderWay
<1>2. ASSUME NEW p \in Providers, DropProvider(p)
      PROVE  ReadsUnderWay'
  BY <1>1, <1>2 DEF DropProvider
<1>3. ASSUME NEW c \in Clients, ClientStep(c)
      PROVE  ReadsUnderWay'
  <2> DEFINE Fine == \/ UNCHANGED call
                     \/ \E k : /\ call' = [call EXCEPT ![c] = k]
                               /\ k.pc = "view" => k.op \in {"collect", "export"}
  <2>1. \A k : call' = [call EXCEPT ![c] = k] /\ k.pc # "view" => Fine
    OBVIOUS
  <2>2. /\ \A r : Return(c, r) => Fine
        /\ \A k : Proceed(c, k) /\ k.pc # "view" => Fine
    BY <2>1 DEF Return, Proceed, Idle
  <2>3. \A k, d, h : UseView(c, k, d, h) => Fine
    <3> HIDE DEF Fine
    <3>1. QED
      BY <2>2 DEF UseView, Fail
  <2>4. ASSUME NEW k, CallFits(k, maps), k.pc = "view", MappedView(c, k)
        PROVE  Fine
    <3> HIDE DEF Fine
    <3>1. [k EXCEPT !.pc = "open"].pc = "open"
      BY <2>4 DEF CallFits, Call, Idle
    <3>2. QED
      BY <2>2, <2>3, <2>4, <3>1 DEF MappedView, Fail
  <2>5. ASSUME NEW p \in Providers, NEW d \in published,
               NEW op \in {"collect", "export"}, NEW l, DescriptorFor(c, p, op, d, l)
        PROVE  Fine
    <3>1. CASE \E r : Return(c, r)
      <4> HIDE DEF Fine
      <4>1. QED
        BY <2>2, <3>1
    <3>2. CASE \E k : k.op = op /\ Proceed(c, k)
      BY <3>2 DEF Proceed
    <3>3. QED
      BY <2>5, <3>1, <3>2 DEF DescriptorFor, Fail, Reading
  <2>6. ASSUME NEW p \in Providers, NEW d \in published, NEW op \in {"view", "snapshot"},
               StartView(c, p, op, d)
        PROVE  Fine
    <3>1. /\ CallFits(Reading(p, op, d, Absent), maps)
          /\ Reading(p, op, d, Absent).pc = "view"
      BY ReadingFact DEF SInv, Ops
    <3>2. QED
      BY <2>4, <2>6, <3>1 DEF StartView
  <2>7. ASSUME ContinueRead(c)
        PROVE  Fine
    <3>1. CallFits(call[c], maps)
      BY DEF SInv, GInv, CallOK
    <3>2. QED
      BY <2>4, <2>7, <3>1 DEF ContinueRead
  <2>8. DropView(c) => Fine
    BY DEF DropView
  <2> HIDE DEF Fine
  <2>9. /\ \A p, sem, b : Create(c, p, sem, b) => Fine
        /\ \A p : CreateHostFails(c, p) \/ CreateExhausted(c, p) \/ CollectGarbage(c, p)
                     => Fine
        /\ \A p, d, i, j, b : PrepareCommit(c, p, d, i, j, b) => Fine
        /\ \A d : OpenView(c, d) => Fine
        /\ \A d, i, j : RefuseCommit(c, d, i, j) \/ CommitHostFails(c, d, i, j) => Fine
    BY <2>2 DEF Create, CreateHostFails, CreateExhausted, CollectGarbage,
                PrepareCommit, OpenView, RefuseCommit, CommitHostFails, Fail
  <2>10. /\ OpenMapping(c) => Fine
         /\ InsertSnapshot(c) \/ InsertSnapshotExhausted(c) => Fine
         /\ InstallCommit(c) \/ RejectCommit(c) => Fine
    BY <2>2, <2>3 DEF OpenMapping, InsertSnapshot, InsertSnapshotExhausted,
                      InstallCommit, RejectCommit, Fail
  <2>11. Fine
    BY <1>3, <2>5, <2>6, <2>7, <2>8, <2>9, <2>10 DEF ClientStep
  <2>12. ASSUME NEW k, call' = [call EXCEPT ![c] = k],
                k.pc = "view" => k.op \in {"collect", "export"}
         PROVE  ReadsUnderWay'
    <3>1. \A x \in Clients : call'[x] = IF x = c THEN k ELSE call[x]
      BY <2>12 DEF SInv, GInv, CallOK
    <3>2. QED
      BY <2>12, <3>1 DEF ReadsUnderWay
  <2>13. QED
    BY <1>1, <2>11, <2>12 DEF Fine
<1>4. QED
  BY <1>1, <1>2, <1>3 DEF Next, vars
\* What a step that stores nothing may answer.
Answered(r) ==
    \/ r = None
    \/ r.status \notin {"ok", "mismatch"}
    \/ r.status = "ok" /\ r.op = "gc"
    \/ /\ r.status = "ok" /\ r.op \in {"collect", "export"}
       /\ r.req \in published
       /\ r.content = maps[r.req.name]
       /\ \A p \in Providers : resources[p][r.req.slot].desc = r.req
    \/ r.status = "ok" /\ r.op = "view" /\ r.req \in published /\ r.desc = r.req
    \/ /\ r.status = "mismatch"
       /\ r.op \in {"collect", "export", "view", "snapshot", "commit"}
       /\ r.req \in published
       /\ r.op = "commit" \/ \E d \in published : Newer(d, r.req)

LEMMA AnsweredFail ==
    ASSUME NEW op, NEW status, NEW req, NEW c, Fail(c, op, status, req),
           status \notin {"ok", "mismatch"}
    PROVE  Answered(reply')
  BY DEF Answered, Fail, Return, Answer

LEMMA AnsweredView ==
    ASSUME SInv, OneInstance, NEW c, NEW k, k.provider \in Providers,
           k.req \in published, k.desc = k.req,
           k.op \in {"collect", "export", "view", "snapshot"}, MappedView(c, k)
    PROVE  Answered(reply')
<1> DEFINE entry == resources[k.provider][k.desc.slot]
<1>1. k.desc.slot \in DOMAIN resources[k.provider]
  BY CurrentFact
<1>2. CASE IsCurrent(k.desc, entry.desc) /\ UseView(c, k, entry.desc, entry.handle)
  <2>1. entry.desc = k.req
    BY <1>1, <1>2, CurrentFact
  <2>2. entry.handle.name = k.req.name
    BY <1>1, <2>1 DEF SInv, GInv, ResourcesOK, Fits
  <2>3. \A p \in Providers : resources[p][k.req.slot].desc = k.req
    BY <2>1 DEF OneInstance
  <2> HIDE DEF entry
  <2>4. CASE /\ k.op \in {"collect", "export"}
             /\ Return(c, Answer(k.op, "ok", k.req, entry.desc, maps[entry.handle.name]))
    BY <2>2, <2>3, <2>4 DEF Answered, Return, Answer
  <2>5. CASE Fail(c, k.op, "unsupported", k.req)
    BY <2>5, AnsweredFail
  <2>6. CASE k.op = "view" /\ Return(c, Answer(k.op, "ok", k.req, entry.desc, None))
    BY <2>1, <2>6 DEF Answered, Return, Answer
  <2>7. CASE reply' = None
    BY <2>7 DEF Answered
  <2>8. QED
    BY <1>2, <2>4, <2>5, <2>6, <2>7 DEF UseView, Proceed
<1>3. CASE /\ ~IsCurrent(k.desc, entry.desc)
           /\ Fail(c, k.op, "mismatch", k.req)
  <2>1. Newer(entry.desc, k.req) /\ entry.desc \in published
    BY <1>3, CurrentFact
  <2>2. QED
    BY <1>3, <2>1 DEF Answered, Fail, Return, Answer
<1>4. QED
  BY <1>1, <1>2, <1>3 DEF MappedView

LEMMA QuietAnswers ==
    ASSUME SInv, ReadsUnderWay, OneInstance, NEW c \in Clients, ClientStep(c)
    PROVE  \/ Answered(reply')
           \/ \E p \in Providers, sem \in {"frozen", "cow"}, b \in Contents :
                 Create(c, p, sem, b)
           \/ InsertSnapshot(c)
           \/ InstallCommit(c)
<1> DEFINE Fine == Answered(reply')
<1>1. reply' = None => Fine
  BY DEF Answered
<1>2. \A op, status, req : Fail(c, op, status, req) /\ status \notin {"ok", "mismatch"}
                              => Fine
  BY AnsweredFail
<1>3. \A d \in published : Fail(c, "commit", "mismatch", d) => Fine
  BY DEF Answered, Fail, Return, Answer
<1>4. ASSUME NEW d \in published, OpenView(c, d)
      PROVE  Fine
  <2>1. CASE Return(c, Answer("view", "ok", d, d, None))
    BY <2>1 DEF Answered, Return, Answer
  <2>2. QED
    BY <1>2, <1>4, <2>1 DEF OpenView
<1>5. ASSUME NEW p \in Providers, NEW d \in published,
             NEW op \in {"view", "snapshot"}, StartView(c, p, op, d)
      PROVE  Fine
  BY <1>5, AnsweredView DEF StartView, Reading
<1>6. ASSUME NEW p \in Providers, NEW d \in published,
             NEW op \in {"collect", "export"}, NEW l \in Limits,
             DescriptorFor(c, p, op, d, l)
      PROVE  Fine
  <2>1. CASE ~IsCurrent(d, resources[p][d.slot].desc) /\ Fail(c, op, "mismatch", d)
    <3>1. \E x \in published : Newer(x, d)
      BY <2>1, CurrentFact
    <3>2. QED
      BY <2>1, <3>1 DEF Answered, Fail, Return, Answer
  <2>2. CASE reply' = None
    BY <1>1, <2>2
  <2>3. QED
    BY <1>6, <2>1, <2>2 DEF DescriptorFor, Proceed
<1>7. ASSUME ContinueRead(c)
      PROVE  Fine
  <2>1. /\ call[c].provider \in Providers /\ call[c].req \in published
        /\ call[c].desc = call[c].req /\ call[c].op \in {"collect", "export"}
    BY <1>7 DEF ContinueRead, SInv, CallsSound, CallSound, GInv, CallOK, CallFits,
                Call, Idle, ReadsUnderWay
  <2>2. QED
    BY <1>7, <2>1, AnsweredView DEF ContinueRead
<1>8. ~OpenMapping(c)
  BY DEF OpenMapping, SInv, CallsSound, CallSound
<1>9. ASSUME RejectCommit(c)
      PROVE  Fine
  <2>1. call[c].req \in published
    BY <1>9 DEF RejectCommit, SInv, CallsSound, CallSound
  <2>2. QED
    BY <1>3, <1>9, <2>1 DEF RejectCommit
<1>10. ASSUME NEW p, CollectGarbage(c, p)
       PROVE  Fine
  BY <1>10 DEF CollectGarbage, Return, Answer, Answered
<1> HIDE DEF Fine
<1>11. /\ \A p : CreateHostFails(c, p) \/ CreateExhausted(c, p) => Fine
       /\ \A d, i, j : CommitHostFails(c, d, i, j) => Fine
       /\ \A d \in published : \A i, j : RefuseCommit(c, d, i, j) => Fine
       /\ InsertSnapshotExhausted(c) => Fine
  BY <1>2, <1>3 DEF CreateHostFails, CreateExhausted, CommitHostFails, RefuseCommit,
                    InsertSnapshotExhausted
<1>12. /\ \A p, d, i, j, b : PrepareCommit(c, p, d, i, j, b) => Fine
       /\ DropView(c) => Fine
  BY <1>1 DEF PrepareCommit, DropView, Proceed
<1>13. Fine \/ (\E p \in Providers, sem \in {"frozen", "cow"}, b \in Contents :
                   Create(c, p, sem, b)) \/ InsertSnapshot(c) \/ InstallCommit(c)
  BY <1>4, <1>5, <1>6, <1>7, <1>8, <1>9, <1>10, <1>11, <1>12 DEF ClientStep
<1>14. QED
  BY <1>13 DEF Fine
\* Every such answer is one of the abstract store.
LEMMA AnswerMaps ==
    ASSUME SInv, SInv', CompleteInv, OneInstance, [Next]_vars,
           UNCHANGED <<resources, published>>, Answered(reply')
    PROVE  Store!Next
<1> DEFINE r == reply'
<1>1. LogBar' = LogBar /\ SealedBar' = SealedBar
  BY QuietLog
<1>2. PICK p \in Providers : \A q \in Providers : q = p
  BY DEF OneInstance
<1>3. TheProvider = p
  BY TheOnlyOne
<1>4. /\ DOMAIN LogBar = DOMAIN resources[p]
      /\ \A s \in DOMAIN resources[p] : Len(LogBar[s]) = resources[p][s].desc.version
      /\ \A d \in published :
            /\ d.slot \in DOMAIN resources[p]
            /\ d.version \in 1 .. Len(LogBar[d.slot])
            /\ LogBar[d.slot][d.version] = maps[d.name]
  BY LogFact
<1>5. CASE AnswerBar' = None
  BY <1>1, <1>5 DEF Store!Next, Store!Other
<1>6. ASSUME r # None, r.status = "ok", r.op \in {"collect", "export"},
             r.req \in published, r.content = maps[r.req.name],
             resources[p][r.req.slot].desc = r.req
      PROVE  Store!Next
  <2>1. AnswerBar' = [op |-> r.op, status |-> "ok", slot |-> r.req.slot,
                      version |-> r.req.version, content |-> r.content]
    BY <1>6 DEF AnswerBar
  <2>2. /\ r.req.slot \in DOMAIN LogBar /\ r.req.version = Len(LogBar[r.req.slot])
        /\ r.req.version \in 1 .. Len(LogBar[r.req.slot])
        /\ r.content = LogBar[r.req.slot][r.req.version]
    BY <1>4, <1>6
  <2>3. PICK op, s, v : op = r.op /\ s = r.req.slot /\ v = r.req.version
    OBVIOUS
  <2>4. Store!Read(op, s, v)
    BY <1>1, <1>6, <2>1, <2>2, <2>3 DEF Store!Read, Store!Current, Store!Answer
  <2>5. op \in {"collect", "export"} /\ s \in DOMAIN LogBar /\ v \in 1 .. Len(LogBar[s])
    BY <1>6, <2>2, <2>3
  <2>6. QED
    BY <2>4, <2>5 DEF Store!Next
<1>7. ASSUME r # None, r.status = "ok", r.op = "view", r.req \in published, r.desc = r.req
      PROVE  Store!Next
  <2>1. AnswerBar' = [op |-> "view", status |-> "ok", slot |-> r.req.slot,
                      version |-> r.req.version, content |-> maps'[r.req.name]]
    BY <1>7 DEF AnswerBar
  <2>2. /\ r.req.slot \in DOMAIN LogBar
        /\ r.req.version \in 1 .. Len(LogBar[r.req.slot])
        /\ maps'[r.req.name] = LogBar[r.req.slot][r.req.version]
    BY <1>4, <1>7, MapsKept
  <2>3. PICK s, v : s = r.req.slot /\ v = r.req.version
    OBVIOUS
  <2>4. Store!View(s, v)
    BY <1>1, <1>7, <2>1, <2>2, <2>3 DEF Store!View, Store!Existing, Store!Answer
  <2>5. s \in DOMAIN LogBar /\ v \in 1 .. Len(LogBar[s])
    BY <2>2, <2>3
  <2>6. QED
    BY <2>4, <2>5 DEF Store!Next
<1>8. ASSUME r # None, r.status = "mismatch",
             r.op \in {"collect", "export", "view", "snapshot", "commit"},
             r.req \in published,
             r.op = "commit" \/ \E d \in published : Newer(d, r.req),
             AnswerBar' # None
      PROVE  Store!Next
  <2>1. /\ ~RefusedOnItsFace'
        /\ AnswerBar' = [op |-> r.op, status |-> "mismatch", slot |-> r.req.slot,
                         version |-> r.req.version, content |-> None]
    BY <1>8 DEF AnswerBar
  <2>2. /\ r.req.slot \in DOMAIN LogBar
        /\ r.req.version \in 1 .. Len(LogBar[r.req.slot])
        /\ Len(LogBar[r.req.slot]) = resources[p][r.req.slot].desc.version
    BY <1>4, <1>8
  <2>3. r.req.version < Len(LogBar[r.req.slot])
    <3>1. CASE r.op = "commit"
      <4>1. r.req.version # resources[p][r.req.slot].desc.version
        BY <1>3, <2>1, <3>1 DEF RefusedOnItsFace
      <4>2. QED
        BY <2>2, <4>1
    <3>2. CASE \E d \in published : Newer(d, r.req)
      <4>1. PICK d \in published : d.slot = r.req.slot /\ d.version > r.req.version
        BY <3>2 DEF Newer
      <4>2. d.version \in 1 .. Len(LogBar[r.req.slot])
        BY <1>4, <4>1
      <4>3. QED
        BY <2>2, <4>1, <4>2
    <3>3. QED
      BY <1>8, <3>1, <3>2
  <2>4. PICK op, s, v : op = r.op /\ s = r.req.slot /\ v = r.req.version
    OBVIOUS
  <2>5. Store!Stale(op, s, v)
    BY <1>1, <2>1, <2>2, <2>3, <2>4 DEF Store!Stale, Store!Existing, Store!Answer
  <2>6. /\ s \in DOMAIN LogBar /\ v \in 1 .. Len(LogBar[s])
        /\ op \in {"collect", "export", "view", "snapshot", "commit"}
    BY <1>8, <2>2, <2>4
  <2>7. QED
    BY <2>5, <2>6 DEF Store!Next
<1>9. (r = None \/ r.status \notin {"ok", "mismatch"} \/ (r.status = "ok" /\ r.op = "gc"))
         => AnswerBar' = None
  BY DEF AnswerBar
<1>10. QED
  BY <1>2, <1>5, <1>6, <1>7, <1>8, <1>9 DEF Answered

\* The three steps that store are the abstract ones.
LEMMA CreateMaps ==
    ASSUME SInv, SInv', CompleteInv, OneInstance, [Next]_vars, NEW c \in Clients,
           NEW p \in Providers, NEW sem \in {"frozen", "cow"}, NEW b \in Contents,
           Create(c, p, sem, b)
    PROVE  Store!Next /\ CompleteInv'
<1> DEFINE d == ResourceRef(nextSlot[p] + 1, sequence + 1, 1, 1, sem)
           e == [desc |-> d, handle |-> [name |-> sequence + 1, owner |-> TRUE]]
<1>1. /\ resources' = [resources EXCEPT ![p] = Put(resources[p], nextSlot[p] + 1, e)]
      /\ published' = published \cup {e.desc}
      /\ e.desc = d /\ d.slot = nextSlot[p] + 1 /\ d.version = 1 /\ d.semantic = sem
      /\ d.name = sequence + 1
      /\ reply' = Answer("create", "ok", None, d, None)
  BY DEF Create, ResourceRef, Return
<1>2. maps'[sequence + 1] = b
  BY DEF Create, NameMapping, Put
<1>3. d.slot \in Slots
  BY <1>1, ConfigAssumption DEF Create, HasNextSlot, SInv, GInv, CountersOK, Slots
<1>4. d \in Descriptor
  <2>1. d \in published'
    BY <1>1
  <2>2. QED
    BY <2>1 DEF SInv, GInv, PublishedOK
<1> HIDE DEF d, e
<1>5. /\ d.slot \notin DOMAIN LogBar
      /\ LogBar' = [t \in DOMAIN LogBar \cup {d.slot} |->
                       IF t = d.slot THEN <<b>> ELSE LogBar[t]]
      /\ SealedBar' = IF d.semantic # "cow" THEN SealedBar \cup {d.slot} ELSE SealedBar
      /\ CompleteInv'
  <2>1. /\ e.desc.slot = nextSlot[p] + 1 /\ e.desc.version = 1
        /\ maps'[e.desc.name] = b
    BY <1>1, <1>2
  <2>2. /\ e.desc.slot \notin DOMAIN LogBar
        /\ LogBar' = [t \in DOMAIN LogBar \cup {e.desc.slot} |->
                         IF t = e.desc.slot THEN <<maps'[e.desc.name]>> ELSE LogBar[t]]
        /\ SealedBar' = IF e.desc.semantic # "cow" THEN SealedBar \cup {e.desc.slot}
                        ELSE SealedBar
        /\ CompleteInv'
    BY <1>1, <2>1, NewSlotLog
  <2>3. QED
    BY <1>1, <2>1, <2>2
<1>6. AnswerBar' = [op |-> "create", status |-> "ok", slot |-> d.slot, version |-> 1,
                    content |-> None]
  <2>1. /\ reply' # None
        /\ reply'.status = "ok" /\ reply'.op = "create" /\ reply'.desc = d
    <3>1. Answer("create", "ok", None, d, None) \in Reply
      BY <1>4 DEF Answer, Reply, Ops, Statuses
    <3>2. QED
      BY <1>1, <3>1, NoneIsNoReply DEF Answer
  <2>2. QED
    BY <1>1, <2>1 DEF AnswerBar
<1>7. PICK s : s = d.slot
  OBVIOUS
<1>8. CASE d.semantic # "cow"
  <2>1. Store!Create(s, b, TRUE)
    BY <1>5, <1>6, <1>7, <1>8 DEF Store!Create, Store!With, Store!Answer
  <2>2. QED
    BY <1>3, <1>5, <1>7, <2>1 DEF Store!Next
<1>9. CASE d.semantic = "cow"
  <2>1. Store!Create(s, b, FALSE)
    BY <1>5, <1>6, <1>7, <1>9 DEF Store!Create, Store!With, Store!Answer
  <2>2. QED
    BY <1>3, <1>5, <1>7, <2>1 DEF Store!Next
<1>10. QED
  BY <1>8, <1>9
LEMMA SnapshotMaps ==
    ASSUME SInv, SInv', CompleteInv, OneInstance, [Next]_vars, NEW c \in Clients,
           InsertSnapshot(c)
    PROVE  Store!Next /\ CompleteInv'
<1>0. PICK k, p : k = call[c] /\ p = k.provider
  OBVIOUS
<1> DEFINE d == ResourceRef(nextSlot[p] + 1, k.desc.name, 1, 1, "snapshot")
           e == [desc |-> d, handle |-> k.handle]
<1>1. p \in Providers /\ k.req \in published /\ k.desc = k.req
  BY <1>0 DEF SInv, CallsSound, CallSound, GInv, CallOK, CallFits, Call, Idle,
              InsertSnapshot
<1>2. /\ resources' = [resources EXCEPT ![p] = Put(resources[p], nextSlot[p] + 1, e)]
      /\ published' = published \cup {e.desc}
      /\ e.desc = d /\ d.slot = nextSlot[p] + 1 /\ d.version = 1
      /\ d.semantic = "snapshot" /\ d.name = k.req.name
      /\ \E latest : reply' = [Answer("snapshot", "ok", k.req, d, None) EXCEPT
                                  !.latest = latest]
  BY <1>0, <1>1 DEF InsertSnapshot, WithSnapshot, ResourceRef, Return
<1>3. d.slot \in Slots
  BY <1>0, <1>1, <1>2, ConfigAssumption
     DEF InsertSnapshot, HasNextSlot, SInv, GInv, CountersOK, Slots
<1> HIDE DEF d, e
<1>4. /\ maps'[d.name] = maps[k.req.name]
      /\ k.req.slot \in DOMAIN resources[p]
      /\ k.req.version \in 1 .. Len(LogBar[k.req.slot])
      /\ LogBar[k.req.slot][k.req.version] = maps[k.req.name]
      /\ DOMAIN LogBar = DOMAIN resources[p]
  BY <1>1, <1>2, LogFact, MapsKept
<1>5. /\ d.slot \notin DOMAIN LogBar
      /\ LogBar' = [t \in DOMAIN LogBar \cup {d.slot} |->
                       IF t = d.slot THEN <<maps'[d.name]>> ELSE LogBar[t]]
      /\ SealedBar' = SealedBar \cup {d.slot}
      /\ CompleteInv'
  <2>1. /\ e.desc.slot = nextSlot[p] + 1 /\ e.desc.version = 1
        /\ e.desc.semantic # "cow"
    BY <1>2
  <2>2. /\ e.desc.slot \notin DOMAIN LogBar
        /\ LogBar' = [t \in DOMAIN LogBar \cup {e.desc.slot} |->
                         IF t = e.desc.slot THEN <<maps'[e.desc.name]>> ELSE LogBar[t]]
        /\ SealedBar' = IF e.desc.semantic # "cow" THEN SealedBar \cup {e.desc.slot}
                        ELSE SealedBar
        /\ CompleteInv'
    BY <1>1, <1>2, <2>1, NewSlotLog
  <2>3. QED
    BY <1>2, <2>1, <2>2
<1>6. AnswerBar' = [op |-> "snapshot", status |-> "ok", slot |-> d.slot, version |-> 1,
                    content |-> None]
  <2>1. reply' # None
    <3>1. \E latest : reply' = [Answer("snapshot", "ok", k.req, d, None) EXCEPT
                                   !.latest = latest]
      BY <1>2
    <3>2. IsLatest(resources[p], k.desc) \in BOOLEAN
      BY DEF IsLatest
    <3>3. k.req \in Descriptor /\ d \in Descriptor
      BY <1>1, <1>2 DEF SInv, GInv, PublishedOK
    <3>4. [Answer("snapshot", "ok", k.req, d, None) EXCEPT
              !.latest = IsLatest(resources[p], k.desc)] \in Reply
      BY <3>2, <3>3 DEF Answer, Reply, Ops, Statuses
    <3>5. reply' = [Answer("snapshot", "ok", k.req, d, None) EXCEPT
                       !.latest = IsLatest(resources[p], k.desc)]
      BY <1>0, <1>1 DEF InsertSnapshot, Return, d
    <3>6. QED
      BY <3>4, <3>5, NoneIsNoReply
  <2>2. reply'.status = "ok" /\ reply'.op = "snapshot" /\ reply'.desc = d
    BY <1>2 DEF Answer
  <2>3. QED
    BY <1>2, <2>1, <2>2 DEF AnswerBar
<1>7. PICK s, v, t : s = k.req.slot /\ v = k.req.version /\ t = d.slot
  OBVIOUS
<1>8. Store!Snapshot(s, v, t)
  BY <1>4, <1>5, <1>6, <1>7 DEF Store!Snapshot, Store!Existing, Store!With, Store!Answer
<1>9. s \in DOMAIN LogBar /\ t \in Slots /\ v \in 1 .. Len(LogBar[s])
  BY <1>3, <1>4, <1>7
<1>10. QED
  BY <1>5, <1>8, <1>9 DEF Store!Next

LEMMA CommitMaps ==
    ASSUME SInv, SInv', CompleteInv, OneInstance, [Next]_vars, NEW c \in Clients,
           InstallCommit(c)
    PROVE  Store!Next /\ CompleteInv'
<1>0. PICK k, d : k = call[c] /\ d = k.desc
  OBVIOUS
<1>1. reply' = Answer("commit", "ok", k.req, d, None)
  BY <1>0 DEF InstallCommit, Return
<1>2. k.req \in Descriptor /\ d \in Descriptor
  BY <1>0 DEF SInv, GInv, CallOK, CallFits, Call, Idle, InstallCommit
<1>3. Extends(d) /\ CompleteInv'
  <2>1. d = call[c].desc
    BY <1>0
  <2>2. QED
    BY <2>1, CommitLog
<1>4. AnswerBar' = [op |-> "commit", status |-> "ok", slot |-> d.slot,
                    version |-> d.version, content |-> None]
  <2>1. Answer("commit", "ok", k.req, d, None) \in Reply
    BY <1>2 DEF Answer, Reply, Ops, Statuses
  <2>2. reply' # None /\ reply'.status = "ok" /\ reply'.op = "commit" /\ reply'.desc = d
    BY <1>1, <2>1, NoneIsNoReply DEF Answer
  <2>3. QED
    BY <2>2 DEF AnswerBar
<1>5. PICK s, b : s = d.slot /\ b = maps'[d.name]
  OBVIOUS
<1>6. Store!Commit(s, b)
  BY <1>3, <1>4, <1>5 DEF Extends, Store!Commit, Store!With, Store!Answer
<1>7. s \in DOMAIN LogBar /\ b \in Contents
  BY <1>3, <1>5 DEF Extends
<1>8. QED
  BY <1>3, <1>6, <1>7 DEF Store!Next

LEMMA StoreInit == OneInstance /\ Init => Store!Init
<1> SUFFICES ASSUME OneInstance, Init PROVE Store!Init
  OBVIOUS
<1>1. TheProvider \in Providers
  BY TheOnlyOne DEF OneInstance
<1>2. DOMAIN resources[TheProvider] = {}
  BY <1>1 DEF Init
<1>3. LogBar = [s \in {} |-> << >>] /\ SealedBar = {} /\ AnswerBar = None
  BY <1>2 DEF LogBar, SealedBar, AnswerBar, Init
<1>4. QED
  BY <1>3 DEF Store!Init

LEMMA StoreNext ==
    OneInstance /\ SInv /\ SInv' /\ ReadsUnderWay /\ CompleteInv /\ [Next]_vars
       => [Store!Next]_(Store!vars) /\ CompleteInv'
<1> SUFFICES ASSUME OneInstance, SInv, SInv', ReadsUnderWay, CompleteInv, [Next]_vars
             PROVE  [Store!Next]_(Store!vars) /\ CompleteInv'
  OBVIOUS
<1>1. UNCHANGED <<resources, published>> => CompleteInv'
  BY DEF CompleteInv
<1>2. CASE UNCHANGED vars
  <2>1. UNCHANGED <<resources, published, reply, maps>>
    BY <1>2 DEF vars
  <2>2. LogBar' = LogBar /\ SealedBar' = SealedBar
    BY <2>1, QuietLog
  <2>3. AnswerBar' = AnswerBar
    BY <2>1 DEF AnswerBar, RefusedOnItsFace
  <2>4. QED
    BY <1>1, <2>1, <2>2, <2>3 DEF Store!vars
<1>3. ASSUME NEW p \in Providers, DropProvider(p)
      PROVE  FALSE
  BY <1>3 DEF DropProvider, OneInstance, SInv, GInv, CountersOK
<1>4. ASSUME NEW c \in Clients, ClientStep(c)
      PROVE  Store!Next /\ CompleteInv'
  <2>1. CASE \E p \in Providers, sem \in {"frozen", "cow"}, b \in Contents :
                Create(c, p, sem, b)
    BY <2>1, CreateMaps
  <2>2. CASE InsertSnapshot(c)
    BY <2>2, SnapshotMaps
  <2>3. CASE InstallCommit(c)
    BY <2>3, CommitMaps
  <2>4. CASE UNCHANGED <<resources, retired, published>> /\ Answered(reply')
    BY <1>1, <2>4, AnswerMaps
  <2>5. QED
    BY <1>4, <2>1, <2>2, <2>3, <2>4, StoringSteps, QuietAnswers DEF SInv
<1>5. QED
  BY <1>2, <1>3, <1>4 DEF Next

\* One provider implements the atomic store: whatever its critical sections
\* interleave with, every read, commit and snapshot that succeeds does so as if
\* in one step, and every plan called stale is stale.
THEOREM ProviderIsAtomicStore == OneInstance => (Spec => ImplementsResourceStore)
<1> SUFFICES ASSUME OneInstance PROVE Spec => ImplementsResourceStore
  OBVIOUS
<1>1. Init => Store!Init /\ CompleteInv /\ ReadsUnderWay
  BY StoreInit DEF Init, CompleteInv, ReadsUnderWay, Idle
<1>2. SInv /\ SInv' /\ ReadsUnderWay /\ CompleteInv /\ [Next]_vars
         => [Store!Next]_(Store!vars) /\ CompleteInv'
  BY StoreNext
<1>3. SInv /\ ReadsUnderWay /\ [Next]_vars => ReadsUnderWay'
  BY ReadsUnderWayNext
<1>4. Spec => []SInv
  BY SInvHolds
<1>5. QED
  BY <1>1, <1>2, <1>3, <1>4, PTL DEF Spec, ImplementsResourceStore, Store!Spec
=============================================================================
