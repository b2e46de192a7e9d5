---------------------------- MODULE MemoryProofs ----------------------------
(***************************************************************************)
(* Theorems about MemoryProvider.  The first part holds however often the   *)
(* provider is loaded again, the others as long as it is not; the last one  *)
(* is the refinement of ResourceStore.                                      *)
(***************************************************************************)
EXTENDS MemoryRefinement, SequenceTheorems, FiniteSetTheorems, TLAPS

-----------------------------------------------------------------------------
\* Facts about values.

LEMMA ReverseFact ==
    ASSUME NEW S, NEW q \in Seq(S)
    PROVE  /\ Reverse(q) \in Seq(S)
           /\ Len(Reverse(q)) = Len(q)
           /\ \A i \in 1 .. Len(q) : Reverse(q)[i] = q[(Len(q) - i) + 1]
<1>1. Reverse(q) \in [1 .. Len(q) -> S]
  BY DEF Reverse
<1>2. QED
  BY <1>1 DEF Reverse

\* Descriptors of every semantic, version and content.
LEMMA ResourceRefFact ==
    ASSUME NEW s \in Slots, NEW sem \in Semantics, NEW v \in Versions,
           NEW b \in Contents
    PROVE  /\ ResourceRef(s, sem, v, b) \in Descriptor
           /\ [desc |-> ResourceRef(s, sem, v, b), bytes |-> b] \in Entry
  BY ContentsAssumption DEF ResourceRef, Descriptor, Entry

\* A descriptor after a commit.
LEMMA CommittedFact ==
    ASSUME NEW d \in Descriptor, NEW b \in Contents
    PROVE  /\ CommittedDesc(d, b) \in Descriptor
           /\ CommittedDesc(d, b).slot = d.slot
           /\ CommittedDesc(d, b).semantic = d.semantic
           /\ CommittedDesc(d, b).version = d.version + 1
           /\ CommittedDesc(d, b).idVersion = d.version + 1
           /\ CommittedDesc(d, b).sizeHint = Size[b]
           /\ [desc |-> CommittedDesc(d, b), bytes |-> b] \in Entry
<1>1. /\ d.slot \in Slots /\ d.semantic \in Semantics
      /\ d.version + 1 \in Versions
  BY DEF Descriptor, Versions
<1>2. QED
  BY <1>1, ResourceRefFact DEF CommittedDesc, ResourceRef

\* How a lookup ends.
LEMMA LookupFact ==
    ASSUME NEW d
    PROVE  /\ Lookup(d) \in {"ok", "mismatch", "not_found"}
           /\ Lookup(d) = "ok" =>
                 /\ d.slot \in DOMAIN resources
                 /\ d.version = resources[d.slot].desc.version
           /\ d.slot \in DOMAIN resources => Lookup(d) # "not_found"
  BY DEF Lookup, IsCurrent

-----------------------------------------------------------------------------
(***************************************************************************)
(* Types and honest entries.  Together they are inductive: an entry is      *)
(* created from a content and changed by a commit, which finds it under the *)
(* slot its descriptor says.                                                *)
(***************************************************************************)

GInv == TypeOK /\ EntriesHonest

StoreOK(res, known) ==
    /\ DOMAIN res \subseteq Slots
    /\ res \in [DOMAIN res -> Entry]
    /\ \A s \in DOMAIN res :
          /\ res[s] \in known
          /\ res[s].desc.slot = s
          /\ res[s].desc.idVersion = res[s].desc.version
          /\ res[s].desc.sizeHint = Size[res[s].bytes]

LEMMA GInvParts ==
    /\ GInv <=> /\ nextSlot \in Nat /\ reloads \in 0 .. MaxReloads
                /\ published \subseteq Entry
                /\ StoreOK(resources, published)
                /\ call \in [Clients -> Call] /\ reply \in Reply \cup {None}
    /\ GInv' <=> /\ nextSlot' \in Nat /\ reloads' \in 0 .. MaxReloads
                 /\ published' \subseteq Entry
                 /\ StoreOK(resources', published')
                 /\ call' \in [Clients -> Call] /\ reply' \in Reply \cup {None}
  BY DEF GInv, TypeOK, EntriesHonest, StoreOK

LEMMA AnswerFact ==
    ASSUME NEW op \in Ops, NEW status \in Statuses, NEW req \in Entry \cup {None},
           NEW got \in Entry \cup {None}
    PROVE  Answer(op, status, req, got) \in Reply
  BY DEF Answer, Reply

\* A client that starts, continues or ends a call.
LEMMA CallFact ==
    ASSUME call \in [Clients -> Call], NEW c \in Clients, NEW k \in Call
    PROVE  [call EXCEPT ![c] = k] \in [Clients -> Call]
  OBVIOUS

LEMMA ReturnFact ==
    ASSUME call \in [Clients -> Call], NEW c \in Clients, NEW r \in Reply, Return(c, r)
    PROVE  call' \in [Clients -> Call] /\ reply' \in Reply \cup {None}
  BY CallFact DEF Return, Call

LEMMA ProceedFact ==
    ASSUME call \in [Clients -> Call], NEW c \in Clients, NEW k \in Call, Proceed(c, k)
    PROVE  call' \in [Clients -> Call] /\ reply' \in Reply \cup {None}
  BY CallFact DEF Proceed

\* A step that touches calls and replies only.
LEMMA QuietStep ==
    ASSUME GInv, UNCHANGED <<store, published, reloads>>,
           call' \in [Clients -> Call], reply' \in Reply \cup {None}
    PROVE  GInv'
  BY GInvParts DEF store

LEMMA CreateResourceStep ==
    ASSUME GInv, NEW b \in Contents, NEW sem \in Semantics, UNCHANGED reloads,
           CreateResource([desc |-> ResourceRef(nextSlot + 1, sem, 1, b), bytes |-> b]),
           call' \in [Clients -> Call], reply' \in Reply \cup {None}
    PROVE  GInv'
<1> DEFINE d == ResourceRef(nextSlot + 1, sem, 1, b)
           e == [desc |-> d, bytes |-> b]
<1>1. nextSlot + 1 \in Slots /\ 1 \in Versions
  BY GInvParts DEF Slots, Versions
<1>2. e \in Entry
  BY <1>1, ResourceRefFact
<1>3. /\ d.slot = nextSlot + 1
      /\ d.idVersion = d.version
      /\ d.sizeHint = Size[b]
  BY DEF ResourceRef
<1>4. /\ e.desc.slot = nextSlot + 1
      /\ e.desc.idVersion = e.desc.version
      /\ e.desc.sizeHint = Size[e.bytes]
  BY <1>3
<1> HIDE DEF e
<1>5. /\ nextSlot' = nextSlot + 1
      /\ resources' = Put(resources, nextSlot + 1, e)
      /\ published' = published \cup {e}
  BY DEF CreateResource, e
<1>6. StoreOK(resources, published)
  BY GInvParts
<1>7. /\ DOMAIN resources' = DOMAIN resources \cup {nextSlot + 1}
      /\ resources' \in [DOMAIN resources' -> Entry]
      /\ resources'[nextSlot + 1] = e
      /\ \A x \in DOMAIN resources : x # nextSlot + 1 => resources'[x] = resources[x]
  <2>1. resources \in [DOMAIN resources -> Entry]
    BY <1>6 DEF StoreOK
  <2>2. /\ DOMAIN Put(resources, nextSlot + 1, e) = DOMAIN resources \cup {nextSlot + 1}
        /\ Put(resources, nextSlot + 1, e) \in [DOMAIN Put(resources, nextSlot + 1, e) -> Entry]
        /\ Put(resources, nextSlot + 1, e)[nextSlot + 1] = e
        /\ \A x \in DOMAIN resources :
              x # nextSlot + 1 => Put(resources, nextSlot + 1, e)[x] = resources[x]
    BY <1>2, <2>1 DEF Put
  <2>3. QED
    BY <1>5, <2>2
<1>8. StoreOK(resources', published')
  BY <1>1, <1>4, <1>5, <1>6, <1>7 DEF StoreOK
<1>9. QED
  BY <1>2, <1>5, <1>8, GInvParts

LEMMA CreateStep ==
    ASSUME GInv, NEW c \in Clients, NEW sem \in {"frozen", "cow", "capability"},
           NEW b \in Contents, Create(c, sem, b)
    PROVE  GInv'
<1> DEFINE e == [desc |-> ResourceRef(nextSlot + 1, sem, 1, b), bytes |-> b]
<1>1. sem \in Semantics /\ nextSlot + 1 \in Slots /\ 1 \in Versions
  BY GInvParts DEF Semantics, Slots, Versions
<1>2. e \in Entry
  BY <1>1, ResourceRefFact
<1>3. Answer("create", "ok", None, e) \in Reply
  BY <1>2, AnswerFact DEF Ops, Statuses
<1>4. /\ CreateResource(e) /\ Return(c, Answer("create", "ok", None, e))
      /\ UNCHANGED reloads
  BY DEF Create
<1>5. call' \in [Clients -> Call] /\ reply' \in Reply \cup {None}
  BY <1>3, <1>4, GInvParts, ReturnFact
<1>6. QED
  BY <1>1, <1>4, <1>5, CreateResourceStep

LEMMA ReadStep ==
    ASSUME GInv, NEW c \in Clients, NEW op \in {"collect", "export"},
           NEW e \in published, Read(c, op, e)
    PROVE  GInv'
<1> DEFINE found == Lookup(e.desc)
           entry == resources[e.desc.slot]
<1>1. found \in Statuses /\ op \in Ops /\ e \in Entry
  BY LookupFact, GInvParts DEF Statuses, Ops
<1>2. found = "ok" => entry \in Entry
  BY LookupFact, GInvParts DEF StoreOK
<1>3. /\ \/ Return(c, Answer(op, found, e, None))
         \/ found = "ok" /\ Return(c, Answer(op, "ok", e, entry))
         \/ Return(c, Answer(op, "unsupported", e, None))
      /\ UNCHANGED <<store, published, reloads>>
  BY DEF Read
<1> HIDE DEF found, entry
<1>4. /\ Answer(op, found, e, None) \in Reply
      /\ found = "ok" => Answer(op, "ok", e, entry) \in Reply
      /\ Answer(op, "unsupported", e, None) \in Reply
  BY <1>1, <1>2, AnswerFact DEF Statuses
<1>5. call' \in [Clients -> Call] /\ reply' \in Reply \cup {None}
  BY <1>3, <1>4, GInvParts, ReturnFact
<1>6. QED
  BY <1>3, <1>5, QuietStep

LEMMA UnsupportedStep ==
    ASSUME GInv, NEW c \in Clients, Unsupported(c)
    PROVE  GInv'
<1>1. Answer("other", "unsupported", None, None) \in Reply
  BY AnswerFact DEF Ops, Statuses
<1>2. call' \in [Clients -> Call] /\ reply' \in Reply \cup {None}
  BY <1>1, GInvParts, ReturnFact DEF Unsupported
<1>3. QED
  BY <1>2, QuietStep DEF Unsupported

LEMMA SnapshotReadStep ==
    ASSUME GInv, NEW c \in Clients, NEW e \in published, SnapshotRead(c, e)
    PROVE  GInv'
<1> DEFINE found == Lookup(e.desc)
           k == [pc |-> "insert", req |-> e, source |-> resources[e.desc.slot]]
<1>1. found \in Statuses /\ e \in Entry
  BY LookupFact, GInvParts DEF Statuses
<1>2. found = "ok" => k \in Call
  BY <1>1, LookupFact, GInvParts DEF StoreOK, Call
<1>3. Answer("snapshot", found, e, None) \in Reply
  BY <1>1, AnswerFact DEF Ops
<1>4. /\ \/ Return(c, Answer("snapshot", found, e, None))
         \/ found = "ok" /\ Proceed(c, k)
      /\ UNCHANGED <<store, published, reloads>>
  BY DEF SnapshotRead
<1> HIDE DEF found, k
<1>5. call' \in [Clients -> Call] /\ reply' \in Reply \cup {None}
  BY <1>2, <1>3, <1>4, GInvParts, ReturnFact, ProceedFact
<1>6. QED
  BY <1>4, <1>5, QuietStep

LEMMA SnapshotInsertStep ==
    ASSUME GInv, NEW c \in Clients, SnapshotInsert(c)
    PROVE  GInv'
<1> DEFINE k == call[c]
           b == k.source.bytes
           e == [desc |-> ResourceRef(nextSlot + 1, "snapshot", 1, b), bytes |-> b]
<1>1. k \in Call /\ k.pc = "insert"
  BY GInvParts DEF SnapshotInsert
<1>2. k.req \in Entry /\ b \in Contents
  BY <1>1 DEF Call, Idle, Entry
<1>3. "snapshot" \in Semantics /\ nextSlot + 1 \in Slots /\ 1 \in Versions
  BY GInvParts DEF Semantics, Slots, Versions
<1>4. e \in Entry
  BY <1>2, <1>3, ResourceRefFact
<1>5. Answer("snapshot", "ok", k.req, e) \in Reply
  BY <1>2, <1>4, AnswerFact DEF Ops, Statuses
<1>6. /\ CreateResource(e) /\ Return(c, Answer("snapshot", "ok", k.req, e))
      /\ UNCHANGED reloads
  BY DEF SnapshotInsert, SnapshotBytes
<1>7. call' \in [Clients -> Call] /\ reply' \in Reply \cup {None}
  BY <1>5, <1>6, GInvParts, ReturnFact
<1>8. QED
  BY <1>2, <1>3, <1>6, <1>7, CreateResourceStep

LEMMA CommitStep ==
    ASSUME GInv, NEW c \in Clients, NEW e \in published, NEW i, NEW j,
           NEW b \in Contents, Commit(c, e, i, j, b)
    PROVE  GInv'
<1> DEFINE s == e.desc.slot
           found == Lookup(e.desc)
           new == [desc |-> CommittedDesc(resources[s].desc, b), bytes |-> b]
<1>1. found \in Statuses /\ e \in Entry
  BY LookupFact, GInvParts DEF Statuses
<1>2. /\ Answer("commit", found, e, None) \in Reply
      /\ Answer("commit", "mismatch", e, None) \in Reply
      /\ new \in Entry => Answer("commit", "ok", e, new) \in Reply
  BY <1>1, AnswerFact DEF Ops, Statuses
<1>3. CASE /\ UNCHANGED <<resources, published>>
           /\ \/ Return(c, Answer("commit", found, e, None))
              \/ Return(c, Answer("commit", "mismatch", e, None))
  <2>1. call' \in [Clients -> Call] /\ reply' \in Reply \cup {None}
    <3> HIDE DEF found
    <3>1. QED
      BY <1>2, <1>3, GInvParts, ReturnFact
  <2>2. UNCHANGED <<store, published, reloads>>
    BY <1>3 DEF Commit, store
  <2>3. QED
    BY <2>1, <2>2, QuietStep
<1>4. CASE /\ found = "ok"
           /\ resources' = [resources EXCEPT ![s] = new]
           /\ published' = published \cup {new}
           /\ Return(c, Answer("commit", "ok", e, new))
  <2>1. s \in DOMAIN resources /\ resources[s] \in Entry /\ resources[s].desc.slot = s
    BY <1>4, LookupFact, GInvParts DEF StoreOK
  <2>2. resources[s].desc \in Descriptor
    BY <2>1 DEF Entry
  <2>3. /\ new \in Entry
        /\ new.desc.slot = s
        /\ new.desc.idVersion = new.desc.version
        /\ new.desc.sizeHint = Size[new.bytes]
    BY <2>1, <2>2, CommittedFact
  <2>4. call' \in [Clients -> Call] /\ reply' \in Reply \cup {None}
    BY <1>2, <1>4, <2>3, GInvParts, ReturnFact
  <2>5. StoreOK(resources, published) /\ nextSlot \in Nat /\ published \subseteq Entry
    BY GInvParts
  <2>6. StoreOK(resources', published')
    <3> HIDE DEF new
    <3>1. /\ DOMAIN resources' = DOMAIN resources
          /\ \A t \in DOMAIN resources :
                resources'[t] = IF t = s THEN new ELSE resources[t]
      BY <1>4, <2>1
    <3>2. resources' \in [DOMAIN resources' -> Entry]
      BY <1>4, <2>1, <2>3, <2>5 DEF StoreOK
    <3>3. QED
      BY <1>4, <2>3, <2>5, <3>1, <3>2 DEF StoreOK
  <2>7. published' \subseteq Entry
    BY <1>4, <2>3, <2>5
  <2>8. UNCHANGED <<nextSlot, reloads>>
    BY DEF Commit
  <2>9. QED
    BY <2>4, <2>5, <2>6, <2>7, <2>8, GInvParts
<1>5. QED
  BY <1>3, <1>4 DEF Commit

LEMMA CommandPlanStep ==
    ASSUME GInv, NEW c \in Clients, NEW m \in Commands, CommandPlan(c, m)
    PROVE  GInv'
<1>1. m.capability \in Entry
  BY GInvParts DEF Commands
<1>2. Outcome(m) \in Statuses
  BY LookupFact DEF Outcome, Statuses
<1>3. Answer("command", Outcome(m), m.capability, None) \in Reply
  BY <1>1, <1>2, AnswerFact DEF Ops
<1>4. call' \in [Clients -> Call] /\ reply' \in Reply \cup {None}
  BY <1>3, GInvParts, ReturnFact DEF CommandPlan
<1>5. QED
  BY <1>4, QuietStep DEF CommandPlan

\* The calls that run commands.
CommandCall == [pc : {"steps", "compensate"}, op : {"batch", "saga"},
                steps : Seq(Command), compensations : Seq(Command),
                left : Seq(Command), ran : Seq(Command), cause : Statuses]

LEMMA CommandCallFact ==
    /\ CommandCall \subseteq Call
    /\ \A k \in Call : k.pc \in {"steps", "compensate"} => k \in CommandCall
  BY DEF CommandCall, Call, Idle

LEMMA ListsFact ==
    ASSUME GInv, NEW q \in CommandLists
    PROVE  q \in Seq(Command)
<1>1. Commands \subseteq Command
  BY GInvParts DEF Commands, Command
<1>2. PICK n \in 0 .. MaxCommands : q \in [1 .. n -> Commands]
  BY DEF CommandLists
<1>3. QED
  BY <1>1, <1>2, BoundsAssumption

LEMMA StartCommandsStep ==
    ASSUME GInv, NEW c \in Clients, NEW op \in {"batch", "saga"},
           NEW q \in Seq(Command), NEW r \in Seq(Command), StartCommands(c, op, q, r)
    PROVE  GInv'
<1> DEFINE k == [pc |-> "steps", op |-> op, steps |-> q, compensations |-> r,
                 left |-> q, ran |-> << >>, cause |-> "ok"]
<1>1. k \in CommandCall
  BY DEF CommandCall, Statuses
<1>2. k \in Call
  BY <1>1, CommandCallFact
<1>3. Proceed(c, k) /\ UNCHANGED <<store, published, reloads>>
  BY DEF StartCommands
<1> HIDE DEF k
<1>4. call' \in [Clients -> Call] /\ reply' \in Reply \cup {None}
  BY <1>2, <1>3, GInvParts, ProceedFact
<1>5. QED
  BY <1>3, <1>4, QuietStep

\* The record of a call after its next command.
LEMMA RanFact ==
    ASSUME NEW k \in CommandCall, k.left # << >>, NEW pc \in {"steps", "compensate"},
           NEW o \in Statuses, NEW q \in Seq(Command)
    PROVE  Ran(k, pc, o, q) \in CommandCall
<1>1. /\ k.left \in Seq(Command) /\ k.ran \in Seq(Command)
      /\ k.steps \in Seq(Command) /\ k.compensations \in Seq(Command)
      /\ k.op \in {"batch", "saga"}
  BY DEF CommandCall
<1>2. Head(k.left) \in Command
  BY <1>1
<1>3. Append(k.ran, Head(k.left)) \in Seq(Command)
  BY <1>1, <1>2
<1>4. QED
  BY <1>1, <1>3 DEF Ran, CommandCall

LEMMA RunStepStep ==
    ASSUME GInv, NEW c \in Clients, RunStep(c)
    PROVE  GInv'
<1> DEFINE k == call[c]
           o == Outcome(Head(k.left))
           next == Ran(k, "steps", "ok", Tail(k.left))
           failed == Ran(k, "compensate", o, InReverse(k.compensations))
<1>1. k \in CommandCall /\ k.left # << >>
  BY GInvParts, CommandCallFact DEF RunStep
<1>2. o \in Statuses /\ "ok" \in Statuses
  BY LookupFact DEF Outcome, Statuses
<1>3. InReverse(k.compensations) \in Seq(Command) /\ Tail(k.left) \in Seq(Command)
  BY <1>1, ReverseFact DEF InReverse, CommandCall
<1>4. next \in Call /\ failed \in Call
  <2> HIDE DEF k, o
  <2>1. QED
    BY <1>1, <1>2, <1>3, RanFact, CommandCallFact
<1>5. /\ Proceed(c, next) \/ Proceed(c, failed)
      /\ UNCHANGED <<store, published, reloads>>
  BY DEF RunStep
<1>6. call' \in [Clients -> Call] /\ reply' \in Reply \cup {None}
  <2> HIDE DEF next, failed
  <2>1. QED
    BY <1>4, <1>5, GInvParts, ProceedFact
<1>7. QED
  BY <1>5, <1>6, QuietStep

LEMMA CompensateStep ==
    ASSUME GInv, NEW c \in Clients, Compensate(c)
    PROVE  GInv'
<1> DEFINE k == call[c]
<1>1. k \in CommandCall /\ k.left # << >>
  BY GInvParts, CommandCallFact DEF Compensate
<1>2. k.cause \in Statuses /\ Tail(k.left) \in Seq(Command)
  BY <1>1 DEF CommandCall
<1>3. Ran(k, "compensate", k.cause, Tail(k.left)) \in Call
  <2> HIDE DEF k
  <2>1. QED
    BY <1>1, <1>2, RanFact, CommandCallFact
<1>4. call' \in [Clients -> Call] /\ reply' \in Reply \cup {None}
  BY <1>3, GInvParts, ProceedFact DEF Compensate
<1>5. QED
  BY <1>4, QuietStep DEF Compensate

LEMMA FinishCommandsStep ==
    ASSUME GInv, NEW c \in Clients, FinishCommands(c)
    PROVE  GInv'
<1> DEFINE k == call[c]
           status == IF k.op = "saga" /\ k.cause # "ok" THEN "saga_failed" ELSE k.cause
<1>1. k \in CommandCall
  BY GInvParts, CommandCallFact DEF FinishCommands
<1>2. k.op \in Ops /\ status \in Statuses
  BY <1>1 DEF CommandCall, Ops, Statuses
<1>3. Answer(k.op, status, None, None) \in Reply
  BY <1>2, AnswerFact
<1>4. call' \in [Clients -> Call] /\ reply' \in Reply \cup {None}
  BY <1>3, GInvParts, ReturnFact DEF FinishCommands
<1>5. QED
  BY <1>4, QuietStep DEF FinishCommands

LEMMA ReloadStep ==
    ASSUME GInv, Reload
    PROVE  GInv'
<1>1. StoreOK(resources', published')
  BY DEF Reload, StoreOK
<1>2. reloads' \in 0 .. MaxReloads
  BY GInvParts, BoundsAssumption DEF Reload
<1>3. QED
  BY <1>1, <1>2, GInvParts DEF Reload

LEMMA GInvInit == Init => GInv
<1> SUFFICES ASSUME Init PROVE GInv
  OBVIOUS
<1>1. StoreOK(resources, published)
  BY DEF Init, StoreOK
<1>2. call \in [Clients -> Call]
  BY DEF Init, Call
<1>3. QED
  BY <1>1, <1>2, GInvParts, BoundsAssumption DEF Init

LEMMA GInvNext == GInv /\ [Next]_vars => GInv'
<1> SUFFICES ASSUME GInv, [Next]_vars PROVE GInv'
  OBVIOUS
<1>1. CASE UNCHANGED vars
  BY <1>1, GInvParts DEF vars
<1>2. CASE Reload
  BY <1>2, ReloadStep
<1>3. ASSUME NEW c \in Clients, Begin(c) PROVE GInv'
  <2>1. ASSUME NEW sem \in {"frozen", "cow", "capability"}, NEW b \in Contents,
               Create(c, sem, b)
        PROVE  GInv'
    BY <2>1, CreateStep
  <2>2. ASSUME NEW e \in published, NEW op \in {"collect", "export"}, Read(c, op, e)
        PROVE  GInv'
    BY <2>2, ReadStep
  <2>3. ASSUME NEW e \in published, SnapshotRead(c, e) PROVE GInv'
    BY <2>3, SnapshotReadStep
  <2>4. ASSUME NEW e \in published, NEW i \in Bases(e.desc), NEW j \in Bases(e.desc),
               NEW b \in Contents, Commit(c, e, i, j, b)
        PROVE  GInv'
    BY <2>4, CommitStep
  <2>5. CASE Unsupported(c)
    BY <2>5, UnsupportedStep
  <2>6. ASSUME NEW m \in Commands, CommandPlan(c, m) PROVE GInv'
    BY <2>6, CommandPlanStep
  <2>7. ASSUME NEW op \in {"batch", "saga"}, NEW q \in CommandLists, NEW r \in Seq(Command),
               StartCommands(c, op, q, r)
        PROVE  GInv'
    BY <2>7, ListsFact, StartCommandsStep
  <2>8. \A q \in CommandLists : q \in Seq(Command)
    BY ListsFact
  <2>9. << >> \in Seq(Command)
    OBVIOUS
  <2>10. QED
    BY <1>3, <2>1, <2>2, <2>3, <2>4, <2>5, <2>6, <2>7, <2>8, <2>9 DEF Begin
<1>4. ASSUME NEW c \in Clients, ClientStep(c) PROVE GInv'
  BY <1>3, <1>4, SnapshotInsertStep, RunStepStep, CompensateStep, FinishCommandsStep
     DEF ClientStep
<1>5. QED
  BY <1>1, <1>2, <1>4 DEF Next

\* Types and honest entries are invariants, however many clients there are and
\* however often the provider is loaded again.
THEOREM GInvHolds == Spec => []GInv
<1>1. QED
  BY GInvInit, GInvNext, PTL DEF Spec

\* Every variable keeps its type: no operation of the provider, complete or
\* half-done, produces an entry, a call or an answer out of shape.
THEOREM TypeCorrect == Spec => []TypeOK
<1>1. GInv => TypeOK
  BY DEF GInv
<1>2. QED
  BY <1>1, GInvHolds, PTL

\* The descriptor of every entry says where it is, agrees with itself on the
\* version and on the length of the bytes, and was handed out for those bytes,
\* whatever was created, snapshotted, committed and loaded again.
THEOREM EntriesStayHonest == Spec => []EntriesHonest
<1>1. GInv => EntriesHonest
  BY DEF GInv
<1>2. QED
  BY <1>1, GInvHolds, PTL

-----------------------------------------------------------------------------
(***************************************************************************)
(* One provider that is not loaded again.  A slot then has one semantic for *)
(* good, a version of it one content, and a capability never changes: what  *)
(* a command answers is decided by its plan alone (Granted), which is why   *)
(* it does not matter what runs between the commands of a batch or a saga.  *)
(***************************************************************************)

LoadedOnce == MaxReloads = 0

Granted(m) == m.query /\ m.capability.desc.semantic = "capability"

CurrentSound(res, known, top) ==
    /\ DOMAIN res = 1 .. top
    /\ \A e \in known :
          /\ e.desc.slot \in DOMAIN res
          /\ e.desc.semantic = res[e.desc.slot].desc.semantic
          /\ e.desc.version <= res[e.desc.slot].desc.version
          /\ \/ e.desc.version = res[e.desc.slot].desc.version
             \/ e.desc.semantic = "capability"
             => e = res[e.desc.slot]

StepsSound(k) ==
    /\ k.cause = "ok"
    /\ k.steps = k.ran \o k.left
    /\ \A i \in 1 .. Len(k.ran) : Granted(k.steps[i])

CompensationsSound(k) ==
    /\ k.cause # "ok"
    /\ \E i \in 1 .. Len(k.steps) :
          /\ \A j \in 1 .. i - 1 : Granted(k.steps[j])
          /\ ~Granted(k.steps[i])
          /\ k.ran \o k.left = SubSeq(k.steps, 1, i) \o Reverse(k.compensations)

CallSound(k, known) ==
    /\ k.pc = "insert" => k.source = k.req
    /\ k.pc \in {"steps", "compensate"} =>
          \A i \in 1 .. Len(k.steps) : k.steps[i].capability \in known
    /\ k.pc = "steps" => StepsSound(k)
    /\ k.pc = "compensate" => CompensationsSound(k)

DInv ==
    /\ GInv
    /\ CurrentSound(resources, published, nextSlot)
    /\ \A c \in Clients : CallSound(call[c], published)
    /\ ReadReturnsRequested
    /\ SnapshotFaithful

\* A lookup that succeeds finds what the descriptor was handed out for.
LEMMA FoundFact ==
    ASSUME DInv, NEW e \in published, Lookup(e.desc) = "ok"
    PROVE  e.desc.slot \in DOMAIN resources /\ resources[e.desc.slot] = e
  BY LookupFact DEF DInv, CurrentSound

LEMMA GrantedFact ==
    ASSUME DInv, NEW m \in Command, m.capability \in published
    PROVE  Outcome(m) = "ok" <=> Granted(m)
<1> DEFINE e == m.capability
           s == e.desc.slot
<1>1. ASSUME Outcome(m) = "ok" PROVE Granted(m)
  <2>1. Lookup(e.desc) = "ok" /\ resources[s].desc.semantic = "capability" /\ m.query
    BY <1>1 DEF Outcome
  <2>2. QED
    BY <2>1, FoundFact DEF Granted
<1>2. ASSUME Granted(m) PROVE Outcome(m) = "ok"
  <2>1. s \in DOMAIN resources /\ resources[s] = e
    BY <1>2 DEF Granted, DInv, CurrentSound
  <2>2. e.desc.idVersion = e.desc.version
    BY <2>1, GInvParts DEF DInv, StoreOK
  <2>3. QED
    BY <1>2, <2>1, <2>2 DEF Outcome, Granted, Lookup, IsCurrent
<1>3. QED
  BY <1>1, <1>2

\* What is known of a call stays true as more is handed out.
LEMMA CallsKept ==
    ASSUME GInv, \A x \in Clients : CallSound(call[x], published),
           published \subseteq published',
           NEW c \in Clients, NEW k, CallSound(k, published'),
           call' = [call EXCEPT ![c] = k]
    PROVE  \A x \in Clients : CallSound(call'[x], published')
<1>1. \A x \in Clients : call'[x] = IF x = c THEN k ELSE call[x]
  BY GInvParts
<1>2. \A x \in Clients : CallSound(call[x], published')
  BY DEF CallSound
<1>3. QED
  BY <1>1, <1>2

LEMMA IdleSound == \A known : CallSound(Idle, known)
  BY DEF CallSound, Idle

\* An answer that no property restricts.
Plain(r) == r = None \/ r.op \notin {"collect", "export", "snapshot"} \/ r.status # "ok"

LEMMA PlainFact ==
    ASSUME Plain(reply')
    PROVE  ReadReturnsRequested' /\ SnapshotFaithful'
  BY DEF Plain, ReadReturnsRequested, SnapshotFaithful

LEMMA DQuiet ==
    ASSUME DInv, GInv', UNCHANGED <<store, published>>, NEW c \in Clients, NEW k,
           CallSound(k, published), call' = [call EXCEPT ![c] = k],
           ReadReturnsRequested', SnapshotFaithful'
    PROVE  DInv'
<1>1. \A x \in Clients : CallSound(call'[x], published')
  BY CallsKept DEF DInv
<1>2. QED
  BY <1>1 DEF DInv, store

LEMMA DAnswer ==
    ASSUME DInv, GInv', UNCHANGED <<store, published>>, NEW c \in Clients,
           NEW r, Return(c, r), Plain(r)
    PROVE  DInv'
  BY DQuiet, IdleSound, PlainFact DEF Return

LEMMA DProceed ==
    ASSUME DInv, GInv', UNCHANGED <<store, published>>, NEW c \in Clients,
           NEW k, Proceed(c, k), CallSound(k, published)
    PROVE  DInv'
  BY DQuiet, PlainFact DEF Proceed, Plain

LEMMA DRead ==
    ASSUME DInv, GInv', NEW c \in Clients, NEW op \in {"collect", "export"},
           NEW e \in published, Read(c, op, e)
    PROVE  DInv'
<1> DEFINE found == Lookup(e.desc)
           entry == resources[e.desc.slot]
<1>1. /\ \/ found # "ok" /\ Return(c, Answer(op, found, e, None))
         \/ found = "ok" /\ Return(c, Answer(op, "ok", e, entry))
         \/ Return(c, Answer(op, "unsupported", e, None))
      /\ UNCHANGED <<store, published>>
  BY DEF Read
<1>2. CASE found # "ok" /\ Return(c, Answer(op, found, e, None))
  BY <1>1, <1>2, DAnswer DEF Plain, Answer
<1>3. CASE Return(c, Answer(op, "unsupported", e, None))
  BY <1>1, <1>3, DAnswer DEF Plain, Answer
<1>4. CASE found = "ok" /\ Return(c, Answer(op, "ok", e, entry))
  <2>1. entry = e
    BY <1>4, FoundFact
  <2>2. ReadReturnsRequested' /\ SnapshotFaithful'
    BY <1>4, <2>1 DEF Return, Answer, ReadReturnsRequested, SnapshotFaithful
  <2>3. QED
    BY <1>1, <1>4, <2>2, DQuiet, IdleSound DEF Return
<1>5. QED
  BY <1>1, <1>2, <1>3, <1>4

LEMMA DSnapshotRead ==
    ASSUME DInv, GInv', NEW c \in Clients, NEW e \in published, SnapshotRead(c, e)
    PROVE  DInv'
<1> DEFINE found == Lookup(e.desc)
           k == [pc |-> "insert", req |-> e, source |-> resources[e.desc.slot]]
<1>1. /\ \/ found # "ok" /\ Return(c, Answer("snapshot", found, e, None))
         \/ found = "ok" /\ Proceed(c, k)
      /\ UNCHANGED <<store, published>>
  BY DEF SnapshotRead
<1>2. CASE found # "ok" /\ Return(c, Answer("snapshot", found, e, None))
  BY <1>1, <1>2, DAnswer DEF Plain, Answer
<1>3. CASE found = "ok" /\ Proceed(c, k)
  <2>1. resources[e.desc.slot] = e
    BY <1>3, FoundFact
  <2>2. CallSound(k, published)
    BY <2>1 DEF CallSound
  <2>3. QED
    BY <1>1, <1>3, <2>2, DProceed
<1>4. QED
  BY <1>1, <1>2, <1>3

\* A new slot.
LEMMA DCreateResource ==
    ASSUME DInv, NEW e \in Entry, e.desc.slot = nextSlot + 1, e.desc.version = 1,
           CreateResource(e)
    PROVE  CurrentSound(resources', published', nextSlot')
<1>1. nextSlot \in Nat /\ CurrentSound(resources, published, nextSlot)
  BY GInvParts DEF DInv
<1>2. /\ nextSlot' = nextSlot + 1
      /\ resources' = Put(resources, nextSlot + 1, e)
      /\ published' = published \cup {e}
  BY DEF CreateResource
<1>3. /\ DOMAIN resources' = DOMAIN resources \cup {nextSlot + 1}
      /\ resources'[nextSlot + 1] = e
      /\ \A x \in DOMAIN resources : x # nextSlot + 1 => resources'[x] = resources[x]
  BY <1>2 DEF Put
<1>4. DOMAIN resources' = 1 .. nextSlot'
  <2>1. (1 .. nextSlot) \cup {nextSlot + 1} = 1 .. nextSlot + 1
    BY <1>1
  <2>2. QED
    BY <1>1, <1>2, <1>3, <2>1 DEF CurrentSound
<1>5. \A x \in DOMAIN resources : x # nextSlot + 1
  BY <1>1 DEF CurrentSound
<1>6. QED
  BY <1>1, <1>2, <1>3, <1>4, <1>5 DEF CurrentSound

LEMMA DCreate ==
    ASSUME DInv, GInv', NEW c \in Clients, NEW sem \in {"frozen", "cow", "capability"},
           NEW b \in Contents, Create(c, sem, b)
    PROVE  DInv'
<1> DEFINE e == [desc |-> ResourceRef(nextSlot + 1, sem, 1, b), bytes |-> b]
<1>1. sem \in Semantics /\ nextSlot + 1 \in Slots /\ 1 \in Versions
  BY GInvParts DEF Semantics, Slots, Versions, DInv
<1>2. e \in Entry /\ e.desc.slot = nextSlot + 1 /\ e.desc.version = 1
  BY <1>1, ResourceRefFact DEF ResourceRef
<1>3. CreateResource(e) /\ Return(c, Answer("create", "ok", None, e))
  BY DEF Create
<1> HIDE DEF e
<1>4. CurrentSound(resources', published', nextSlot')
  BY <1>2, <1>3, DCreateResource
<1>5. \A x \in Clients : CallSound(call'[x], published')
  BY <1>3, CallsKept, IdleSound DEF DInv, Return, CreateResource
<1>6. ReadReturnsRequested' /\ SnapshotFaithful'
  BY <1>3, PlainFact DEF Plain, Return, Answer
<1>7. QED
  BY <1>4, <1>5, <1>6 DEF DInv

LEMMA DSnapshotInsert ==
    ASSUME DInv, GInv', NEW c \in Clients, SnapshotInsert(c)
    PROVE  DInv'
<1> DEFINE k == call[c]
           b == k.source.bytes
           e == [desc |-> ResourceRef(nextSlot + 1, "snapshot", 1, b), bytes |-> b]
<1>1. k \in Call /\ k.pc = "insert" /\ k.source = k.req
  BY GInvParts DEF SnapshotInsert, DInv, CallSound
<1>2. k.req \in Entry /\ b \in Contents
  BY <1>1 DEF Call, Idle, Entry
<1>3. "snapshot" \in Semantics /\ nextSlot + 1 \in Slots /\ 1 \in Versions
  BY GInvParts DEF Semantics, Slots, Versions, DInv
<1>4. e \in Entry /\ e.desc.slot = nextSlot + 1 /\ e.desc.version = 1
  BY <1>2, <1>3, ResourceRefFact DEF ResourceRef
<1>5. CreateResource(e) /\ Return(c, Answer("snapshot", "ok", k.req, e))
  BY DEF SnapshotInsert, SnapshotBytes
<1>6. e.bytes = k.req.bytes
  BY <1>1
<1> HIDE DEF e, k
<1>7. CurrentSound(resources', published', nextSlot')
  BY <1>4, <1>5, DCreateResource
<1>8. \A x \in Clients : CallSound(call'[x], published')
  BY <1>5, CallsKept, IdleSound DEF DInv, Return, CreateResource
<1>9. ReadReturnsRequested' /\ SnapshotFaithful'
  BY <1>5, <1>6 DEF Return, Answer, ReadReturnsRequested, SnapshotFaithful
<1>10. QED
  BY <1>7, <1>8, <1>9 DEF DInv

LEMMA DCommit ==
    ASSUME DInv, GInv', NEW c \in Clients, NEW e \in published, NEW i, NEW j,
           NEW b \in Contents, Commit(c, e, i, j, b)
    PROVE  DInv'
<1> DEFINE s == e.desc.slot
           found == Lookup(e.desc)
           new == [desc |-> CommittedDesc(resources[s].desc, b), bytes |-> b]
<1>1. CASE /\ UNCHANGED <<resources, published>>
           /\ \/ Return(c, Answer("commit", found, e, None))
              \/ Return(c, Answer("commit", "mismatch", e, None))
  <2>1. UNCHANGED <<store, published>>
    BY <1>1 DEF Commit, store
  <2>2. QED
    BY <1>1, <2>1, DAnswer DEF Plain, Answer
<1>2. CASE /\ found = "ok"
           /\ PlanAgrees(e.desc, i, j)
           /\ resources' = [resources EXCEPT ![s] = new]
           /\ published' = published \cup {new}
           /\ Return(c, Answer("commit", "ok", e, new))
  <2>1. s \in DOMAIN resources /\ resources[s] = e /\ e.desc.semantic = "cow"
    BY <1>2, FoundFact DEF PlanAgrees
  <2>2. e \in Entry /\ e.desc \in Descriptor
    BY GInvParts DEF DInv, Entry
  <2>3. /\ new.desc.slot = s
        /\ new.desc.semantic = "cow"
        /\ new.desc.version = e.desc.version + 1
    <3>1. new.desc = CommittedDesc(e.desc, b)
      BY <2>1
    <3>2. /\ CommittedDesc(e.desc, b).slot = e.desc.slot
          /\ CommittedDesc(e.desc, b).semantic = e.desc.semantic
          /\ CommittedDesc(e.desc, b).version = e.desc.version + 1
      BY <2>2, CommittedFact
    <3>3. QED
      BY <2>1, <3>1, <3>2
  <2>4. e.desc.version \in Nat
    BY <2>2 DEF Descriptor, Versions
  <2>5. CurrentSound(resources, published, nextSlot) /\ nextSlot' = nextSlot
        /\ \A x \in published : x.desc.version \in Nat
    BY GInvParts DEF DInv, Commit, Entry, Descriptor, Versions
  <2> HIDE DEF new, s
  <2>6. /\ DOMAIN resources' = DOMAIN resources
        /\ resources'[s] = new
        /\ \A t \in DOMAIN resources : t # s => resources'[t] = resources[t]
    BY <1>2, <2>1
  <2>7. \A x \in published :
            /\ x.desc.slot \in DOMAIN resources'
            /\ x.desc.semantic = resources'[x.desc.slot].desc.semantic
            /\ x.desc.version <= resources'[x.desc.slot].desc.version
            /\ \/ x.desc.version = resources'[x.desc.slot].desc.version
               \/ x.desc.semantic = "capability"
               => x = resources'[x.desc.slot]
    <3> TAKE x \in published
    <3>1. CASE x.desc.slot # s
      BY <2>5, <2>6, <3>1 DEF CurrentSound
    <3>2. CASE x.desc.slot = s
      <4>1. x.desc.semantic = "cow" /\ x.desc.version <= e.desc.version
        BY <2>1, <2>5, <3>2 DEF CurrentSound
      <4>2. x.desc.version < new.desc.version
        BY <2>3, <2>4, <2>5, <4>1
      <4>3. QED
        BY <2>1, <2>3, <2>4, <2>5, <2>6, <3>2, <4>1, <4>2
    <3>3. QED
      BY <3>1, <3>2
  <2>8. CurrentSound(resources', published', nextSlot')
    BY <1>2, <2>1, <2>3, <2>4, <2>5, <2>6, <2>7 DEF CurrentSound
  <2>9. \A x \in Clients : CallSound(call'[x], published')
    BY <1>2, CallsKept, IdleSound DEF DInv, Return
  <2>10. ReadReturnsRequested' /\ SnapshotFaithful'
    BY <1>2, PlainFact DEF Plain, Return, Answer
  <2>11. QED
    BY <2>8, <2>9, <2>10 DEF DInv
<1>3. QED
  BY <1>1, <1>2 DEF Commit

LEMMA DStartCommands ==
    ASSUME DInv, GInv', NEW c \in Clients, NEW op \in {"batch", "saga"},
           NEW q \in CommandLists, NEW r, StartCommands(c, op, q, r)
    PROVE  DInv'
<1> DEFINE k == [pc |-> "steps", op |-> op, steps |-> q, compensations |-> r,
                 left |-> q, ran |-> << >>, cause |-> "ok"]
<1>1. Proceed(c, k) /\ UNCHANGED <<store, published>>
  BY DEF StartCommands
<1>2. q \in Seq(Commands)
  BY BoundsAssumption DEF CommandLists
<1>3. q = << >> \o q
  BY <1>2, ConcatEmptySeq
<1>4. \A i \in 1 .. Len(q) : q[i].capability \in published
  <2>1. \A i \in 1 .. Len(q) : q[i] \in Commands
    BY <1>2, ElementOfSeq
  <2>2. QED
    BY <2>1 DEF Commands
<1>5. CallSound(k, published)
  <2>1. /\ k.pc = "steps" /\ k.cause = "ok" /\ k.steps = q /\ k.left = q
        /\ k.ran = << >> /\ Len(k.ran) = 0
    OBVIOUS
  <2> HIDE DEF k
  <2>2. StepsSound(k)
    BY <1>3, <2>1 DEF StepsSound
  <2>3. QED
    BY <1>4, <2>1, <2>2 DEF CallSound
<1>6. QED
  BY <1>1, <1>5, DProceed

\* Moving the head of what is left to the end of what ran.
LEMMA MovedFact ==
    ASSUME NEW ran \in Seq(Command), NEW left \in Seq(Command), left # << >>
    PROVE  /\ Append(ran, Head(left)) \in Seq(Command)
           /\ Tail(left) \in Seq(Command)
           /\ Len(Append(ran, Head(left))) = Len(ran) + 1
           /\ Append(ran, Head(left)) \o Tail(left) = ran \o left
           /\ (ran \o left)[Len(ran) + 1] = Head(left)
           /\ Len(ran) + 1 \in 1 .. Len(ran \o left)
           /\ Append(ran, Head(left)) = SubSeq(ran \o left, 1, Len(ran) + 1)
<1> DEFINE a == Append(ran, Head(left))
           t == Tail(left)
<1>1. /\ Head(left) \in Command /\ t \in Seq(Command) /\ Len(t) = Len(left) - 1
      /\ \A i \in 1 .. Len(t) : t[i] = left[i + 1]
      /\ Len(left) \in Nat \ {0} /\ Len(ran) \in Nat /\ Head(left) = left[1]
  BY HeadTailProperties, EmptySeq
<1>2. /\ a \in Seq(Command) /\ Len(a) = Len(ran) + 1
      /\ \A i \in 1 .. Len(ran) : a[i] = ran[i]
      /\ a[Len(ran) + 1] = Head(left)
  BY <1>1
<1>3. /\ ran \o left \in Seq(Command)
      /\ Len(ran \o left) = Len(ran) + Len(left)
      /\ \A i \in 1 .. Len(ran) + Len(left) :
            (ran \o left)[i] = IF i <= Len(ran) THEN ran[i] ELSE left[i - Len(ran)]
  BY ConcatProperties
<1>4. /\ a \o t \in Seq(Command)
      /\ Len(a \o t) = Len(a) + Len(t)
      /\ \A i \in 1 .. Len(a) + Len(t) :
            (a \o t)[i] = IF i <= Len(a) THEN a[i] ELSE t[i - Len(a)]
  BY <1>1, <1>2, ConcatProperties
<1> HIDE DEF a, t
<1>5. a \o t = ran \o left
  <2>1. Len(a \o t) = Len(ran \o left)
    BY <1>1, <1>2, <1>3, <1>4
  <2>2. ASSUME NEW i \in 1 .. Len(a \o t) PROVE (a \o t)[i] = (ran \o left)[i]
    <3>1. CASE i <= Len(ran)
      BY <1>1, <1>2, <1>3, <1>4, <2>1, <3>1
    <3>2. CASE i = Len(ran) + 1
      BY <1>1, <1>2, <1>3, <1>4, <2>1, <3>2
    <3>3. CASE i > Len(ran) + 1
      <4>1. (a \o t)[i] = t[i - Len(a)] /\ i - Len(a) \in 1 .. Len(t)
        BY <1>1, <1>2, <1>4, <3>3
      <4>2. t[i - Len(a)] = left[i - Len(ran)]
        BY <1>1, <1>2, <4>1
      <4>3. (ran \o left)[i] = left[i - Len(ran)]
        BY <1>1, <1>3, <2>1, <3>3
      <4>4. QED
        BY <4>1, <4>2, <4>3
    <3>4. QED
      <4>1. i \in Int /\ Len(ran) \in Int
        OBVIOUS
      <4>2. i <= Len(ran) \/ i = Len(ran) + 1 \/ i > Len(ran) + 1
        BY ONLY <4>1
      <4>3. QED
        BY <3>1, <3>2, <3>3, <4>2
  <2>3. QED
    BY <1>3, <1>4, <2>1, <2>2, SeqEqual
<1>6. (ran \o left)[Len(ran) + 1] = Head(left)
  BY <1>1, <1>3
<1>7. a = SubSeq(ran \o left, 1, Len(ran) + 1)
  <2> DEFINE u == SubSeq(ran \o left, 1, Len(ran) + 1)
  <2>1. \A i \in 1 .. Len(ran) + 1 : (ran \o left)[i] \in Command
    BY <1>1, <1>3
  <2>2. /\ u \in Seq(Command) /\ Len(u) = Len(ran) + 1
        /\ \A i \in 1 .. Len(ran) + 1 : u[i] = (ran \o left)[i]
    BY <1>1, <2>1, SubSeqProperties
  <2> HIDE DEF u
  <2>3. ASSUME NEW i \in 1 .. Len(a) PROVE a[i] = u[i]
    <3>1. i \in 1 .. Len(ran) \/ i = Len(ran) + 1
      BY <1>1, <1>2
    <3>2. u[i] = (ran \o left)[i]
      BY <1>2, <2>2
    <3>3. CASE i \in 1 .. Len(ran)
      BY <1>1, <1>2, <1>3, <3>2, <3>3
    <3>4. CASE i = Len(ran) + 1
      BY <1>1, <1>2, <1>6, <3>2, <3>4
    <3>5. QED
      BY <3>1, <3>3, <3>4
  <2>4. QED
    BY <1>2, <2>2, <2>3, SeqEqual DEF u
<1>8. QED
  BY <1>1, <1>2, <1>3, <1>5, <1>6, <1>7 DEF a, t

LEMMA DRunStep ==
    ASSUME DInv, GInv', NEW c \in Clients, RunStep(c)
    PROVE  DInv'
<1> DEFINE k == call[c]
           m == Head(k.left)
           o == Outcome(m)
           next == Ran(k, "steps", "ok", Tail(k.left))
           failed == Ran(k, "compensate", o, InReverse(k.compensations))
<1>1. /\ k \in CommandCall /\ k.left # << >> /\ k.pc = "steps"
      /\ CallSound(k, published)
  BY GInvParts, CommandCallFact DEF RunStep, DInv
<1>2. /\ UNCHANGED <<store, published>>
      /\ \/ o = "ok" /\ Proceed(c, next)
         \/ o # "ok" /\ Proceed(c, failed)
  BY DEF RunStep
<1>3. /\ next.pc = "steps" /\ next.cause = "ok" /\ next.steps = k.steps
      /\ next.ran = Append(k.ran, m) /\ next.left = Tail(k.left)
      /\ failed.pc = "compensate" /\ failed.cause = o /\ failed.steps = k.steps
      /\ failed.compensations = k.compensations
      /\ failed.ran = Append(k.ran, m) /\ failed.left = Reverse(k.compensations)
  BY DEF Ran, InReverse
<1>4. m \in Command /\ m.capability \in published => (o = "ok" <=> Granted(m))
  BY GrantedFact
<1>5. m = Head(k.left)
  OBVIOUS
<1> HIDE DEF k, m, o, next, failed
<1>6. /\ k.steps \in Seq(Command) /\ k.left \in Seq(Command) /\ k.ran \in Seq(Command)
      /\ Len(k.ran) \in Nat
  BY <1>1 DEF CommandCall
<1>7. /\ k.steps = k.ran \o k.left
      /\ \A i \in 1 .. Len(k.ran) : Granted(k.steps[i])
      /\ \A i \in 1 .. Len(k.steps) : k.steps[i].capability \in published
  BY <1>1 DEF CallSound, StepsSound
<1>8. /\ Tail(k.left) \in Seq(Command)
      /\ Len(Append(k.ran, m)) = Len(k.ran) + 1
      /\ Append(k.ran, m) \o Tail(k.left) = k.ran \o k.left
      /\ (k.ran \o k.left)[Len(k.ran) + 1] = m
      /\ Len(k.ran) + 1 \in 1 .. Len(k.ran \o k.left)
      /\ Append(k.ran, m) = SubSeq(k.ran \o k.left, 1, Len(k.ran) + 1)
  <2>1. /\ Tail(k.left) \in Seq(Command)
        /\ Len(Append(k.ran, Head(k.left))) = Len(k.ran) + 1
        /\ Append(k.ran, Head(k.left)) \o Tail(k.left) = k.ran \o k.left
        /\ (k.ran \o k.left)[Len(k.ran) + 1] = Head(k.left)
        /\ Len(k.ran) + 1 \in 1 .. Len(k.ran \o k.left)
        /\ Append(k.ran, Head(k.left)) = SubSeq(k.ran \o k.left, 1, Len(k.ran) + 1)
    BY <1>1, <1>6, MovedFact
  <2>2. QED
    BY <1>5, <2>1
<1>9. Len(k.ran) + 1 \in 1 .. Len(k.steps) /\ k.steps[Len(k.ran) + 1] = m
  BY <1>7, <1>8
<1>10. m \in Command /\ m.capability \in published
  BY <1>6, <1>7, <1>9, ElementOfSeq
<1>11. o = "ok" <=> Granted(m)
  BY <1>4, <1>10
<1>12. CASE o = "ok" /\ Proceed(c, next)
  <2>1. ASSUME NEW i \in 1 .. Len(next.ran) PROVE Granted(next.steps[i])
    <3>1. i \in 1 .. Len(k.ran) \/ i = Len(k.ran) + 1
      BY <1>3, <1>6, <1>8
    <3>2. QED
      BY <1>3, <1>7, <1>9, <1>11, <1>12, <3>1
  <2>2. next.steps = next.ran \o next.left
    BY <1>3, <1>7, <1>8
  <2>3. CallSound(next, published)
    BY <1>3, <1>7, <2>1, <2>2 DEF CallSound, StepsSound
  <2>4. QED
    BY <1>2, <1>12, <2>3, DProceed
<1>13. CASE o # "ok" /\ Proceed(c, failed)
  <2>1. (Len(k.ran) + 1) - 1 = Len(k.ran)
    BY <1>6
  <2>2. /\ \A j \in 1 .. (Len(k.ran) + 1) - 1 : Granted(failed.steps[j])
        /\ ~Granted(failed.steps[Len(k.ran) + 1])
    BY <1>3, <1>7, <1>9, <1>11, <1>13, <2>1
  <2>3. failed.ran \o failed.left =
            SubSeq(failed.steps, 1, Len(k.ran) + 1) \o Reverse(failed.compensations)
    BY <1>3, <1>7, <1>8
  <2>4. CompensationsSound(failed)
    BY <1>3, <1>9, <1>13, <2>2, <2>3 DEF CompensationsSound
  <2>5. CallSound(failed, published)
    BY <1>3, <1>7, <2>4 DEF CallSound
  <2>6. QED
    BY <1>2, <1>13, <2>5, DProceed
<1>14. QED
  BY <1>2, <1>12, <1>13

LEMMA DCompensate ==
    ASSUME DInv, GInv', NEW c \in Clients, Compensate(c)
    PROVE  DInv'
<1> DEFINE k == call[c]
           next == Ran(k, "compensate", k.cause, Tail(k.left))
<1>1. /\ k \in CommandCall /\ k.left # << >> /\ k.pc = "compensate"
      /\ CallSound(k, published)
  BY GInvParts, CommandCallFact DEF Compensate, DInv
<1>2. /\ next.pc = "compensate" /\ next.cause = k.cause /\ next.steps = k.steps
      /\ next.compensations = k.compensations
      /\ next.ran = Append(k.ran, Head(k.left)) /\ next.left = Tail(k.left)
  BY DEF Ran
<1>3. Proceed(c, next) /\ UNCHANGED <<store, published>>
  BY DEF Compensate
<1> HIDE DEF next, k
<1>4. k.left \in Seq(Command) /\ k.ran \in Seq(Command)
  BY <1>1 DEF CommandCall
<1>5. Append(k.ran, Head(k.left)) \o Tail(k.left) = k.ran \o k.left
  BY <1>1, <1>4, MovedFact
<1>6. next.ran \o next.left = k.ran \o k.left
  BY <1>2, <1>5
<1>7. CallSound(next, published)
  BY <1>1, <1>2, <1>6 DEF CallSound, CompensationsSound
<1>8. QED
  BY <1>3, <1>7, DProceed

LEMMA DInvInit == Init => DInv
<1> SUFFICES ASSUME Init PROVE DInv
  OBVIOUS
<1>1. CurrentSound(resources, published, nextSlot)
  BY DEF Init, CurrentSound
<1>2. \A c \in Clients : CallSound(call[c], published)
  BY IdleSound DEF Init
<1>3. QED
  BY <1>1, <1>2, GInvInit DEF Init, DInv, ReadReturnsRequested, SnapshotFaithful

LEMMA DInvNext == LoadedOnce /\ DInv /\ [Next]_vars => DInv'
<1> SUFFICES ASSUME LoadedOnce, DInv, [Next]_vars PROVE DInv'
  OBVIOUS
<1>1. GInv'
  BY GInvNext DEF DInv
<1>2. CASE UNCHANGED vars
  BY <1>1, <1>2 DEF vars, DInv, ReadReturnsRequested, SnapshotFaithful
<1>3. ~Reload
  BY GInvParts DEF Reload, LoadedOnce, DInv
<1>4. ASSUME NEW c \in Clients, Begin(c) PROVE DInv'
  <2>1. ASSUME NEW sem \in {"frozen", "cow", "capability"}, NEW b \in Contents,
               Create(c, sem, b)
        PROVE  DInv'
    BY <1>1, <2>1, DCreate
  <2>2. ASSUME NEW e \in published, NEW op \in {"collect", "export"}, Read(c, op, e)
        PROVE  DInv'
    BY <1>1, <2>2, DRead
  <2>3. ASSUME NEW e \in published, SnapshotRead(c, e) PROVE DInv'
    BY <1>1, <2>3, DSnapshotRead
  <2>4. ASSUME NEW e \in published, NEW i \in Bases(e.desc), NEW j \in Bases(e.desc),
               NEW b \in Contents, Commit(c, e, i, j, b)
        PROVE  DInv'
    BY <1>1, <2>4, DCommit
  <2>5. CASE Unsupported(c)
    BY <1>1, <2>5, DAnswer DEF Unsupported, Plain, Answer
  <2>6. ASSUME NEW m \in Commands, CommandPlan(c, m) PROVE DInv'
    BY <1>1, <2>6, DAnswer DEF CommandPlan, Plain, Answer
  <2>7. ASSUME NEW op \in {"batch", "saga"}, NEW q \in CommandLists, NEW r,
               StartCommands(c, op, q, r)
        PROVE  DInv'
    BY <1>1, <2>7, DStartCommands
  <2>8. QED
    BY <1>4, <2>1, <2>2, <2>3, <2>4, <2>5, <2>6, <2>7 DEF Begin
<1>5. ASSUME NEW c \in Clients, FinishCommands(c) PROVE DInv'
  <2>1. call[c].op \in {"batch", "saga"}
    BY <1>5, GInvParts, CommandCallFact DEF FinishCommands, DInv, CommandCall
  <2>2. QED
    BY <1>1, <1>5, <2>1, DAnswer DEF FinishCommands, Plain, Answer
<1>6. ASSUME NEW c \in Clients, ClientStep(c) PROVE DInv'
  BY <1>1, <1>4, <1>5, <1>6, DSnapshotInsert, DRunStep, DCompensate DEF ClientStep
<1>7. QED
  BY <1>2, <1>3, <1>6 DEF Next

LEMMA DInvHolds == LoadedOnce => (Spec => []DInv)
<1> SUFFICES ASSUME LoadedOnce PROVE Spec => []DInv
  OBVIOUS
<1>1. DInv /\ [Next]_vars => DInv'
  BY DInvNext
<1>2. QED
  BY <1>1, DInvInit, PTL DEF Spec

\* A collect or an export that succeeds returns the bytes its descriptor was
\* handed out for.
THEOREM ReadsAreConsistent == LoadedOnce => (Spec => []ReadReturnsRequested)
<1> SUFFICES ASSUME LoadedOnce PROVE Spec => []ReadReturnsRequested
  OBVIOUS
<1>1. DInv => ReadReturnsRequested
  BY DEF DInv
<1>2. QED
  BY <1>1, DInvHolds, PTL

\* A snapshot holds the bytes of the version its plan names, although the mutex
\* is released between the reading and the creation.
THEOREM SnapshotsAreFaithful == LoadedOnce => (Spec => []SnapshotFaithful)
<1> SUFFICES ASSUME LoadedOnce PROVE Spec => []SnapshotFaithful
  OBVIOUS
<1>1. DInv => SnapshotFaithful
  BY DEF DInv
<1>2. QED
  BY <1>1, DInvHolds, PTL

LEMMA DInvAtomic == DInv => CommandsAsIfAtomic
<1> SUFFICES ASSUME DInv, NEW c \in Clients, NEW k, k = call[c],
                    k.pc \in {"steps", "compensate"}, k.left = << >>
             PROVE  \/ /\ \A i \in DOMAIN k.steps : Outcome(k.steps[i]) = "ok"
                       /\ k.cause = "ok"
                       /\ k.ran = k.steps
                    \/ \E i \in DOMAIN k.steps :
                          /\ \A j \in 1 .. i - 1 : Outcome(k.steps[j]) = "ok"
                          /\ ~(Outcome(k.steps[i]) = "ok")
                          /\ k.cause # "ok"
                          /\ k.ran = SubSeq(k.steps, 1, i) \o Reverse(k.compensations)
  BY DEF CommandsAsIfAtomic
<1>1. k \in CommandCall /\ CallSound(k, published)
  BY GInvParts, CommandCallFact DEF DInv
<1>2. /\ k.steps \in Seq(Command) /\ k.ran \in Seq(Command)
      /\ DOMAIN k.steps = 1 .. Len(k.steps) /\ Len(k.steps) \in Nat
  BY <1>1 DEF CommandCall
<1>3. k.ran \o k.left = k.ran
  BY <1>2, ConcatEmptySeq
<1>4. \A i \in 1 .. Len(k.steps) : Outcome(k.steps[i]) = "ok" <=> Granted(k.steps[i])
  <2>1. \A i \in 1 .. Len(k.steps) :
            k.steps[i] \in Command /\ k.steps[i].capability \in published
    BY <1>1, <1>2, ElementOfSeq DEF CallSound
  <2>2. QED
    BY <2>1, GrantedFact
<1>5. CASE k.pc = "steps"
  <2>1. k.cause = "ok" /\ k.ran = k.steps /\ \A i \in 1 .. Len(k.ran) : Granted(k.steps[i])
    BY <1>1, <1>3, <1>5 DEF CallSound, StepsSound
  <2>2. QED
    BY <1>2, <1>4, <2>1
<1>6. CASE k.pc = "compensate"
  <2>1. CompensationsSound(k)
    BY <1>1, <1>6 DEF CallSound
  <2>2. PICK n \in 1 .. Len(k.steps) :
            /\ \A j \in 1 .. n - 1 : Granted(k.steps[j])
            /\ ~Granted(k.steps[n])
            /\ k.ran \o k.left = SubSeq(k.steps, 1, n) \o Reverse(k.compensations)
    BY <2>1 DEF CompensationsSound
  <2>3. k.cause # "ok"
    BY <2>1 DEF CompensationsSound
  <2>4. \A j \in 1 .. n - 1 : Outcome(k.steps[j]) = "ok"
    BY <1>2, <1>4, <2>2
  <2>5. Outcome(k.steps[n]) # "ok" /\ n \in DOMAIN k.steps
    BY <1>2, <1>4, <2>2
  <2>6. QED
    BY <1>3, <2>2, <2>3, <2>4, <2>5
<1>7. QED
  BY <1>5, <1>6

\* A batch or a saga ends as if all its commands had run in one step: what a
\* command answers is fixed by its plan, for a capability never changes.
THEOREM CommandsAreAtomic == LoadedOnce => (Spec => []CommandsAsIfAtomic)
<1> SUFFICES ASSUME LoadedOnce PROVE Spec => []CommandsAsIfAtomic
  OBVIOUS
<1>1. QED
  BY DInvAtomic, DInvHolds, PTL

-----------------------------------------------------------------------------
(***************************************************************************)
(* The provider implements ResourceStore.  The mapping reads the log of a   *)
(* slot off what was handed out, so every version up to the current one has *)
(* to be there, once; and the slots it maps to are enough for the snapshots *)
(* that were begun before the last slot was given.                          *)
(***************************************************************************)

HandedOut(res, known) ==
    /\ \A e \in known : e.desc.idVersion = e.desc.version
    /\ \A e, f \in known :
          e.desc.slot = f.desc.slot /\ e.desc.version = f.desc.version => e = f
    /\ \A s \in DOMAIN res : \A v \in 1 .. res[s].desc.version :
          \E e \in known : e.desc.slot = s /\ e.desc.version = v

\* A snapshot between its two critical sections is of something handed out.
AskedFor == \A c \in Clients : call[c].pc = "insert" => call[c].req \in published

NotInserting == {c \in Clients : call[c].pc # "insert"}
RoomLeft == nextSlot <= MaxSlot + Cardinality(NotInserting)

RInv == DInv /\ HandedOut(resources, published) /\ AskedFor /\ RoomLeft

\* A plan's descriptor that a later commit has replaced.
Replaced(e) == e.desc.version < resources[e.desc.slot].desc.version

\* What a step that stores nothing may answer.
Answered(r) ==
    \/ r = None
    \/ r.status \notin {"ok", "mismatch"}
    \/ r.op \in {"command", "batch", "saga", "other"}
    \/ /\ r.status = "ok" /\ r.op \in {"collect", "export"}
       /\ r.req \in published /\ r.got = r.req
       /\ resources[r.req.desc.slot] = r.req
    \/ /\ r.status = "mismatch" /\ r.op \in {"collect", "export", "snapshot", "commit"}
       /\ r.req \in published
       /\ \/ Replaced(r.req)
          \/ /\ r.op = "commit"
             /\ r.req.desc.version = resources[r.req.desc.slot].desc.version

\* A step that stores nothing.
Quiet(c) ==
    /\ UNCHANGED <<store, published>>
    /\ Answered(reply')
    /\ \E k : /\ call' = [call EXCEPT ![c] = k]
              /\ k.pc = "insert" => k.req \in published /\ nextSlot < MaxSlot

LEMMA QuietReturn ==
    ASSUME NEW c, NEW r, Return(c, r), Answered(r), UNCHANGED <<store, published>>
    PROVE  Quiet(c)
<1>1. call' = [call EXCEPT ![c] = Idle] /\ Answered(reply')
  BY DEF Return
<1>2. Idle.pc # "insert"
  BY DEF Idle
<1> HIDE DEF Idle
<1>3. QED
  BY <1>1, <1>2 DEF Quiet

LEMMA QuietProceed ==
    ASSUME NEW c, NEW k, Proceed(c, k), UNCHANGED <<store, published>>,
           k.pc = "insert" => k.req \in published /\ nextSlot < MaxSlot
    PROVE  Quiet(c)
  BY DEF Proceed, Quiet, Answered

\* A failed lookup is answered as it may be.
LEMMA LookupAnswered ==
    ASSUME RInv, NEW e \in published, Lookup(e.desc) # "ok",
           NEW op \in {"collect", "export", "snapshot", "commit"}
    PROVE  Answered(Answer(op, Lookup(e.desc), e, None))
<1>1. CASE Lookup(e.desc) = "mismatch"
  <2>1. /\ e.desc.slot \in DOMAIN resources
        /\ e.desc.version <= resources[e.desc.slot].desc.version
        /\ e.desc.idVersion = e.desc.version
    BY DEF RInv, DInv, CurrentSound, HandedOut
  <2>2. e.desc.version # resources[e.desc.slot].desc.version
    BY <1>1, <2>1 DEF Lookup, IsCurrent
  <2>3. e.desc.version \in Nat /\ resources[e.desc.slot].desc.version \in Nat
    BY <2>1, GInvParts DEF RInv, DInv, StoreOK, Entry, Descriptor, Versions
  <2>4. Replaced(e)
    BY <2>1, <2>2, <2>3 DEF Replaced
  <2>5. QED
    BY <1>1, <2>4 DEF Answered, Answer
<1>2. CASE Lookup(e.desc) = "not_found"
  BY <1>2 DEF Answered, Answer
<1>3. QED
  BY <1>1, <1>2, LookupFact

LEMMA ReadQuiet ==
    ASSUME RInv, NEW c \in Clients, NEW op \in {"collect", "export"},
           NEW e \in published, Read(c, op, e)
    PROVE  Quiet(c)
<1> DEFINE found == Lookup(e.desc)
           entry == resources[e.desc.slot]
<1>1. /\ \/ found # "ok" /\ Return(c, Answer(op, found, e, None))
         \/ found = "ok" /\ Return(c, Answer(op, "ok", e, entry))
         \/ Return(c, Answer(op, "unsupported", e, None))
      /\ UNCHANGED <<store, published>>
  BY DEF Read
<1>2. CASE found # "ok" /\ Return(c, Answer(op, found, e, None))
  BY <1>1, <1>2, LookupAnswered, QuietReturn
<1>3. CASE found = "ok" /\ Return(c, Answer(op, "ok", e, entry))
  <2>1. entry = e
    BY <1>3, FoundFact DEF RInv
  <2>2. Answered(Answer(op, "ok", e, entry))
    BY <2>1 DEF Answered, Answer
  <2>3. QED
    BY <1>1, <1>3, <2>2, QuietReturn
<1>4. CASE Return(c, Answer(op, "unsupported", e, None))
  <2>1. Answered(Answer(op, "unsupported", e, None))
    BY DEF Answered, Answer
  <2>2. QED
    BY <1>1, <1>4, <2>1, QuietReturn
<1>5. QED
  BY <1>1, <1>2, <1>3, <1>4

LEMMA SnapshotReadQuiet ==
    ASSUME RInv, NEW c \in Clients, NEW e \in published, SnapshotRead(c, e)
    PROVE  Quiet(c)
<1> DEFINE found == Lookup(e.desc)
           k == [pc |-> "insert", req |-> e, source |-> resources[e.desc.slot]]
<1>1. /\ \/ found # "ok" /\ Return(c, Answer("snapshot", found, e, None))
         \/ nextSlot < MaxSlot /\ Proceed(c, k)
      /\ UNCHANGED <<store, published>>
  BY DEF SnapshotRead
<1>2. CASE found # "ok" /\ Return(c, Answer("snapshot", found, e, None))
  BY <1>1, <1>2, LookupAnswered, QuietReturn
<1>3. CASE nextSlot < MaxSlot /\ Proceed(c, k)
  BY <1>1, <1>3, QuietProceed
<1>4. QED
  BY <1>1, <1>2, <1>3

\* A commit that succeeds: e is current, and its successor takes its place.
Committed(c, e, b) ==
    LET new == [desc |-> CommittedDesc(e.desc, b), bytes |-> b] IN
    /\ e \in published
    /\ e.desc.slot \in DOMAIN resources /\ resources[e.desc.slot] = e
    /\ e.desc.semantic = "cow"
    /\ resources' = [resources EXCEPT ![e.desc.slot] = new]
    /\ published' = published \cup {new}
    /\ nextSlot' = nextSlot
    /\ Return(c, Answer("commit", "ok", e, new))

LEMMA CommitCases ==
    ASSUME RInv, NEW c \in Clients, NEW e \in published, NEW i, NEW j,
           NEW b \in Contents, Commit(c, e, i, j, b)
    PROVE  Quiet(c) \/ Committed(c, e, b)
<1> DEFINE s == e.desc.slot
           found == Lookup(e.desc)
           new == [desc |-> CommittedDesc(resources[s].desc, b), bytes |-> b]
<1>1. CASE /\ found # "ok" /\ Return(c, Answer("commit", found, e, None))
           /\ UNCHANGED <<store, published>>
  BY <1>1, LookupAnswered, QuietReturn
<1>2. CASE /\ found = "ok" /\ Return(c, Answer("commit", "mismatch", e, None))
           /\ UNCHANGED <<store, published>>
  <2>1. e.desc.version = resources[s].desc.version
    BY <1>2, LookupFact
  <2>2. Answered(Answer("commit", "mismatch", e, None))
    BY <2>1 DEF Answered, Answer
  <2>3. QED
    BY <1>2, <2>2, QuietReturn
<1>3. CASE /\ found = "ok" /\ PlanAgrees(e.desc, i, j)
           /\ resources' = [resources EXCEPT ![s] = new]
           /\ published' = published \cup {new}
           /\ nextSlot' = nextSlot
           /\ Return(c, Answer("commit", "ok", e, new))
  <2>1. s \in DOMAIN resources /\ resources[s] = e /\ e.desc.semantic = "cow"
    BY <1>3, FoundFact DEF PlanAgrees, RInv
  <2>2. QED
    BY <1>3, <2>1 DEF Committed
<1>4. QED
  BY <1>1, <1>2, <1>3 DEF Commit, store

\* Commands store nothing.
LEMMA CommandsQuiet ==
    ASSUME RInv, NEW c \in Clients
    PROVE  /\ \A m : CommandPlan(c, m) => Quiet(c)
           /\ \A op, steps, compensations :
                 StartCommands(c, op, steps, compensations) => Quiet(c)
           /\ Unsupported(c) \/ RunStep(c) \/ Compensate(c) \/ FinishCommands(c) => Quiet(c)
<1>1. \A op, status, m : op \in {"command", "batch", "saga", "other"} =>
         Answered(Answer(op, status, m, None))
  BY DEF Answered, Answer
<1>2. \A k, pc, cause, left : Ran(k, pc, cause, left).pc = pc
  BY DEF Ran
<1>3. ASSUME NEW m, CommandPlan(c, m) PROVE Quiet(c)
  BY <1>1, <1>3, QuietReturn DEF CommandPlan
<1>4. ASSUME NEW op, NEW steps, NEW compensations,
             StartCommands(c, op, steps, compensations)
      PROVE  Quiet(c)
  BY <1>4, QuietProceed DEF StartCommands
<1>5. CASE Unsupported(c)
  BY <1>1, <1>5, QuietReturn DEF Unsupported
<1>6. CASE RunStep(c)
  BY <1>2, <1>6, QuietProceed DEF RunStep
<1>7. CASE Compensate(c)
  BY <1>2, <1>7, QuietProceed DEF Compensate
<1>8. CASE FinishCommands(c)
  <2>1. call[c] \in Call /\ call[c].pc \in {"steps", "compensate"}
    BY <1>8, GInvParts DEF RInv, DInv, FinishCommands
  <2>2. call[c].op \in {"batch", "saga"}
    BY <2>1, CommandCallFact DEF CommandCall
  <2>3. QED
    BY <1>1, <1>8, <2>2, QuietReturn DEF FinishCommands
<1>9. QED
  BY <1>3, <1>4, <1>5, <1>6, <1>7, <1>8

\* A step of a client stores nothing, makes a new slot or replaces a version.
LEMMA StepCases ==
    ASSUME RInv, NEW c \in Clients, ClientStep(c)
    PROVE  \/ Quiet(c)
           \/ \E sem \in {"frozen", "cow", "capability"}, b \in Contents : Create(c, sem, b)
           \/ SnapshotInsert(c)
           \/ \E e \in published, b \in Contents : Committed(c, e, b)
<1>1. ASSUME NEW e \in published, NEW i, NEW j, NEW b \in Contents, Commit(c, e, i, j, b)
      PROVE  Quiet(c) \/ Committed(c, e, b)
  BY <1>1, CommitCases
<1>2. ASSUME Begin(c)
      PROVE  \/ Quiet(c)
             \/ \E sem \in {"frozen", "cow", "capability"}, b \in Contents :
                   Create(c, sem, b)
             \/ \E e \in published, b \in Contents : Committed(c, e, b)
  <2>1. /\ \A e \in published : \A op \in {"collect", "export"} : Read(c, op, e) => Quiet(c)
        /\ \A e \in published : SnapshotRead(c, e) => Quiet(c)
    BY ReadQuiet, SnapshotReadQuiet
  <2>2. UsesOf[c] \cap {"collect", "export"} \subseteq {"collect", "export"}
    OBVIOUS
  <2>3. QED
    BY <1>1, <1>2, <2>1, <2>2, CommandsQuiet DEF Begin
<1>3. QED
  BY <1>2, CommandsQuiet DEF ClientStep

-----------------------------------------------------------------------------
\* The mapped state.

\* What was handed out keeps the bytes of its slot and version.
LEMMA BytesFact ==
    ASSUME HandedOut(resources, published), NEW e \in published, NEW s, NEW v,
           s = e.desc.slot, v = e.desc.version
    PROVE  BytesOf(s, v) = e.bytes
<1> DEFINE x == CHOOSE y \in published : y.desc.slot = s /\ y.desc.version = v
<1>1. x \in published /\ x.desc.slot = s /\ x.desc.version = v
  OBVIOUS
<1>2. x = e
  BY <1>1 DEF HandedOut
<1>3. QED
  BY <1>2 DEF BytesOf

LEMMA BytesFactNext ==
    ASSUME HandedOut(resources', published'), NEW e \in published', NEW s, NEW v,
           s = e.desc.slot, v = e.desc.version
    PROVE  BytesOf(s, v)' = e.bytes
<1> DEFINE x == CHOOSE y \in published' : y.desc.slot = s /\ y.desc.version = v
<1>1. x \in published' /\ x.desc.slot = s /\ x.desc.version = v
  OBVIOUS
<1>2. x = e
  BY <1>1 DEF HandedOut
<1>3. QED
  BY <1>2 DEF BytesOf

LEMMA LogFact ==
    ASSUME RInv, NEW s \in DOMAIN resources
    PROVE  /\ resources[s] \in Entry /\ resources[s].desc.version \in Nat \ {0}
           /\ LogBar[s] \in Seq(Contents)
           /\ Len(LogBar[s]) = resources[s].desc.version
           /\ \A e \in published : e.desc.slot = s =>
                 /\ e.desc.version \in 1 .. Len(LogBar[s])
                 /\ LogBar[s][e.desc.version] = e.bytes
<1> DEFINE n == resources[s].desc.version
<1>1. resources[s] \in Entry /\ n \in Nat \ {0}
  BY GInvParts DEF RInv, DInv, StoreOK, Entry, Descriptor, Versions
<1>2. \A e \in published : e.desc.slot = s => BytesOf(s, e.desc.version) = e.bytes
  BY BytesFact DEF RInv
<1>3. ASSUME NEW v \in 1 .. n PROVE BytesOf(s, v) \in Contents
  <2>1. PICK e \in published : e.desc.slot = s /\ e.desc.version = v
    BY DEF RInv, HandedOut
  <2>2. e.bytes \in Contents
    BY GInvParts DEF RInv, DInv, Entry
  <2>3. QED
    BY <1>2, <2>1, <2>2
<1>4. LogBar[s] = [v \in 1 .. n |-> BytesOf(s, v)]
  BY DEF LogBar
<1>5. \A e \in published : e.desc.slot = s => e.desc.version \in 1 .. n
  <2> TAKE e \in published
  <2>1. e.desc.version \in Nat \ {0}
    BY GInvParts DEF RInv, DInv, Entry, Descriptor, Versions
  <2>2. e.desc.slot = s => e.desc.version <= n
    BY DEF RInv, DInv, CurrentSound
  <2>3. QED
    BY <1>1, <2>1, <2>2
<1> HIDE DEF n
<1>6. LogBar[s] \in [1 .. n -> Contents]
  BY <1>3, <1>4
<1>7. LogBar[s] \in Seq(Contents) /\ Len(LogBar[s]) = n
  BY <1>1, <1>6
<1>8. QED
  BY <1>1, <1>2, <1>4, <1>5, <1>7 DEF n

\* A step that hands nothing out and stores nothing leaves the mapped store.
LEMMA QuietBar ==
    UNCHANGED <<resources, published>> => LogBar' = LogBar /\ SealedBar' = SealedBar
  BY DEF LogBar, SealedBar, BytesOf

\* More is handed out, and the bytes of what was stay the same.
LEMMA BytesKept ==
    ASSUME HandedOut(resources, published), HandedOut(resources', published'),
           published \subseteq published', NEW s \in DOMAIN resources,
           NEW v \in 1 .. resources[s].desc.version
    PROVE  BytesOf(s, v)' = BytesOf(s, v)
<1>1. PICK e \in published : e.desc.slot = s /\ e.desc.version = v
  BY DEF HandedOut
<1>2. BytesOf(s, v) = e.bytes
  BY <1>1, BytesFact
<1>3. e \in published' /\ BytesOf(s, v)' = e.bytes
  BY <1>1, BytesFactNext
<1>4. QED
  BY <1>2, <1>3

\* A new slot has the log of its one version.
LEMMA NewSlotBar ==
    ASSUME RInv, NEW e \in Entry, e.desc.slot = nextSlot + 1, e.desc.version = 1,
           e.desc.idVersion = 1, CreateResource(e)
    PROVE  /\ HandedOut(resources', published')
           /\ e.desc.slot \notin DOMAIN LogBar
           /\ LogBar' = [t \in DOMAIN LogBar \cup {e.desc.slot} |->
                            IF t = e.desc.slot THEN <<e.bytes>> ELSE LogBar[t]]
           /\ SealedBar' = IF e.desc.semantic # "cow" THEN SealedBar \cup {e.desc.slot}
                           ELSE SealedBar
<1>0. PICK n : n = nextSlot + 1
  OBVIOUS
<1>1. /\ resources' = Put(resources, n, e) /\ published' = published \cup {e}
      /\ DOMAIN resources' = DOMAIN resources \cup {n} /\ resources'[n] = e
      /\ \A x \in DOMAIN resources : x # n => resources'[x] = resources[x]
  BY <1>0 DEF CreateResource, Put
<1>2. n \notin DOMAIN resources
  BY <1>0, GInvParts DEF RInv, DInv, CurrentSound
<1>3. \A x \in published : x.desc.slot \in DOMAIN resources
  BY DEF RInv, DInv, CurrentSound
<1>4. e.desc.slot = n
  BY <1>0
<1>5. HandedOut(resources', published')
  <2>1. \A x \in published' : x.desc.idVersion = x.desc.version
    BY <1>1 DEF RInv, HandedOut
  <2>2. \A x, y \in published' :
           x.desc.slot = y.desc.slot /\ x.desc.version = y.desc.version => x = y
    BY <1>1, <1>2, <1>3, <1>4 DEF RInv, HandedOut
  <2>3. ASSUME NEW s \in DOMAIN resources', NEW v \in 1 .. resources'[s].desc.version
        PROVE  \E x \in published' : x.desc.slot = s /\ x.desc.version = v
    <3>1. CASE s = n
      BY <1>1, <1>4, <3>1
    <3>2. CASE s # n
      BY <1>1, <3>2 DEF RInv, HandedOut
    <3>3. QED
      BY <3>1, <3>2
  <2>4. QED
    BY <2>1, <2>2, <2>3 DEF HandedOut
<1>6. BytesOf(n, 1)' = e.bytes
  <2>1. e \in published' /\ n = e.desc.slot /\ 1 = e.desc.version
    BY <1>1, <1>4
  <2>2. QED
    BY <1>5, <2>1, BytesFactNext
<1>7. \A s \in DOMAIN resources : \A v \in 1 .. resources[s].desc.version :
         BytesOf(s, v)' = BytesOf(s, v)
  BY <1>1, <1>5, BytesKept DEF RInv
<1>8. LogBar' = [t \in DOMAIN resources \cup {n} |->
                    IF t = n THEN <<e.bytes>> ELSE LogBar[t]]
  <2> DEFINE new(t) == [v \in 1 .. resources'[t].desc.version |-> BytesOf(t, v)']
  <2>1. LogBar' = [t \in DOMAIN resources \cup {n} |-> new(t)]
    BY <1>1 DEF LogBar
  <2>2. new(n) = <<e.bytes>>
    BY <1>1, <1>6
  <2>3. ASSUME NEW t \in DOMAIN resources PROVE new(t) = LogBar[t]
    BY <1>1, <1>2, <1>7 DEF LogBar
  <2> HIDE DEF new
  <2>4. QED
    BY <1>2, <2>1, <2>2, <2>3
<1>9. SealedBar' = IF e.desc.semantic # "cow" THEN SealedBar \cup {n} ELSE SealedBar
  BY <1>1, <1>2 DEF SealedBar
<1>10. DOMAIN LogBar = DOMAIN resources
  BY DEF LogBar
<1>11. QED
  BY <1>2, <1>4, <1>5, <1>8, <1>9, <1>10

\* A commit appends to the log of its slot.
Extends(s, b) ==
    /\ s \in DOMAIN LogBar \ SealedBar
    /\ LogBar' = [t \in DOMAIN LogBar \cup {s} |->
                     IF t = s THEN Append(LogBar[t], b) ELSE LogBar[t]]
    /\ SealedBar' = SealedBar

LEMMA SuccessorBar ==
    ASSUME RInv, NEW c \in Clients, NEW e, NEW b \in Contents, Committed(c, e, b)
    PROVE  /\ HandedOut(resources', published')
           /\ Extends(e.desc.slot, b)
           /\ CommittedDesc(e.desc, b).slot = e.desc.slot
           /\ CommittedDesc(e.desc, b).version = Len(LogBar[e.desc.slot]) + 1
<1>0. PICK s, n, d : /\ s = e.desc.slot /\ n = e.desc.version
                     /\ d = [desc |-> CommittedDesc(e.desc, b), bytes |-> b]
  OBVIOUS
<1>1. /\ e \in published /\ s \in DOMAIN resources /\ resources[s] = e
      /\ e.desc.semantic = "cow"
      /\ resources' = [resources EXCEPT ![s] = d] /\ published' = published \cup {d}
  BY <1>0 DEF Committed
<1>2. e \in Entry /\ e.desc \in Descriptor /\ n \in Nat
  BY <1>0, <1>1, GInvParts DEF RInv, DInv, Entry, Descriptor, Versions
<1>3. /\ d.desc.slot = s /\ d.desc.semantic = "cow" /\ d.bytes = b
      /\ d.desc.version = n + 1 /\ d.desc.idVersion = n + 1
  BY <1>0, <1>1, <1>2, CommittedFact
<1>4. /\ DOMAIN resources' = DOMAIN resources /\ resources'[s] = d
      /\ \A t \in DOMAIN resources : t # s => resources'[t] = resources[t]
  BY <1>1
<1>5. \A x \in published : x.desc.slot = s => x.desc.version <= n
  BY <1>0, <1>1 DEF RInv, DInv, CurrentSound
<1>6. \A x \in published : x.desc.version \in Nat
  BY GInvParts DEF RInv, DInv, Entry, Descriptor, Versions
<1>7. HandedOut(resources', published')
  <2>1. \A x \in published' : x.desc.idVersion = x.desc.version
    BY <1>1, <1>3 DEF RInv, HandedOut
  <2>2. \A x \in published : ~(x.desc.slot = s /\ x.desc.version = n + 1)
    BY <1>2, <1>5, <1>6
  <2>3. \A x, y \in published' :
           x.desc.slot = y.desc.slot /\ x.desc.version = y.desc.version => x = y
    BY <1>1, <1>3, <2>2 DEF RInv, HandedOut
  <2>4. ASSUME NEW t \in DOMAIN resources', NEW v \in 1 .. resources'[t].desc.version
        PROVE  \E x \in published' : x.desc.slot = t /\ x.desc.version = v
    <3>1. CASE t # s
      BY <1>1, <1>4, <3>1 DEF RInv, HandedOut
    <3>2. CASE t = s /\ v \in 1 .. n
      BY <1>0, <1>1, <3>2 DEF RInv, HandedOut
    <3>3. CASE t = s /\ v = n + 1
      BY <1>1, <1>3, <3>3
    <3>4. t # s \/ v \in 1 .. n \/ v = n + 1
      BY <1>2, <1>3, <1>4
    <3>5. QED
      BY <3>1, <3>2, <3>3, <3>4
  <2>5. QED
    BY <2>1, <2>3, <2>4 DEF HandedOut
<1>8. /\ DOMAIN LogBar = DOMAIN resources
      /\ LogBar[s] \in Seq(Contents) /\ Len(LogBar[s]) = n
      /\ \A t \in DOMAIN resources :
            LogBar[t] = [v \in 1 .. resources[t].desc.version |-> BytesOf(t, v)]
  BY <1>0, <1>1, LogFact DEF LogBar
<1>9. \A t \in DOMAIN resources : \A v \in 1 .. resources[t].desc.version :
         BytesOf(t, v)' = BytesOf(t, v)
  BY <1>1, <1>7, BytesKept DEF RInv
<1>10. BytesOf(s, n + 1)' = b
  <2>1. d \in published' /\ s = d.desc.slot /\ n + 1 = d.desc.version
    BY <1>1, <1>3
  <2>2. BytesOf(s, n + 1)' = d.bytes
    BY <1>7, <2>1, BytesFactNext
  <2>3. QED
    BY <1>3, <2>2
<1>11. LogBar' = [t \in DOMAIN resources |->
                     IF t = s THEN Append(LogBar[t], b) ELSE LogBar[t]]
  <2> DEFINE new(t) == [v \in 1 .. resources'[t].desc.version |-> BytesOf(t, v)']
  <2>1. LogBar' = [t \in DOMAIN resources |-> new(t)]
    BY <1>4 DEF LogBar
  <2>2. new(s) = Append(LogBar[s], b)
    <3>1. Append(LogBar[s], b)
             = [v \in 1 .. n + 1 |-> IF v = n + 1 THEN b ELSE LogBar[s][v]]
      BY <1>8
    <3>2. \A v \in 1 .. n : LogBar[s][v] = BytesOf(s, v)'
      BY <1>0, <1>1, <1>8, <1>9
    <3>3. \A v \in 1 .. n + 1 : v \in 1 .. n \/ v = n + 1
      BY <1>2
    <3>4. n + 1 \notin 1 .. n
      BY <1>2
    <3>5. \A v \in 1 .. n + 1 : BytesOf(s, v)' = IF v = n + 1 THEN b ELSE LogBar[s][v]
      BY <1>10, <3>2, <3>3, <3>4
    <3>6. new(s) = [v \in 1 .. n + 1 |-> BytesOf(s, v)']
      BY <1>3, <1>4
    <3> HIDE DEF new
    <3>7. QED
      BY <3>1, <3>5, <3>6
  <2>3. ASSUME NEW t \in DOMAIN resources, t # s PROVE new(t) = LogBar[t]
    BY <1>4, <1>8, <1>9, <2>3
  <2> HIDE DEF new
  <2>4. QED
    BY <2>1, <2>2, <2>3
<1>12. SealedBar' = SealedBar /\ s \notin SealedBar
  BY <1>1, <1>3, <1>4 DEF SealedBar
<1>13. DOMAIN LogBar \cup {s} = DOMAIN resources /\ s \in DOMAIN LogBar \ SealedBar
  BY <1>1, <1>8, <1>12
<1>14. LogBar' = [t \in DOMAIN LogBar \cup {s} |->
                     IF t = s THEN Append(LogBar[t], b) ELSE LogBar[t]]
  BY <1>11, <1>13
<1>15. /\ CommittedDesc(e.desc, b).slot = s
       /\ CommittedDesc(e.desc, b).version = Len(LogBar[s]) + 1
  BY <1>0, <1>3, <1>8
<1>16. QED
  BY <1>0, <1>7, <1>12, <1>13, <1>14, <1>15 DEF Extends

-----------------------------------------------------------------------------
\* The slots of the mapping are enough.

LEMMA NotInsertingFacts ==
    /\ IsFiniteSet(NotInserting) /\ Cardinality(NotInserting) \in Nat
    /\ Cardinality(Clients) \in Nat
    /\ Cardinality(NotInserting) <= Cardinality(Clients)
    /\ \A c \in Clients : c \notin NotInserting =>
          Cardinality(NotInserting \cup {c}) = Cardinality(NotInserting) + 1
<1>1. NotInserting \subseteq Clients
  BY DEF NotInserting
<1>2. IsFiniteSet(NotInserting) /\ Cardinality(NotInserting) <= Cardinality(Clients)
  BY <1>1, ClientsAreFinite, FS_Subset
<1>3. QED
  BY <1>2, ClientsAreFinite, FS_CardinalityType, FS_AddElement

\* The clients that insert no snapshot after a step of client c.
LEMMA NotInsertingNext ==
    ASSUME GInv, NEW c \in Clients, NEW k, call' = [call EXCEPT ![c] = k]
    PROVE  NotInserting' = IF k.pc = "insert" THEN NotInserting \ {c}
                           ELSE NotInserting \cup {c}
<1>1. \A x \in Clients : call'[x] = IF x = c THEN k ELSE call[x]
  BY GInvParts
<1>2. QED
  BY <1>1 DEF NotInserting

\* A step that begins no snapshot takes no room away, but for a new slot; one
\* that begins a snapshot finds room for any number of them.
LEMMA RoomKept ==
    ASSUME RInv, NEW c \in Clients, NEW k, call' = [call EXCEPT ![c] = k],
           \/ k.pc # "insert" /\ nextSlot' = nextSlot
           \/ nextSlot' = nextSlot /\ nextSlot < MaxSlot
           \/ nextSlot' = nextSlot + 1 /\ nextSlot < MaxSlot
           \/ /\ nextSlot' = nextSlot + 1
              /\ k.pc # "insert" /\ call[c].pc = "insert"
    PROVE  RoomLeft'
<1>0. GInv /\ nextSlot \in Nat /\ MaxSlot \in Nat
  BY GInvParts, BoundsAssumption DEF RInv, DInv
<1>1. NotInserting' = IF k.pc = "insert" THEN NotInserting \ {c} ELSE NotInserting \cup {c}
  BY <1>0, NotInsertingNext
<1>2. PICK n, m : n = Cardinality(NotInserting) /\ m = Cardinality(NotInserting')
  OBVIOUS
<1>3. n \in Nat /\ m \in Nat /\ nextSlot <= MaxSlot + n
  <2>1. IsFiniteSet(NotInserting')
    BY <1>1, NotInsertingFacts, FS_AddElement, FS_RemoveElement
  <2>2. QED
    BY <1>2, <2>1, NotInsertingFacts, FS_CardinalityType DEF RInv, RoomLeft
<1>4. k.pc # "insert" => n <= m
  BY <1>1, <1>2, <1>3, NotInsertingFacts, FS_AddElement
<1>5. k.pc # "insert" /\ call[c].pc = "insert" => m = n + 1
  BY <1>1, <1>2, NotInsertingFacts DEF NotInserting
<1>6. nextSlot' <= MaxSlot + m
  BY <1>0, <1>3, <1>4, <1>5
<1>7. QED
  BY <1>2, <1>6 DEF RoomLeft

\* What a snapshot was asked for stays handed out.
LEMMA AskedKept ==
    ASSUME RInv, NEW c \in Clients, NEW k, call' = [call EXCEPT ![c] = k],
           published \subseteq published', k.pc = "insert" => k.req \in published
    PROVE  AskedFor'
<1>1. \A x \in Clients : call'[x] = IF x = c THEN k ELSE call[x]
  BY GInvParts DEF RInv, DInv
<1>2. QED
  BY <1>1 DEF RInv, AskedFor

-----------------------------------------------------------------------------
\* Steps map to steps.

\* How an answer that says what was stored is mapped.
LEMMA StoredAnswer ==
    ASSUME NEW op \in {"create", "commit", "snapshot"}, NEW req \in Entry \cup {None},
           NEW e \in Entry, reply' = Answer(op, "ok", req, e)
    PROVE  AnswerBar' = Store!Answer(op, "ok", e.desc.slot, e.desc.version, None)
<1>1. reply' \in Reply
  BY AnswerFact DEF Ops, Statuses
<1>2. reply' # None /\ reply'.status = "ok" /\ reply'.op = op /\ reply'.got = e
  BY <1>1, NoneIsNoReply DEF Answer
<1>3. QED
  BY <1>2 DEF AnswerBar, Store!Answer

LEMMA CreateMaps ==
    ASSUME RInv, DInv', NEW c \in Clients, NEW sem \in {"frozen", "cow", "capability"},
           NEW b \in Contents, Create(c, sem, b)
    PROVE  Store!Next /\ RInv'
<1>0. PICK e : e = [desc |-> ResourceRef(nextSlot + 1, sem, 1, b), bytes |-> b]
  OBVIOUS
<1>1. /\ CreateResource(e) /\ Return(c, Answer("create", "ok", None, e))
      /\ nextSlot < MaxSlot
  BY <1>0 DEF Create
<1>2. sem \in Semantics /\ nextSlot + 1 \in Slots /\ 1 \in Versions /\ nextSlot \in Nat
  BY GInvParts DEF Semantics, Slots, Versions, DInv, RInv
<1>3. /\ e \in Entry /\ e.bytes = b /\ e.desc.slot = nextSlot + 1 /\ e.desc.version = 1
      /\ e.desc.idVersion = 1 /\ e.desc.semantic = sem
  BY <1>0, <1>2, ResourceRefFact DEF ResourceRef
<1>4. /\ HandedOut(resources', published')
      /\ e.desc.slot \notin DOMAIN LogBar
      /\ LogBar' = [t \in DOMAIN LogBar \cup {e.desc.slot} |->
                       IF t = e.desc.slot THEN <<b>> ELSE LogBar[t]]
      /\ SealedBar' = IF sem # "cow" THEN SealedBar \cup {e.desc.slot} ELSE SealedBar
  BY <1>1, <1>3, NewSlotBar
<1>5. AnswerBar' = Store!Answer("create", "ok", e.desc.slot, 1, None)
  BY <1>1, <1>3, StoredAnswer DEF Return
<1>6. e.desc.slot \in 1 .. MaxSlot + Cardinality(Clients)
  BY <1>1, <1>2, <1>3, NotInsertingFacts, BoundsAssumption
<1>7. Store!Create(e.desc.slot, b, sem # "cow")
  BY <1>4, <1>5 DEF Store!Create, Store!With
<1>8. Store!Next
  BY <1>6, <1>7 DEF Store!Next
<1>9. RoomLeft'
  BY <1>1, RoomKept DEF Return, CreateResource
<1>10. AskedFor'
  <2>1. Idle.pc # "insert"
    BY DEF Idle
  <2>2. QED
    BY <1>1, <2>1, AskedKept DEF Return, CreateResource
<1>11. QED
  BY <1>4, <1>8, <1>9, <1>10 DEF RInv

LEMMA SnapshotMaps ==
    ASSUME RInv, DInv', NEW c \in Clients, SnapshotInsert(c)
    PROVE  Store!Next /\ RInv'
<1>0. PICK k, b, e : /\ k = call[c] /\ b = k.source.bytes
                     /\ e = [desc |-> ResourceRef(nextSlot + 1, "snapshot", 1, b),
                             bytes |-> b]
  OBVIOUS
<1>1. k \in Call /\ k.pc = "insert" /\ k.source = k.req /\ k.req \in published
  BY <1>0, GInvParts DEF SnapshotInsert, RInv, DInv, CallSound, AskedFor
<1>2. CreateResource(e) /\ Return(c, Answer("snapshot", "ok", k.req, e))
  BY <1>0 DEF SnapshotInsert, SnapshotBytes
<1>3. k.req \in Entry /\ b \in Contents
  BY <1>0, <1>1 DEF Call, Idle, Entry
<1>4. "snapshot" \in Semantics /\ nextSlot + 1 \in Slots /\ 1 \in Versions /\ nextSlot \in Nat
  BY GInvParts DEF Semantics, Slots, Versions, DInv, RInv
<1>5. /\ e \in Entry /\ e.bytes = b /\ e.desc.slot = nextSlot + 1 /\ e.desc.version = 1
      /\ e.desc.idVersion = 1 /\ e.desc.semantic = "snapshot"
  BY <1>0, <1>3, <1>4, ResourceRefFact DEF ResourceRef
<1>6. /\ HandedOut(resources', published')
      /\ e.desc.slot \notin DOMAIN LogBar
      /\ LogBar' = [t \in DOMAIN LogBar \cup {e.desc.slot} |->
                       IF t = e.desc.slot THEN <<b>> ELSE LogBar[t]]
      /\ SealedBar' = SealedBar \cup {e.desc.slot}
  BY <1>2, <1>5, NewSlotBar
<1>7. AnswerBar' = Store!Answer("snapshot", "ok", e.desc.slot, 1, None)
  BY <1>2, <1>3, <1>5, StoredAnswer DEF Return
<1>8. PICK s, v : s = k.req.desc.slot /\ v = k.req.desc.version
  OBVIOUS
<1>9. s \in DOMAIN LogBar /\ v \in 1 .. Len(LogBar[s]) /\ LogBar[s][v] = b
  <2>1. s \in DOMAIN resources
    BY <1>1, <1>8 DEF RInv, DInv, CurrentSound
  <2>2. QED
    BY <1>0, <1>1, <1>8, <2>1, LogFact DEF LogBar
<1>10. Store!Snapshot(s, v, e.desc.slot)
  BY <1>6, <1>7, <1>9 DEF Store!Snapshot, Store!With, Store!Existing
<1>11. RoomLeft'
  <2>1. Idle.pc # "insert"
    BY DEF Idle
  <2>2. QED
    BY <1>0, <1>1, <1>2, <2>1, RoomKept DEF Return, CreateResource
<1>12. AskedFor'
  <2>1. Idle.pc # "insert"
    BY DEF Idle
  <2>2. QED
    BY <1>2, <2>1, AskedKept DEF Return, CreateResource
<1>13. e.desc.slot \in 1 .. MaxSlot + Cardinality(Clients)
  <2>1. nextSlot' = nextSlot + 1 /\ nextSlot' \in Nat
    BY <1>2, <1>4 DEF CreateResource
  <2>2. nextSlot' <= MaxSlot + Cardinality(NotInserting')
    BY <1>11 DEF RoomLeft
  <2>3. NotInserting' \subseteq Clients
    BY DEF NotInserting
  <2>4. /\ Cardinality(NotInserting') \in Nat
        /\ Cardinality(NotInserting') <= Cardinality(Clients)
    BY <2>3, ClientsAreFinite, FS_Subset, FS_CardinalityType
  <2>5. PICK n, m, l : /\ n = nextSlot' /\ m = Cardinality(NotInserting')
                       /\ l = Cardinality(Clients)
    OBVIOUS
  <2>6. /\ e.desc.slot = n /\ n \in Nat /\ n > 0 /\ m \in Nat /\ l \in Nat
        /\ n <= MaxSlot + m /\ m <= l /\ MaxSlot \in Nat
    BY <1>4, <1>5, <2>1, <2>2, <2>4, <2>5, NotInsertingFacts, BoundsAssumption
  <2>7. QED
    BY <2>5, <2>6
<1>14. Store!Next
  BY <1>9, <1>10, <1>13 DEF Store!Next
<1>15. QED
  BY <1>6, <1>11, <1>12, <1>14 DEF RInv

LEMMA CommitMaps ==
    ASSUME RInv, DInv', NEW c \in Clients, NEW e \in published, NEW b \in Contents,
           Committed(c, e, b)
    PROVE  Store!Next /\ RInv'
<1>0. PICK s, d : s = e.desc.slot /\ d = [desc |-> CommittedDesc(e.desc, b), bytes |-> b]
  OBVIOUS
<1>1. /\ Return(c, Answer("commit", "ok", e, d)) /\ nextSlot' = nextSlot
      /\ published' = published \cup {d}
  BY <1>0 DEF Committed
<1>2. e \in Entry /\ d \in Entry
  BY <1>0, CommittedFact, GInvParts DEF RInv, DInv, Entry
<1>3. /\ HandedOut(resources', published')
      /\ Extends(s, b)
      /\ d.desc.slot = s /\ d.desc.version = Len(LogBar[s]) + 1
  BY <1>0, SuccessorBar
<1>4. AnswerBar' = Store!Answer("commit", "ok", s, Len(LogBar[s]) + 1, None)
  BY <1>1, <1>2, <1>3, StoredAnswer DEF Return
<1>5. Store!Commit(s, b)
  BY <1>3, <1>4 DEF Extends, Store!Commit, Store!With
<1>6. Store!Next
  BY <1>3, <1>5 DEF Extends, Store!Next
<1>7. Idle.pc # "insert"
  BY DEF Idle
<1>8. RoomLeft'
  BY <1>1, <1>7, RoomKept DEF Return
<1>9. AskedFor'
  BY <1>1, <1>7, AskedKept DEF Return
<1>10. QED
  BY <1>3, <1>6, <1>8, <1>9 DEF RInv

LEMMA QuietKeeps ==
    ASSUME RInv, DInv', NEW c \in Clients, Quiet(c)
    PROVE  RInv'
<1>1. /\ UNCHANGED <<nextSlot, resources, published>>
      /\ \E k : /\ call' = [call EXCEPT ![c] = k]
                /\ k.pc = "insert" => k.req \in published /\ nextSlot < MaxSlot
  BY DEF Quiet, store
<1>2. PICK k : /\ call' = [call EXCEPT ![c] = k]
               /\ k.pc = "insert" => k.req \in published /\ nextSlot < MaxSlot
  BY <1>1
<1>3. RoomLeft'
  BY <1>1, <1>2, RoomKept
<1>4. AskedFor'
  BY <1>1, <1>2, AskedKept
<1>5. QED
  BY <1>1, <1>3, <1>4 DEF RInv

\* A step that stores nothing is a read of the current version, finds a plan
\* stale, or shows nothing.
LEMMA QuietMaps ==
    ASSUME RInv, NEW c \in Clients, Quiet(c)
    PROVE  Store!Next
<1>1. UNCHANGED <<resources, published>> /\ Answered(reply')
  BY DEF Quiet, store
<1>2. LogBar' = LogBar /\ SealedBar' = SealedBar
  BY <1>1, QuietBar
<1>3. AnswerBar' = None => Store!Next
  BY <1>2 DEF Store!Next, Store!Other
<1>4. PICK r : r = reply'
  OBVIOUS
<1>5. CASE r = None
  BY <1>3, <1>4, <1>5 DEF AnswerBar
<1>6. CASE r.status \notin {"ok", "mismatch"}
  BY <1>3, <1>4, <1>6 DEF AnswerBar
<1>7. CASE r.op \in {"command", "batch", "saga", "other"}
  BY <1>3, <1>4, <1>7 DEF AnswerBar
<1>8. CASE /\ r # None
           /\ r.status = "ok" /\ r.op \in {"collect", "export"}
           /\ r.req \in published /\ r.got = r.req
           /\ resources[r.req.desc.slot] = r.req
  <2>1. PICK s, v : s = r.req.desc.slot /\ v = r.req.desc.version
    OBVIOUS
  <2>2. /\ s \in DOMAIN LogBar /\ v = Len(LogBar[s]) /\ v \in 1 .. Len(LogBar[s])
        /\ LogBar[s][v] = r.req.bytes
    <3>1. s \in DOMAIN resources
      BY <1>8, <2>1 DEF RInv, DInv, CurrentSound
    <3>2. QED
      BY <1>8, <2>1, <3>1, LogFact DEF LogBar
  <2>3. AnswerBar' = Store!Answer(r.op, "ok", s, v, r.req.bytes)
    BY <1>4, <1>8, <2>1 DEF AnswerBar, Store!Answer
  <2>4. Store!Read(r.op, s, v)
    BY <1>2, <1>8, <2>2, <2>3 DEF Store!Read, Store!Current
  <2>5. QED
    BY <1>8, <2>2, <2>4 DEF Store!Next
<1>9. CASE /\ r.status = "mismatch" /\ r.op \in {"collect", "export", "snapshot", "commit"}
           /\ r.req \in published /\ r.op = "commit"
           /\ r.req.desc.version = resources[r.req.desc.slot].desc.version
  <2>1. RefusedOnItsFace'
    BY <1>1, <1>4, <1>9 DEF RefusedOnItsFace
  <2>2. QED
    BY <1>3, <1>4, <1>9, <2>1 DEF AnswerBar
<1>10. CASE /\ r # None
            /\ r.status = "mismatch" /\ r.op \in {"collect", "export", "snapshot", "commit"}
            /\ r.req \in published /\ Replaced(r.req)
  <2>1. PICK s, v : s = r.req.desc.slot /\ v = r.req.desc.version
    OBVIOUS
  <2>2. s \in DOMAIN LogBar /\ v \in 1 .. Len(LogBar[s]) /\ v < Len(LogBar[s])
    <3>1. s \in DOMAIN resources
      BY <1>10, <2>1 DEF RInv, DInv, CurrentSound
    <3>2. QED
      BY <1>10, <2>1, <3>1, LogFact DEF LogBar, Replaced
  <2>3. ~RefusedOnItsFace'
    <3>1. s \in DOMAIN resources /\ v < resources[s].desc.version
      BY <1>10, <2>1 DEF RInv, DInv, CurrentSound, Replaced
    <3>2. v # resources[s].desc.version
      BY <2>2, <3>1, LogFact
    <3>3. QED
      BY <1>1, <1>4, <2>1, <3>2 DEF RefusedOnItsFace
  <2>4. AnswerBar' = Store!Answer(r.op, "mismatch", s, v, None)
    BY <1>4, <1>10, <2>1, <2>3 DEF AnswerBar, Store!Answer
  <2>5. Store!Stale(r.op, s, v)
    BY <1>2, <2>2, <2>4 DEF Store!Stale, Store!Existing
  <2>6. QED
    BY <1>10, <2>2, <2>5 DEF Store!Next
<1>11. QED
  BY <1>1, <1>4, <1>5, <1>6, <1>7, <1>8, <1>9, <1>10 DEF Answered

LEMMA RInvInit == Init => RInv /\ Store!Init
<1> SUFFICES ASSUME Init PROVE RInv /\ Store!Init
  OBVIOUS
<1>1. DInv
  BY DInvInit
<1>2. /\ nextSlot = 0 /\ DOMAIN resources = {} /\ published = {} /\ reply = None
      /\ \A c \in Clients : call[c].pc # "insert"
  BY DEF Init, Idle
<1>3. RoomLeft
  BY <1>2, NotInsertingFacts, BoundsAssumption DEF RoomLeft
<1>4. RInv
  BY <1>1, <1>2, <1>3 DEF RInv, HandedOut, AskedFor
<1>5. LogBar = [s \in {} |-> << >>] /\ SealedBar = {} /\ AnswerBar = None
  BY <1>2 DEF LogBar, SealedBar, AnswerBar
<1>6. QED
  BY <1>4, <1>5 DEF Store!Init

LEMMA RInvNext ==
    LoadedOnce /\ RInv /\ [Next]_vars => RInv' /\ [Store!Next]_(Store!vars)
<1> SUFFICES ASSUME LoadedOnce, RInv, [Next]_vars
             PROVE  RInv' /\ [Store!Next]_(Store!vars)
  OBVIOUS
<1>1. DInv'
  BY DInvNext DEF RInv
<1>2. CASE UNCHANGED vars
  <2>1. UNCHANGED <<nextSlot, resources, call, reply, published>>
    BY <1>2 DEF vars
  <2>2. LogBar' = LogBar /\ SealedBar' = SealedBar
    BY <2>1, QuietBar
  <2>3. AnswerBar' = AnswerBar
    BY <2>1 DEF AnswerBar, RefusedOnItsFace
  <2>4. RInv'
    BY <1>1, <2>1 DEF RInv, HandedOut, AskedFor, RoomLeft, NotInserting
  <2>5. QED
    BY <2>2, <2>3, <2>4 DEF Store!vars
<1>3. CASE Reload
  BY <1>3, GInvParts DEF Reload, LoadedOnce, RInv, DInv
<1>4. ASSUME NEW c \in Clients, ClientStep(c)
      PROVE  RInv' /\ Store!Next
  BY <1>1, <1>4, StepCases, QuietKeeps, QuietMaps, CreateMaps, SnapshotMaps, CommitMaps
<1>5. QED
  BY <1>2, <1>3, <1>4 DEF Next

\* One provider implements the atomic store for any number of threads: a read
\* and a commit take effect in their critical section, a snapshot when it is
\* entered, with the bytes of the version its plan names, and a plan is called
\* stale only when a newer version was handed out.
THEOREM MemoryIsAtomicStore == LoadedOnce => (Spec => ImplementsResourceStore)
<1> SUFFICES ASSUME LoadedOnce PROVE Spec => ImplementsResourceStore
  OBVIOUS
<1>1. Init => RInv /\ Store!Init
  BY RInvInit
<1>2. RInv /\ [Next]_vars => RInv' /\ [Store!Next]_(Store!vars)
  BY RInvNext
<1>3. QED
  BY <1>1, <1>2, PTL DEF Spec, ImplementsResourceStore, Store!Spec
=============================================================================
