--------------------------- MODULE FsSerialProofs ---------------------------
(* Proofs about FsEffects: effects happen as if one after the other. A task that
   is half done has gone some way from the tree that was there when it began
   towards the one that doing it in one go leaves, and it ends there; so the
   answers given and the tree left are those of running the tasks one by one. *)
EXTENDS FsProofs

-----------------------------------------------------------------------------
(* What an operation does in one go, one equation for each. *)

Done(t, value) == [tree |-> t, result |-> Success(value)]
Undone(t, code) == [tree |-> t, result |-> Failure(code)]

(* The tree without what is at p and below, and with directories down to p. *)
Without(t, p) == [r \in Paths |-> IF IsPrefix(p, r) THEN Absent ELSE t[r]]
WithDirs(t, p) == [r \in Paths |-> IF IsPrefix(r, p) THEN Dir ELSE t[r]]
Unblocked(t, p) == \A r \in Paths : IsPrefix(r, p) => ~Blocks(t, r)
(* The tree with those bytes in a file, and with the temporary file in the place of p. *)
Holding(t, f, bytes) == [t EXCEPT ![f] = File(bytes)]
InPlace(t, p) == [[t EXCEPT ![TmpOf[p]] = Absent] EXCEPT ![p] = t[TmpOf[p]]]

LEMMA AppliedRefused ==
    ASSUME NEW t, NEW task, EffectRefusal(t, task) # "ok"
    PROVE  Applied(t, task) = Undone(t, EffectRefusal(t, task))
  BY DEF Applied, Undone

LEMMA AppliedLooks ==
    ASSUME NEW t, NEW task, EffectRefusal(t, task) = "ok", NEW p, p = NamesOf(t, task).path
    PROVE  /\ task.protocol = Effect("read") =>
                Applied(t, task) = IF IsFile(t, p) THEN Done(t, {t[p].bytes}) ELSE Undone(t, "io")
           /\ task.protocol = Effect("list") =>
                Applied(t, task) = IF IsDir(t, p)
                                     THEN Done(t, {r \in Children(t, p) : Front(r) = p})
                                   ELSE Undone(t, "io")
           /\ task.protocol = Effect("stat") =>
                Applied(t, task) = IF Found(t, p)
                                     THEN Done(t, {<<t[p].kind, Len(t[p].bytes)>>})
                                   ELSE Undone(t, "io")
  BY OpsDiffer DEF Applied, InOneGo, Done, Undone

LEMMA AppliedExists ==
    ASSUME NEW t, NEW task, EffectRefusal(t, task) = "ok", task.protocol = Effect("exists"),
           NEW p, p = NamesOf(t, task).path, NEW value, value = {Found(t, p)}
    PROVE  Applied(t, task) = Done(t, value)
<1>1. Applied(t, task) = [tree |-> t, result |-> Success({Found(t, NamesOf(t, task).path)})]
  BY OpsDiffer DEF Applied, InOneGo
<1>2. QED
  BY <1>1, Zenon DEF Done

LEMMA AppliedWrite ==
    ASSUME NEW t, NEW task, EffectRefusal(t, task) = "ok", task.protocol = Effect("write"),
           NEW p, p = NamesOf(t, task).path, NEW f, f = NamesOf(t, task).file, CanOpen(t, f)
    PROVE  Applied(t, task) = Done(InPlace(Holding(t, f, task.payload.content), p), {})
  BY OpsDiffer DEF Applied, InOneGo, Done, Undone, InPlace, Holding

LEMMA AppliedAppend ==
    ASSUME NEW t, NEW task, EffectRefusal(t, task) = "ok", task.protocol = Effect("append"),
           NEW f, f = NamesOf(t, task).file, NEW bytes, bytes = t[f].bytes \o task.payload.content
    PROVE  Applied(t, task) = IF CanOpen(t, f) THEN Done([t EXCEPT ![f] = File(bytes)], {})
                              ELSE Undone(t, "io")
  BY OpsDiffer DEF Applied, InOneGo, Done, Undone

LEMMA AppliedCopy ==
    ASSUME NEW t, NEW task, EffectRefusal(t, task) = "ok", task.protocol = Effect("copy"),
           NEW p, p = NamesOf(t, task).path, NEW f, f = NamesOf(t, task).file
    PROVE  Applied(t, task) = IF IsFile(t, p) /\ CanOpen(t, f)
                                THEN Done([t EXCEPT ![f] = IF p = f THEN File(<<>>) ELSE t[p]], {})
                              ELSE Undone(t, "io")
  BY OpsDiffer DEF Applied, InOneGo, Done, Undone

LEMMA AppliedMove ==
    ASSUME NEW t, NEW task, EffectRefusal(t, task) = "ok", task.protocol = Effect("move"),
           NEW p, p = NamesOf(t, task).path, NEW q, q = NamesOf(t, task).to
    PROVE  Applied(t, task) = IF CanRename(t, p, q) THEN Done(Renamed(t, p, q), {}) ELSE Undone(t, "io")
  BY OpsDiffer DEF Applied, InOneGo, Done, Undone

LEMMA AppliedRemove ==
    ASSUME NEW t, NEW task, EffectRefusal(t, task) = "ok", task.protocol = Effect("remove"),
           NEW p, p = NamesOf(t, task).path
    PROVE  Applied(t, task) = IF t[p] # Absent THEN Done(Without(t, p), {}) ELSE Undone(t, "io")
  BY OpsDiffer DEF Applied, InOneGo, Done, Undone, Without

LEMMA AppliedMkdir ==
    ASSUME NEW t, NEW task, EffectRefusal(t, task) = "ok", task.protocol = Effect("mkdir"),
           NEW p, p = NamesOf(t, task).path
    PROVE  Applied(t, task) = IF Unblocked(t, p) THEN Done(WithDirs(t, p), {}) ELSE Undone(t, "io")
  BY OpsDiffer DEF Applied, InOneGo, Done, Undone, WithDirs, Unblocked

(* The two ways of saying that a path is directly below another. *)
LEMMA DirectlyBelow ==
    ASSUME NEW t, NEW p \in Paths
    PROVE  {r \in Children(t, p) : Front(r) = p} = {r \in Children(t, p) : Len(r) = Len(p) + 1}
<1> SUFFICES ASSUME NEW r \in Paths, IsPrefix(p, r), r # p
             PROVE  Front(r) = p <=> Len(r) = Len(p) + 1
  BY DEF Children
<1>1. p \in Words /\ r \in Words
  BY PathFacts
<1>2. PICK l \in Nat, m \in Nat : l = Len(p) /\ m = Len(r) /\ 1 =< l
  BY PathFacts
<1>3. ~(m =< l)
  BY <1>1, <1>2, PrefixesEqual
<1>4. Front(r) \in Words /\ Len(Front(r)) = m - 1 /\ IsPrefix(p, Front(r))
  <2>1. m - 1 \in Nat /\ m - 1 \in 0 .. m
    BY <1>2, <1>3
  <2>2. Front(r) \in Words /\ Len(Front(r)) = m - 1
    BY <1>1, <1>2, <2>1, SubWord DEF Front
  <2>3. IsPrefix(p, Front(r))
    BY <1>1, <1>2, <1>3, FrontFacts
  <2>4. QED
    BY <2>2, <2>3
<1>5. Front(r) = p => m = l + 1
  BY <1>2, <1>4
<1>6. m = l + 1 => Front(r) = p
  BY <1>1, <1>2, <1>4, PrefixesEqual
<1>7. QED
  BY <1>2, <1>5, <1>6

-----------------------------------------------------------------------------
(* A task half done: from the tree that was there when it began, `base`, it has
   gone some way towards the tree it ends in. *)

Named(w, base) ==
    /\ Position(w) \in DOMAIN names
    /\ EffectRefusal(base, Current(w)) = "ok"
    /\ names[Position(w)] = NamesOf(base, Current(w))
Whole(base, task) ==
    LET n == NamesOf(base, task)
        c == task.payload.content
    IN  IF task.protocol = Effect("write") THEN c
        ELSE IF task.protocol = Effect("append") THEN base[n.file].bytes \o c
        ELSE IF n.path = n.file THEN <<>> ELSE base[n.path].bytes
Filling(w, base) ==
    \E bytes \in Seq(Chunks), left \in Seq(Chunks) :
      /\ op[w].left = left /\ bytes \o left = Whole(base, Current(w))
      /\ tree = [base EXCEPT ![op[w].file] = File(bytes)]
      /\ CanOpen(base, op[w].file)
      /\ Current(w).protocol = Effect("copy") => IsFile(base, Path(w))
      /\ op[w].step = "rename" => left = <<>>
Removing(t, base, p) ==
    /\ IsDir(base, p) /\ t[p] = base[p]
    /\ \A r \in Paths : t[r] = base[r] \/ (IsPrefix(p, r) /\ t[r] = Absent)
Making(t, base, p) ==
    /\ \A r \in Paths : IsPrefix(r, p) => ~Blocks(base, r)
    /\ \A r \in Paths : t[r] = base[r] \/ (IsPrefix(r, p) /\ t[r] = Dir)
Midway(w, base) ==
    /\ Named(w, base)
    /\ op[w] = Begun => tree = base
    /\ op[w].step \in {"fill", "rename"} => Filling(w, base)
    /\ op[w].step = "remove" => Removing(tree, base, Path(w))
    /\ op[w].step = "mkdir" => Making(tree, base, Path(w))

BaseOK(base) == base \in [Paths -> Nodes] /\ IsTree(base)
Follows(w, base) ==
    /\ BaseOK(base)
    /\ op[w] = Idle => tree = base
    /\ op[w] # Idle => Midway(w, base)

(* The host failed, or a write did. *)
Spoilt(w, result) == result.code = "host" \/ (WriteTask(w) /\ result.code # "ok")

(* A step of a task goes some way, or ends it where doing it in one go would. *)
GoesOn(w, base) == UNCHANGED runtimeVars /\ op'[w] # Idle /\ Midway(w, base)'
EndsAs(w, base, result) ==
    /\ FinishEntry(w, result) /\ result # NoResult /\ op'[w] = Idle
    /\ Spoilt(w, result) \/ Applied(base, Current(w)) = [tree |-> tree', result |-> result]
SerialStep(w, base) == GoesOn(w, base) \/ \E result : EndsAs(w, base, result)

LEMMA EndsFacts ==
    /\ \A v : Success(v) # NoResult /\ Success(v).code = "ok"
    /\ \A c : Failure(c).code = c
    /\ \A c : c # "none" => Failure(c) # NoResult
    /\ \A t, task : EffectRefusal(t, task) # "none"
<1>1. /\ \A v : Success(v).code = "ok"
      /\ \A c : Failure(c).code = c
      /\ NoResult.code = "none"
  BY DEF Success, Failure, NoResult
<1>2. \A t, task : EffectRefusal(t, task) # "none"
  BY DEF EffectRefusal, CheckedPath
<1>3. QED
  BY <1>1, <1>2

LEMMA EndsDone ==
    ASSUME FsInv, NEW w \in Workers, NEW base, NEW v, NEW t, Finish(w, Success(v), t),
           Applied(base, Current(w)) = Done(t, v)
    PROVE  SerialStep(w, base)
<1>1. EndsAs(w, base, Success(v))
  BY EndsFacts DEF EndsAs, Finish, Done, FsInv, OpInv
<1>2. QED
  BY <1>1 DEF SerialStep

LEMMA EndsUndone ==
    ASSUME FsInv, NEW w \in Workers, NEW base, NEW c, c # "none", Finish(w, Failure(c), tree),
           \/ Applied(base, Current(w)) = Undone(tree, c)
           \/ c = "host" \/ (WriteTask(w) /\ c # "ok")
    PROVE  SerialStep(w, base)
<1>1. EndsAs(w, base, Failure(c))
  BY EndsFacts DEF EndsAs, Finish, Undone, Spoilt, FsInv, OpInv
<1>2. QED
  BY <1>1 DEF SerialStep

LEMMA FailsUndone ==
    ASSUME FsInv, NEW w \in Workers, NEW base, Fail(w),
           Applied(base, Current(w)) = Undone(tree, "io") \/ WriteTask(w)
    PROVE  SerialStep(w, base)
  BY EndsUndone DEF Fail

LEMMA SerialRefusals ==
    ASSUME FsInv, NEW w \in Workers, NEW base, Follows(w, base), Refuse(w) \/ HostFails(w)
    PROVE  SerialStep(w, base)
<1>1. CASE Refuse(w)
  <2>1. tree = base /\ EffectRefusal(base, Current(w)) # "ok"
    BY <1>1 DEF Refuse, Follows
  <2>2. QED
    BY <1>1, <2>1, AppliedRefused, EndsFacts, EndsUndone DEF Refuse
<1>2. CASE HostFails(w)
  BY <1>2, EndsUndone DEF HostFails
<1>3. QED
  BY <1>1, <1>2

(* The checks find the names the task has in the tree it began with. *)
LEMMA SerialCheck ==
    ASSUME FsInv, NEW w \in Workers, NEW base, Follows(w, base), Check(w)
    PROVE  SerialStep(w, base)
<1>1. /\ tree = base /\ EffectRefusal(base, Current(w)) = "ok" /\ UNCHANGED <<runtimeVars, tree>>
  BY DEF Check, Follows
<1>2. /\ Position(w) \in DOMAIN names' /\ names'[Position(w)] = NamesOf(base, Current(w))
      /\ op'[w] = Begun
  BY <1>1, CheckKeeps
<1>3. Position(w)' = Position(w) /\ Current(w)' = Current(w)
  BY <1>1 DEF runtimeVars, Position, Current
<1>4. Named(w, base)'
  BY <1>1, <1>2, <1>3 DEF Named
<1>5. Midway(w, base)'
  BY <1>1, <1>2, <1>4, StepsDiffer DEF Midway
<1>6. QED
  BY <1>1, <1>2, <1>5, StepsDiffer DEF SerialStep, GoesOn

LEMMA NamedFacts ==
    ASSUME NEW w \in Workers, NEW base, Named(w, base)
    PROVE  /\ EffectRefusal(base, Current(w)) = "ok"
           /\ Path(w) = NamesOf(base, Current(w)).path /\ To(w) = NamesOf(base, Current(w)).to
           /\ Opened(w) = NamesOf(base, Current(w)).file
  BY DEF Named, Path, To, Opened

LEMMA NamedStays ==
    ASSUME NEW w \in Workers, NEW base, Named(w, base), names' = names,
           Position(w)' = Position(w), Current(w)' = Current(w)
    PROVE  Named(w, base)' /\ Path(w)' = Path(w)
  BY DEF Named, Path

LEMMA BeginsAtBase ==
    ASSUME FsInv, NEW w \in Workers, NEW base, Follows(w, base), NEW o, Begins(w, o)
    PROVE  /\ tree = base /\ BaseOK(base) /\ Named(w, base)
           /\ EffectRefusal(base, Current(w)) = "ok" /\ Current(w).protocol = Effect(o)
           /\ Path(w) \in Paths
           /\ Path(w) = NamesOf(base, Current(w)).path /\ To(w) = NamesOf(base, Current(w)).to
           /\ Opened(w) = NamesOf(base, Current(w)).file
<1>1. op[w] = Begun /\ op[w] # Idle /\ Current(w).protocol = Effect(o) /\ Path(w) \in Paths
  BY BeginsFacts, StepsDiffer
<1>2. BaseOK(base) /\ Midway(w, base) /\ tree = base /\ Named(w, base)
  BY <1>1 DEF Follows, Midway
<1>3. QED
  BY <1>1, <1>2, NamedFacts

LEMMA SerialLooks ==
    ASSUME FsInv, NEW w \in Workers, NEW base, Follows(w, base),
           Read(w) \/ List(w) \/ Stat(w) \/ Exists(w)
    PROVE  SerialStep(w, base)
<1>1. CASE Read(w)
  <2>1. Begins(w, "read")
    BY <1>1 DEF Read
  <2>2. Applied(base, Current(w)) = IF IsFile(tree, Path(w)) THEN Done(tree, {tree[Path(w)].bytes})
          ELSE Undone(tree, "io")
    BY <2>1, BeginsAtBase, AppliedLooks
  <2>3. QED
    BY <1>1, <2>2, EndsDone, FailsUndone DEF Read
<1>2. CASE List(w)
  <2>1. Begins(w, "list")
    BY <1>2 DEF List
  <2>2. Applied(base, Current(w)) =
          IF IsDir(tree, Path(w))
            THEN Done(tree, {r \in Children(tree, Path(w)) : Front(r) = Path(w)})
          ELSE Undone(tree, "io")
    BY <2>1, BeginsAtBase, AppliedLooks
  <2>3. {r \in Children(tree, Path(w)) : Front(r) = Path(w)}
          = {q \in Children(tree, Path(w)) : Len(q) = Len(Path(w)) + 1}
    BY <2>1, BeginsAtBase, DirectlyBelow
  <2>4. QED
    BY <1>2, <2>2, <2>3, EndsDone, FailsUndone DEF List
<1>3. CASE Stat(w)
  <2>1. Begins(w, "stat")
    BY <1>3 DEF Stat
  <2>2. Applied(base, Current(w)) =
          IF Found(tree, Path(w))
            THEN Done(tree, {<<tree[Path(w)].kind, Len(tree[Path(w)].bytes)>>})
          ELSE Undone(tree, "io")
    BY <2>1, BeginsAtBase, AppliedLooks
  <2>3. QED
    BY <1>3, <2>2, EndsDone, FailsUndone DEF Stat
<1>4. CASE Exists(w)
  <2>1. Begins(w, "exists")
    BY <1>4 DEF Exists
  <2>2. PICK value : value = {Found(tree, Path(w))}
    OBVIOUS
  <2>3. Finish(w, Success(value), tree)
    BY <1>4, <2>2, Zenon DEF Exists
  <2>4. PICK p : p = Path(w) /\ p = NamesOf(base, Current(w)).path
    BY <2>1, BeginsAtBase
  <2>5. value = {Found(base, p)}
    BY <2>1, <2>2, <2>4, BeginsAtBase, Zenon
  <2>6. Applied(base, Current(w)) = Done(base, value)
    BY <2>1, <2>4, <2>5, BeginsAtBase, AppliedExists, Zenon
  <2>7. QED
    BY <2>1, <2>3, <2>6, BeginsAtBase, EndsDone
<1>5. QED
  BY <1>1, <1>2, <1>3, <1>4

(* Below a path that has no children nothing is left to remove. *)
LEMMA RemovedWhole ==
    ASSUME NEW t \in [Paths -> Nodes], NEW p \in Paths, Children(t, p) = {}
    PROVE  [t EXCEPT ![p] = Absent] = Without(t, p)
<1>1. IsPrefix(p, p)
  BY PathFacts, PrefixSelf
<1>2. \A r \in Paths : IsPrefix(p, r) /\ r # p => t[r] = Absent
  BY DEF Children
<1>3. QED
  BY <1>1, <1>2 DEF Without

LEMMA SerialMove ==
    ASSUME FsInv, NEW w \in Workers, NEW base, Follows(w, base), Move(w)
    PROVE  SerialStep(w, base)
<1>1. Begins(w, "move")
  BY DEF Move
<1>2. PICK p, q : p = Path(w) /\ q = To(w)
  OBVIOUS
<1>3. /\ tree = base /\ EffectRefusal(base, Current(w)) = "ok" /\ Current(w).protocol = Effect("move")
      /\ p = NamesOf(base, Current(w)).path /\ q = NamesOf(base, Current(w)).to
  BY <1>1, <1>2, BeginsAtBase
<1>4. Applied(base, Current(w)) =
        IF CanRename(base, p, q) THEN Done(Renamed(base, p, q), {}) ELSE Undone(base, "io")
  BY <1>3, AppliedMove
<1>5. IF CanRename(base, p, q) THEN Finish(w, Success({}), Renamed(base, p, q)) ELSE Fail(w)
  BY <1>2, <1>3 DEF Move
<1>6. QED
  BY <1>3, <1>4, <1>5, EndsDone, FailsUndone

LEMMA SerialRemoveFile ==
    ASSUME FsInv, NEW w \in Workers, NEW base, Follows(w, base), RemoveFile(w)
    PROVE  SerialStep(w, base)
<1>1. Begins(w, "remove") /\ ~IsDir(tree, Path(w)) /\ Path(w) \in Paths
  BY BeginsFacts DEF RemoveFile
<1>2. PICK p \in Paths : p = Path(w)
  BY <1>1
<1>3. /\ tree = base /\ BaseOK(base) /\ ~IsDir(base, p)
      /\ EffectRefusal(base, Current(w)) = "ok" /\ Current(w).protocol = Effect("remove")
      /\ p = NamesOf(base, Current(w)).path
  BY <1>1, <1>2, BeginsAtBase
<1>4. Applied(base, Current(w)) =
        IF base[p] # Absent THEN Done(Without(base, p), {}) ELSE Undone(base, "io")
  BY <1>3, AppliedRemove
<1>5. Without(base, p) = [base EXCEPT ![p] = Absent]
  <2>1. Children(base, p) = {}
    BY <1>3, ChildlessUnlessDir DEF BaseOK
  <2>2. QED
    BY <1>3, <2>1, RemovedWhole DEF BaseOK
<1>6. IF base[p] # Absent THEN Finish(w, Success({}), [base EXCEPT ![p] = Absent]) ELSE Fail(w)
  BY <1>2, <1>3 DEF RemoveFile
<1>7. QED
  BY <1>3, <1>4, <1>5, <1>6, EndsDone, FailsUndone

(* Filling a file: what is stored and what is left make the whole. *)
LEMMA GoesOnFilling ==
    ASSUME FsInv, NEW w \in Workers, NEW base, NEW s \in {"fill", "rename"}, NEW f,
           NEW bytes \in Seq(Chunks), NEW left \in Seq(Chunks), NEW t,
           Continue(w, Op(s, f, left), t), t = [base EXCEPT ![f] = File(bytes)],
           bytes \o left = Whole(base, Current(w)), CanOpen(base, f), Named(w, base),
           Current(w).protocol = Effect("copy") => IsFile(base, Path(w)),
           s = "rename" => left = <<>>
    PROVE  GoesOn(w, base)
<1>1. /\ op'[w].step = s /\ op'[w].file = f /\ op'[w].left = left /\ tree' = t
      /\ Current(w)' = Current(w) /\ Path(w)' = Path(w) /\ Named(w, base)'
  <2>1. Current(w)' = Current(w) /\ Path(w)' = Path(w) /\ Named(w, base)'
    BY ContinueFacts, NamedStays
  <2>2. /\ op'[w].step = s /\ op'[w].file = f /\ op'[w].left = left /\ tree' = t
    BY ContinueContent
  <2>3. QED
    BY <2>1, <2>2
<1>2. \E b \in Seq(Chunks), l \in Seq(Chunks) :
        /\ op'[w].left = l /\ b \o l = Whole(base, Current(w)')
        /\ tree' = [base EXCEPT ![op'[w].file] = File(b)]
        /\ CanOpen(base, op'[w].file)
        /\ Current(w)'.protocol = Effect("copy") => IsFile(base, Path(w)')
        /\ op'[w].step = "rename" => l = <<>>
  BY <1>1
<1>3. Filling(w, base)'
  BY <1>2 DEF Filling
<1>4. Midway(w, base)'
  BY <1>1, <1>3, StepsDiffer DEF Midway
<1>5. op'[w] # Idle
  BY <1>1, StepsDiffer
<1>6. QED
  BY <1>4, <1>5 DEF GoesOn, Continue

LEMMA SerialOpenWrite ==
    ASSUME FsInv, NEW w \in Workers, NEW base, Follows(w, base), OpenWrite(w)
    PROVE  SerialStep(w, base)
<1>1. Begins(w, "write")
  BY DEF OpenWrite
<1>2. /\ tree = base /\ Named(w, base) /\ Position(w) \in DOMAIN names
      /\ Current(w).protocol = Effect("write")
  BY <1>1, BeginsAtBase DEF Named
<1>3. PICK left, f : left \in Seq(Chunks) /\ left = Content(w) /\ f = Opened(w)
  BY <1>2, ContentFacts
<1>4. CASE CanOpen(base, f)
  <2>1. PICK t : Continue(w, Op("fill", f, left), t) /\ t = [base EXCEPT ![f] = File(<<>>)]
    BY <1>2, <1>3, <1>4 DEF OpenWrite
  <2>2. <<>> \in Seq(Chunks) /\ <<>> \o left = Whole(base, Current(w))
    BY <1>2, <1>3, ChunkFacts DEF Whole, Content
  <2>3. Current(w).protocol # Effect("copy")
    BY <1>2, OpsDiffer
  <2>4. GoesOn(w, base)
    BY <1>2, <1>3, <1>4, <2>1, <2>2, <2>3, GoesOnFilling
  <2>5. QED
    BY <2>4 DEF SerialStep
<1>5. CASE ~CanOpen(base, f)
  <2>1. Fail(w) /\ WriteTask(w)
    BY <1>2, <1>3, <1>5 DEF OpenWrite, WriteTask, IsOp, Current
  <2>2. QED
    BY <2>1, FailsUndone
<1>6. QED
  BY <1>4, <1>5

LEMMA SerialOpenAppend ==
    ASSUME FsInv, NEW w \in Workers, NEW base, Follows(w, base), OpenAppend(w)
    PROVE  SerialStep(w, base)
<1>1. Begins(w, "append")
  BY DEF OpenAppend
<1>2. /\ tree = base /\ BaseOK(base) /\ Named(w, base) /\ Position(w) \in DOMAIN names
      /\ EffectRefusal(base, Current(w)) = "ok" /\ Current(w).protocol = Effect("append")
  BY <1>1, BeginsAtBase DEF Named
<1>3. PICK left, f : left \in Seq(Chunks) /\ left = Content(w) /\ f = Opened(w)
  BY <1>2, ContentFacts
<1>4. f = NamesOf(base, Current(w)).file
  BY <1>2, <1>3, NamedFacts
<1>5. CASE CanOpen(base, f)
  <2>1. PICK bytes \in Seq(Chunks) : bytes = base[f].bytes
    BY <1>2, <1>5, NodeFacts DEF BaseOK, CanOpen
  <2>2. PICK t : Continue(w, Op("fill", f, left), t) /\ t = [base EXCEPT ![f] = File(bytes)]
    BY <1>2, <1>3, <1>5, <2>1 DEF OpenAppend
  <2>3. bytes \o left = Whole(base, Current(w))
    BY <1>2, <1>3, <1>4, <2>1, OpsDiffer DEF Whole, Content
  <2>4. Current(w).protocol # Effect("copy")
    BY <1>2, OpsDiffer
  <2>5. GoesOn(w, base)
    BY <1>2, <1>3, <1>5, <2>2, <2>3, <2>4, GoesOnFilling
  <2>6. QED
    BY <2>5 DEF SerialStep
<1>6. CASE ~CanOpen(base, f)
  <2>1. Fail(w)
    BY <1>2, <1>3, <1>6 DEF OpenAppend
  <2>2. Applied(base, Current(w)) = Undone(tree, "io")
    BY <1>2, <1>4, <1>6, AppliedAppend
  <2>3. QED
    BY <2>1, <2>2, FailsUndone
<1>7. QED
  BY <1>5, <1>6

LEMMA SerialOpenCopy ==
    ASSUME FsInv, NEW w \in Workers, NEW base, Follows(w, base), OpenCopy(w)
    PROVE  SerialStep(w, base)
<1>1. Begins(w, "copy")
  BY DEF OpenCopy
<1>2. /\ tree = base /\ BaseOK(base) /\ Named(w, base)
      /\ EffectRefusal(base, Current(w)) = "ok" /\ Current(w).protocol = Effect("copy")
      /\ Path(w) \in Paths
  BY <1>1, BeginsAtBase
<1>3. PICK p, q : p \in Paths /\ p = Path(w) /\ q = Opened(w)
  BY <1>2
<1>4. p = NamesOf(base, Current(w)).path /\ q = NamesOf(base, Current(w)).file
  BY <1>2, <1>3, NamedFacts
<1>5. CASE IsFile(base, p) /\ CanOpen(base, q)
  <2>1. PICK t, left :
          /\ Continue(w, Op("fill", q, left), t) /\ t = [base EXCEPT ![q] = File(<<>>)]
          /\ left = t[p].bytes
    BY <1>2, <1>3, <1>5 DEF OpenCopy
  <2>2. left = IF p = q THEN <<>> ELSE base[p].bytes
    BY <1>2, <1>3, <1>5, <2>1 DEF BaseOK, CanOpen, File, Node
  <2>3. left \in Seq(Chunks) /\ left = Whole(base, Current(w))
    BY <1>2, <1>3, <1>4, <2>2, OpsDiffer, NodeFacts DEF BaseOK, Whole
  <2>4. <<>> \in Seq(Chunks) /\ <<>> \o left = Whole(base, Current(w))
    BY <2>3, ChunkFacts
  <2>5. GoesOn(w, base)
    BY <1>2, <1>3, <1>5, <2>1, <2>3, <2>4, GoesOnFilling
  <2>6. QED
    BY <2>5 DEF SerialStep
<1>6. CASE ~(IsFile(base, p) /\ CanOpen(base, q))
  <2>1. Fail(w)
    BY <1>2, <1>3, <1>6 DEF OpenCopy
  <2>2. Applied(base, Current(w)) = Undone(tree, "io")
    BY <1>2, <1>4, <1>6, AppliedCopy
  <2>3. QED
    BY <2>1, <2>2, FailsUndone
<1>7. QED
  BY <1>5, <1>6

(* A task that fills a file, in the terms of the tree it began with. *)
LEMMA FillingFacts ==
    ASSUME FsInv, NEW w \in Workers, NEW base, Follows(w, base), NEW s \in {"fill", "rename"}, At(w, s)
    PROVE  /\ BaseOK(base) /\ Busy(w) /\ Underway(w) /\ op[w].step = s
           /\ Named(w, base) /\ EffectRefusal(base, Current(w)) = "ok"
           /\ Path(w) \in Paths /\ Path(w) = NamesOf(base, Current(w)).path
           /\ op[w].file \in Paths /\ op[w].file = Opened(w)
           /\ op[w].file = NamesOf(base, Current(w)).file
           /\ Current(w).protocol \in {Effect("write"), Effect("append"), Effect("copy")}
           /\ Filling(w, base)
<1>1. /\ Busy(w) /\ Underway(w) /\ op[w].step = s
      /\ Path(w) \in Paths /\ op[w] # Idle
  BY AtFacts, StepsDiffer
<1>2. BaseOK(base) /\ Named(w, base) /\ Filling(w, base)
  BY <1>1 DEF Follows, Midway
<1>3. /\ op[w].file \in Paths /\ op[w].file = Opened(w)
      /\ Current(w).protocol \in {Effect("write"), Effect("append"), Effect("copy")}
  BY <1>1, StepsDiffer DEF Underway
<1>4. QED
  BY <1>1, <1>2, <1>3, NamedFacts

LEMMA SerialFill ==
    ASSUME FsInv, NEW w \in Workers, NEW base, Follows(w, base), Fill(w)
    PROVE  SerialStep(w, base)
<1>1. At(w, "fill") /\ op[w].left # <<>>
  BY DEF Fill
<1>2. /\ BaseOK(base) /\ Named(w, base) /\ op[w].step = "fill" /\ op[w].file \in Paths
      /\ Filling(w, base)
  BY <1>1, FillingFacts
<1>3. PICK f \in Paths : f = op[w].file
  BY <1>2
<1>4. PICK bytes \in Seq(Chunks), left \in Seq(Chunks) :
        /\ op[w].left = left /\ bytes \o left = Whole(base, Current(w))
        /\ tree = [base EXCEPT ![f] = File(bytes)] /\ CanOpen(base, f)
        /\ Current(w).protocol = Effect("copy") => IsFile(base, Path(w))
  BY <1>2, <1>3 DEF Filling
<1>5. tree[f] = File(bytes) /\ IsFile(tree, f) /\ tree[f].bytes = bytes
  BY <1>2, <1>4 DEF BaseOK, IsFile, File, Node
<1>6. PICK more, rest : more = Append(bytes, Head(left)) /\ rest = Tail(left)
  OBVIOUS
<1>7. more \in Seq(Chunks) /\ rest \in Seq(Chunks) /\ more \o rest = Whole(base, Current(w))
  BY <1>1, <1>4, <1>6, ChunkFacts
<1>8. PICK t : Continue(w, Op("fill", f, rest), t) /\ t = [tree EXCEPT ![f] = File(more)]
  BY <1>3, <1>4, <1>5, <1>6 DEF Fill
<1>9. t = [base EXCEPT ![f] = File(more)]
  BY <1>2, <1>4, <1>8 DEF BaseOK
<1>10. GoesOn(w, base)
  BY <1>2, <1>4, <1>7, <1>8, <1>9, GoesOnFilling
<1>11. QED
  BY <1>10 DEF SerialStep

LEMMA SerialFillEnds ==
    ASSUME FsInv, NEW w \in Workers, NEW base, Follows(w, base), FillEnds(w)
    PROVE  SerialStep(w, base)
<1>1. At(w, "fill") /\ op[w].left = <<>>
  BY DEF FillEnds
<1>2. /\ BaseOK(base) /\ Named(w, base) /\ EffectRefusal(base, Current(w)) = "ok"
      /\ op[w].step = "fill" /\ op[w].file \in Paths /\ Path(w) \in Paths /\ Filling(w, base)
      /\ Current(w).protocol \in {Effect("write"), Effect("append"), Effect("copy")}
  BY <1>1, FillingFacts
<1>3. PICK f \in Paths, p \in Paths :
        /\ f = op[w].file /\ p = Path(w)
        /\ f = NamesOf(base, Current(w)).file /\ p = NamesOf(base, Current(w)).path
  BY <1>1, <1>2, FillingFacts
<1>4. PICK bytes \in Seq(Chunks) :
        /\ bytes = Whole(base, Current(w))
        /\ tree = [base EXCEPT ![f] = File(bytes)] /\ CanOpen(base, f)
        /\ Current(w).protocol = Effect("copy") => IsFile(base, p)
  <2>1. \A bytes \in Seq(Chunks) : bytes \o <<>> = bytes
    BY NodeFacts, ChunkFacts
  <2>2. QED
    BY <1>1, <1>2, <1>3, <2>1 DEF Filling
<1>5. CASE Current(w).protocol = Effect("write")
  <2>1. PICK t, left : /\ Continue(w, Op("rename", f, left), t) /\ t = tree /\ left = <<>>
    BY <1>3, <1>5 DEF FillEnds
  <2>2. left \in Seq(Chunks) /\ bytes \o left = Whole(base, Current(w))
    BY <1>4, <2>1, NodeFacts, ChunkFacts
  <2>3. GoesOn(w, base)
    BY <1>2, <1>3, <1>4, <2>1, <2>2, GoesOnFilling
  <2>4. QED
    BY <2>3 DEF SerialStep
<1>6. CASE Current(w).protocol = Effect("append")
  <2>1. bytes = base[f].bytes \o Content(w)
    BY <1>3, <1>4, <1>6, OpsDiffer DEF Whole, Content
  <2>2. Applied(base, Current(w)) = Done([base EXCEPT ![f] = File(bytes)], {})
    BY <1>2, <1>3, <1>4, <1>6, <2>1, AppliedAppend DEF Content
  <2>3. Finish(w, Success({}), tree)
    BY <1>6, OpsDiffer DEF FillEnds
  <2>4. QED
    BY <1>4, <2>1, <2>2, <2>3, EndsDone
<1>7. CASE Current(w).protocol = Effect("copy")
  <2>1. bytes = IF p = f THEN <<>> ELSE base[p].bytes
    BY <1>3, <1>4, <1>7, OpsDiffer DEF Whole
  <2>2. File(bytes) = IF p = f THEN File(<<>>) ELSE base[p]
    BY <1>2, <1>4, <1>7, <2>1, NodeFacts DEF BaseOK, IsFile
  <2>3. Applied(base, Current(w)) = Done([base EXCEPT ![f] = IF p = f THEN File(<<>>) ELSE base[p]], {})
    BY <1>2, <1>3, <1>4, <1>7, <2>1, AppliedCopy
  <2>4. Finish(w, Success({}), tree)
    BY <1>7, OpsDiffer DEF FillEnds
  <2>5. QED
    BY <1>4, <2>2, <2>3, <2>4, EndsDone
<1>8. QED
  BY <1>2, <1>5, <1>6, <1>7

LEMMA SerialRenameWritten ==
    ASSUME FsInv, NEW w \in Workers, NEW base, Follows(w, base), RenameWritten(w)
    PROVE  SerialStep(w, base)
<1>1. At(w, "rename")
  BY DEF RenameWritten
<1>2. /\ BaseOK(base) /\ Underway(w) /\ op[w].step = "rename"
      /\ EffectRefusal(base, Current(w)) = "ok" /\ Filling(w, base)
      /\ op[w].file \in Paths /\ Path(w) \in Paths
  BY <1>1, FillingFacts
<1>3. PICK f \in Paths, p \in Paths :
        /\ f = op[w].file /\ p = Path(w)
        /\ f = NamesOf(base, Current(w)).file /\ p = NamesOf(base, Current(w)).path
  BY <1>1, <1>2, FillingFacts
<1>4. /\ Current(w).protocol = Effect("write") /\ ~IsDir(tree, TmpOf[p]) /\ TmpOf[p] \in Paths
      /\ Position(w) \in DOMAIN names
  BY <1>2, <1>3, PathFacts, StepsDiffer DEF Underway
<1>5. PICK c \in Seq(Chunks) :
        /\ c = Content(w) /\ tree = [base EXCEPT ![f] = File(c)] /\ CanOpen(base, f)
  <2>1. \A bytes \in Seq(Chunks) : bytes \o <<>> = bytes
    BY NodeFacts, ChunkFacts
  <2>2. Whole(base, Current(w)) = Content(w)
    BY <1>4 DEF Whole, Content
  <2>3. QED
    BY <1>2, <1>3, <2>1, <2>2 DEF Filling
<1>6. PICK from \in Paths : from = TmpOf[p]
  BY <1>4
<1>7. CASE CanRename(tree, from, p)
  <2>1. Finish(w, Success({}), Renamed(tree, from, p))
    BY <1>3, <1>6, <1>7 DEF RenameWritten
  <2>2. Renamed(tree, from, p) = InPlace(tree, p)
    <3>1. tree = [r \in Paths |-> tree[r]]
      BY <1>2, <1>5 DEF BaseOK
    <3>2. InPlace(tree, p) =
            [r \in Paths |-> IF r = p THEN tree[from] ELSE IF r = from THEN Absent ELSE tree[r]]
      BY <1>6, <3>1 DEF InPlace
    <3>3. CASE from = p
      BY <3>1, <3>2, <3>3 DEF Renamed
    <3>4. CASE from # p
      <4>1. PICK u : u = Renamed(tree, from, p)
        OBVIOUS
      <4>2. u[p] = tree[from] /\ u[from] = Absent /\ \A r \in Paths \ {from, p} : u[r] = tree[r]
        BY <1>4, <1>6, <1>7, <3>4, <4>1, RenameOfFile DEF FsInv
      <4>3. u = [r \in Paths |-> u[r]]
        BY <3>4, <4>1 DEF Renamed
      <4>4. QED
        BY <3>2, <3>4, <4>1, <4>2, <4>3
    <3>5. QED
      BY <3>3, <3>4
  <2>3. Applied(base, Current(w)) = Done(InPlace(tree, p), {})
    <3>1. PICK task, u : task = Current(w) /\ u = tree
      OBVIOUS
    <3>2. /\ EffectRefusal(base, task) = "ok" /\ task.protocol = Effect("write")
          /\ p = NamesOf(base, task).path /\ f = NamesOf(base, task).file
          /\ CanOpen(base, f)
      BY <1>2, <1>3, <1>4, <1>5, <3>1
    <3>3. u = Holding(base, f, task.payload.content)
      BY <1>5, <3>1 DEF Content, Holding
    <3>4. Applied(base, task) = Done(InPlace(Holding(base, f, task.payload.content), p), {})
      BY <3>2, AppliedWrite
    <3>5. QED
      BY <3>1, <3>3, <3>4
  <2>4. QED
    BY <2>1, <2>2, <2>3, EndsDone
<1>8. CASE ~CanRename(tree, from, p)
  <2>1. Fail(w) /\ WriteTask(w)
    BY <1>3, <1>4, <1>6, <1>8 DEF RenameWritten, WriteTask, IsOp, Current
  <2>2. QED
    BY <2>1, FailsUndone
<1>9. QED
  BY <1>7, <1>8

LEMMA GoesOnDirs ==
    ASSUME FsInv, NEW w \in Workers, NEW base, NEW s \in {"remove", "mkdir"}, NEW t,
           Continue(w, Op(s, <<>>, <<>>), t), Named(w, base),
           s = "remove" => Removing(t, base, Path(w)),
           s = "mkdir" => Making(t, base, Path(w))
    PROVE  GoesOn(w, base)
<1>1. Path(w)' = Path(w) /\ op'[w] = Op(s, <<>>, <<>>) /\ tree' = t /\ Named(w, base)'
  BY ContinueFacts, NamedStays
<1>2. op'[w].step = s /\ op'[w] # Idle /\ op'[w] # Begun
  BY <1>1, StepsDiffer
<1>3. Midway(w, base)'
  BY <1>1, <1>2 DEF Midway
<1>4. QED
  BY <1>2, <1>3 DEF GoesOn, Continue

LEMMA SerialRemoveDir ==
    ASSUME FsInv, NodesInv, NEW w \in Workers, NEW base, Follows(w, base), RemoveDir(w)
    PROVE  SerialStep(w, base)
<1>1. /\ EffectRefusal(base, Current(w)) = "ok" /\ Current(w).protocol = Effect("remove")
      /\ Named(w, base) /\ Path(w) = NamesOf(base, Current(w)).path
      /\ Path(w) \in Paths /\ IsDir(tree, Path(w)) /\ BaseOK(base)
      /\ tree = base \/ Removing(tree, base, Path(w))
  <2>1. IsDir(tree, Path(w)) /\ (Begins(w, "remove") \/ At(w, "remove"))
    BY DEF RemoveDir
  <2>2. CASE Begins(w, "remove")
    BY <2>1, <2>2, BeginsAtBase
  <2>3. CASE At(w, "remove")
    BY <2>1, <2>3, AtFacts, StepsDiffer, NamedFacts DEF Underway, Follows, Midway
  <2>4. QED
    BY <2>1, <2>2, <2>3
<1>2. PICK p \in Paths : p = Path(w)
  BY <1>1
<1>3. Removing(tree, base, p)
  BY <1>1, <1>2 DEF Removing
<1>4. tree \in [Paths -> Nodes] /\ base \in [Paths -> Nodes] /\ IsDir(base, p)
  BY <1>1, <1>3 DEF NodesInv, BaseOK, Removing
<1>5. CASE Children(tree, p) = {}
  <2>1. Finish(w, Success({}), [tree EXCEPT ![p] = Absent])
    BY <1>2, <1>5 DEF RemoveDir
  <2>2. [tree EXCEPT ![p] = Absent] = Without(tree, p)
    BY <1>4, <1>5, RemovedWhole
  <2>3. Without(tree, p) = Without(base, p)
    BY <1>3 DEF Without, Removing
  <2>4. base[p] # Absent
    BY <1>4, KindsDiffer DEF IsDir
  <2>5. Applied(base, Current(w)) = Done(Without(base, p), {})
    BY <1>1, <1>2, <2>4, AppliedRemove
  <2>6. QED
    BY <2>1, <2>2, <2>3, <2>5, EndsDone
<1>6. CASE Children(tree, p) # {}
  <2>1. PICK q \in Children(tree, p) :
           Continue(w, Op("remove", <<>>, <<>>), [tree EXCEPT ![q] = Absent])
    BY <1>2, <1>6 DEF RemoveDir
  <2>2. PICK t : t = [tree EXCEPT ![q] = Absent]
    OBVIOUS
  <2>3. q \in Paths /\ q # p /\ IsPrefix(p, q)
    BY DEF Children
  <2>4. Removing(t, base, p)
    BY <1>3, <1>4, <2>2, <2>3 DEF Removing
  <2>5. GoesOn(w, base)
    BY <1>1, <1>2, <2>1, <2>2, <2>4, GoesOnDirs
  <2>6. QED
    BY <2>5 DEF SerialStep
<1>7. QED
  BY <1>5, <1>6

LEMMA SerialMakeDir ==
    ASSUME FsInv, NodesInv, NEW w \in Workers, NEW base, Follows(w, base), MakeDir(w)
    PROVE  SerialStep(w, base)
<1>1. /\ EffectRefusal(base, Current(w)) = "ok" /\ Current(w).protocol = Effect("mkdir")
      /\ Named(w, base) /\ Path(w) = NamesOf(base, Current(w)).path
      /\ Path(w) \in Paths /\ BaseOK(base)
      /\ tree = base \/ Making(tree, base, Path(w))
  <2>1. CASE Begins(w, "mkdir")
    BY <2>1, BeginsAtBase
  <2>2. CASE At(w, "mkdir")
    BY <2>2, AtFacts, StepsDiffer, NamedFacts DEF Underway, Follows, Midway
  <2>3. QED
    BY <2>1, <2>2 DEF MakeDir
<1>2. PICK p \in Paths : p = Path(w)
  BY <1>1
<1>3. tree \in [Paths -> Nodes] /\ base \in [Paths -> Nodes]
  BY <1>1 DEF NodesInv, BaseOK
<1> DEFINE missing == {q \in Paths : IsPrefix(q, p) /\ tree[q] = Absent}
<1>4. CASE ~Unblocked(tree, p)
  <2>1. Fail(w)
    BY <1>2, <1>4 DEF MakeDir, Unblocked
  <2>2. ~Making(tree, base, p)
    BY <1>4, KindsDiffer DEF Making, Unblocked, Blocks
  <2>3. tree = base
    BY <1>1, <1>2, <2>2
  <2>4. Applied(base, Current(w)) = Undone(tree, "io")
    BY <1>1, <1>2, <1>4, <2>3, AppliedMkdir
  <2>5. QED
    BY <2>1, <2>4, FailsUndone
<1>5. CASE Unblocked(tree, p)
  <2>1. Making(tree, base, p)
    BY <1>1, <1>2, <1>5 DEF Making, Unblocked
  <2>2. CASE missing = {}
    <3>1. Finish(w, Success({}), tree)
      BY <1>2, <1>5, <2>2 DEF MakeDir, Unblocked
    <3>2. \A r \in Paths : IsPrefix(r, p) => tree[r] = Dir
      BY <1>3, <1>5, <2>2, NodeFacts DEF Unblocked, Blocks, Nodes
    <3>3. tree = WithDirs(base, p)
      BY <1>3, <2>1, <3>2 DEF WithDirs, Making
    <3>4. Unblocked(base, p)
      BY <2>1 DEF Making, Unblocked
    <3>5. Applied(base, Current(w)) = Done(tree, {})
      BY <1>1, <1>2, <3>3, <3>4, AppliedMkdir
    <3>6. QED
      BY <3>1, <3>5, EndsDone
  <2>3. CASE missing # {}
    <3>1. PICK q \in missing : Continue(w, Op("mkdir", <<>>, <<>>), [tree EXCEPT ![q] = Dir])
      BY <1>2, <1>5, <2>3 DEF MakeDir, Unblocked
    <3>2. PICK t : t = [tree EXCEPT ![q] = Dir]
      OBVIOUS
    <3>3. q \in Paths /\ IsPrefix(q, p)
      OBVIOUS
    <3>4. Making(t, base, p)
      BY <1>3, <2>1, <3>2, <3>3 DEF Making
    <3>5. GoesOn(w, base)
      BY <1>1, <1>2, <3>1, <3>2, <3>4, GoesOnDirs
    <3>6. QED
      BY <3>5 DEF SerialStep
  <2>4. QED
    BY <2>2, <2>3
<1>6. QED
  BY <1>4, <1>5

LEMMA EffectStepSerial ==
    ASSUME FsInv, NodesInv, NEW w \in Workers, NEW base, Follows(w, base),
           EffectStep(w) \/ HostFails(w)
    PROVE  SerialStep(w, base)
  BY SerialRefusals, SerialCheck, SerialLooks, SerialMove, SerialRemoveFile, SerialOpenWrite, SerialOpenAppend,
     SerialOpenCopy, SerialFill, SerialFillEnds, SerialRenameWritten, SerialRemoveDir, SerialMakeDir
     DEF EffectStep

-----------------------------------------------------------------------------
(* Running the tasks one by one. *)

IsRun(log, n, run) ==
    run = [k \in 0 .. n |->
             IF k = 0 THEN [tree |-> InitTree, result |-> None]
             ELSE Applied(run[k - 1].tree, log[k])]
RunOf(log, n) ==
    LET run[k \in 0 .. n] ==
          IF k = 0 THEN [tree |-> InitTree, result |-> None]
          ELSE Applied(run[k - 1].tree, log[k])
    IN  run

LEMMA RunFacts ==
    ASSUME NEW log, NEW n \in Nat, NEW run, IsRun(log, n, run)
    PROVE  /\ DOMAIN run = 0 .. n
           /\ run = [k \in 0 .. n |-> run[k]]
           /\ run[0] = [tree |-> InitTree, result |-> None]
           /\ \A k \in 1 .. n : run[k] = Applied(run[k - 1].tree, log[k])
<1> DEFINE Step(k) == IF k = 0 THEN [tree |-> InitTree, result |-> None]
                    ELSE Applied(run[k - 1].tree, log[k])
<1>1. run = [k \in 0 .. n |-> Step(k)]
  BY DEF IsRun
<1> HIDE DEF Step
<1>2. DOMAIN run = 0 .. n /\ run = [k \in 0 .. n |-> run[k]] /\ \A k \in 0 .. n : run[k] = Step(k)
  BY <1>1
<1>3. 0 \in 0 .. n /\ \A k \in 1 .. n : k \in 0 .. n /\ k # 0
  OBVIOUS
<1>4. QED
  BY <1>2, <1>3 DEF Step

LEMMA RunIsOne ==
    ASSUME NEW log, NEW n \in Nat, NEW run, IsRun(log, n, run), NEW other, IsRun(log, n, other)
    PROVE  run = other
<1> DEFINE Bad == {k \in 0 .. n : run[k] # other[k]}
<1>1. Bad = {}
  <2> SUFFICES ASSUME Bad # {} PROVE FALSE
    OBVIOUS
  <2>1. PICK m \in Bad : \A l \in Bad : m =< l
    <3>1. Bad \subseteq Nat
      OBVIOUS
    <3>2. QED
      BY <3>1, LeastNatural
  <2>2. m # 0 /\ m \in 0 .. n /\ run[m] # other[m]
    BY <2>1, RunFacts
  <2>3. m \in 1 .. n /\ m - 1 \in 0 .. n /\ m - 1 \notin Bad
    BY <2>1, <2>2
  <2>4. run[m - 1] = other[m - 1]
    BY <2>3
  <2>5. QED
    BY <2>2, <2>3, <2>4, RunFacts
<1>2. \A k \in 0 .. n : run[k] = other[k]
  BY <1>1
<1>3. run = [k \in 0 .. n |-> run[k]] /\ other = [k \in 0 .. n |-> other[k]]
  BY RunFacts
<1>4. QED
  BY <1>2, <1>3

LEMMA RunOfRun ==
    ASSUME NEW log, NEW n \in Nat, NEW run, IsRun(log, n, run)
    PROVE  RunOf(log, n) = run
<1>1. RunOf(log, n) = CHOOSE other : IsRun(log, n, other)
  BY DEF RunOf, IsRun
<1>2. IsRun(log, n, RunOf(log, n))
  BY <1>1
<1>3. QED
  BY <1>2, RunIsOne

LEMMA RunAtFirst == ASSUME NEW log PROVE \E run : IsRun(log, 0, run) /\ run[0].tree = InitTree
<1> DEFINE run == [k \in 0 .. 0 |-> [tree |-> InitTree, result |-> None]]
<1>1. IsRun(log, 0, run)
  BY DEF IsRun
<1>2. run[0].tree = InitTree
  OBVIOUS
<1>3. QED
  BY <1>1, <1>2

(* What was run does not depend on what comes after. *)
LEMMA RunOfLonger ==
    ASSUME NEW log, NEW longer, NEW n \in Nat, NEW run, IsRun(log, n, run),
           \A k \in 1 .. n : longer[k] = log[k]
    PROVE  IsRun(longer, n, run)
<1>1. \A k \in 0 .. n : k # 0 => k \in 1 .. n
  OBVIOUS
<1>2. QED
  BY <1>1 DEF IsRun

LEMMA RunOneMore ==
    ASSUME NEW log, NEW n \in Nat, NEW run, IsRun(log, n, run)
    PROVE  \E more : /\ IsRun(log, n + 1, more)
                     /\ \A k \in 0 .. n : more[k] = run[k]
                     /\ more[n + 1] = Applied(run[n].tree, log[n + 1])
<1> DEFINE more == [k \in 0 .. n + 1 |->
                      IF k = n + 1 THEN Applied(run[n].tree, log[n + 1]) ELSE run[k]]
<1>1. /\ \A k \in 0 .. n : more[k] = run[k]
      /\ more[n + 1] = Applied(run[n].tree, log[n + 1])
      /\ more = [k \in 0 .. n + 1 |-> more[k]]
  OBVIOUS
<1> HIDE DEF more
<1> DEFINE First == [tree |-> InitTree, result |-> None]
<1>2. run[0] = First /\ \A k \in 1 .. n : run[k] = Applied(run[k - 1].tree, log[k])
  BY RunFacts
<1> HIDE DEF First
<1>3. 0 \in 0 .. n /\ n \in 0 .. n /\ (n + 1) - 1 = n /\ n + 1 # 0
      /\ \A k \in 1 .. n : k \in 0 .. n /\ k - 1 \in 0 .. n /\ k # 0
  OBVIOUS
<1>4. ASSUME NEW k \in 0 .. n + 1
      PROVE  more[k] = IF k = 0 THEN First ELSE Applied(more[k - 1].tree, log[k])
  <2>1. CASE k = 0
    BY <1>1, <1>2, <1>3, <2>1
  <2>2. CASE k \in 1 .. n
    <3>1. k \in 0 .. n /\ k - 1 \in 0 .. n /\ k # 0
      BY <1>3, <2>2
    <3>2. more[k] = run[k] /\ more[k - 1] = run[k - 1]
      BY <1>1, <3>1
    <3>3. QED
      BY <1>2, <2>2, <3>1, <3>2
  <2>3. CASE k = n + 1
    BY <1>1, <1>3, <2>3
  <2>4. k = 0 \/ k \in 1 .. n \/ k = n + 1
    OBVIOUS
  <2>5. QED
    BY <2>1, <2>2, <2>3, <2>4
<1>5. IsRun(log, n + 1, more)
  BY <1>1, <1>4 DEF IsRun, First
<1>6. QED
  BY <1>1, <1>5

-----------------------------------------------------------------------------
(* The invariant: the first n tasks were given what running them one by one
   gives, and the tree is the one they leave, or on the way from it to the one
   the next task leaves. *)

AtTask(n) ==
    /\ n \in Nat /\ n =< taken
    /\ \A w \in Workers : batch[w] # NoBatch => Position(w) = n + 1
    /\ (\A w \in Workers : batch[w] = NoBatch) => n = taken
Clean == \A k, r : Gave(k, r) => r.code # "host" /\ (IsOp(k, "write") => r.code = "ok")
TreeFollows(base) ==
    /\ BaseOK(base)
    /\ (\A w \in Workers : op[w] = Idle) => tree = base
    /\ \A w \in Workers : op[w] # Idle => Midway(w, base)
GivesAs(run) == \A k, r : Gave(k, r) => r = run[k].result
RunsTo(n) == \E run : IsRun(issued, n, run) /\ GivesAs(run) /\ TreeFollows(run[n].tree)
SerialAt(n) ==
    /\ AtTask(n)
    /\ \A k \in 1 .. n : \E r : Gave(k, r)
    /\ Clean => RunsTo(n)
SerialInv ==
    /\ \A k, r : Gave(k, r) => r # NoResult
    /\ crashes = 0 => \E n : SerialAt(n)

LEMMA TreeFollowsBusy ==
    ASSUME FsInv, NEW base, TreeFollows(base), NEW w \in Workers, Busy(w)
    PROVE  Follows(w, base)
<1>1. \A v \in Workers : v # w => op[v] = Idle
  BY BusyFacts DEF FsInv, OpInv, Busy
<1>2. QED
  BY <1>1 DEF TreeFollows, Follows

LEMMA SerialInvInit == Init => SerialInv
<1> SUFFICES ASSUME Init PROVE SerialInv
  OBVIOUS
<1>1. FsInv /\ taken = 0 /\ \A w \in Workers : batch[w] = NoBatch /\ op[w] = Idle
  BY FsInvInit DEF Init, RuntimeInit
<1>2. \A k, r : ~Gave(k, r)
  BY <1>1, GaveFacts DEF FsInv
<1>3. AtTask(0)
  BY <1>1 DEF AtTask
<1>4. PICK run : IsRun(issued, 0, run) /\ run[0].tree = InitTree
  BY RunAtFirst
<1>5. TreeFollows(InitTree) /\ tree = InitTree
  BY <1>1, InitTreeHoldsNodes, InitTreeIsTree DEF TreeFollows, BaseOK, Init
<1>6. RunsTo(0)
  BY <1>2, <1>4, <1>5 DEF RunsTo, GivesAs
<1>7. SerialAt(0)
  BY <1>3, <1>6 DEF SerialAt
<1>8. QED
  BY <1>2, <1>7 DEF SerialInv

(* Nothing that was given depends on tasks queued later. *)
LEMMA CleanBefore ==
    ASSUME FsInv, Clean', NamesStay, \A i \in DOMAIN issued : issued'[i] = issued[i],
           \A i, r : Gave(i, r) => Gave(i, r)'
    PROVE  Clean
<1> SUFFICES ASSUME NEW k, NEW r, Gave(k, r)
             PROVE  r.code # "host" /\ (IsOp(k, "write") => r.code = "ok")
  BY DEF Clean
<1>1. Gave(k, r)' /\ k \in DOMAIN issued
  BY GaveFacts DEF FsInv
<1>2. issued'[k] = issued[k]
  BY <1>1
<1>3. IsOp(k, "write") => IsOp(k, "write")'
  BY <1>2 DEF IsOp, NamesStay
<1>4. QED
  BY <1>1, <1>3 DEF Clean

(* Queueing, dispatching and answering change neither. *)
LEMMA QuietSerial ==
    ASSUME FsInv, NEW n, SerialAt(n), AtTask(n)', UNCHANGED <<tree, op, names>>,
           \A i \in DOMAIN issued : issued'[i] = issued[i],
           \A i, r : Gave(i, r) => Gave(i, r)',
           \A i, r : Gave(i, r)' => Gave(i, r),
           \A w \in Workers : op[w] # Idle => Current(w)' = Current(w) /\ Position(w)' = Position(w)
    PROVE  SerialAt(n)'
<1>1. \A k \in 1 .. n : \E r : Gave(k, r)'
  BY DEF SerialAt
<1>2. ASSUME Clean' PROVE RunsTo(n)'
  <2>1. Clean
    BY <1>2, CleanBefore DEF NamesStay
  <2>2. PICK run : IsRun(issued, n, run) /\ GivesAs(run) /\ TreeFollows(run[n].tree)
    BY <2>1 DEF SerialAt, RunsTo
  <2>3. \A k \in 1 .. n : issued'[k] = issued[k]
    <3>1. n \in Nat /\ n =< taken /\ taken \in Nat /\ taken =< Len(issued) /\ DOMAIN issued = 1 .. Len(issued)
          /\ Len(issued) \in Nat
      BY IsSeqFacts DEF SerialAt, AtTask, FsInv, RuntimeInv, QueueInv, CountersInv
    <3>2. QED
      BY <3>1
  <2>4. IsRun(issued', n, run)
    BY <2>2, <2>3, RunOfLonger DEF SerialAt, AtTask
  <2>5. GivesAs(run)'
    BY <2>2 DEF GivesAs
  <2>6. PICK base : base = run[n].tree
    OBVIOUS
  <2>7. ASSUME NEW w \in Workers, op[w] # Idle PROVE Midway(w, base)'
    <3>1. Midway(w, base) /\ Current(w)' = Current(w) /\ Position(w)' = Position(w)
      BY <2>2, <2>6, <2>7 DEF TreeFollows
    <3>2. Named(w, base)' /\ Path(w)' = Path(w)
      BY <3>1, NamedStays DEF Midway
    <3>3. Filling(w, base) => Filling(w, base)'
      BY <3>1, <3>2 DEF Filling
    <3>4. QED
      BY <3>1, <3>2, <3>3 DEF Midway
  <2>8. TreeFollows(base)'
    BY <2>2, <2>6, <2>7 DEF TreeFollows
  <2>9. QED
    BY <2>4, <2>5, <2>6, <2>8 DEF RunsTo
<1>3. QED
  BY <1>1, <1>2 DEF SerialAt

LEMMA SubmitSerial ==
    ASSUME FsInv, SerialInv, Submit, UNCHANGED <<tree, op, names>>
    PROVE  SerialInv'
<1>1. /\ \A i \in DOMAIN issued : issued'[i] = issued[i]
      /\ \A i \in DOMAIN outcome : outcome'[i] = outcome[i]
      /\ \A i, r : Gave(i, r)' => Gave(i, r)
      /\ RuntimeInv /\ RuntimeInv'
      /\ \A i \in DOMAIN issued : i \in DOMAIN issued'
      /\ UNCHANGED <<taken, batch, crashes>>
  BY RunFacadeInv, SubmitEffectInv DEF Submit, FsInv
<1>2. DOMAIN outcome = DOMAIN issued /\ DOMAIN outcome' = DOMAIN issued'
  BY <1>1, IsSeqFacts DEF RuntimeInv, QueueInv
<1>3. \A i, r : Gave(i, r) => Gave(i, r)'
  BY <1>1, <1>2 DEF Gave
<1>4. ASSUME NEW n, SerialAt(n) PROVE SerialAt(n)'
  <2>1. AtTask(n)'
    BY <1>1, <1>4 DEF SerialAt, AtTask, Position
  <2>2. ASSUME NEW w \in Workers, op[w] # Idle
        PROVE  Current(w)' = Current(w) /\ Position(w)' = Position(w)
    <3>1. Position(w) \in DOMAIN issued /\ Position(w)' = Position(w)
      BY <1>1, <2>2, BusyFacts DEF FsInv, OpInv, Position
    <3>2. QED
      BY <1>1, <3>1 DEF Current
  <2>3. QED
    BY <1>1, <1>3, <1>4, <2>1, <2>2, QuietSerial
<1>5. QED
  BY <1>1, <1>4 DEF SerialInv

LEMMA DispatchSerial ==
    ASSUME FsInv, SerialInv, NEW w \in Workers, NEW size, Dispatch(w, size, MaxInflightBatches),
           UNCHANGED <<tree, op, names>>
    PROVE  SerialInv'
<1>1. Dispatch(w, size, 1) /\ RuntimeInv
  BY DEF MaxInflightBatches, FsInv
<1>2. /\ \A i, r : Gave(i, r)' => Gave(i, r)
      /\ \A v \in Workers : batch[v] = NoBatch
      /\ \A v \in Workers : batch'[v] # NoBatch => v = w
      /\ batch'[w] = Batch(taken + 1, taken + size, <<>>)
      /\ taken' = taken + size /\ size \in Nat \ {0}
      /\ UNCHANGED <<issued, crashes>>
      /\ taken \in Nat
  BY <1>1, DispatchInv DEF RuntimeInv, CountersInv
<1>3. \A i, r : Gave(i, r) => Gave(i, r)'
  BY <1>1, DispatchGivenStays
<1>4. op = [v \in Workers |-> Idle]
  BY <1>2 DEF FsInv, OpInv, Busy
<1>5. ASSUME NEW n, SerialAt(n) PROVE SerialAt(n)'
  <2>1. n = taken
    BY <1>2, <1>5 DEF SerialAt, AtTask
  <2>2. batch'[w] # NoBatch /\ Position(w)' = n + 1
    <3>1. batch'[w].first = n + 1 /\ batch'[w].results = <<>> /\ n + 1 # 0 /\ NoBatch.first = 0
      BY <1>2, <2>1 DEF Batch, NoBatch
    <3>2. QED
      BY <1>2, <2>1, <3>1 DEF Position
  <2>3. AtTask(n)'
    BY <1>2, <2>1, <2>2 DEF AtTask
  <2>4. \A v \in Workers : op[v] = Idle
    BY <1>4
  <2>5. QED
    BY <1>2, <1>3, <1>5, <2>3, <2>4, QuietSerial
<1>6. QED
  BY <1>2, <1>5 DEF SerialInv

LEMMA AnswerSerial ==
    ASSUME FsInv, SerialInv, NEW w \in Workers, Answer(w), UNCHANGED <<tree, op, names>>
    PROVE  SerialInv'
<1>1. /\ \A i, r : Gave(i, r)' => Gave(i, r)
      /\ \A v \in Workers : batch'[v] = NoBatch
      /\ UNCHANGED <<issued, taken, crashes>>
      /\ RuntimeInv
  BY AnswerInv DEF FsInv
<1>2. \A i, r : Gave(i, r) => Gave(i, r)'
  BY <1>1, AnswerGivenStays DEF SerialInv
<1>3. \A v \in Workers : op[v] = Idle
  BY BusyFacts DEF Answer, FsInv, OpInv
<1>4. ASSUME NEW n, SerialAt(n) PROVE SerialAt(n)'
  <2>1. n = taken
    <3>1. batch[w] # NoBatch /\ ~Busy(w) /\ Position(w) = n + 1 /\ n \in Nat
      BY <1>4 DEF Answer, SerialAt, AtTask
    <3>2. BatchOK(batch[w]) /\ batch[w].last = taken
      BY <1>1, <3>1 DEF RuntimeInv, BatchInv
    <3>3. PICK first \in Nat, last \in Nat, m \in Nat :
            /\ first = batch[w].first /\ last = batch[w].last /\ m = Len(batch[w].results)
            /\ m =< last + 1 - first
      BY <3>2, IsSeqFacts DEF BatchOK, BatchLength
    <3>4. first + m = n + 1 /\ ~(m < last + 1 - first)
      BY <3>1, <3>3 DEF Busy, Position
    <3>5. QED
      BY <3>1, <3>2, <3>3, <3>4
  <2>2. AtTask(n)'
    BY <1>1, <1>4, <2>1 DEF SerialAt, AtTask
  <2>3. QED
    BY <1>1, <1>2, <1>3, <1>4, <2>2, QuietSerial
<1>5. QED
  BY <1>1, <1>4 DEF SerialInv

(* A step of the task after the first n: it is on its way, or n + 1 are done. *)
LEMMA GoesOnSerial ==
    ASSUME FsInv, NEW n, SerialAt(n), NEW w \in Workers, Busy(w), UNCHANGED runtimeVars,
           FsInv', NamesStay, \A base : TreeFollows(base) => GoesOn(w, base)
    PROVE  SerialAt(n)'
<1>1. /\ UNCHANGED <<issued, taken, batch>>
      /\ \A i, r : Gave(i, r)' => Gave(i, r)
      /\ \A i, r : Gave(i, r) => Gave(i, r)'
  BY DEF runtimeVars, Gave
<1>2. AtTask(n)'
  BY <1>1 DEF SerialAt, AtTask, Position
<1>3. ASSUME Clean' PROVE RunsTo(n)'
  <2>1. PICK run, base :
          IsRun(issued, n, run) /\ GivesAs(run) /\ base = run[n].tree /\ TreeFollows(base)
    BY <1>1, <1>3, CleanBefore DEF SerialAt, RunsTo
  <2>2. op'[w] # Idle /\ Midway(w, base)'
    BY <2>1 DEF GoesOn
  <2>3. \A v \in Workers : op'[v] # Idle => v = w
    BY <1>1, BusyFacts DEF FsInv, OpInv, Busy
  <2>4. TreeFollows(base)'
    BY <2>1, <2>2, <2>3 DEF TreeFollows
  <2>5. QED
    BY <1>1, <2>1, <2>4 DEF RunsTo, GivesAs
<1>4. QED
  BY <1>1, <1>2, <1>3 DEF SerialAt

LEMMA EndsSerial ==
    ASSUME FsInv, NodesInv, NEW n, SerialAt(n), NEW w \in Workers, Busy(w),
           FsInv', NodesInv', NamesStay, NEW result, FinishEntry(w, result), op'[w] = Idle,
           \A base : TreeFollows(base) =>
             Spoilt(w, result) \/ Applied(base, Current(w)) = [tree |-> tree', result |-> result]
    PROVE  SerialAt(n + 1)'
<1>1. /\ \A i, r : Gave(i, r)' => Gave(i, r) \/ (i = Position(w) /\ r = result)
      /\ \A i, r : Gave(i, r) => Gave(i, r)'
      /\ \A i : i = Position(w) => Gave(i, result)'
      /\ UNCHANGED <<issued, taken>>
      /\ \A v \in Workers : batch'[v] # NoBatch => v = w
      /\ batch'[w] # NoBatch /\ Position(w)' = Position(w) + 1
  BY FinishEntryInv, FinishEntryGives DEF FsInv
<1>2. /\ n \in Nat /\ n + 1 =< taken /\ Position(w) = n + 1 /\ n + 1 \in DOMAIN issued
      /\ \A k, r : Gave(k, r) => k \in 1 .. n
  <2>1. /\ n \in Nat /\ Position(w) = n + 1 /\ taken \in Nat /\ Position(w) =< taken
        /\ Position(w) \in DOMAIN issued
    BY BusyFacts DEF SerialAt, AtTask, FsInv
  <2>2. ASSUME NEW k, NEW r, Gave(k, r) PROVE k \in 1 .. n
    <3>1. k \in Nat /\ 1 =< k /\ k < Position(w)
      BY <2>2, GaveFacts, GaveBefore DEF FsInv
    <3>2. QED
      BY <2>1, <3>1
  <2>3. QED
    BY <2>1, <2>2
<1>3. AtTask(n + 1)'
  BY <1>1, <1>2 DEF AtTask
<1>4. ASSUME NEW k \in 1 .. n + 1 PROVE \E r : Gave(k, r)'
  <2>1. k \in 1 .. n \/ k = n + 1
    BY <1>2
  <2>2. QED
    BY <1>1, <1>2, <2>1 DEF SerialAt
<1>5. ASSUME Clean' PROVE RunsTo(n + 1)'
  <2>1. PICK run, base :
          IsRun(issued, n, run) /\ GivesAs(run) /\ base = run[n].tree /\ TreeFollows(base)
    BY <1>1, <1>5, CleanBefore DEF SerialAt, RunsTo
  <2>2. ~Spoilt(w, result)
    <3>1. Gave(n + 1, result)' /\ issued'[n + 1] = issued[n + 1]
      BY <1>1, <1>2
    <3>2. result.code # "host" /\ (IsOp(n + 1, "write")' => result.code = "ok")
      BY <1>5, <3>1 DEF Clean
    <3>3. WriteTask(w) => IsOp(n + 1, "write")'
      BY <1>2, <3>1 DEF WriteTask, IsOp, NamesStay
    <3>4. QED
      BY <3>2, <3>3 DEF Spoilt
  <2>3. Applied(base, issued[n + 1]) = [tree |-> tree', result |-> result]
    BY <1>2, <2>1, <2>2 DEF Current
  <2>4. PICK more :
          /\ IsRun(issued, n + 1, more) /\ \A k \in 0 .. n : more[k] = run[k]
          /\ more[n + 1] = Applied(base, issued[n + 1])
    BY <1>2, <2>1, RunOneMore
  <2>5. more[n + 1].tree = tree' /\ more[n + 1].result = result
    BY <2>3, <2>4
  <2>6. ASSUME NEW k, NEW r, Gave(k, r)' PROVE r = more[k].result
    <3>1. CASE Gave(k, r)
      <4>1. k \in 0 .. n /\ r = run[k].result
        BY <1>2, <2>1, <3>1 DEF GivesAs
      <4>2. QED
        BY <2>4, <4>1
    <3>2. CASE k = Position(w) /\ r = result
      BY <1>2, <2>5, <3>2
    <3>3. QED
      BY <1>1, <2>6, <3>1, <3>2
  <2>7. TreeFollows(more[n + 1].tree)'
    <3>1. BaseOK(tree')
      BY DEF BaseOK, FsInv, NodesInv
    <3>2. \A v \in Workers : op'[v] = Idle
      <4>1. \A v \in Workers : op'[v] # Idle => v = w
        BY <1>1 DEF FsInv, OpInv, Busy
      <4>2. QED
        BY <4>1
    <3>3. PICK next : next = more[n + 1].tree /\ next = tree'
      BY <2>5
    <3>4. TreeFollows(next)'
      BY <3>1, <3>2, <3>3 DEF TreeFollows
    <3>5. QED
      BY <3>3, <3>4
  <2>8. IsRun(issued', n + 1, more)
    BY <1>1, <2>4
  <2>9. QED
    BY <2>6, <2>7, <2>8 DEF RunsTo, GivesAs
<1>6. QED
  BY <1>3, <1>4, <1>5 DEF SerialAt

(* A step that ends a task gives it an answer. *)
LEMMA StepGives ==
    ASSUME FsInv, NEW w \in Workers, EffectStep(w) \/ HostFails(w)
    PROVE  \/ UNCHANGED runtimeVars
           \/ \E result : FinishEntry(w, result) /\ result # NoResult /\ op'[w] = Idle
<1>1. ASSUME NEW result, NEW t, Finish(w, result, t), result # NoResult
      PROVE  \E r : FinishEntry(w, r) /\ r # NoResult /\ op'[w] = Idle
  BY <1>1 DEF Finish, FsInv, OpInv
<1>2. ASSUME NEW next, NEW t, Continue(w, next, t) PROVE UNCHANGED runtimeVars
  BY <1>2 DEF Continue
<1>3. CASE Fail(w) \/ HostFails(w) \/ Refuse(w)
  <2>1. \E c : Finish(w, Failure(c), tree) /\ c # "none"
    BY <1>3, EndsFacts DEF Fail, HostFails, Refuse
  <2>2. QED
    BY <1>1, <2>1, EndsFacts
<1>4. CASE Read(w) \/ List(w) \/ Stat(w) \/ Exists(w)
  <2>1. (\E v : Finish(w, Success(v), tree)) \/ Fail(w)
    BY <1>4 DEF Read, List, Stat, Exists
  <2>2. QED
    BY <1>1, <1>3, <2>1, EndsFacts
<1>5. CASE RenameWritten(w) \/ Move(w) \/ RemoveFile(w)
  <2>1. (\E t : Finish(w, Success({}), t)) \/ Fail(w)
    BY <1>5 DEF RenameWritten, Move, RemoveFile
  <2>2. QED
    BY <1>1, <1>3, <2>1, EndsFacts
<1>6. CASE \/ OpenWrite(w) \/ OpenAppend(w) \/ OpenCopy(w) \/ Fill(w) \/ FillEnds(w)
           \/ RemoveDir(w) \/ MakeDir(w)
  <2>1. \/ \E next, t : Continue(w, next, t)
        \/ \E t : Finish(w, Success({}), t)
        \/ Fail(w)
    BY <1>6 DEF OpenWrite, OpenAppend, OpenCopy, Fill, FillEnds, RemoveDir, MakeDir
  <2>2. QED
    BY <1>1, <1>2, <1>3, <2>1, EndsFacts
<1>7. CASE Check(w)
  BY <1>7 DEF Check
<1>8. QED
  BY <1>3, <1>4, <1>5, <1>6, <1>7 DEF EffectStep

LEMMA TaskSerial ==
    ASSUME FsInv, NodesInv, SerialInv, FsInv', NodesInv',
           NEW w \in Workers, EffectStep(w) \/ HostFails(w)
    PROVE  SerialInv'
<1>1. Busy(w) /\ RuntimeInv /\ Position(w) \in Nat /\ NamesStay
  BY EffectStepKeeps, BusyFacts, NamesGrow DEF FsInv
<1>2. ASSUME NEW base, TreeFollows(base) PROVE GoesOn(w, base) \/ \E result : EndsAs(w, base, result)
  BY <1>1, <1>2, TreeFollowsBusy, EffectStepSerial DEF SerialStep
<1>3. ASSUME NEW result, FinishEntry(w, result) PROVE Position(w)' # Position(w)
  BY <1>1, <1>3, FinishEntryInv
<1>4. CASE UNCHANGED runtimeVars
  <2>1. Position(w)' = Position(w) /\ crashes' = crashes /\ \A i, r : Gave(i, r)' => Gave(i, r)
    BY <1>4 DEF runtimeVars, Position, Gave
  <2>2. \A base : TreeFollows(base) => GoesOn(w, base)
    BY <1>2, <1>3, <2>1 DEF EndsAs
  <2>3. ASSUME NEW n, SerialAt(n) PROVE SerialAt(n)'
    BY <1>1, <1>4, <2>2, <2>3, GoesOnSerial
  <2>4. QED
    BY <2>1, <2>3 DEF SerialInv
<1>5. ASSUME NEW result, FinishEntry(w, result), result # NoResult, op'[w] = Idle PROVE SerialInv'
  <2>1. /\ \A i, r : Gave(i, r)' => Gave(i, r) \/ (i = Position(w) /\ r = result)
        /\ crashes' = crashes
    BY <1>1, <1>5, FinishEntryInv
  <2>2. ASSUME NEW other, FinishEntry(w, other), other # NoResult PROVE other = result
    <3>1. IsSeq(batch[w].results) /\ w \in DOMAIN batch
      BY <1>1, BusyFacts DEF BatchOK, RuntimeInv, BatchInv
    <3>2. batch'[w].results = Append(batch[w].results, other)
      BY <2>2, <3>1 DEF FinishEntry, Batch
    <3>3. batch'[w].results = Append(batch[w].results, result)
      BY <1>5, <3>1 DEF FinishEntry, Batch
    <3>4. PICK old, new : old = batch[w].results /\ new = batch'[w].results
      OBVIOUS
    <3>5. IsSeq(old) /\ new = Append(old, other) /\ new = Append(old, result)
      BY <3>1, <3>2, <3>3, <3>4
    <3>6. Append(old, other)[Len(old) + 1] = other /\ Append(old, result)[Len(old) + 1] = result
      BY <3>5, IsSeqAppend
    <3>7. QED
      BY <3>5, <3>6
  <2>3. ASSUME NEW base, TreeFollows(base)
        PROVE  Spoilt(w, result) \/ Applied(base, Current(w)) = [tree |-> tree', result |-> result]
    <3>1. ~GoesOn(w, base)
      BY <1>3, <1>5 DEF GoesOn, runtimeVars, Position
    <3>2. PICK other : EndsAs(w, base, other)
      BY <1>2, <2>3, <3>1
    <3>3. other = result
      BY <2>2, <3>2 DEF EndsAs
    <3>4. QED
      BY <3>2, <3>3 DEF EndsAs
  <2>4. ASSUME NEW n, SerialAt(n) PROVE SerialAt(n + 1)'
    BY <1>1, <1>5, <2>3, <2>4, EndsSerial
  <2>5. QED
    BY <1>5, <2>1, <2>4 DEF SerialInv
<1>6. QED
  BY <1>4, <1>5, StepGives

LEMMA SerialInvNext ==
    ASSUME FsInv, NodesInv, SerialInv, [Next]_vars
    PROVE  SerialInv'
<1>1. FsInv' /\ NodesInv'
  BY FsInvNext, NodesInvNext
<1>2. CASE Submit /\ UNCHANGED <<tree, op, names>>
  BY <1>2, SubmitSerial
<1>3. CASE \E w \in Workers, n \in 1 .. MaxBatch :
             Dispatch(w, n, MaxInflightBatches) /\ UNCHANGED <<tree, op, names>>
  BY <1>3, DispatchSerial
<1>4. CASE \E w \in Workers : EffectStep(w) \/ HostFails(w)
  BY <1>1, <1>4, TaskSerial
<1>5. CASE \E w \in Workers : Answer(w) /\ UNCHANGED <<tree, op, names>>
  BY <1>5, AnswerSerial
<1>6. CASE Crash
  <2>1. crashes' # 0 /\ \A i, r : Gave(i, r)' => Gave(i, r)
    BY <1>6, CrashInv DEF FsInv, RuntimeInv, CountersInv, Crash
  <2>2. QED
    BY <2>1 DEF SerialInv
<1>7. CASE UNCHANGED vars
  <2>1. /\ UNCHANGED <<tree, op, names, issued, taken, batch, crashes, outcome>>
    BY <1>7 DEF vars, runtimeVars
  <2>2. /\ \A i, r : Gave(i, r)' => Gave(i, r)
        /\ \A i, r : Gave(i, r) => Gave(i, r)'
        /\ \A w \in Workers : Current(w)' = Current(w) /\ Position(w)' = Position(w)
    BY <2>1 DEF Gave, Current, Position
  <2>3. ASSUME NEW n, SerialAt(n) PROVE SerialAt(n)'
    <3>1. AtTask(n)'
      BY <2>1, <2>3 DEF SerialAt, AtTask, Position
    <3>2. QED
      BY <2>1, <2>2, <2>3, <3>1, QuietSerial
  <2>4. QED
    BY <2>1, <2>2, <2>3 DEF SerialInv
<1>8. QED
  BY <1>2, <1>3, <1>4, <1>5, <1>6, <1>7 DEF Next

(* When nothing is under way the n tasks are all that left the queue. *)
LEMMA SerialAnswers ==
    ASSUME FsInv, SerialInv, crashes = 0, \A w \in Workers : batch[w] = NoBatch,
           \A i \in 1 .. taken : /\ outcome[i].code # "host"
                                 /\ IsOp(i, "write") => outcome[i].code = "ok"
    PROVE  /\ tree = RunOf(issued, taken)[taken].tree
           /\ \A k \in 1 .. taken : outcome[k] = RunOf(issued, taken)[k].result
<1>1. SerialAt(taken) /\ taken \in Nat
  BY DEF SerialInv, SerialAt, AtTask
<1>2. \A k, r : Gave(k, r) => k \in 1 .. taken /\ outcome[k] = r
  <2>1. \A k, r : Gave(k, r) => outcome[k] = r
    BY DEF Gave
  <2>2. ASSUME NEW k, NEW r, Gave(k, r) PROVE k \in 1 .. taken
    BY <1>1, <2>2, GaveFacts DEF FsInv
  <2>3. QED
    BY <2>1, <2>2
<1>3. Clean
  BY <1>2 DEF Clean
<1>4. PICK run : /\ IsRun(issued, taken, run) /\ GivesAs(run) /\ TreeFollows(run[taken].tree)
  BY <1>1, <1>3 DEF SerialAt, RunsTo
<1>5. RunOf(issued, taken) = run
  BY <1>1, <1>4, RunOfRun
<1>6. \A k \in 1 .. taken : outcome[k] = run[k].result
  BY <1>1, <1>2, <1>4 DEF SerialAt, GivesAs
<1>7. tree = run[taken].tree
  <2>1. \A w \in Workers : op[w] = Idle
    BY DEF FsInv, OpInv, Busy
  <2>2. QED
    BY <1>4, <2>1 DEF TreeFollows
<1>8. QED
  BY <1>5, <1>6, <1>7

(* Whatever tasks, batches and trees there are: when nothing is under way, and
   neither the process nor the host nor a write failed, the tree and every
   answer are what running the tasks one by one, each in one go, would have
   given (preserve_order and max_inflight_batches, lib.rs:210). *)
THEOREM EffectsAsIfSerial == Spec => []AsIfSerial
<1>1. FsInv /\ NodesInv /\ SerialInv => AsIfSerial
  <2> SUFFICES ASSUME FsInv, SerialInv, crashes = 0, \A w \in Workers : batch[w] = NoBatch,
                      \A i \in 1 .. taken : /\ outcome[i].code # "host"
                                            /\ IsOp(i, "write") => outcome[i].code = "ok"
               PROVE  AsIfSerial
    BY DEF AsIfSerial
  <2>1. /\ tree = RunOf(issued, taken)[taken].tree
        /\ \A k \in 1 .. taken : outcome[k] = RunOf(issued, taken)[k].result
    BY SerialAnswers
  <2>2. QED
    BY <2>1 DEF AsIfSerial, RunOf
<1>2. FsInv /\ NodesInv /\ SerialInv /\ [Next]_vars => (FsInv /\ NodesInv /\ SerialInv)'
  BY FsInvNext, NodesInvNext, SerialInvNext
<1>3. Init => FsInv /\ NodesInv /\ SerialInv
  BY FsInvInit, NodesInvInit, SerialInvInit
<1>4. QED
  BY <1>1, <1>2, <1>3, PTL DEF Spec
=============================================================================
