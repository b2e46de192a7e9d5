------------------------------ MODULE FsEffects ------------------------------
(* Filesystem effects (plugins/mutsuki-plugin-io-fs): the facade, the effect
   runner, and the directory tree it works on, one action per host call that
   changes the tree. A crash may come between any two of them.

   A path is the sequence of its names, from a directory that always exists. A
   file's bytes are a sequence of chunks: a chunk is what one write call of the
   host stores. A link holds the absolute name it leads to; no operation makes
   one, but what is there may be links. Relative names and ".." are left out. *)
EXTENDS EffectRuntime, SequencesExt

CONSTANTS
    Paths,        \* names the tree has room for, closed under parents
    MaxLinks,     \* links the host follows before it gives up a name
    Chunks,       \* what one write call of the host can store
    TmpOf,        \* a path with the extension "mutsuki-tmp" in place of its own
    Requests,     \* what is submitted: [op, payload]
    DirectOps,    \* operations also submitted without the facade
    InitTree,
    HostMayFail   \* whether the host may refuse a call for a reason of its own

VARIABLES
    tree,
    op,
    names         \* what the checks of a task found its names to be, by position
vars == <<runtimeVars, tree, op, names>>

ASSUME PathsAreClosed ==
    /\ Paths \subseteq Seq(STRING) \ {<<>>}
    /\ \A p \in Paths : \A n \in 1 .. Len(p) : SubSeq(p, 1, n) \in Paths
    /\ TmpOf \in [Paths -> Paths]
    /\ MaxLinks \in Nat
ASSUME RequestsNamePaths ==
    \A r \in Requests :
      /\ {r.payload.path, r.payload.to} \subseteq Seq(STRING) \cup {None}
      /\ r.payload.allowlist # None => r.payload.allowlist \subseteq Seq(STRING)
      /\ r.payload.content # None => r.payload.content \in Seq(Chunks)

Ops == <<"read", "write", "append", "copy", "move", "remove", "mkdir", "list", "stat", "exists">>
Public(o) == <<"fs", o>>
Effect(o) == <<"effect", "fs", o>>
ProtocolPairs == [i \in DOMAIN Ops |-> [public |-> Public(Ops[i]), effect |-> Effect(Ops[i])]]
ASSUME PairsAreUnique == ValidateUnique(ProtocolPairs)
TwoInflightBatches == 2   \* mutant
MaxInflightBatches == 1

Node(kind, bytes, target) == [kind |-> kind, bytes |-> bytes, target |-> target]
Absent == Node("absent", <<>>, <<>>)
Dir == Node("dir", <<>>, <<>>)
File(bytes) == Node("file", bytes, <<>>)
Link(target) == Node("link", <<>>, target)
Nodes ==
    {n \in [kind : {"absent", "dir", "file", "link"}, bytes : Seq(Chunks), target : Seq(STRING)] :
       /\ n.kind # "file" => n.bytes = <<>>
       /\ n.kind # "link" => n.target = <<>>}
ASSUME InitTreeHoldsNodes == InitTree \in [Paths -> Nodes]

IsDir(t, p) == t[p].kind = "dir"
IsFile(t, p) == t[p].kind = "file"
ParentIsDir(t, p) == Len(p) > 1 => IsDir(t, Front(p))
Children(t, p) == {q \in Paths : q # p /\ IsPrefix(p, q) /\ t[q] # Absent}

(* What is there is in a directory. *)
IsTree(t) ==
    /\ DOMAIN t = Paths
    /\ \A q \in Paths : t[q] # Absent =>
         \A p \in Paths : p # q /\ IsPrefix(p, q) => IsDir(t, p)
ASSUME InitTreeIsTree == IsTree(InitTree)

-----------------------------------------------------------------------------
(* Names. *)

(* Where the host comes to when it follows the links on a name. *)
LinksOn(t, p) == {n \in 1 .. Len(p) : SubSeq(p, 1, n) \in Paths /\ t[SubSeq(p, 1, n)].kind = "link"}
Followed(t, p) ==
    LET n == CHOOSE n \in LinksOn(t, p) : TRUE
    IN  t[SubSeq(p, 1, n)].target \o SubSeq(p, n + 1, Len(p))
Walk(t, p) ==
    LET walk[k \in 0 .. MaxLinks] ==
          IF k = 0 THEN p
          ELSE IF LinksOn(t, walk[k - 1]) = {} THEN walk[k - 1] ELSE Followed(t, walk[k - 1])
    IN  IF LinksOn(t, p) = {} THEN p ELSE walk[MaxLinks]

(* Path::exists. *)
There(t, p) ==
    LET q == Walk(t, p)
    IN  q = <<>> \/ (q \in Paths /\ t[q].kind \in {"dir", "file"})

(* A name and the directories above it. *)
Above(p) == {SubSeq(p, 1, n) : n \in 0 .. Len(p)}

(* absolute_path: a name that is there is followed to its end; of any other the
   longest part that is there, and the rest is joined to it as it was given. *)
AbsoluteAsGiven(t, p) == p   \* mutant: links are not followed
Absolute(t, p) ==
    LET n == Max({k \in 0 .. Len(p) : There(t, SubSeq(p, 1, k))})
    IN  Walk(t, SubSeq(p, 1, n)) \o SubSeq(p, n + 1, Len(p))

-----------------------------------------------------------------------------
(* Checks of a task. *)

(* checked_path: the field is there, the allow-list is there, and one of its
   entries is the path or a directory above it, both as absolute_path has them.
   A name the tree has no room for is refused (bound: Paths). *)
CheckedPath(t, task, field) ==
    IF task.payload[field] = None \/ Absolute(t, task.payload[field]) \notin Paths
      THEN "invalid_path"
    ELSE IF task.payload.allowlist = None THEN "permission_denied"
    ELSE IF \E dir \in task.payload.allowlist :
              Absolute(t, dir) \in Above(Absolute(t, task.payload[field])) THEN "ok"
    ELSE "permission_denied"

FacadeRefuses(t, task) ==
    \/ CheckedPath(t, task, "path") # "ok"
    \/ task.protocol \in {Public("copy"), Public("move")} /\ CheckedPath(t, task, "to") # "ok"

(* Mutant: a write or an append without its content is let through. *)
EffectRefusalNoContent(t, task) ==
    IF CheckedPath(t, task, "path") # "ok" THEN CheckedPath(t, task, "path")
    ELSE IF \A i \in DOMAIN Ops : task.protocol # Effect(Ops[i]) THEN "unsupported"
    ELSE IF task.protocol \in {Effect("copy"), Effect("move")} THEN CheckedPath(t, task, "to")
    ELSE "ok"

(* What the effect runner finds wrong with a task before it touches anything:
   its path, then its protocol, then what the protocol needs. *)
EffectRefusal(t, task) ==
    IF CheckedPath(t, task, "path") # "ok" THEN CheckedPath(t, task, "path")
    ELSE IF \A i \in DOMAIN Ops : task.protocol # Effect(Ops[i]) THEN "unsupported"
    ELSE IF task.protocol \in {Effect("copy"), Effect("move")} THEN CheckedPath(t, task, "to")
    ELSE IF task.protocol \in {Effect("write"), Effect("append")} /\ task.payload.content = None
      THEN "invalid_payload"
    ELSE "ok"

(* What the checks leave of a task that passes them: its names as absolute_path
   has them, and the allow-list's (roots). For the properties also the file that
   will be opened to be written, where a link at its name leads, and whether the
   name the task gives for it was not there (missing). *)
NamesOf(t, task) ==
    LET Is(o) == task.protocol = Effect(o)
        path == Absolute(t, task.payload.path)
        to == IF Is("copy") \/ Is("move") THEN Absolute(t, task.payload.to) ELSE path
    IN  [path |-> path, to |-> to,
         roots |-> {Absolute(t, dir) : dir \in task.payload.allowlist},
         file |-> Walk(t, IF Is("write") THEN TmpOf[path] ELSE to),
         missing |-> ~There(t, IF Is("copy") THEN task.payload.to ELSE task.payload.path)]

-----------------------------------------------------------------------------
(* The steps of an operation. `op` holds what a half-done one carries: the file
   it fills and the chunks left to store, or only the step it is at. *)
Op(step, file, left) == [step |-> step, file |-> file, left |-> left]
Idle == Op("idle", <<>>, <<>>)
Begun == Op("begun", <<>>, <<>>)

Init ==
    /\ RuntimeInit
    /\ tree = InitTree
    /\ op = [w \in Workers |-> Idle]
    /\ names = <<>>

Path(w) == names[Position(w)].path
To(w) == names[Position(w)].to
Opened(w) == names[Position(w)].file
Content(w) == Current(w).payload.content

(* The worker's entry is one of this operation, which passed the checks and has
   done nothing yet. *)
Begins(w, o) ==
    /\ Busy(w) /\ op[w] = Begun
    /\ Current(w).protocol = Effect(o)
At(w, step) == Busy(w) /\ op[w].step = step

Finish(w, result, t) ==
    /\ FinishEntry(w, result)
    /\ tree' = t
    /\ op' = [op EXCEPT ![w] = Idle]
    /\ UNCHANGED names
Fail(w) == Finish(w, Failure("io"), tree)
Continue(w, next, t) ==
    /\ tree' = t
    /\ op' = [op EXCEPT ![w] = next]
    /\ UNCHANGED <<runtimeVars, names>>

Refuse(w) ==
    /\ Busy(w) /\ op[w] = Idle
    /\ EffectRefusal(tree, Current(w)) # "ok"
    /\ Finish(w, Failure(EffectRefusal(tree, Current(w))), tree)

(* The checks are passed: the operation works on the names they found. *)
Check(w) ==
    /\ Busy(w) /\ op[w] = Idle
    /\ EffectRefusal(tree, Current(w)) = "ok"
    /\ op' = [op EXCEPT ![w] = Begun]
    /\ names' = [i \in DOMAIN names \cup {Position(w)} |->
                   IF i = Position(w) THEN NamesOf(tree, Current(w)) ELSE names[i]]
    /\ UNCHANGED <<runtimeVars, tree>>

(* read_to_string, read_dir, metadata, exists. A link at a checked name is one
   that leads nowhere: these calls find nothing there. *)
Found(t, p) == t[p].kind \in {"dir", "file"}
Read(w) ==
    /\ Begins(w, "read")
    /\ IF IsFile(tree, Path(w)) THEN Finish(w, Success({tree[Path(w)].bytes}), tree) ELSE Fail(w)
List(w) ==
    /\ Begins(w, "list")
    /\ IF IsDir(tree, Path(w))
         THEN Finish(w, Success({q \in Children(tree, Path(w)) : Len(q) = Len(Path(w)) + 1}), tree)
         ELSE Fail(w)
Stat(w) ==
    /\ Begins(w, "stat")
    /\ IF Found(tree, Path(w))
         THEN Finish(w, Success({<<tree[Path(w)].kind, Len(tree[Path(w)].bytes)>>}), tree)
         ELSE Fail(w)
Exists(w) ==
    /\ Begins(w, "exists")
    /\ Finish(w, Success({Found(tree, Path(w))}), tree)

(* Opening a file to write it needs a directory to hold it, and a file or
   nothing where the links at its name lead. *)
CanOpen(t, p) == p \in Paths /\ ParentIsDir(t, p) /\ t[p].kind \in {"absent", "file"}

(* atomic_write: the temporary file is created or truncated, filled, renamed. *)
OpenWriteInPlace(w) ==   \* mutant: no temporary file
    /\ Begins(w, "write")
    /\ IF CanOpen(tree, Path(w))
         THEN Continue(w, Op("fill", Path(w), Content(w)), [tree EXCEPT ![Path(w)] = File(<<>>)])
         ELSE Fail(w)
OpenWrite(w) ==
    /\ Begins(w, "write")
    /\ IF CanOpen(tree, Opened(w))
         THEN Continue(w, Op("fill", Opened(w), Content(w)),
                       [tree EXCEPT ![Opened(w)] = File(<<>>)])
         ELSE Fail(w)

(* append: the file is created when it is not there. *)
OpenAppend(w) ==
    /\ Begins(w, "append")
    /\ IF CanOpen(tree, Opened(w))
         THEN Continue(w, Op("fill", Opened(w), Content(w)),
                       [tree EXCEPT ![Opened(w)] = File(tree[Opened(w)].bytes)])
         ELSE Fail(w)

(* fs::copy: the source is opened, the target created or truncated; what is
   copied is what the source holds then, nothing when it is the target. *)
OpenCopy(w) ==
    /\ Begins(w, "copy")
    /\ IF IsFile(tree, Path(w)) /\ CanOpen(tree, Opened(w))
         THEN LET opened == [tree EXCEPT ![Opened(w)] = File(<<>>)]
              IN  Continue(w, Op("fill", Opened(w), opened[Path(w)].bytes), opened)
         ELSE Fail(w)

(* One write call. A name that another worker took away leaves the open file
   without one, and what is written to it is not seen. *)
Fill(w) ==
    /\ At(w, "fill") /\ op[w].left # <<>>
    /\ Continue(w, Op("fill", op[w].file, Tail(op[w].left)),
                IF IsFile(tree, op[w].file)
                  THEN [tree EXCEPT ![op[w].file] = File(Append(@.bytes, Head(op[w].left)))]
                  ELSE tree)

FillEnds(w) ==
    /\ At(w, "fill") /\ op[w].left = <<>>
    /\ IF Current(w).protocol = Effect("write")
         THEN Continue(w, Op("rename", op[w].file, <<>>), tree)
         ELSE Finish(w, Success({}), tree)

(* rename: a file or a link, which is not followed, replaces what is no
   directory, a directory an empty directory or nothing. *)
CanRename(t, from, to) ==
    /\ t[from] # Absent
    /\ ParentIsDir(t, to)
    /\ \/ from = to
       \/ ~IsDir(t, from) /\ ~IsDir(t, to)
       \/ /\ IsDir(t, from) /\ ~IsPrefix(from, to)
          /\ t[to].kind \in {"absent", "dir"} /\ Children(t, to) = {}
Renamed(t, from, to) ==
    LET Source(p) == from \o SubSeq(p, Len(to) + 1, Len(p))
    IN  IF from = to THEN t
        ELSE [p \in Paths |->
                IF IsPrefix(to, p) THEN IF Source(p) \in Paths THEN t[Source(p)] ELSE Absent
                ELSE IF IsPrefix(from, p) THEN Absent
                ELSE t[p]]

RenameWritten(w) ==
    /\ At(w, "rename")
    /\ IF CanRename(tree, TmpOf[Path(w)], Path(w))
         THEN Finish(w, Success({}), Renamed(tree, TmpOf[Path(w)], Path(w)))
         ELSE Fail(w)
Move(w) ==
    /\ Begins(w, "move")
    /\ IF CanRename(tree, Path(w), To(w))
         THEN Finish(w, Success({}), Renamed(tree, Path(w), To(w)))
         ELSE Fail(w)

(* remove_file takes a link away, not what it leads to. *)
RemoveFile(w) ==
    /\ Begins(w, "remove") /\ ~IsDir(tree, Path(w))
    /\ IF tree[Path(w)] # Absent THEN Finish(w, Success({}), [tree EXCEPT ![Path(w)] = Absent])
       ELSE Fail(w)

(* remove_dir_all: leaves first, the directory itself last; links are leaves. *)
RemoveDir(w) ==
    /\ Begins(w, "remove") \/ At(w, "remove")
    /\ IsDir(tree, Path(w))
    /\ IF Children(tree, Path(w)) = {}
         THEN Finish(w, Success({}), [tree EXCEPT ![Path(w)] = Absent])
         ELSE \E q \in Children(tree, Path(w)) :
                /\ Children(tree, q) = {}
                /\ Continue(w, Op("remove", <<>>, <<>>), [tree EXCEPT ![q] = Absent])

(* create_dir_all: the missing directories, from the top. *)
Blocks(t, q) == t[q].kind \in {"file", "link"}
MakeDir(w) ==
    LET missing == {q \in Paths : IsPrefix(q, Path(w)) /\ tree[q] = Absent}
    IN  /\ Begins(w, "mkdir") \/ At(w, "mkdir")
        /\ IF \E q \in Paths : IsPrefix(q, Path(w)) /\ Blocks(tree, q) THEN Fail(w)
           ELSE IF missing = {} THEN Finish(w, Success({}), tree)
           ELSE \E q \in missing :
                  /\ ParentIsDir(tree, q)
                  /\ Continue(w, Op("mkdir", <<>>, <<>>), [tree EXCEPT ![q] = Dir])

(* The host refuses the call the operation is at: disk full, no permission. *)
HostFails(w) ==
    /\ HostMayFail
    /\ Busy(w) /\ op[w] # Idle
    /\ Current(w).protocol # Effect("exists")
    /\ Finish(w, Failure("host"), tree)

Submit ==
    \E r \in Requests :
      \/ LET source == NextTask(Public(r.op), r.payload)
         IN  RunFacade(source, FacadeRefuses(tree, source), ProtocolPairs)
      \/ r.op \in DirectOps /\ SubmitEffect(NextTask(Effect(r.op), r.payload))

EffectStep(w) ==
    \/ Refuse(w) \/ Check(w) \/ Read(w) \/ List(w) \/ Stat(w) \/ Exists(w)
    \/ OpenWrite(w) \/ OpenAppend(w) \/ OpenCopy(w) \/ Fill(w) \/ FillEnds(w)
    \/ RenameWritten(w) \/ Move(w) \/ RemoveFile(w) \/ RemoveDir(w) \/ MakeDir(w)

Next ==
    \/ Submit /\ UNCHANGED <<tree, op, names>>
    \/ \E w \in Workers, n \in 1 .. MaxBatch :
         Dispatch(w, n, MaxInflightBatches) /\ UNCHANGED <<tree, op, names>>
    \/ \E w \in Workers : EffectStep(w) \/ HostFails(w)
    \/ \E w \in Workers : Answer(w) /\ UNCHANGED <<tree, op, names>>
    \/ Crash /\ op' = [w \in Workers |-> Idle] /\ UNCHANGED <<tree, names>>

Spec == Init /\ [][Next]_vars

-----------------------------------------------------------------------------
(* Properties. *)

IsOp(i, o) == issued[i].protocol = Effect(o) /\ i \in DOMAIN names
PathOf(i) == names[i].path
ToOf(i) == names[i].to
FileOf(i) == names[i].file
WritesTo(i, p) == IsOp(i, "write") /\ PathOf(i) = p

(* Types, and the tree is one after every host call. *)
TypeOK ==
    /\ RuntimeTypeOK
    /\ tree \in [Paths -> Nodes] /\ IsTree(tree)
    /\ DOMAIN names \subseteq DOMAIN issued
    /\ \A i \in DOMAIN names : {PathOf(i), ToOf(i)} \subseteq Paths
    /\ \A w \in Workers :
          /\ op[w].left \in Seq(Chunks)
          /\ op[w].step \in {"idle", "begun", "fill", "rename", "remove", "mkdir"}
          /\ op[w] # Idle => Busy(w) /\ Position(w) \in DOMAIN names

(* A task that may change p other than by writing to it whole: a write whose
   temporary file is at p, or is a link, so that p becomes one or is where it
   leads. *)
Disturbs(i, p) ==
    \/ IsOp(i, "write") /\ PathOf(i) # p /\ p \in {TmpOf[PathOf(i)], FileOf(i)}
    \/ IsOp(i, "write") /\ PathOf(i) = p /\ (TmpOf[p] = p \/ FileOf(i) # TmpOf[p])
    \/ (IsOp(i, "append") \/ IsOp(i, "copy")) /\ FileOf(i) = p
    \/ IsOp(i, "move") /\ (IsPrefix(PathOf(i), p) \/ IsPrefix(ToOf(i), p))
    \/ IsOp(i, "remove") /\ IsPrefix(PathOf(i), p)
    \/ IsOp(i, "mkdir") /\ IsPrefix(p, PathOf(i))

(* Writes are atomic (atomic_write, lib.rs:417): whatever fails and whenever the
   process dies, a file that only writes touch holds what the last write
   answered with success stored, or, whole, what a write not answered (still
   running, or lost in a crash) was to store. No torn file is ever seen, and a
   write answered with an error has changed nothing. *)
WritesAreAtomic ==
    \A p \in Paths :
      (\A i \in DOMAIN issued : ~Disturbs(i, p)) =>
         LET answered == {i \in DOMAIN issued :
                            WritesTo(i, p) /\ outcome[i] # NoResult /\ outcome[i].code = "ok"}
             last == Max(answered \cup {0})
         IN  \/ tree[p] = IF last = 0 THEN InitTree[p] ELSE File(issued[last].payload.content)
             \/ \E i \in DOMAIN issued :
                   /\ i > last /\ WritesTo(i, p) /\ outcome[i] = NoResult
                   /\ tree[p] = File(issued[i].payload.content)

(* What an operation that passed its checks does in one go to the names n they
   found, the reference the steps are held to. A write takes the name of its
   temporary file away, and a temporary file that is a link is what the target
   becomes. *)
InOneGo(t, task, n) ==
    LET p == n.path  q == n.to  f == n.file  c == task.payload.content
        Is(o) == task.protocol = Effect(o)
        Outcome(next, result) == [tree |-> next, result |-> result]
        Guarded(can, next, value) ==
          IF can THEN Outcome(next, Success(value)) ELSE Outcome(t, Failure("io"))
        Written(filled) == [[filled EXCEPT ![TmpOf[p]] = Absent] EXCEPT ![p] = filled[TmpOf[p]]]
    IN  CASE Is("read") -> Guarded(IsFile(t, p), t, {t[p].bytes})
          [] Is("list") ->
               Guarded(IsDir(t, p), t, {r \in Children(t, p) : Front(r) = p})
          [] Is("stat") -> Guarded(Found(t, p), t, {<<t[p].kind, Len(t[p].bytes)>>})
          [] Is("exists") -> Guarded(TRUE, t, {Found(t, p)})
          [] Is("write") ->
               Guarded(CanOpen(t, f), Written([t EXCEPT ![f] = File(c)]), {})
          [] Is("append") -> Guarded(CanOpen(t, f), [t EXCEPT ![f] = File(@.bytes \o c)], {})
          [] Is("copy") ->
               Guarded(IsFile(t, p) /\ CanOpen(t, f),
                       [t EXCEPT ![f] = IF p = f THEN File(<<>>) ELSE t[p]], {})
          [] Is("move") -> Guarded(CanRename(t, p, q), Renamed(t, p, q), {})
          [] Is("remove") ->
               Guarded(t[p] # Absent,
                       [r \in Paths |-> IF IsPrefix(p, r) THEN Absent ELSE t[r]], {})
          [] Is("mkdir") ->
               Guarded(\A r \in Paths : IsPrefix(r, p) => ~Blocks(t, r),
                       [r \in Paths |-> IF IsPrefix(r, p) THEN Dir ELSE t[r]], {})
Applied(t, task) ==
    IF EffectRefusal(t, task) = "ok" THEN InOneGo(t, task, NamesOf(t, task))
    ELSE [tree |-> t, result |-> Failure(EffectRefusal(t, task))]

(* Effects happen one after the other in the order the facade queued them
   (preserve_order and max_inflight_batches, lib.rs:210): when nothing is under
   way, and neither the host nor a write failed, the tree and every answer are
   what running the tasks one by one, each in one go, would have given. *)
AsIfSerial ==
    (/\ crashes = 0
     /\ \A w \in Workers : batch[w] = NoBatch
     /\ \A i \in 1 .. taken :
          /\ outcome[i].code # "host"
          /\ IsOp(i, "write") => outcome[i].code = "ok")
    => LET run[k \in 0 .. taken] ==
             IF k = 0 THEN [tree |-> InitTree, result |-> None]
             ELSE Applied(run[k - 1].tree, issued[k])
       IN  /\ tree = run[taken].tree
           /\ \A k \in 1 .. taken : outcome[k] = run[k].result

(* A task changes only what its allow-list covers (checked_path, which the
   effect runner applies again to tasks that came without the facade), wherever
   links on its names or on the allow-list's lead. Beside it a write changes its
   temporary file, or what a link at that name leads to; a mkdir the directories
   above; and an append or a copy to a name that was not there what a link at
   that name leads to, for absolute_path keeps such a name as it was given. *)
MayChange(i, p) ==
    \/ names[i].roots \cap Above(p) # {}
    \/ IsOp(i, "write") /\ p \in {TmpOf[PathOf(i)], FileOf(i)}
    \/ IsOp(i, "mkdir") /\ IsPrefix(p, PathOf(i))
    \/ (IsOp(i, "append") \/ IsOp(i, "copy")) /\ names[i].missing /\ p = FileOf(i)
OnlyAllowedChanges ==
    \A p \in Paths : tree'[p] # tree[p] =>
      \E w \in Workers : Busy(w) /\ Position(w) \in DOMAIN names /\ MayChange(Position(w), p)
OnlyAllowedTouched == [][OnlyAllowedChanges]_vars
=============================================================================
