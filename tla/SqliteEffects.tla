---------------------------- MODULE SqliteEffects ----------------------------
(* SQLite effects (plugins/mutsuki-plugin-db-sqlite): every effect task opens
   the database file, works on a connection of its own and drops it. Another
   process may write to the same file; SQLite's write lock keeps the two apart,
   and its journal undoes an open transaction when the process dies. *)
EXTENDS EffectRuntime, SqlStatements, SequencesExt

CONSTANTS
    Files,
    Sqls,         \* texts of SQL, each the sequence of its statements
    Requests,     \* what is submitted: [op, payload]
    DirectOps,    \* operations also submitted without the facade
    InitDb,
    Foreign,      \* statements the other process runs
    MaxForeign,   \* bound: how many of them
    HostMayFail

ASSUME EveryFileHasAState ==
    /\ DOMAIN InitDb = Files
    /\ \A f \in Files : InitDb[f] \in {Missing, Empty, Table(InitDb[f].rows)}
ASSUME RequestsNameFiles ==
    \A r \in Requests :
      /\ r.payload.path \in Files \cup {None}
      /\ r.payload.sql \in Sqls \cup {None}
      /\ r.payload.statements # None => r.payload.statements \in Seq(Sqls \cup {None})
ASSUME NoneHoldsNoLock == None \notin 0 .. MaxWorkers

VARIABLES
    db,        \* what each file durably holds
    lock,      \* per file, who holds the write lock: None, a worker or OtherProcess
    conn,      \* per worker, the connection its entry has open
    commits    \* history: what was committed, in order
vars == <<runtimeVars, db, lock, conn, commits>>

Ops == <<"open", "query", "execute", "transaction", "close">>
Public(o) == <<"db", o>>
Effect(o) == <<"effect", "db", o>>
ProtocolPairs == [i \in DOMAIN Ops |-> [public |-> Public(Ops[i]), effect |-> Effect(Ops[i])]]
ASSUME PairsAreUnique == ValidateUnique(ProtocolPairs)
TwoInflightBatches == 2   \* mutant
MaxInflightBatches == 1

(* json_to_sql_value, by the kind of the value: a boolean becomes an integer, a
   number beyond i64 a real, an array or an object its text. *)
JsonToSql(v) ==
    CASE v = "bool" -> "integer"
      [] v = "huge" -> "real"
      [] v \in {"array", "object"} -> "text"
      [] OTHER -> v
(* sqlite_value: a blob, which another process may have stored, shows its size only. *)
SqliteValue(v) == IF v = "blob" THEN "blob_size" ELSE v
Bound(s) == [s EXCEPT !.value = JsonToSql(@)]
Shown(t) == {Row(row.key, SqliteValue(row.value)) : row \in t.rows}

OtherProcess == 0

-----------------------------------------------------------------------------
(* Checks of a task. *)

CheckedPath(task) ==
    IF task.payload.path = None THEN "invalid_path"
    ELSE IF task.payload.allowlist = None THEN "permission_denied"
    ELSE IF \E dir \in task.payload.allowlist : IsPrefix(dir, task.payload.path) THEN "ok"
    ELSE "permission_denied"

FacadeRefuses(task) == task.protocol # Public("close") /\ CheckedPath(task) # "ok"

EffectRefusal(task) ==
    IF task.protocol = Effect("close") THEN "ok"
    ELSE IF \A i \in DOMAIN Ops : task.protocol # Effect(Ops[i]) THEN "unsupported"
    ELSE CheckedPath(task)

-----------------------------------------------------------------------------
(* A connection: closed; open; or in a transaction, with the statements left to
   run and, from the first one that reads or writes, the state they see. *)
Conn(step, left, pending) == [step |-> step, left |-> left, pending |-> pending]
Closed == Conn("closed", <<>>, Missing)

Init ==
    /\ RuntimeInit
    /\ db = InitDb
    /\ lock = [f \in Files |-> None]
    /\ conn = [w \in Workers |-> Closed]
    /\ commits = <<>>

At(w, step) == Busy(w) /\ conn[w].step = step
Is(w, o) == Current(w).protocol = Effect(o)
Path(w) == Current(w).payload.path
ReadOnly(w) == Current(w).payload.readonly

(* The entry is over: its connection is dropped, and with it a transaction that
   was not committed and the lock. *)
NeverUnlocked(w) == lock   \* mutant
Unlocked(w) == [f \in Files |-> IF lock[f] = w THEN None ELSE lock[f]]
Finish(w, result) ==
    /\ FinishEntry(w, result)
    /\ conn' = [conn EXCEPT ![w] = Closed]
    /\ lock' = Unlocked(w)
FinishUnchanged(w, result) == Finish(w, result) /\ UNCHANGED <<db, commits>>
(* Mutant: a dropped transaction commits what it has run. *)
FailCommitting(w, code) ==
    /\ Finish(w, Failure(code))
    /\ db' = IF conn[w].pending = Missing THEN db
             ELSE [db EXCEPT ![Current(w).payload.path] = conn[w].pending]
    /\ UNCHANGED commits
Fail(w, code) == FinishUnchanged(w, Failure(code))

(* The statements of this task are in the file from here on. *)
Committed(w, statements, next) ==
    /\ db' = [db EXCEPT ![Path(w)] = next]
    /\ commits' = Append(commits, [task |-> Position(w), file |-> Path(w), statements |-> statements])

Refuse(w) ==
    /\ At(w, "closed")
    /\ EffectRefusal(Current(w)) # "ok"
    /\ Fail(w, EffectRefusal(Current(w)))

Close(w) ==
    /\ At(w, "closed") /\ Is(w, "close")
    /\ FinishUnchanged(w, Success({}))

(* Mutant: the read-only flag is not looked at. *)
OpenConnectionWritable(w) ==
    /\ At(w, "closed") /\ ~Is(w, "close")
    /\ EffectRefusal(Current(w)) = "ok"
    /\ db' = IF db[Path(w)] = Missing THEN [db EXCEPT ![Path(w)] = Empty] ELSE db
    /\ conn' = [conn EXCEPT ![w] = Conn("open", <<>>, Missing)]
    /\ UNCHANGED <<runtimeVars, lock, commits>>

(* open_connection: a writable one creates the file. *)
OpenConnection(w) ==
    /\ At(w, "closed") /\ ~Is(w, "close")
    /\ EffectRefusal(Current(w)) = "ok"
    /\ IF db[Path(w)] = Missing /\ ReadOnly(w) THEN Fail(w, "open_failed")
       ELSE /\ db' = IF db[Path(w)] = Missing THEN [db EXCEPT ![Path(w)] = Empty] ELSE db
            /\ conn' = [conn EXCEPT ![w] = Conn("open", <<>>, Missing)]
            /\ UNCHANGED <<runtimeVars, lock, commits>>

Open(w) ==
    /\ At(w, "open") /\ Is(w, "open")
    /\ FinishUnchanged(w, Success({}))

(* query_rows and execute_sql prepare the first statement of their SQL; what
   follows it is not looked at. A query shows the rows of a SELECT, and runs
   any other statement. *)
Sql(w) == Current(w).payload.sql
First(w) == Bound(Head(Sql(w)))
SqlMissing(w) ==
    /\ At(w, "open") /\ (Is(w, "query") \/ Is(w, "execute"))
    /\ Sql(w) = None
    /\ Fail(w, "invalid_payload")
Select(w) ==
    /\ At(w, "open") /\ Is(w, "query") /\ Sql(w) # None
    /\ First(w).verb = "select"
    /\ IF db[Path(w)].kind = "table"
         THEN FinishUnchanged(w, Success(Shown(db[Path(w)])))
         ELSE Fail(w, "failed")

(* Whether a statement goes through, and with the lock it needs: a write on a
   read-only connection is refused before it asks for one. *)
Runs(w, t, s) == Applies(t, s) /\ ~(ReadOnly(w) /\ Writes(s))
NeedsLock(w, s) == Writes(s) /\ ~ReadOnly(w)
CanLock(w) == lock[Path(w)] \in {None, w}

Autocommit(w) ==
    /\ At(w, "open") /\ (Is(w, "execute") \/ Is(w, "query")) /\ Sql(w) # None
    /\ Is(w, "query") => First(w).verb # "select"
    /\ NeedsLock(w, First(w)) => CanLock(w)
    /\ IF Runs(w, db[Path(w)], First(w))
         THEN /\ Committed(w, <<First(w)>>, After(db[Path(w)], First(w)))
              /\ Finish(w, Success({}))
         ELSE Fail(w, "failed")

(* execute_transaction: BEGIN takes no lock yet. *)
Begin(w) ==
    /\ At(w, "open") /\ Is(w, "transaction")
    /\ IF Current(w).payload.statements = None THEN Fail(w, "invalid_payload")
       ELSE /\ conn' = [conn EXCEPT ![w] = Conn("transaction", Current(w).payload.statements, Missing)]
            /\ UNCHANGED <<runtimeVars, db, lock, commits>>

(* What the transaction sees: the file, until its first statement has run. *)
Seen(w) == IF conn[w].pending = Missing THEN db[Path(w)] ELSE conn[w].pending

(* Mutant: statements run without a transaction around them. *)
RunStatementAlone(w) ==
    LET s == Bound(Head(Head(conn[w].left)))
    IN  /\ At(w, "transaction") /\ conn[w].left # <<>>
        /\ IF Head(conn[w].left) = None THEN Fail(w, "invalid_payload")
           ELSE /\ NeedsLock(w, s) => CanLock(w)
                /\ IF Runs(w, db[Path(w)], s)
                     THEN /\ Committed(w, <<s>>, After(db[Path(w)], s))
                          /\ conn' = [conn EXCEPT ![w] = Conn("transaction", Tail(@.left), Missing)]
                          /\ UNCHANGED <<runtimeVars, lock>>
                     ELSE Fail(w, "failed")

Statement(w) == Bound(Head(Head(conn[w].left)))
RunStatement(w) ==
    /\ At(w, "transaction") /\ conn[w].left # <<>>
    /\ IF Head(conn[w].left) = None THEN Fail(w, "invalid_payload")
       ELSE /\ NeedsLock(w, Statement(w)) => CanLock(w)
            /\ IF Runs(w, Seen(w), Statement(w))
                 THEN /\ conn' = [conn EXCEPT ![w] =
                                    Conn("transaction", Tail(@.left), After(Seen(w), Statement(w)))]
                      /\ lock' = IF Writes(Statement(w)) THEN [lock EXCEPT ![Path(w)] = w] ELSE lock
                      /\ UNCHANGED <<runtimeVars, db, commits>>
                 ELSE Fail(w, "failed")

Ran(w) == LET ss == Current(w).payload.statements IN [k \in DOMAIN ss |-> Bound(Head(ss[k]))]
Commit(w) ==
    /\ At(w, "transaction") /\ conn[w].left = <<>>
    /\ Committed(w, Ran(w), Seen(w))
    /\ Finish(w, Success({}))

LockWaits(w) == FALSE   \* mutant: no busy timeout
(* A statement needs the lock, which is another's: the busy timeout passes. *)
LockTimesOut(w) ==
    /\ \/ At(w, "open") /\ (Is(w, "execute") \/ Is(w, "query")) /\ Sql(w) # None
         /\ NeedsLock(w, First(w))
       \/ At(w, "transaction") /\ conn[w].left # <<>> /\ Head(conn[w].left) # None
         /\ NeedsLock(w, Statement(w))
    /\ lock[Path(w)] \notin {None, w}
    /\ Fail(w, "busy")

(* The host refuses what the connection is at: disk full, file not readable. *)
HostFails(w) ==
    /\ HostMayFail
    /\ Busy(w) /\ ~Is(w, "close") /\ EffectRefusal(Current(w)) = "ok"
    /\ Fail(w, "host")

-----------------------------------------------------------------------------
(* The other process. It commits when no transaction reads the file. *)
ForeignCommits == Cardinality({k \in DOMAIN commits : commits[k].task = 0})
OtherLocks(f) ==
    /\ db[f] # Missing /\ lock[f] = None
    /\ ForeignCommits < MaxForeign
    /\ lock' = [lock EXCEPT ![f] = OtherProcess]
    /\ UNCHANGED <<runtimeVars, db, conn, commits>>
OtherCommits(f, s) ==
    /\ lock[f] = OtherProcess
    /\ Applies(db[f], s)
    /\ \A w \in Workers : Busy(w) /\ conn[w].pending # Missing => Path(w) # f
    /\ db' = [db EXCEPT ![f] = After(@, s)]
    /\ commits' = Append(commits, [task |-> 0, file |-> f, statements |-> <<s>>])
    /\ lock' = [lock EXCEPT ![f] = None]
    /\ UNCHANGED <<runtimeVars, conn>>
OtherRollsBack(f) ==
    /\ lock[f] = OtherProcess
    /\ lock' = [lock EXCEPT ![f] = None]
    /\ UNCHANGED <<runtimeVars, db, conn, commits>>

-----------------------------------------------------------------------------
databaseVars == <<db, lock, conn, commits>>
Submit ==
    \E r \in Requests :
      \/ LET source == NextTask(Public(r.op), r.payload)
         IN  RunFacade(source, FacadeRefuses(source), ProtocolPairs)
      \/ r.op \in DirectOps /\ SubmitEffect(NextTask(Effect(r.op), r.payload))

EffectStep(w) ==
    \/ Refuse(w) \/ Close(w) \/ OpenConnection(w) \/ Open(w)
    \/ SqlMissing(w) \/ Select(w) \/ Autocommit(w)
    \/ Begin(w) \/ RunStatement(w) \/ Commit(w) \/ LockTimesOut(w)

Other == \E f \in Files : OtherLocks(f) \/ OtherRollsBack(f) \/ \E s \in Foreign : OtherCommits(f, s)

DispatchAny ==
    /\ \E w \in Workers, n \in 1 .. MaxBatch : Dispatch(w, n, MaxInflightBatches)
    /\ UNCHANGED databaseVars

Next ==
    \/ Submit /\ UNCHANGED databaseVars
    \/ DispatchAny
    \/ \E w \in Workers : EffectStep(w) \/ HostFails(w)
    \/ \E w \in Workers : Answer(w) /\ UNCHANGED databaseVars
    \/ Other
    \/ /\ Crash
       /\ conn' = [w \in Workers |-> Closed]
       /\ lock' = [f \in Files |-> IF lock[f] = OtherProcess THEN OtherProcess ELSE None]
       /\ UNCHANGED <<db, commits>>

Spec == Init /\ [][Next]_vars

(* As for the file effects; of the other process nothing is assumed, not even
   that it ever lets go of the lock. *)
Fairness ==
    /\ WF_vars(DispatchAny)
    /\ \A w \in Workers : /\ WF_vars(EffectStep(w))
                          /\ WF_vars(Answer(w) /\ UNCHANGED databaseVars)
LiveSpec == Spec /\ Fairness

-----------------------------------------------------------------------------
(* Properties. *)

(* Types; a lock is held by a connection that works on that file. *)
TypeOK ==
    /\ RuntimeTypeOK
    /\ \A f \in Files : db[f].kind \in {"missing", "empty", "table"}
    /\ \A w \in Workers :
          /\ conn[w].step \in {"closed", "open", "transaction"}
          /\ conn[w] # Closed => Busy(w)
          /\ \A f \in Files : lock[f] = w => At(w, "transaction") /\ Path(w) = f

CommittedTask(i) == \E k \in DOMAIN commits : commits[k].task = i
IsOp(i, o) == issued[i].protocol = Effect(o)
Selects(i) == IsOp(i, "query") /\ Bound(Head(issued[i].payload.sql)).verb = "select"
(* What must be in the database once the task reports success. *)
MustCommit(i) == IsOp(i, "execute") \/ IsOp(i, "transaction") \/ (IsOp(i, "query") /\ ~Selects(i))

(* A task that reports success for SQL it was to execute is in the database; one
   that reports an error is not, however far it had come (execute_transaction,
   lib.rs:312: an early return drops the transaction). *)
ReportedIffCommitted ==
    \A i \in DOMAIN issued :
      Result(i) # NoResult =>
        /\ Result(i).code # "ok" => ~CommittedTask(i)
        /\ Result(i).code = "ok" /\ MustCommit(i) => CommittedTask(i)

(* A task that asked for a read-only connection changes no file and makes none
   (open_connection, lib.rs:343). *)
Licensed(f) ==
    lock[f] = OtherProcess \/ \E w \in Workers : Busy(w) /\ Path(w) = f /\ ~ReadOnly(w)
OnlyLicensedChanges == \A f \in Files : db'[f] # db[f] => Licensed(f)
ReadOnlyChangesNothing == [][OnlyLicensedChanges]_vars

(* What a file holds after the first k commits. *)
Replayed(f) ==
    LET at[k \in 0 .. Len(commits)] ==
          IF k = 0 THEN IF InitDb[f] = Missing THEN Empty ELSE InitDb[f]
          ELSE IF commits[k].file = f THEN AfterAll(at[k - 1], commits[k].statements)
          ELSE at[k - 1]
    IN  at

(* A query shows one committed state: the one after every transaction queued
   before it and before every one queued after it (preserve_order and
   max_inflight_batches, lib.rs:176). *)
QueriesInOrder ==
    \A i \in DOMAIN issued :
      (Result(i) # NoResult /\ Result(i).code = "ok" /\ Selects(i)) =>
        \E k \in 0 .. Len(commits) :
          /\ \A j \in DOMAIN commits :
                /\ commits[j].task \in 1 .. i - 1 => j =< k
                /\ commits[j].task > i => j > k
          /\ Result(i).value = Shown(Replayed(issued[i].payload.path)[k])

(* The test at lib.rs:533 executes two statements as the SQL of one task and
   takes the task's success for both. *)
WholeSqlRuns ==
    \A i \in DOMAIN issued :
      (IsOp(i, "execute") /\ Result(i) # NoResult /\ Result(i).code = "ok") =>
        \E k \in DOMAIN commits :
          /\ commits[k].task = i
          /\ Len(commits[k].statements) = Len(issued[i].payload.sql)
=============================================================================
