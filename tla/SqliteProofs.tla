---------------------------- MODULE SqliteProofs ----------------------------
(* Theorems about SqliteEffects, for any number of workers, tasks, files and
   statements: success means committed and failure means not, a read-only
   connection changes nothing, what a file holds is what its commits one after
   the other leave (so that the locks of several connections implement
   AtomicDatabase), and what a query gives is one of the states a file had
   while it ran. *)
EXTENDS SqliteRefinement, EffectRuntimeProofs

-----------------------------------------------------------------------------
(* The invariant. A connection belongs to the worker that is busy; what was
   committed was committed by tasks before the one under way; and a read-only
   transaction has seen nothing but what the file holds. *)

ConnInv ==
    /\ conn = [w \in Workers |-> conn[w]]
    /\ \A w \in Workers : conn[w] # Closed => Busy(w)
FilesInv ==
    /\ DOMAIN db = Files
    /\ \A w \in Workers :
         (conn[w].pending # Missing /\ ReadOnly(w) /\ Path(w) \in Files)
           => conn[w].pending = db[Path(w)]
CommitsInv ==
    /\ IsSeq(commits)
    /\ \A k \in DOMAIN commits :
         /\ commits[k].task \in Nat /\ commits[k].task =< taken
         /\ \A w \in Workers : Busy(w) => commits[k].task < Position(w)
Reported(i, r) ==
    /\ r.code # "ok" => ~CommittedTask(i)
    /\ r.code = "ok" /\ MustCommit(i) => CommittedTask(i)
ReportInv == \A i, r : Gave(i, r) => Reported(i, r)
SqlInv == RuntimeInv /\ ConnInv /\ FilesInv /\ CommitsInv /\ ReportInv

LEMMA SqlInvInit == Init => SqlInv
<1> SUFFICES ASSUME Init PROVE SqlInv
  OBVIOUS
<1>1. RuntimeInv
  BY RuntimeInvInit DEF Init
<1>2. ConnInv
  BY DEF Init, ConnInv
<1>3. FilesInv
  BY EveryFileHasAState DEF Init, FilesInv, Closed, Conn
<1>4. CommitsInv
  BY IsSeqShort, IsSeqFacts DEF Init, CommitsInv
<1>5. ReportInv
  <2>1. \A w \in Workers : batch[w] = NoBatch
    BY DEF Init, RuntimeInit
  <2>2. DOMAIN outcome = {}
    BY IsSeqShort, IsSeqFacts DEF Init, RuntimeInit
  <2>3. QED
    BY <2>1, <2>2 DEF ReportInv, Gave
<1>6. QED
  BY <1>1, <1>2, <1>3, <1>4, <1>5 DEF SqlInv

LEMMA OpsDiffer ==
    /\ Effect("close") \notin {Effect("execute"), Effect("transaction"), Effect("query")}
    /\ Effect("open") \notin {Effect("execute"), Effect("transaction"), Effect("query")}
    /\ Effect("query") \notin {Effect("execute"), Effect("transaction")}
  BY DEF Effect

LEMMA IdleClosed ==
    ASSUME SqlInv, NEW w \in Workers, ~Busy(w)
    PROVE  conn[w] = Closed
  BY DEF SqlInv, ConnInv

(* Whether a task is to commit is settled when it is queued. *)
LEMMA MustCommitSame ==
    ASSUME NEW i \in DOMAIN issued, issued'[i] = issued[i]
    PROVE  MustCommit(i)' <=> MustCommit(i)
  BY DEF MustCommit, IsOp, Selects

(* A step that commits nothing and answers nothing. *)
LEMMA QuietReports ==
    ASSUME SqlInv, \A i, r : Gave(i, r)' => Gave(i, r), commits' = commits,
           \A i \in DOMAIN issued : issued'[i] = issued[i]
    PROVE  ReportInv'
<1> SUFFICES ASSUME NEW i, NEW r, Gave(i, r)' PROVE Reported(i, r)'
  BY DEF ReportInv
<1>1. Gave(i, r) /\ i \in DOMAIN issued
  BY GaveFacts DEF SqlInv
<1>2. Reported(i, r)
  BY <1>1 DEF SqlInv, ReportInv
<1>3. MustCommit(i)' <=> MustCommit(i)
  BY <1>1, MustCommitSame
<1>4. CommittedTask(i)' <=> CommittedTask(i)
  BY DEF CommittedTask
<1>5. QED
  BY <1>2, <1>3, <1>4 DEF Reported

(* What was committed, and one task more. *)
LEMMA CommitsAppended ==
    ASSUME IsSeq(commits), NEW entry, commits' = Append(commits, entry)
    PROVE  /\ IsSeq(commits')
           /\ \A i : CommittedTask(i)' <=> CommittedTask(i) \/ entry.task = i
           /\ \A k \in DOMAIN commits' : commits'[k] = entry \/ (k \in DOMAIN commits /\ commits'[k] = commits[k])
<1>1. PICK n \in Nat : n = Len(commits) /\ DOMAIN commits = 1 .. n
  BY IsSeqFacts
<1>2. /\ IsSeq(commits') /\ DOMAIN commits' = 1 .. n + 1
      /\ \A k \in 1 .. n : commits'[k] = commits[k]
      /\ commits'[n + 1] = entry
  BY <1>1, IsSeqAppend
<1>3. \A k \in 1 .. n + 1 : k = n + 1 \/ k \in 1 .. n
  BY <1>1
<1>4. 1 .. n \subseteq 1 .. n + 1 /\ n + 1 \in 1 .. n + 1
  BY <1>1
<1>5. \A k \in DOMAIN commits' :
        (k = n + 1 /\ commits'[k] = entry) \/ (k \in DOMAIN commits /\ commits'[k] = commits[k])
  BY <1>1, <1>2, <1>3
<1>6. ASSUME NEW i PROVE CommittedTask(i)' <=> CommittedTask(i) \/ entry.task = i
  <2>1. ASSUME CommittedTask(i)' PROVE CommittedTask(i) \/ entry.task = i
    BY <1>5, <2>1 DEF CommittedTask
  <2>2. ASSUME CommittedTask(i) PROVE CommittedTask(i)'
    BY <1>1, <1>2, <1>4, <2>2 DEF CommittedTask
  <2>3. ASSUME entry.task = i PROVE CommittedTask(i)'
    BY <1>2, <1>4, <2>3 DEF CommittedTask
  <2>4. QED
    BY <2>1, <2>2, <2>3
<1>7. \A i : CommittedTask(i)' <=> CommittedTask(i) \/ entry.task = i
  BY <1>6
<1>8. \A k \in DOMAIN commits' : commits'[k] = entry \/ (k \in DOMAIN commits /\ commits'[k] = commits[k])
  BY <1>5
<1>9. QED
  BY <1>2, <1>7, <1>8

-----------------------------------------------------------------------------
(* The end of an entry. *)

LEMMA FinishCloses ==
    ASSUME SqlInv, NEW w \in Workers, Busy(w), NEW result, Finish(w, result)
    PROVE  /\ RuntimeInv'
           /\ \A i, r : Gave(i, r)' => Gave(i, r) \/ (i = Position(w) /\ r = result)
           /\ taken' = taken /\ issued' = issued
           /\ \A v \in Workers : Busy(v)' => v = w
           /\ Position(w)' = Position(w) + 1
           /\ Position(w) \in Nat /\ 1 =< Position(w) /\ Position(w) =< taken
           /\ taken \in Nat
           /\ conn' = [v \in Workers |-> Closed]
<1>1. FinishEntry(w, result) /\ conn' = [conn EXCEPT ![w] = Closed]
  BY DEF Finish
<1>2. /\ RuntimeInv'
      /\ \A i, r : Gave(i, r)' => Gave(i, r) \/ (i = Position(w) /\ r = result)
      /\ taken' = taken /\ issued' = issued
      /\ \A v \in Workers : batch'[v] # NoBatch => v = w
      /\ Position(w)' = Position(w) + 1
  BY <1>1, FinishEntryInv DEF SqlInv
<1>3. taken \in Nat
  BY DEF SqlInv, RuntimeInv, CountersInv
<1>4. /\ Position(w) \in Nat /\ Position(w) \in 1 .. taken
      /\ \A v \in Workers : batch[v] # NoBatch => v = w
  BY BusyFacts DEF SqlInv
<1>5. \A v \in Workers : v # w => conn[v] = Closed
  BY <1>4, IdleClosed DEF Busy
<1>6. conn' = [v \in Workers |-> Closed]
  BY <1>1, <1>5 DEF SqlInv, ConnInv
<1>7. \A v \in Workers : Busy(v)' => v = w
  BY <1>2 DEF Busy
<1>8. QED
  BY <1>2, <1>3, <1>4, <1>6, <1>7

LEMMA FinishKeeps ==
    ASSUME SqlInv, NEW w \in Workers, Busy(w), NEW result, Finish(w, result),
           UNCHANGED <<db, commits>>,
           result.code = "ok" => ~MustCommit(Position(w))
    PROVE  SqlInv'
<1>1. /\ RuntimeInv'
      /\ \A i, r : Gave(i, r)' => Gave(i, r) \/ (i = Position(w) /\ r = result)
      /\ taken' = taken /\ issued' = issued
      /\ \A v \in Workers : Busy(v)' => v = w
      /\ Position(w)' = Position(w) + 1 /\ Position(w) \in Nat
      /\ conn' = [v \in Workers |-> Closed]
  BY FinishCloses
<1>2. ConnInv' /\ FilesInv'
  BY <1>1 DEF SqlInv, ConnInv, FilesInv, Closed, Conn
<1>3. CommitsInv'
  <2>1. \A k \in DOMAIN commits : commits[k].task \in Nat /\ commits[k].task < Position(w)
    BY DEF SqlInv, CommitsInv
  <2>2. QED
    BY <1>1, <2>1 DEF SqlInv, CommitsInv
<1>4. ReportInv'
  <2> SUFFICES ASSUME NEW i, NEW r, Gave(i, r)' PROVE Reported(i, r)'
    BY DEF ReportInv
  <2>1. (CommittedTask(i)' <=> CommittedTask(i)) /\ (MustCommit(i)' <=> MustCommit(i))
    BY <1>1 DEF CommittedTask, MustCommit, IsOp, Selects
  <2>2. CASE Gave(i, r)
    BY <2>1, <2>2 DEF SqlInv, ReportInv, Reported
  <2>3. CASE i = Position(w) /\ r = result
    <3>1. ~CommittedTask(i)
      BY <1>1, <2>3 DEF CommittedTask, SqlInv, CommitsInv
    <3>2. QED
      BY <2>1, <2>3, <3>1 DEF Reported
  <2>4. QED
    BY <1>1, <2>2, <2>3
<1>5. QED
  BY <1>1, <1>2, <1>3, <1>4 DEF SqlInv

LEMMA FailKeeps ==
    ASSUME SqlInv, NEW w \in Workers, Busy(w), NEW code, code # "ok", Fail(w, code)
    PROVE  SqlInv'
<1>1. Failure(code).code # "ok"
  BY DEF Failure
<1>2. QED
  BY <1>1, FinishKeeps DEF Fail, FinishUnchanged

(* What a task committed is in the file when it reports success. *)
LEMMA FinishCommits ==
    ASSUME SqlInv, NEW w \in Workers, Busy(w), NEW result, result.code = "ok",
           Finish(w, result), NEW statements, NEW next, Committed(w, statements, next)
    PROVE  SqlInv'
<1>1. /\ RuntimeInv'
      /\ \A i, r : Gave(i, r)' => Gave(i, r) \/ (i = Position(w) /\ r = result)
      /\ taken' = taken /\ issued' = issued
      /\ \A v \in Workers : Busy(v)' => v = w
      /\ Position(w)' = Position(w) + 1 /\ Position(w) \in Nat /\ Position(w) =< taken
      /\ conn' = [v \in Workers |-> Closed]
  BY FinishCloses
<1>2. db' = [db EXCEPT ![Path(w)] = next]
  BY DEF Committed
<1>3. ConnInv' /\ FilesInv'
  BY <1>1, <1>2 DEF SqlInv, ConnInv, FilesInv, Closed, Conn
<1>4. PICK entry : entry.task = Position(w) /\ commits' = Append(commits, entry)
  BY DEF Committed
<1>5. /\ IsSeq(commits')
      /\ \A i : CommittedTask(i)' <=> CommittedTask(i) \/ i = Position(w)
      /\ \A k \in DOMAIN commits' :
            commits'[k] = entry \/ (k \in DOMAIN commits /\ commits'[k] = commits[k])
  BY <1>4, CommitsAppended DEF SqlInv, CommitsInv
<1>6. CommitsInv'
  <2>1. \A k \in DOMAIN commits' :
          commits'[k].task \in Nat /\ commits'[k].task =< taken /\ commits'[k].task =< Position(w)
    BY <1>1, <1>4, <1>5 DEF SqlInv, CommitsInv
  <2>2. QED
    BY <1>1, <1>5, <2>1 DEF CommitsInv
<1>7. ReportInv'
  <2> SUFFICES ASSUME NEW i, NEW r, Gave(i, r)' PROVE Reported(i, r)'
    BY DEF ReportInv
  <2>1. MustCommit(i)' <=> MustCommit(i)
    BY <1>1 DEF MustCommit, IsOp, Selects
  <2>2. CASE Gave(i, r)
    <3>1. Reported(i, r) /\ i # Position(w)
      BY <2>2, GaveFacts DEF SqlInv, ReportInv
    <3>2. QED
      BY <1>5, <2>1, <3>1 DEF Reported
  <2>3. CASE i = Position(w) /\ r = result
    BY <1>5, <2>3 DEF Reported
  <2>4. QED
    BY <1>1, <2>2, <2>3
<1>8. QED
  BY <1>1, <1>3, <1>6, <1>7 DEF SqlInv

-----------------------------------------------------------------------------
(* The steps of a connection. *)

(* A connection goes on; the entry is not over. *)
LEMMA GoesOn ==
    ASSUME SqlInv, NEW w \in Workers, Busy(w), NEW new, conn' = [conn EXCEPT ![w] = new],
           UNCHANGED <<runtimeVars, commits>>, DOMAIN db' = Files,
           (new.pending # Missing /\ ReadOnly(w) /\ Path(w) \in Files) => new.pending = db'[Path(w)]
    PROVE  SqlInv'
<1>1. RuntimeInv' /\ \A i, r : Gave(i, r)' => Gave(i, r)
  BY RuntimeUnchanged DEF SqlInv
<1>2. \A v \in Workers : batch[v] # NoBatch => v = w
  BY BusyFacts DEF SqlInv
<1>3. \A v \in Workers : v # w => conn[v] = Closed
  BY <1>2, IdleClosed DEF Busy
<1>4. conn' = [v \in Workers |-> IF v = w THEN new ELSE Closed]
  BY <1>3 DEF SqlInv, ConnInv
<1>5. /\ \A v \in Workers : Busy(v)' = Busy(v) /\ Position(v)' = Position(v)
      /\ \A v \in Workers : ReadOnly(v)' = ReadOnly(v) /\ Path(v)' = Path(v)
      /\ taken' = taken /\ issued' = issued
  BY DEF runtimeVars, Busy, Position, ReadOnly, Path, Current
<1>6. ConnInv'
  BY <1>4, <1>5 DEF ConnInv
<1>7. Closed.pending = Missing
  BY DEF Closed, Conn
<1>8. FilesInv'
  <2> SUFFICES ASSUME NEW v \in Workers, (conn[v].pending # Missing /\ ReadOnly(v) /\ Path(v) \in Files)'
               PROVE  (conn[v].pending = db[Path(v)])'
    BY DEF FilesInv
  <2>1. v = w /\ conn'[v] = new
    BY <1>4, <1>7
  <2>2. QED
    BY <1>5, <2>1
<1>9. CommitsInv'
  BY <1>5 DEF SqlInv, CommitsInv
<1>10. ReportInv'
  BY <1>1, <1>5, QuietReports
<1>11. QED
  BY <1>1, <1>6, <1>8, <1>9, <1>10 DEF SqlInv

LEMMA OpenConnectionKeeps ==
    ASSUME SqlInv, NEW w \in Workers, OpenConnection(w)
    PROVE  SqlInv'
<1>1. Busy(w)
  BY DEF OpenConnection, At
<1>2. CASE Fail(w, "open_failed")
  BY <1>1, <1>2, FailKeeps
<1>3. CASE ~Fail(w, "open_failed")
  <2>1. /\ db' = IF db[Path(w)] = Missing THEN [db EXCEPT ![Path(w)] = Empty] ELSE db
        /\ conn' = [conn EXCEPT ![w] = Conn("open", <<>>, Missing)]
        /\ UNCHANGED <<runtimeVars, commits>>
    BY <1>3 DEF OpenConnection
  <2>2. DOMAIN db' = Files
    BY <2>1 DEF SqlInv, FilesInv
  <2>3. Conn("open", <<>>, Missing).pending = Missing
    BY DEF Conn
  <2>4. QED
    BY <1>1, <2>1, <2>2, <2>3, GoesOn
<1>4. QED
  BY <1>2, <1>3

LEMMA BeginKeeps ==
    ASSUME SqlInv, NEW w \in Workers, Begin(w)
    PROVE  SqlInv'
<1>1. Busy(w)
  BY DEF Begin, At
<1>2. CASE Current(w).payload.statements = None
  BY <1>1, <1>2, FailKeeps DEF Begin
<1>3. CASE Current(w).payload.statements # None
  <2> DEFINE new == Conn("transaction", Current(w).payload.statements, Missing)
  <2>1. conn' = [conn EXCEPT ![w] = new] /\ UNCHANGED <<runtimeVars, db, commits>>
    BY <1>3 DEF Begin
  <2>2. new.pending = Missing
    BY DEF Conn
  <2>3. DOMAIN db' = Files
    BY <2>1 DEF SqlInv, FilesInv
  <2> HIDE DEF new
  <2>4. QED
    BY <1>1, <2>1, <2>2, <2>3, GoesOn
<1>4. QED
  BY <1>2, <1>3

(* A read-only connection that has run a statement still sees the file. *)
LEMMA ReadOnlySees ==
    ASSUME SqlInv, NEW w \in Workers, ReadOnly(w), Path(w) \in Files
    PROVE  Seen(w) = db[Path(w)]
  BY DEF SqlInv, FilesInv, Seen

LEMMA ReadOnlyRuns ==
    ASSUME NEW w, NEW t, NEW s, ReadOnly(w), Runs(w, t, s)
    PROVE  After(t, s) = t
  BY DEF Runs, Writes, After

LEMMA RunStatementKeeps ==
    ASSUME SqlInv, NEW w \in Workers, RunStatement(w)
    PROVE  SqlInv'
<1>1. Busy(w)
  BY DEF RunStatement, At
<1>2. CASE Fail(w, "invalid_payload") \/ Fail(w, "failed")
  BY <1>1, <1>2, FailKeeps
<1>3. CASE ~(Fail(w, "invalid_payload") \/ Fail(w, "failed"))
  <2> DEFINE after == After(Seen(w), Statement(w))
             new == Conn("transaction", Tail(conn[w].left), after)
  <2>1. /\ Runs(w, Seen(w), Statement(w))
        /\ conn' = [conn EXCEPT ![w] = new] /\ UNCHANGED <<runtimeVars, db, commits>>
    BY <1>3 DEF RunStatement
  <2>2. new.pending = after
    BY DEF Conn
  <2>3. DOMAIN db' = Files
    BY <2>1 DEF SqlInv, FilesInv
  <2>4. ReadOnly(w) /\ Path(w) \in Files => after = db'[Path(w)]
    BY <2>1, ReadOnlySees, ReadOnlyRuns
  <2> HIDE DEF new, after
  <2>5. QED
    BY <1>1, <2>1, <2>2, <2>3, <2>4, GoesOn
<1>4. QED
  BY <1>2, <1>3

LEMMA SuccessCode == \A value : Success(value).code = "ok"
  BY DEF Success

LEMMA AutocommitKeeps ==
    ASSUME SqlInv, NEW w \in Workers, Autocommit(w)
    PROVE  SqlInv'
<1>1. Busy(w)
  BY DEF Autocommit, At
<1>2. CASE Fail(w, "failed")
  BY <1>1, <1>2, FailKeeps
<1>3. CASE ~Fail(w, "failed")
  <2>1. /\ Committed(w, <<First(w)>>, After(db[Path(w)], First(w)))
        /\ Finish(w, Success({}))
    BY <1>3 DEF Autocommit
  <2>2. QED
    BY <1>1, <2>1, SuccessCode, FinishCommits
<1>4. QED
  BY <1>2, <1>3

LEMMA CommitKeeps ==
    ASSUME SqlInv, NEW w \in Workers, Commit(w)
    PROVE  SqlInv'
<1>1. Busy(w) /\ Committed(w, Ran(w), Seen(w)) /\ Finish(w, Success({}))
  BY DEF Commit, At
<1>2. QED
  BY <1>1, SuccessCode, FinishCommits

(* An entry that has nothing to commit. *)
LEMMA NothingToCommit ==
    ASSUME SqlInv, NEW w \in Workers, Close(w) \/ Open(w) \/ Select(w)
    PROVE  SqlInv'
<1>1. CASE Close(w) \/ Open(w)
  <2>1. Busy(w) /\ FinishUnchanged(w, Success({})) /\ (Is(w, "close") \/ Is(w, "open"))
    BY <1>1 DEF Close, Open, At
  <2>2. ~MustCommit(Position(w))
    BY <2>1, OpsDiffer DEF MustCommit, IsOp, Is, Current
  <2>3. QED
    BY <2>1, <2>2, FinishKeeps DEF FinishUnchanged
<1>2. CASE Select(w)
  <2>1. Busy(w) /\ Is(w, "query") /\ First(w).verb = "select"
    BY <1>2 DEF Select, At
  <2>2. ~MustCommit(Position(w))
    BY <2>1, OpsDiffer DEF MustCommit, IsOp, Is, Current, Selects, First, Sql
  <2>3. CASE Fail(w, "failed")
    BY <2>1, <2>3, FailKeeps
  <2>4. CASE FinishUnchanged(w, Success(Shown(db[Path(w)])))
    BY <2>1, <2>2, <2>4, FinishKeeps DEF FinishUnchanged
  <2>5. QED
    BY <1>2, <2>3, <2>4 DEF Select
<1>3. QED
  BY <1>1, <1>2

LEMMA RefusalsKeep ==
    ASSUME SqlInv, NEW w \in Workers,
           Refuse(w) \/ SqlMissing(w) \/ LockTimesOut(w) \/ HostFails(w)
    PROVE  SqlInv'
<1>1. Busy(w)
  BY DEF Refuse, SqlMissing, LockTimesOut, HostFails, At
<1>2. \E code : code # "ok" /\ Fail(w, code)
  BY DEF Refuse, SqlMissing, LockTimesOut, HostFails
<1>3. QED
  BY <1>1, <1>2, FailKeeps

LEMMA EffectStepKeeps ==
    ASSUME SqlInv, NEW w \in Workers, EffectStep(w) \/ HostFails(w)
    PROVE  SqlInv'
  BY OpenConnectionKeeps, BeginKeeps, RunStatementKeeps, AutocommitKeeps, CommitKeeps,
     NothingToCommit, RefusalsKeep DEF EffectStep

-----------------------------------------------------------------------------
(* The runtime, the other process, and the process's death. *)

LEMMA SubmitKeeps ==
    ASSUME SqlInv, Submit, UNCHANGED databaseVars
    PROVE  SqlInv'
<1>1. /\ RuntimeInv' /\ \A i, r : Gave(i, r)' => Gave(i, r)
      /\ \A i \in DOMAIN issued : issued'[i] = issued[i]
      /\ UNCHANGED <<taken, batch>>
  <2>1. ASSUME NEW source, NEW refused, RunFacade(source, refused, ProtocolPairs) PROVE <1>1!1
    BY <2>1, RunFacadeInv DEF SqlInv
  <2>2. QED
    BY SubmitEffectInv, RunFacadeInv DEF Submit, SqlInv
<1>2. /\ \A w \in Workers : Busy(w)' = Busy(w) /\ Position(w)' = Position(w)
      /\ UNCHANGED <<db, conn, commits>>
  BY <1>1 DEF Busy, Position, databaseVars
<1>3. ASSUME NEW w \in Workers, Busy(w) PROVE ReadOnly(w)' = ReadOnly(w) /\ Path(w)' = Path(w)
  <2>1. Position(w) \in DOMAIN issued
    BY <1>3, BusyFacts DEF SqlInv
  <2>2. Current(w)' = Current(w)
    BY <1>1, <1>2, <2>1 DEF Current
  <2>3. QED
    BY <2>2 DEF ReadOnly, Path
<1>4. ConnInv'
  BY <1>2 DEF SqlInv, ConnInv
<1>5. Closed.pending = Missing
  BY DEF Closed, Conn
<1>6. FilesInv'
  BY <1>2, <1>3, <1>5, IdleClosed DEF SqlInv, FilesInv
<1>7. CommitsInv'
  BY <1>1, <1>2 DEF SqlInv, CommitsInv
<1>8. ReportInv'
  BY <1>1, <1>2, QuietReports
<1>9. QED
  BY <1>1, <1>4, <1>6, <1>7, <1>8 DEF SqlInv

(* No connection is open before and none after. *)
LEMMA AllClosedKeeps ==
    ASSUME SqlInv, RuntimeInv', \A i, r : Gave(i, r)' => Gave(i, r),
           UNCHANGED <<issued, db, commits>>, taken =< taken',
           conn' = [w \in Workers |-> Closed],
           \A w \in Workers : Busy(w)' => Position(w)' = taken + 1
    PROVE  SqlInv'
<1>1. ConnInv'
  BY DEF ConnInv
<1>2. FilesInv'
  BY DEF SqlInv, FilesInv, Closed, Conn
<1>3. taken \in Nat /\ taken' \in Nat
  BY DEF SqlInv, RuntimeInv, CountersInv
<1>4. CommitsInv'
  BY <1>3 DEF SqlInv, CommitsInv
<1>5. ReportInv'
  BY QuietReports
<1>6. QED
  BY <1>1, <1>2, <1>4, <1>5 DEF SqlInv

LEMMA DispatchKeeps ==
    ASSUME SqlInv, DispatchAny
    PROVE  SqlInv'
<1>1. PICK w \in Workers, size \in 1 .. MaxBatch : Dispatch(w, size, 1)
  BY DEF DispatchAny, MaxInflightBatches
<1>2. /\ RuntimeInv' /\ \A i, r : Gave(i, r)' => Gave(i, r)
      /\ \A v \in Workers : batch[v] = NoBatch
      /\ \A v \in Workers : batch'[v] # NoBatch => v = w
      /\ batch'[w] = Batch(taken + 1, taken + size, <<>>)
      /\ taken' = taken + size /\ size \in Nat /\ issued' = issued
  BY <1>1, DispatchInv DEF SqlInv
<1>3. UNCHANGED <<db, conn, commits>>
  BY DEF DispatchAny, databaseVars
<1>4. \A v \in Workers : conn[v] = Closed
  BY <1>2, IdleClosed DEF Busy
<1>5. conn' = [v \in Workers |-> Closed]
  BY <1>3, <1>4 DEF SqlInv, ConnInv
<1>6. taken \in Nat
  BY DEF SqlInv, RuntimeInv, CountersInv
<1>7. \A v \in Workers : Busy(v)' => Position(v)' = taken + 1
  BY <1>2, <1>6, IsSeqShort DEF Busy, Position, Batch
<1>8. taken =< taken'
  BY <1>2, <1>6
<1>9. QED
  BY <1>2, <1>3, <1>5, <1>7, <1>8, AllClosedKeeps

LEMMA AnswerKeeps ==
    ASSUME SqlInv, NEW w \in Workers, Answer(w), UNCHANGED databaseVars
    PROVE  SqlInv'
<1>1. /\ RuntimeInv' /\ \A i, r : Gave(i, r)' => Gave(i, r)
      /\ \A v \in Workers : batch'[v] = NoBatch
      /\ taken' = taken /\ issued' = issued
  BY AnswerInv DEF SqlInv
<1>2. \A v \in Workers : ~Busy(v)
  BY DEF Answer, SqlInv, RuntimeInv, OneBatch, Busy
<1>3. conn' = [v \in Workers |-> Closed] /\ UNCHANGED <<db, commits>>
  BY <1>2, IdleClosed DEF SqlInv, ConnInv, databaseVars
<1>4. \A v \in Workers : ~Busy(v)'
  BY <1>1 DEF Busy
<1>5. taken =< taken'
  BY <1>1 DEF SqlInv, RuntimeInv, CountersInv
<1>6. QED
  BY <1>1, <1>3, <1>4, <1>5, AllClosedKeeps

LEMMA CrashKeeps ==
    ASSUME SqlInv, Crash, conn' = [w \in Workers |-> Closed], UNCHANGED <<db, commits>>
    PROVE  SqlInv'
<1>1. /\ RuntimeInv' /\ \A i, r : Gave(i, r)' => Gave(i, r)
      /\ \A v \in Workers : batch'[v] = NoBatch
      /\ taken =< taken' /\ issued' = issued
  BY CrashInv DEF SqlInv
<1>2. \A v \in Workers : ~Busy(v)'
  BY <1>1 DEF Busy
<1>3. QED
  BY <1>1, <1>2, AllClosedKeeps

(* The other process commits when no transaction here has seen the file. *)
LEMMA OtherKeeps ==
    ASSUME SqlInv, Other
    PROVE  SqlInv'
<1>1. UNCHANGED <<runtimeVars, conn>>
  BY DEF Other, OtherLocks, OtherRollsBack, OtherCommits
<1>2. /\ RuntimeInv' /\ \A i, r : Gave(i, r)' => Gave(i, r)
  BY <1>1, RuntimeUnchanged DEF SqlInv
<1>3. /\ \A v \in Workers : Busy(v)' = Busy(v) /\ Position(v)' = Position(v)
      /\ \A v \in Workers : ReadOnly(v)' = ReadOnly(v) /\ Path(v)' = Path(v)
      /\ taken' = taken /\ issued' = issued
  BY <1>1 DEF runtimeVars, Busy, Position, ReadOnly, Path, Current
<1>4. ConnInv'
  BY <1>1, <1>3 DEF SqlInv, ConnInv
<1>5. CASE UNCHANGED <<db, commits>>
  <2>1. FilesInv'
    BY <1>1, <1>3, <1>5 DEF SqlInv, FilesInv
  <2>2. CommitsInv'
    BY <1>3, <1>5 DEF SqlInv, CommitsInv
  <2>3. ReportInv'
    BY <1>2, <1>3, <1>5, QuietReports
  <2>4. QED
    BY <1>2, <1>4, <2>1, <2>2, <2>3 DEF SqlInv
<1>6. ASSUME NEW f \in Files, NEW s \in Foreign, OtherCommits(f, s) PROVE SqlInv'
  <2>1. /\ db' = [db EXCEPT ![f] = After(@, s)]
        /\ \A w \in Workers : Busy(w) /\ conn[w].pending # Missing => Path(w) # f
    BY <1>6 DEF OtherCommits
  <2>2. Closed.pending = Missing
    BY DEF Closed, Conn
  <2>3. \A w \in Workers : conn[w].pending # Missing => Path(w) # f
    BY <2>1, <2>2, IdleClosed
  <2>4. FilesInv'
    BY <1>1, <1>3, <2>1, <2>3 DEF SqlInv, FilesInv
  <2>5. PICK entry : entry.task = 0 /\ commits' = Append(commits, entry)
    BY <1>6 DEF OtherCommits
  <2>6. /\ IsSeq(commits')
        /\ \A i : CommittedTask(i)' <=> CommittedTask(i) \/ i = 0
        /\ \A k \in DOMAIN commits' :
              commits'[k] = entry \/ (k \in DOMAIN commits /\ commits'[k] = commits[k])
    BY <2>5, CommitsAppended DEF SqlInv, CommitsInv
  <2>7. taken \in Nat /\ \A w \in Workers : Busy(w) => Position(w) \in Nat /\ 0 < Position(w)
    <3>1. taken \in Nat
      BY DEF SqlInv, RuntimeInv, CountersInv
    <3>2. \A w \in Workers : Busy(w) => Position(w) \in Nat /\ 1 =< Position(w)
      BY BusyFacts DEF SqlInv
    <3>3. QED
      BY <3>1, <3>2
  <2>8. CommitsInv'
    BY <1>3, <2>5, <2>6, <2>7 DEF SqlInv, CommitsInv
  <2>9. ReportInv'
    <3> SUFFICES ASSUME NEW i, NEW r, Gave(i, r)' PROVE Reported(i, r)'
      BY DEF ReportInv
    <3>1. Gave(i, r) /\ i # 0 /\ i \in DOMAIN issued
      BY <1>2, GaveFacts DEF SqlInv
    <3>2. Reported(i, r)
      BY <3>1 DEF SqlInv, ReportInv
    <3>3. MustCommit(i)' <=> MustCommit(i)
      BY <1>3 DEF MustCommit, IsOp, Selects
    <3>4. QED
      BY <2>6, <3>1, <3>2, <3>3 DEF Reported
  <2>10. QED
    BY <1>2, <1>4, <2>4, <2>8, <2>9 DEF SqlInv
<1>7. QED
  BY <1>5, <1>6 DEF Other, OtherLocks, OtherRollsBack

LEMMA SqlInvNext == SqlInv /\ [Next]_vars => SqlInv'
<1> SUFFICES ASSUME SqlInv, [Next]_vars PROVE SqlInv'
  OBVIOUS
<1>1. CASE Submit /\ UNCHANGED databaseVars
  BY <1>1, SubmitKeeps
<1>2. CASE DispatchAny
  BY <1>2, DispatchKeeps
<1>3. ASSUME NEW w \in Workers, EffectStep(w) \/ HostFails(w) PROVE SqlInv'
  BY <1>3, EffectStepKeeps
<1>4. ASSUME NEW w \in Workers, Answer(w) /\ UNCHANGED databaseVars PROVE SqlInv'
  BY <1>4, AnswerKeeps
<1>5. CASE Other
  BY <1>5, OtherKeeps
<1>6. CASE Crash /\ conn' = [w \in Workers |-> Closed] /\ UNCHANGED <<db, commits>>
  BY <1>6, CrashKeeps
<1>7. CASE UNCHANGED vars
  <2>1. UNCHANGED <<runtimeVars, db, conn, commits>>
    BY <1>7 DEF vars
  <2>2. RuntimeInv' /\ \A i, r : Gave(i, r)' => Gave(i, r)
    BY <2>1, RuntimeUnchanged DEF SqlInv
  <2>3. /\ \A v \in Workers : Busy(v)' = Busy(v) /\ Position(v)' = Position(v)
        /\ \A v \in Workers : ReadOnly(v)' = ReadOnly(v) /\ Path(v)' = Path(v)
        /\ taken' = taken /\ issued' = issued
    BY <2>1 DEF runtimeVars, Busy, Position, ReadOnly, Path, Current
  <2>4. ConnInv' /\ FilesInv' /\ CommitsInv'
    BY <2>1, <2>3 DEF SqlInv, ConnInv, FilesInv, CommitsInv
  <2>5. ReportInv'
    BY <2>1, <2>2, <2>3, QuietReports
  <2>6. QED
    BY <2>2, <2>4, <2>5 DEF SqlInv
<1>8. QED
  BY <1>1, <1>2, <1>3, <1>4, <1>5, <1>6, <1>7 DEF Next

LEMMA SqlInvHolds == Spec => []SqlInv
  BY SqlInvInit, SqlInvNext, PTL DEF Spec

(* A task that reports success for what it was to execute is in the database,
   and one that reports an error is not, whatever crashes, fails or writes to
   the file meanwhile (execute_transaction, lib.rs:312). *)
THEOREM SuccessMeansCommitted == Spec => []ReportedIffCommitted
<1>1. SqlInv => ReportedIffCommitted
  <2> SUFFICES ASSUME SqlInv, NEW i \in DOMAIN issued, Result(i) # NoResult
               PROVE  Reported(i, Result(i))
    BY DEF ReportedIffCommitted, Reported
  <2>1. Gave(i, Result(i))
    BY ResultWasGiven DEF SqlInv
  <2>2. QED
    BY <2>1 DEF SqlInv, ReportInv
<1>2. QED
  BY <1>1, SqlInvHolds, PTL

LEMMA ChangesAreLicensed ==
    ASSUME SqlInv, [Next]_vars, NEW f \in Files, db'[f] # db[f]
    PROVE  Licensed(f)
<1>1. ASSUME NEW w \in Workers, OpenConnection(w) PROVE Licensed(f)
  <2>1. Busy(w) /\ db[Path(w)] = Missing /\ ~ReadOnly(w) /\ db' = [db EXCEPT ![Path(w)] = Empty]
    BY <1>1 DEF OpenConnection, At, Fail, FinishUnchanged
  <2>2. f = Path(w)
    BY <2>1 DEF SqlInv, FilesInv
  <2>3. QED
    BY <2>1, <2>2 DEF Licensed
<1>2. ASSUME NEW w \in Workers, Busy(w), NEW next, db' = [db EXCEPT ![Path(w)] = next],
             (ReadOnly(w) /\ Path(w) \in Files) => next = db[Path(w)]
      PROVE  Licensed(f)
  <2>1. f = Path(w)
    BY <1>2 DEF SqlInv, FilesInv
  <2>2. ~ReadOnly(w)
    BY <1>2, <2>1 DEF SqlInv, FilesInv
  <2>3. QED
    BY <1>2, <2>1, <2>2 DEF Licensed
<1>3. ASSUME NEW w \in Workers, Autocommit(w) PROVE Licensed(f)
  <2>1. /\ Busy(w) /\ Runs(w, db[Path(w)], First(w))
        /\ db' = [db EXCEPT ![Path(w)] = After(db[Path(w)], First(w))]
    BY <1>3 DEF Autocommit, At, Fail, FinishUnchanged, Committed
  <2>2. ReadOnly(w) => After(db[Path(w)], First(w)) = db[Path(w)]
    BY <2>1, ReadOnlyRuns
  <2>3. QED
    BY <1>2, <2>1, <2>2
<1>4. ASSUME NEW w \in Workers, Commit(w) PROVE Licensed(f)
  <2>1. Busy(w) /\ db' = [db EXCEPT ![Path(w)] = Seen(w)]
    BY <1>4 DEF Commit, At, Committed
  <2>2. QED
    BY <1>2, <2>1, ReadOnlySees
<1>5. ASSUME NEW w \in Workers, EffectStep(w) \/ HostFails(w) PROVE Licensed(f)
  <2>1. db' # db
    OBVIOUS
  <2>2. OpenConnection(w) \/ Autocommit(w) \/ Commit(w)
    BY <1>5, <2>1 DEF EffectStep, Refuse, Close, Open, SqlMissing, Select, Begin, RunStatement,
          LockTimesOut, HostFails, Fail, FinishUnchanged
  <2>3. QED
    BY <1>1, <1>3, <1>4, <2>2
<1>6. CASE Other
  <2>1. PICK g \in Files, s \in Foreign : OtherCommits(g, s)
    BY <1>6 DEF Other, OtherLocks, OtherRollsBack
  <2>2. lock[g] = OtherProcess /\ db' = [db EXCEPT ![g] = After(@, s)]
    BY <2>1 DEF OtherCommits
  <2>3. g = f
    BY <2>2 DEF SqlInv, FilesInv
  <2>4. QED
    BY <2>2, <2>3 DEF Licensed
<1>7. QED
  BY <1>5, <1>6 DEF Next, vars, databaseVars, DispatchAny

(* A file changes only under the other process's lock or by a task that asked
   for a writable connection (open_connection, lib.rs:343). *)
THEOREM ReadOnlyIsReadOnly == Spec => ReadOnlyChangesNothing
<1>1. SqlInv /\ [Next]_vars => [OnlyLicensedChanges]_vars
  BY ChangesAreLicensed DEF OnlyLicensedChanges
<1>2. QED
  BY <1>1, SqlInvHolds, PTL DEF Spec, ReadOnlyChangesNothing

-----------------------------------------------------------------------------
(* What a list of statements does, step by step. *)

LEMMA AppliesFacts ==
    ASSUME NEW t, NEW s, Applies(t, s)
    PROVE  After(t, s).kind = "table" /\ t # Missing /\ After(t, s) # Missing
  BY DEF Applies, After, Table, Missing

Stepped(t, ss, n, at) == at = [k \in 0 .. n |-> IF k = 0 THEN t ELSE After(at[k - 1], ss[k])]

LEMMA SteppedExists ==
    ASSUME NEW t, NEW ss, NEW n \in Nat
    PROVE  \E at : Stepped(t, ss, n, at)
<1> DEFINE Bad == {m \in Nat : ~ \E at : Stepped(t, ss, m, at)}
<1>1. Bad = {}
  <2> SUFFICES ASSUME Bad # {} PROVE FALSE
    OBVIOUS
  <2>1. PICK m \in Bad : \A l \in Bad : m =< l
    BY LeastNatural
  <2>2. m # 0
    <3>1. Stepped(t, ss, 0, [k \in 0 .. 0 |-> t])
      BY DEF Stepped
    <3>2. QED
      BY <3>1
  <2>3. m - 1 \in Nat /\ m - 1 \notin Bad
    BY <2>1, <2>2
  <2>4. PICK at : Stepped(t, ss, m - 1, at)
    BY <2>3
  <2> DEFINE next == [k \in 0 .. m |-> IF k = m THEN After(at[m - 1], ss[m]) ELSE at[k]]
  <2>5. \A k \in 0 .. m : next[k] = IF k = 0 THEN t ELSE After(next[k - 1], ss[k])
    <3> SUFFICES ASSUME NEW k \in 0 .. m
                 PROVE  next[k] = IF k = 0 THEN t ELSE After(next[k - 1], ss[k])
      OBVIOUS
    <3>1. CASE k = m
      BY <2>2, <3>1
    <3>2. CASE k # m
      <4>1. k \in 0 .. m - 1 /\ next[k] = at[k]
        BY <3>2
      <4>2. k # 0 => next[k - 1] = at[k - 1]
        BY <3>2
      <4>3. at[k] = IF k = 0 THEN t ELSE After(at[k - 1], ss[k])
        BY <2>4, <4>1 DEF Stepped
      <4>4. QED
        BY <4>1, <4>2, <4>3
    <3>3. QED
      BY <3>1, <3>2
  <2>6. next = [k \in 0 .. m |-> IF k = 0 THEN t ELSE After(next[k - 1], ss[k])]
    BY <2>5
  <2>7. Stepped(t, ss, m, next)
    BY <2>6 DEF Stepped
  <2>8. QED
    BY <2>7
<1>2. QED
  BY <1>1

LEMMA ThroughFacts ==
    ASSUME NEW t, NEW ss, Len(ss) \in Nat
    PROVE  /\ Through(t, ss)[0] = t
           /\ \A k \in 1 .. Len(ss) : Through(t, ss)[k] = After(Through(t, ss)[k - 1], ss[k])
<1>1. PICK n \in Nat : n = Len(ss)
  OBVIOUS
<1>2. \E at : Stepped(t, ss, n, at)
  BY SteppedExists
<1>3. Through(t, ss) = CHOOSE at : Stepped(t, ss, n, at)
  BY <1>1 DEF Through, Stepped
<1>4. Stepped(t, ss, n, Through(t, ss))
  BY <1>2, <1>3
<1>5. PICK at : at = Through(t, ss)
  OBVIOUS
<1>6. at = [k \in 0 .. n |-> IF k = 0 THEN t ELSE After(at[k - 1], ss[k])]
  BY <1>4, <1>5 DEF Stepped
<1>7. at[0] = t
  BY <1>6
<1>8. \A k \in 1 .. n : at[k] = After(at[k - 1], ss[k])
  BY <1>6
<1>9. QED
  BY <1>1, <1>5, <1>7, <1>8
-----------------------------------------------------------------------------
(* What the connections do, in full: every payload is of a kind that was
   submitted; a lock is a transaction's; and a transaction has gone through the
   statements it has left behind, from what the file still holds. *)

Given(w) == Current(w).payload.statements
StatementsOK(ss) == ss \in Seq(Sqls \cup {None}) /\ Len(ss) =< MaxStatements
PayloadOK(p) ==
    /\ p.path \in Files \cup {None}
    /\ p.sql \in Sqls \cup {None}
    /\ p.statements # None => StatementsOK(p.statements)
IssuedInv == \A i \in DOMAIN issued : PayloadOK(issued[i].payload)

TableInv == \A f \in Files : db[f].kind \in {"missing", "empty", "table"}

LockInv ==
    /\ lock = [f \in Files |-> lock[f]]
    /\ \A f \in Files, w \in Workers : lock[f] = w => conn[w].step = "transaction" /\ Path(w) = f

(* The first j statements of the transaction have run. *)
Progress(w, j) ==
    /\ conn[w].left \in Seq(Sqls \cup {None}) /\ Len(conn[w].left) = Len(Given(w)) - j
    /\ \A k \in 1 .. Len(Given(w)) - j : conn[w].left[k] = Given(w)[j + k]
    /\ conn[w].pending = IF j = 0 THEN Missing ELSE Through(db[Path(w)], Ran(w))[j]
    /\ \A k \in 1 .. j :
         Given(w)[k] # None /\ Applies(Through(db[Path(w)], Ran(w))[k - 1], Ran(w)[k])
InTransaction(w) ==
    /\ conn[w].step = "transaction" /\ Is(w, "transaction") /\ Given(w) # None
    /\ \E j \in 0 .. Len(Given(w)) : Progress(w, j)
Opened == Conn("open", <<>>, Missing)
Working(w) == EffectRefusal(Current(w)) = "ok" /\ ~Is(w, "close")
AtWork(w) == Working(w) /\ db[Path(w)] # Missing /\ (conn[w] = Opened \/ InTransaction(w))
WorkInv == \A w \in Workers : conn[w] # Closed => AtWork(w)

DbInv == IssuedInv /\ TableInv /\ LockInv /\ WorkInv


LEMMA DbInvInit == Init => DbInv
<1> SUFFICES ASSUME Init PROVE DbInv
  OBVIOUS
<1>1. IssuedInv
  BY IsSeqShort, IsSeqFacts DEF Init, RuntimeInit, IssuedInv
<1>2. TableInv
  BY EveryFileHasAState DEF Init, TableInv, Missing, Empty, Table
<1>3. LockInv
  <2>1. \A w \in Workers : w # None
    BY NoneHoldsNoLock, BoundsAssumption DEF Workers
  <2>2. QED
    BY <2>1 DEF Init, LockInv
<1>4. WorkInv
  BY DEF Init, WorkInv
<1>5. QED
  BY <1>1, <1>2, <1>3, <1>4 DEF DbInv

LEMMA NoWorker == None \notin Workers /\ OtherProcess \notin Workers
  BY NoneHoldsNoLock, BoundsAssumption DEF Workers, OtherProcess

(* The task of a connection works on one of the files. *)
LEMMA WorkingFacts ==
    ASSUME RuntimeInv, IssuedInv, NEW w \in Workers, Busy(w), Working(w)
    PROVE  Path(w) \in Files /\ PayloadOK(Current(w).payload)
<1>1. PayloadOK(Current(w).payload)
  BY BusyFacts DEF IssuedInv, Current
<1>2. CheckedPath(Current(w)) = "ok"
  BY DEF Working, EffectRefusal, Is
<1>3. Path(w) # None
  BY <1>2 DEF CheckedPath, Path
<1>4. QED
  BY <1>1, <1>3 DEF PayloadOK, Path

LEMMA TransactionFacts ==
    ASSUME NEW w, PayloadOK(Current(w).payload), Given(w) # None
    PROVE  /\ Given(w) \in Seq(Sqls \cup {None}) /\ Len(Given(w)) \in Nat
           /\ Len(Given(w)) =< MaxStatements
           /\ IsSeq(Ran(w)) /\ Len(Ran(w)) = Len(Given(w)) /\ DOMAIN Ran(w) = 1 .. Len(Given(w))
           /\ \A k \in 1 .. Len(Given(w)) : Ran(w)[k] = Bound(Head(Given(w)[k]))
<1>1. Given(w) \in Seq(Sqls \cup {None}) /\ Len(Given(w)) =< MaxStatements
  BY DEF PayloadOK, StatementsOK, Given
<1>2. PICK n \in Nat : n = Len(Given(w)) /\ DOMAIN Given(w) = 1 .. n
  BY <1>1
<1>3. Ran(w) = [k \in 1 .. n |-> Bound(Head(Given(w)[k]))]
  BY <1>2 DEF Ran, Given
<1>4. /\ DOMAIN Ran(w) = 1 .. n
      /\ \A k \in 1 .. n : Ran(w)[k] = Bound(Head(Given(w)[k]))
      /\ Ran(w) = [k \in 1 .. n |-> Ran(w)[k]]
  BY <1>3
<1>5. IsSeq(Ran(w)) /\ Len(Ran(w)) = n
  BY <1>2, <1>4, IsSeqFunction
<1>6. QED
  BY <1>1, <1>2, <1>4, <1>5

(* A transaction sees what its statements have made of the file. *)
LEMMA SeenThrough ==
    ASSUME NEW w, PayloadOK(Current(w).payload), Given(w) # None,
           NEW j \in 0 .. Len(Given(w)), Progress(w, j)
    PROVE  /\ Seen(w) = Through(db[Path(w)], Ran(w))[j]
           /\ j # 0 => conn[w].pending # Missing /\ db[Path(w)] # Missing
<1> DEFINE at == Through(db[Path(w)], Ran(w))
<1>1. /\ Len(Given(w)) \in Nat /\ Len(Ran(w)) = Len(Given(w))
      /\ at[0] = db[Path(w)]
      /\ \A k \in 1 .. Len(Given(w)) : at[k] = After(at[k - 1], Ran(w)[k])
  BY TransactionFacts, ThroughFacts
<1>2. conn[w].pending = IF j = 0 THEN Missing ELSE at[j]
  BY DEF Progress
<1>3. \A k \in 1 .. j : Applies(at[k - 1], Ran(w)[k])
  BY DEF Progress
<1> HIDE DEF at
<1>4. CASE j = 0
  BY <1>1, <1>2, <1>4 DEF Seen, at
<1>5. CASE j # 0
  <2>1. j \in 1 .. j /\ j \in 1 .. Len(Given(w)) /\ 1 \in 1 .. j
    BY <1>1, <1>5
  <2>2. at[j] # Missing
    BY <1>1, <1>3, <2>1, AppliesFacts
  <2>3. at[1 - 1] # Missing
    BY <1>3, <2>1, AppliesFacts
  <2>4. QED
    BY <1>1, <1>2, <1>5, <2>2, <2>3 DEF Seen, at
<1>6. QED
  BY <1>4, <1>5

LEMMA RuntimeSame ==
    ASSUME UNCHANGED runtimeVars
    PROVE  /\ \A w : Busy(w)' = Busy(w) /\ Current(w)' = Current(w) /\ Position(w)' = Position(w)
           /\ \A w : Path(w)' = Path(w) /\ Given(w)' = Given(w) /\ Ran(w)' = Ran(w) /\ Working(w)' = Working(w)
           /\ issued' = issued /\ taken' = taken /\ batch' = batch
  BY DEF runtimeVars, Busy, Position, Current, Path, Given, Ran, Working, Is
(* The entry is over, and its connection with it. *)
LEMMA FinishDb ==
    ASSUME SqlInv, DbInv, NEW w \in Workers, Busy(w), NEW result, Finish(w, result), TableInv'
    PROVE  DbInv'
<1>1. issued' = issued /\ conn' = [v \in Workers |-> Closed]
  BY FinishCloses
<1>2. lock' = [f \in Files |-> IF lock[f] = w THEN None ELSE lock[f]]
  BY DEF Finish, Unlocked
<1>3. \A v \in Workers : v # w => conn[v] = Closed
  BY BusyFacts, IdleClosed DEF SqlInv, Busy
<1>4. LockInv'
  <2> SUFFICES ASSUME NEW f \in Files, NEW v \in Workers, lock'[f] = v PROVE FALSE
    BY <1>2 DEF LockInv
  <2>1. lock[f] = v /\ v # w
    BY <1>2, NoWorker
  <2>2. conn[v].step = "transaction" /\ conn[v] = Closed
    BY <1>3, <2>1 DEF DbInv, LockInv
  <2>3. QED
    BY <2>2 DEF Closed, Conn
<1>5. IssuedInv' /\ WorkInv'
  BY <1>1 DEF DbInv, IssuedInv, WorkInv
<1>6. QED
  BY <1>4, <1>5 DEF DbInv

LEMMA FinishUnchangedDb ==
    ASSUME SqlInv, DbInv, NEW w \in Workers, Busy(w), NEW result, FinishUnchanged(w, result)
    PROVE  DbInv'
<1>1. TableInv'
  BY DEF FinishUnchanged, DbInv, TableInv
<1>2. QED
  BY <1>1, FinishDb DEF FinishUnchanged

LEMMA FailDb ==
    ASSUME SqlInv, DbInv, NEW w \in Workers, Busy(w), NEW code, Fail(w, code)
    PROVE  DbInv'
  BY FinishUnchangedDb DEF Fail

LEMMA GoesOnDb ==
    ASSUME SqlInv, DbInv, NEW w \in Workers, Busy(w), NEW new, conn' = [conn EXCEPT ![w] = new],
           UNCHANGED runtimeVars, TableInv', LockInv', AtWork(w)'
    PROVE  DbInv'
<1>1. \A v \in Workers : v # w => conn[v] = Closed
  BY BusyFacts, IdleClosed DEF SqlInv, Busy
<1>2. conn' = [v \in Workers |-> IF v = w THEN new ELSE Closed]
  BY <1>1 DEF SqlInv, ConnInv
<1>3. WorkInv'
  BY <1>2 DEF WorkInv
<1>4. IssuedInv'
  BY RuntimeSame DEF DbInv, IssuedInv
<1>5. QED
  BY <1>3, <1>4 DEF DbInv

LEMMA OpenConnectionDb ==
    ASSUME SqlInv, DbInv, NEW w \in Workers, OpenConnection(w)
    PROVE  DbInv'
<1>1. Busy(w) /\ conn[w].step = "closed"
  BY DEF OpenConnection, At
<1>2. CASE Fail(w, "open_failed")
  BY <1>1, <1>2, FailDb
<1>3. CASE ~Fail(w, "open_failed")
  <2>1. /\ db' = IF db[Path(w)] = Missing THEN [db EXCEPT ![Path(w)] = Empty] ELSE db
        /\ conn' = [conn EXCEPT ![w] = Opened]
        /\ UNCHANGED <<runtimeVars, lock>>
    BY <1>3 DEF OpenConnection, Opened
  <2>2. Working(w)
    BY DEF OpenConnection, Working
  <2>3. Path(w) \in Files
    BY <1>1, <2>2, WorkingFacts DEF SqlInv, DbInv
  <2>4. Empty # Missing /\ Empty.kind = "empty"
    BY DEF Empty, Missing
  <2>5. TableInv' /\ db'[Path(w)] # Missing
    BY <2>1, <2>3, <2>4 DEF DbInv, TableInv, SqlInv, FilesInv
  <2>6. conn'[w] = Opened
    BY <2>1 DEF SqlInv, ConnInv
  <2>7. AtWork(w)'
    BY <2>1, <2>2, <2>5, <2>6, RuntimeSame DEF AtWork, Opened
  <2>8. LockInv'
    <3>1. \A f \in Files, v \in Workers : lock[f] = v => v # w
      BY <1>1 DEF DbInv, LockInv
    <3>2. QED
      BY <2>1, <3>1, RuntimeSame DEF DbInv, LockInv
  <2>9. QED
    BY <1>1, <2>1, <2>5, <2>7, <2>8, GoesOnDb
<1>4. QED
  BY <1>2, <1>3

(* A connection that is not closed is at work on a file. *)
LEMMA AtWorkFacts ==
    ASSUME SqlInv, DbInv, NEW w \in Workers, conn[w].step # "closed"
    PROVE  /\ Busy(w) /\ AtWork(w) /\ Path(w) \in Files /\ PayloadOK(Current(w).payload)
           /\ db[Path(w)] # Missing
           /\ conn[w].step = "transaction" => InTransaction(w)
           /\ conn[w].step = "open" => conn[w] = Opened
<1>1. conn[w] # Closed
  BY DEF Closed, Conn
<1>2. Busy(w) /\ AtWork(w)
  BY <1>1 DEF SqlInv, ConnInv, DbInv, WorkInv
<1>3. Path(w) \in Files /\ PayloadOK(Current(w).payload)
  BY <1>2, WorkingFacts DEF AtWork, SqlInv, DbInv
<1>4. Opened.step = "open"
  BY DEF Opened, Conn
<1>5. QED
  BY <1>2, <1>3, <1>4 DEF AtWork, InTransaction

LEMMA BeginDb ==
    ASSUME SqlInv, DbInv, NEW w \in Workers, Begin(w)
    PROVE  DbInv'
<1>1. Busy(w) /\ conn[w].step = "open"
  BY DEF Begin, At
<1>2. CASE Given(w) = None
  BY <1>1, <1>2, FailDb DEF Begin, Given
<1>3. CASE Given(w) # None
  <2>1. /\ conn' = [conn EXCEPT ![w] = Conn("transaction", Given(w), Missing)]
        /\ UNCHANGED <<runtimeVars, db, lock, commits>>
    BY <1>3 DEF Begin, Given
  <2>2. conn'[w] = Conn("transaction", Given(w), Missing)
    BY <2>1 DEF SqlInv, ConnInv
  <2>3. /\ conn'[w].step = "transaction" /\ conn'[w].left = Given(w) /\ conn'[w].pending = Missing
    BY <2>2 DEF Conn
  <2>4. PICK n \in Nat : n = Len(Given(w)) /\ Given(w) \in Seq(Sqls \cup {None})
    BY <1>1, <1>3, AtWorkFacts, TransactionFacts
  <2>5. AtWork(w)'
    <3>1. Progress(w, 0)'
      BY <2>1, <2>3, <2>4, RuntimeSame DEF Progress
    <3>2. 0 \in 0 .. Len(Given(w)')
      BY <2>1, <2>4, RuntimeSame
    <3>3. InTransaction(w)'
      BY <1>3, <2>1, <2>3, <3>1, <3>2, RuntimeSame DEF InTransaction, Begin, Is
    <3>4. AtWork(w)
      BY <1>1, AtWorkFacts
    <3>5. QED
      BY <2>1, <3>3, <3>4, RuntimeSame DEF AtWork
  <2>6. TableInv'
    BY <2>1 DEF DbInv, TableInv
  <2>7. LockInv'
    <3>1. \A f \in Files, v \in Workers : lock[f] = v => v # w
      BY <1>1 DEF DbInv, LockInv
    <3>2. QED
      BY <2>1, <3>1, RuntimeSame DEF DbInv, LockInv
  <2>8. QED
    BY <1>1, <2>1, <2>5, <2>6, <2>7, GoesOnDb
<1>4. QED
  BY <1>2, <1>3

(* One statement more has run. *)
LEMMA OneMore ==
    ASSUME SqlInv, DbInv, NEW w \in Workers, conn[w].step = "transaction", conn[w].left # <<>>,
           Head(conn[w].left) # None, Applies(Seen(w), Statement(w)),
           conn' = [conn EXCEPT ![w] =
                      Conn("transaction", Tail(@.left), After(Seen(w), Statement(w)))],
           UNCHANGED <<runtimeVars, db>>
    PROVE  InTransaction(w)'
<1> DEFINE at == Through(db[Path(w)], Ran(w))
           ss == Given(w)
           left == conn[w].left
<1>1. InTransaction(w) /\ PayloadOK(Current(w).payload)
  BY AtWorkFacts
<1>2. ss # None /\ Is(w, "transaction")
  BY <1>1 DEF InTransaction
<1>3. PICK n \in Nat : /\ n = Len(ss) /\ ss \in Seq(Sqls \cup {None}) /\ Len(Ran(w)) = n
                       /\ \A k \in 1 .. n : Ran(w)[k] = Bound(Head(ss[k]))
  BY <1>1, <1>2, TransactionFacts
<1>4. PICK j \in 0 .. n : Progress(w, j)
  BY <1>1, <1>3 DEF InTransaction
<1>5. /\ left \in Seq(Sqls \cup {None}) /\ Len(left) = n - j
      /\ \A k \in 1 .. n - j : left[k] = ss[j + k]
      /\ \A k \in 1 .. j : ss[k] # None /\ Applies(at[k - 1], Ran(w)[k])
  BY <1>3, <1>4 DEF Progress
<1>6. /\ Tail(left) \in Seq(Sqls \cup {None}) /\ Len(Tail(left)) = n - j - 1
      /\ \A k \in 1 .. n - j - 1 : Tail(left)[k] = left[k + 1]
      /\ Head(left) = left[1] /\ 1 =< n - j
  <2>1. left # <<>> /\ left \in Seq(Sqls \cup {None})
    BY <1>5
  <2>2. Len(left) \in Nat /\ Len(left) # 0 /\ Head(left) = left[1]
    BY <2>1
  <2>3. /\ Tail(left) \in Seq(Sqls \cup {None}) /\ Len(Tail(left)) = Len(left) - 1
        /\ \A k \in 1 .. Len(Tail(left)) : Tail(left)[k] = left[k + 1]
    BY <2>1, HeadTailProperties
  <2>4. QED
    BY <1>5, <2>2, <2>3
<1>7. /\ j \in Nat /\ j + 1 \in 1 .. n /\ j + 1 \in 0 .. n /\ 1 \in 1 .. n - j
      /\ (j + 1) - 1 = j /\ n - (j + 1) = n - j - 1
  BY <1>6
<1>8. Head(left) = ss[j + 1] /\ ss[j + 1] # None
  BY <1>5, <1>6, <1>7
<1>9. Statement(w) = Ran(w)[j + 1]
  BY <1>3, <1>7, <1>8 DEF Statement
<1>10. Seen(w) = at[j]
  BY <1>1, <1>2, <1>3, <1>4, SeenThrough
<1>11. at[j + 1] = After(at[j], Ran(w)[j + 1])
  BY <1>3, <1>7, ThroughFacts
<1>12. Applies(at[j], Ran(w)[j + 1])
  BY <1>9, <1>10
<1>13. conn'[w] = Conn("transaction", Tail(left), at[j + 1])
  BY <1>9, <1>10, <1>11 DEF SqlInv, ConnInv
<1>14. conn'[w].step = "transaction" /\ conn'[w].left = Tail(left) /\ conn'[w].pending = at[j + 1]
  BY <1>13 DEF Conn
<1>15. /\ Given(w)' = ss /\ Through(db[Path(w)], Ran(w))' = at
       /\ Is(w, "transaction")'
  BY <1>2, RuntimeSame DEF Is, Through
<1> HIDE DEF at, ss, left
<1>16. \A k \in 1 .. n - (j + 1) : Tail(left)[k] = ss[(j + 1) + k]
  <2> SUFFICES ASSUME NEW k \in 1 .. n - (j + 1) PROVE Tail(left)[k] = ss[(j + 1) + k]
    OBVIOUS
  <2>1. k \in 1 .. n - j - 1 /\ k + 1 \in 1 .. n - j /\ j + (k + 1) = (j + 1) + k
    BY <1>7
  <2>2. QED
    BY <1>5, <1>6, <2>1
<1>17. \A k \in 1 .. j + 1 : ss[k] # None /\ Applies(at[k - 1], Ran(w)[k])
  <2> SUFFICES ASSUME NEW k \in 1 .. j + 1 PROVE ss[k] # None /\ Applies(at[k - 1], Ran(w)[k])
    OBVIOUS
  <2>1. k \in 1 .. j \/ k = j + 1
    BY <1>7
  <2>2. CASE k = j + 1
    BY <1>7, <1>8, <1>12, <2>2
  <2>3. QED
    BY <1>5, <2>1, <2>2
<1>18. Progress(w, j + 1)'
  <2>1. Ran(w)' = Ran(w)
    BY RuntimeSame
  <2>2. j + 1 # 0
    BY <1>7
  <2>3. QED
    BY <1>3, <1>6, <1>7, <1>14, <1>15, <1>16, <1>17, <2>1, <2>2 DEF Progress
<1>19. QED
  <2>1. j + 1 \in 0 .. Len(Given(w)')
    BY <1>3, <1>7, <1>15
  <2>2. QED
    BY <1>2, <1>14, <1>15, <1>18, <2>1 DEF InTransaction
LEMMA RunStatementDb ==
    ASSUME SqlInv, DbInv, NEW w \in Workers, RunStatement(w)
    PROVE  DbInv'
<1>1. conn[w].step = "transaction" /\ conn[w].left # <<>>
  BY DEF RunStatement, At
<1>2. Busy(w) /\ AtWork(w) /\ Path(w) \in Files
  BY <1>1, AtWorkFacts
<1>3. CASE Fail(w, "invalid_payload") \/ Fail(w, "failed")
  BY <1>2, <1>3, FailDb
<1>4. CASE ~(Fail(w, "invalid_payload") \/ Fail(w, "failed"))
  <2>1. /\ Head(conn[w].left) # None /\ Runs(w, Seen(w), Statement(w))
        /\ conn' = [conn EXCEPT ![w] =
                      Conn("transaction", Tail(@.left), After(Seen(w), Statement(w)))]
        /\ lock' = IF Writes(Statement(w)) THEN [lock EXCEPT ![Path(w)] = w] ELSE lock
        /\ UNCHANGED <<runtimeVars, db, commits>>
    BY <1>4 DEF RunStatement
  <2>2. InTransaction(w)'
    BY <1>1, <2>1, OneMore DEF Runs
  <2>3. AtWork(w)'
    BY <1>2, <2>1, <2>2, RuntimeSame DEF AtWork
  <2>4. TableInv'
    BY <2>1 DEF DbInv, TableInv
  <2>5. LockInv'
    <3>1. conn'[w].step = "transaction" /\ \A v \in Workers : v # w => conn'[v] = conn[v]
      BY <2>1, <2>2 DEF InTransaction, SqlInv, ConnInv
    <3>2. \A f \in Files : lock'[f] = lock[f] \/ (f = Path(w) /\ lock'[f] = w)
      BY <1>2, <2>1 DEF DbInv, LockInv
    <3>3. lock' = [f \in Files |-> lock'[f]]
      BY <1>2, <2>1 DEF DbInv, LockInv
    <3>4. ASSUME NEW f \in Files, NEW v \in Workers, lock'[f] = v
          PROVE  conn'[v].step = "transaction" /\ Path(v) = f
      <4>1. CASE f = Path(w) /\ lock'[f] = w
        BY <3>1, <3>4, <4>1
      <4>2. CASE lock'[f] = lock[f]
        BY <3>1, <3>4, <4>2 DEF DbInv, LockInv
      <4>3. QED
        BY <3>2, <4>1, <4>2
    <3>5. QED
      BY <2>1, <3>3, <3>4, RuntimeSame DEF LockInv
  <2> DEFINE new == Conn("transaction", Tail(conn[w].left), After(Seen(w), Statement(w)))
  <2>6. conn' = [conn EXCEPT ![w] = new]
    BY <2>1
  <2> HIDE DEF new
  <2>7. QED
    BY <1>2, <2>1, <2>3, <2>4, <2>5, <2>6, GoesOnDb
<1>5. QED
  BY <1>3, <1>4

(* What a transaction has gone through when no statement is left. *)
LEMMA WholeTransaction ==
    ASSUME SqlInv, DbInv, NEW w \in Workers, conn[w].step = "transaction", conn[w].left = <<>>
    PROVE  /\ Path(w) \in Files /\ db[Path(w)] # Missing
           /\ Given(w) \in Seq(Sqls \cup {None}) /\ Len(Given(w)) =< MaxStatements
           /\ \A k \in 1 .. Len(Given(w)) : Given(w)[k] # None
           /\ Len(Ran(w)) = Len(Given(w)) /\ DOMAIN Ran(w) = 1 .. Len(Given(w))
           /\ Ran(w) = [k \in 1 .. Len(Given(w)) |-> Bound(Head(Given(w)[k]))]
           /\ AllApply(db[Path(w)], Ran(w)) /\ Seen(w) = AfterAll(db[Path(w)], Ran(w))
           /\ Is(w, "transaction") /\ Len(Given(w)) \in Nat
<1>1. InTransaction(w) /\ PayloadOK(Current(w).payload) /\ Path(w) \in Files /\ db[Path(w)] # Missing
  BY AtWorkFacts
<1>2. Given(w) # None /\ Is(w, "transaction")
  BY <1>1 DEF InTransaction
<1>3. /\ Given(w) \in Seq(Sqls \cup {None}) /\ Len(Given(w)) =< MaxStatements /\ Len(Given(w)) \in Nat
      /\ Len(Ran(w)) = Len(Given(w)) /\ DOMAIN Ran(w) = 1 .. Len(Given(w))
  BY <1>1, <1>2, TransactionFacts
<1>4. PICK j \in 0 .. Len(Given(w)) : Progress(w, j)
  BY <1>1 DEF InTransaction
<1>5. j = Len(Given(w))
  <2>1. Len(conn[w].left) = 0
    OBVIOUS
  <2>2. Len(conn[w].left) = Len(Given(w)) - j
    BY <1>4 DEF Progress
  <2>3. PICK n \in Nat : n = Len(Given(w))
    BY <1>3
  <2>4. j \in 0 .. n /\ 0 = n - j
    BY <2>1, <2>2, <2>3
  <2>5. QED
    BY <2>3, <2>4
<1>6. Seen(w) = Through(db[Path(w)], Ran(w))[Len(Given(w))]
  BY <1>1, <1>2, <1>4, <1>5, SeenThrough
<1>7. \A k \in 1 .. Len(Given(w)) :
        Given(w)[k] # None /\ Applies(Through(db[Path(w)], Ran(w))[k - 1], Ran(w)[k])
  BY <1>4, <1>5 DEF Progress
<1>8. AllApply(db[Path(w)], Ran(w)) /\ Seen(w) = AfterAll(db[Path(w)], Ran(w))
  BY <1>3, <1>6, <1>7 DEF AllApply, AfterAll
<1>9. Ran(w) = [k \in 1 .. Len(Given(w)) |-> Bound(Head(Given(w)[k]))]
  BY <1>3 DEF Ran, Given
<1>10. QED
  BY <1>1, <1>2, <1>3, <1>7, <1>8, <1>9

(* A list of statements that apply leaves the file with the table, or as it was. *)
LEMMA AllApplyKind ==
    ASSUME NEW t, NEW ss, Len(ss) \in Nat, AllApply(t, ss)
    PROVE  AfterAll(t, ss) = t \/ (t # Missing /\ AfterAll(t, ss).kind = "table")
<1>1. PICK n \in Nat : n = Len(ss)
  OBVIOUS
<1> DEFINE at == Through(t, ss)
<1>2. at[0] = t /\ \A k \in 1 .. n : at[k] = After(at[k - 1], ss[k]) /\ Applies(at[k - 1], ss[k])
  BY <1>1, ThroughFacts DEF AllApply
<1>3. CASE n = 0
  BY <1>1, <1>2, <1>3 DEF AfterAll
<1>4. CASE n # 0
  <2>1. n \in 1 .. n /\ 1 \in 1 .. n /\ 1 - 1 = 0
    BY <1>4
  <2>2. at[n].kind = "table"
    BY <1>2, <2>1, AppliesFacts
  <2>3. t # Missing
    BY <1>2, <2>1, AppliesFacts
  <2>4. QED
    BY <1>1, <2>2, <2>3 DEF AfterAll
<1>5. QED
  BY <1>3, <1>4

LEMMA CommitDb ==
    ASSUME SqlInv, DbInv, NEW w \in Workers, Commit(w)
    PROVE  DbInv'
<1>1. /\ Busy(w) /\ conn[w].step = "transaction" /\ conn[w].left = <<>>
      /\ Finish(w, Success({})) /\ db' = [db EXCEPT ![Path(w)] = Seen(w)]
  BY DEF Commit, At, Committed
<1>2. /\ Len(Ran(w)) \in Nat /\ AllApply(db[Path(w)], Ran(w))
      /\ Seen(w) = AfterAll(db[Path(w)], Ran(w)) /\ Path(w) \in Files
  BY <1>1, WholeTransaction
<1>3. Seen(w) = db[Path(w)] \/ Seen(w).kind = "table"
  BY <1>2, AllApplyKind
<1>4. TableInv'
  BY <1>1, <1>3 DEF DbInv, TableInv, SqlInv, FilesInv
<1>5. QED
  BY <1>1, <1>4, FinishDb

LEMMA AutocommitDb ==
    ASSUME SqlInv, DbInv, NEW w \in Workers, Autocommit(w)
    PROVE  DbInv'
<1>1. Busy(w)
  BY DEF Autocommit, At
<1>2. CASE Fail(w, "failed")
  BY <1>1, <1>2, FailDb
<1>3. CASE ~Fail(w, "failed")
  <2>1. /\ Runs(w, db[Path(w)], First(w)) /\ Finish(w, Success({}))
        /\ db' = [db EXCEPT ![Path(w)] = After(db[Path(w)], First(w))]
    BY <1>3 DEF Autocommit, Committed
  <2>2. After(db[Path(w)], First(w)).kind = "table"
    BY <2>1, AppliesFacts DEF Runs
  <2>3. TableInv'
    BY <2>1, <2>2 DEF DbInv, TableInv, SqlInv, FilesInv
  <2>4. QED
    BY <1>1, <2>1, <2>3, FinishDb
<1>4. QED
  BY <1>2, <1>3

LEMMA EffectStepDb ==
    ASSUME SqlInv, DbInv, NEW w \in Workers, EffectStep(w) \/ HostFails(w)
    PROVE  DbInv'
<1>1. CASE Refuse(w) \/ SqlMissing(w) \/ LockTimesOut(w) \/ HostFails(w)
  <2>1. Busy(w) /\ \E code : Fail(w, code)
    BY <1>1 DEF Refuse, SqlMissing, LockTimesOut, HostFails, At
  <2>2. QED
    BY <2>1, FailDb
<1>2. CASE Close(w) \/ Open(w) \/ Select(w)
  <2>1. Busy(w) /\ \E result : FinishUnchanged(w, result)
    BY <1>2 DEF Close, Open, Select, Fail, At
  <2>2. QED
    BY <2>1, FinishUnchangedDb
<1>3. QED
  BY <1>1, <1>2, OpenConnectionDb, BeginDb, RunStatementDb, AutocommitDb, CommitDb DEF EffectStep
LEMMA AtWorkSame ==
    ASSUME NEW w, AtWork(w), UNCHANGED <<db, conn>>,
           Path(w)' = Path(w), Given(w)' = Given(w), Ran(w)' = Ran(w), Working(w)' = Working(w),
           Is(w, "transaction")' = Is(w, "transaction")
    PROVE  AtWork(w)'
<1>1. ASSUME InTransaction(w) PROVE InTransaction(w)'
  <2>1. PICK j \in 0 .. Len(Given(w)) : Progress(w, j)
    BY <1>1 DEF InTransaction
  <2>2. Through(db[Path(w)], Ran(w))' = Through(db[Path(w)], Ran(w))
    BY DEF Through
  <2>3. Progress(w, j)'
    BY <2>1, <2>2 DEF Progress
  <2>4. QED
    BY <1>1, <2>1, <2>3 DEF InTransaction
<1>2. QED
  BY <1>1 DEF AtWork, Opened

LEMMA SubmitDb ==
    ASSUME SqlInv, DbInv, Submit, UNCHANGED databaseVars
    PROVE  DbInv'
<1>1. PICK r, source, task :
        /\ r \in Requests
        /\ source.payload = r.payload /\ task.payload = r.payload
        /\ \/ \E refused : RunFacade(source, refused, ProtocolPairs)
           \/ SubmitEffect(task)
  BY DEF Submit, NextTask, Task
<1>2. PayloadOK(r.payload)
  BY <1>1, RequestsNameFiles, StatementsAreListed DEF PayloadOK, StatementsOK
<1>3. \A i \in DOMAIN issued' : i \in DOMAIN issued \/ issued'[i].payload = r.payload
  BY <1>1, FacadePayload, SubmittedTask DEF SqlInv
<1>4. (\A i \in DOMAIN issued : issued'[i] = issued[i]) /\ UNCHANGED <<taken, batch>>
  <2>1. ASSUME NEW refused, RunFacade(source, refused, ProtocolPairs) PROVE <1>4!1
    BY <2>1, RunFacadeInv DEF SqlInv
  <2>2. ASSUME SubmitEffect(task) PROVE <1>4!1
    BY <2>2, SubmitEffectInv DEF SqlInv
  <2>3. QED
    BY <1>1, <2>1, <2>2 DEF SubmitEffect, RunFacade
<1>5. IssuedInv'
  BY <1>2, <1>3, <1>4 DEF DbInv, IssuedInv
<1>6. UNCHANGED <<db, lock, conn>>
  BY DEF databaseVars
<1>7. ASSUME NEW w \in Workers, Busy(w) PROVE Current(w)' = Current(w)
  BY <1>4, <1>7, BusyFacts DEF SqlInv, Position, Current
<1>8. ASSUME NEW w \in Workers, conn[w] # Closed
      PROVE  /\ Path(w)' = Path(w) /\ Given(w)' = Given(w) /\ Ran(w)' = Ran(w)
             /\ Working(w)' = Working(w) /\ Is(w, "transaction")' = Is(w, "transaction")
  BY <1>7, <1>8 DEF SqlInv, ConnInv, Path, Given, Ran, Working, Is
<1>9. TableInv'
  BY <1>6 DEF DbInv, TableInv
<1>10. LockInv'
  BY <1>6, <1>8 DEF DbInv, LockInv, Closed, Conn
<1>11. WorkInv'
  BY <1>6, <1>8, AtWorkSame DEF DbInv, WorkInv
<1>12. QED
  BY <1>5, <1>9, <1>10, <1>11 DEF DbInv

(* Nothing is open afterwards, and no worker holds a lock it did not hold. *)
LEMMA AllClosedDb ==
    ASSUME DbInv, UNCHANGED <<issued, db>>, conn' = [w \in Workers |-> Closed],
           lock' = [f \in Files |-> lock'[f]],
           \A f \in Files, w \in Workers : lock'[f] # w
    PROVE  DbInv'
  BY DEF DbInv, IssuedInv, TableInv, LockInv, WorkInv

(* With no entry under way no worker holds a lock. *)
LEMMA NoneBusyDb ==
    ASSUME SqlInv, DbInv, \A w \in Workers : ~Busy(w), UNCHANGED <<issued, db, lock, conn>>
    PROVE  DbInv'
<1>1. \A w \in Workers : conn[w] = Closed
  BY IdleClosed
<1>2. conn' = [w \in Workers |-> Closed]
  BY <1>1 DEF SqlInv, ConnInv
<1>3. \A f \in Files, w \in Workers : lock'[f] # w
  BY <1>1 DEF DbInv, LockInv, Closed, Conn
<1>4. lock' = [f \in Files |-> lock'[f]]
  BY DEF DbInv, LockInv
<1>5. QED
  BY <1>2, <1>3, <1>4, AllClosedDb

LEMMA DispatchDb ==
    ASSUME SqlInv, DbInv, DispatchAny
    PROVE  DbInv'
<1>1. PICK w \in Workers, size \in 1 .. MaxBatch : Dispatch(w, size, 1)
  BY DEF DispatchAny, MaxInflightBatches
<1>2. (\A v \in Workers : batch[v] = NoBatch) /\ issued' = issued
  BY <1>1, DispatchInv DEF SqlInv
<1>3. UNCHANGED <<db, lock, conn>>
  BY DEF DispatchAny, databaseVars
<1>4. QED
  BY <1>2, <1>3, NoneBusyDb DEF Busy

LEMMA AnswerDb ==
    ASSUME SqlInv, DbInv, NEW w \in Workers, Answer(w), UNCHANGED databaseVars
    PROVE  DbInv'
<1>1. \A v \in Workers : ~Busy(v)
  BY DEF Answer, SqlInv, RuntimeInv, OneBatch, Busy
<1>2. UNCHANGED <<issued, db, lock, conn>>
  BY DEF Answer, databaseVars
<1>3. QED
  BY <1>1, <1>2, NoneBusyDb

LEMMA CrashDb ==
    ASSUME DbInv, Crash, conn' = [w \in Workers |-> Closed],
           lock' = [f \in Files |-> IF lock[f] = OtherProcess THEN OtherProcess ELSE None],
           UNCHANGED <<db, commits>>
    PROVE  DbInv'
<1>1. \A f \in Files, w \in Workers : lock'[f] # w
  BY NoWorker
<1>2. lock' = [f \in Files |-> lock'[f]]
  OBVIOUS
<1>3. QED
  BY <1>1, <1>2, AllClosedDb DEF Crash

(* The other process changes no file that a transaction here has seen. *)
LEMMA OtherDb ==
    ASSUME SqlInv, DbInv, Other
    PROVE  DbInv'
<1>1. UNCHANGED <<runtimeVars, conn>> /\ UNCHANGED issued
  BY DEF Other, OtherLocks, OtherRollsBack, OtherCommits, runtimeVars
<1>2. PICK f \in Files :
        /\ lock' = [lock EXCEPT ![f] = None] \/ lock' = [lock EXCEPT ![f] = OtherProcess]
        /\ db' = db \/ \E s \in Foreign : OtherCommits(f, s)
  BY DEF Other, OtherLocks, OtherRollsBack, OtherCommits
<1>3. IssuedInv'
  BY <1>1 DEF DbInv, IssuedInv
<1>4. LockInv'
  <2>1. lock' = [g \in Files |-> lock'[g]] /\ \A g \in Files, w \in Workers : lock'[g] = w => lock[g] = w
    BY <1>2, NoWorker DEF DbInv, LockInv
  <2>2. QED
    BY <1>1, <2>1, RuntimeSame DEF DbInv, LockInv
<1>5. CASE db' = db
  <2>1. TableInv'
    BY <1>5 DEF DbInv, TableInv
  <2>2. WorkInv'
    <3>1. \A w : Is(w, "transaction")' = Is(w, "transaction")
      BY <1>1, RuntimeSame DEF Is
    <3>2. QED
      BY <1>1, <1>5, <3>1, RuntimeSame, AtWorkSame DEF DbInv, WorkInv
  <2>3. QED
    BY <1>3, <1>4, <2>1, <2>2 DEF DbInv
<1>6. ASSUME NEW s \in Foreign, OtherCommits(f, s) PROVE DbInv'
  <2>1. /\ Applies(db[f], s) /\ db' = [db EXCEPT ![f] = After(db[f], s)]
        /\ \A w \in Workers : Busy(w) /\ conn[w].pending # Missing => Path(w) # f
    BY <1>6 DEF OtherCommits
  <2>2. After(db[f], s).kind = "table" /\ After(db[f], s) # Missing
    BY <2>1, AppliesFacts
  <2>3. \A g \in Files : db'[g] = IF g = f THEN After(db[f], s) ELSE db[g]
    BY <2>1 DEF SqlInv, FilesInv
  <2>4. TableInv'
    BY <2>2, <2>3 DEF DbInv, TableInv
  <2>5. ASSUME NEW w \in Workers, conn'[w] # Closed PROVE AtWork(w)'
    <3>1. conn[w] # Closed /\ Busy(w) /\ AtWork(w)
      BY <1>1, <2>5 DEF SqlInv, ConnInv, DbInv, WorkInv
    <3>2. Path(w) \in Files /\ PayloadOK(Current(w).payload)
      BY <3>1, WorkingFacts DEF AtWork, SqlInv, DbInv
    <3>3. db'[Path(w)] # Missing
      BY <2>2, <2>3, <3>1, <3>2 DEF AtWork
    <3>4. ASSUME InTransaction(w) PROVE InTransaction(w)'
      <4>1. Given(w) # None
        BY <3>4 DEF InTransaction
      <4>2. PICK j \in 0 .. Len(Given(w)) : Progress(w, j)
        BY <3>4 DEF InTransaction
      <4>3. Progress(w, j)'
        <5>1. CASE j = 0
          <6>1. \A k \in 1 .. j : FALSE
            BY <5>1
          <6>2. QED
            BY <1>1, <4>2, <5>1, <6>1, RuntimeSame DEF Progress
        <5>2. CASE j # 0
          <6>1. conn[w].pending # Missing
            BY <3>2, <4>1, <4>2, <5>2, SeenThrough
          <6>2. db'[Path(w)] = db[Path(w)]
            BY <2>1, <2>3, <3>1, <3>2, <6>1
          <6>3. Path(w)' = Path(w) /\ Through(db[Path(w)], Ran(w))' = Through(db[Path(w)], Ran(w))
            BY <1>1, <6>2, RuntimeSame DEF Through
          <6>4. QED
            BY <1>1, <4>2, <6>3, RuntimeSame DEF Progress
        <5>3. QED
          BY <5>1, <5>2
      <4>4. QED
        BY <1>1, <3>4, <4>2, <4>3, RuntimeSame DEF InTransaction, Is
    <3>5. QED
      BY <1>1, <3>1, <3>3, <3>4, RuntimeSame DEF AtWork, Opened
  <2>6. QED
    BY <1>3, <1>4, <2>4, <2>5 DEF DbInv, WorkInv
<1>7. QED
  BY <1>2, <1>5, <1>6

LEMMA DbInvNext == SqlInv /\ DbInv /\ [Next]_vars => DbInv'
<1> SUFFICES ASSUME SqlInv, DbInv, [Next]_vars PROVE DbInv'
  OBVIOUS
<1>1. CASE UNCHANGED vars
  <2>1. UNCHANGED <<runtimeVars, db, lock, conn>>
    BY <1>1 DEF vars
  <2>2. \A w : Is(w, "transaction")' = Is(w, "transaction")
    BY <2>1, RuntimeSame DEF Is
  <2>3. WorkInv'
    BY <2>1, <2>2, RuntimeSame, AtWorkSame DEF DbInv, WorkInv
  <2>4. QED
    BY <2>1, <2>3, RuntimeSame DEF DbInv, IssuedInv, TableInv, LockInv
<1>2. QED
  BY <1>1, SubmitDb, DispatchDb, EffectStepDb, AnswerDb, OtherDb, CrashDb DEF Next

LEMMA DbInvHolds == Spec => []DbInv
  BY SqlInvHolds, DbInvInit, DbInvNext, PTL DEF Spec

(* Every variable has its type, and a lock is held by a connection that is in a
   transaction on that file. *)
THEOREM SqlTypes == Spec => []TypeOK
<1>1. SqlInv /\ DbInv => TypeOK
  <2> SUFFICES ASSUME SqlInv, DbInv PROVE TypeOK
    OBVIOUS
  <2>1. RuntimeTypeOK
    BY RuntimeTypes DEF SqlInv
  <2>2. ASSUME NEW w \in Workers
        PROVE  /\ conn[w].step \in {"closed", "open", "transaction"}
               /\ conn[w] # Closed => Busy(w)
               /\ \A f \in Files : lock[f] = w => At(w, "transaction") /\ Path(w) = f
    <3>1. conn[w] # Closed => Busy(w) /\ conn[w].step \in {"open", "transaction"}
      BY DEF SqlInv, ConnInv, DbInv, WorkInv, AtWork, Opened, InTransaction, Conn
    <3>2. Closed.step = "closed"
      BY DEF Closed, Conn
    <3>3. QED
      BY <3>1, <3>2 DEF DbInv, LockInv, At
  <2>3. QED
    BY <2>1, <2>2 DEF TypeOK, DbInv, TableInv
<1>2. QED
  BY <1>1, SqlInvHolds, DbInvHolds, PTL
-----------------------------------------------------------------------------
(* The refinement: what a step does to the files and the log. *)

LEMMA AtomicSame ==
    /\ Atomic!Missing = Missing /\ Atomic!Empty = Empty
    /\ \A t, ss : Atomic!AfterAll(t, ss) = AfterAll(t, ss) /\ (Atomic!AllApply(t, ss) <=> AllApply(t, ss))
<1>1. /\ Atomic!Missing = Missing /\ Atomic!Empty = Empty
      /\ \A rows : Atomic!Table(rows) = Table(rows)
      /\ \A key, value : Atomic!Row(key, value) = Row(key, value)
      /\ \A t : Atomic!Keys(t) = Keys(t)
  BY DEF Atomic!Missing, Missing, Atomic!Empty, Empty, Atomic!Table, Table, Atomic!Row, Row,
         Atomic!Keys, Keys
<1>2. \A t, s : (Atomic!Applies(t, s) <=> Applies(t, s)) /\ Atomic!After(t, s) = After(t, s)
  BY <1>1 DEF Atomic!Applies, Applies, Atomic!After, After
<1>3. \A t, ss : Atomic!Through(t, ss) = Through(t, ss)
  BY <1>2 DEF Atomic!Through, Through
<1>4. QED
  BY <1>1, <1>2, <1>3 DEF Atomic!AfterAll, AfterAll, Atomic!AllApply, AllApply

LEMMA OneStatement ==
    ASSUME NEW t, NEW s, Applies(t, s)
    PROVE  AllApply(t, <<s>>) /\ AfterAll(t, <<s>>) = After(t, s)
<1>1. /\ Len(<<s>>) = 1 /\ <<s>>[1] = s /\ 1 \in 1 .. Len(<<s>>)
      /\ \A k \in 1 .. Len(<<s>>) : k = 1
  OBVIOUS
<1>2. Through(t, <<s>>)[0] = t /\ Through(t, <<s>>)[1] = After(Through(t, <<s>>)[1 - 1], <<s>>[1])
  BY <1>1, ThroughFacts
<1>3. QED
  BY <1>1, <1>2 DEF AllApply, AfterAll

(* A task's commit is its first. *)
LEMMA CommitApplies ==
    ASSUME SqlInv, NEW w \in Workers, Busy(w), Path(w) \in Files, db[Path(w)] # Missing,
           NEW ss, NEW next, Committed(w, ss, next), ss \in Atomic!Lists,
           AllApply(db[Path(w)], ss), next = AfterAll(db[Path(w)], ss)
    PROVE  Atomic!Next
<1> DEFINE task == Position(w)
<1>1. task \in 1 .. MaxTasks
  <2>1. task \in Nat /\ 1 =< task /\ task =< taken /\ taken \in Nat
    BY BusyFacts DEF SqlInv
  <2>2. taken =< Len(issued) /\ Len(issued) =< submitted /\ Len(issued) \in Nat
    BY IsSeqFacts DEF SqlInv, RuntimeInv, QueueInv
  <2>3. submitted \in 0 .. MaxTasks /\ MaxTasks \in Nat
    BY WorkersFacts DEF SqlInv, RuntimeInv, CountersInv
  <2> HIDE DEF task
  <2>4. QED
    BY <2>1, <2>2, <2>3
<1>2. Atomic!Once(task)
  <2>1. \A k \in DOMAIN commits : commits[k].task < task /\ commits[k].task \in Nat /\ task \in Nat
    BY BusyFacts DEF SqlInv, CommitsInv
  <2>2. QED
    BY <2>1 DEF Atomic!Once
<1>3. Atomic!Apply(task, Path(w), ss)
  BY AtomicSame DEF Atomic!Apply, Atomic!Entry, Committed
<1>4. QED
  BY <1>1, <1>2, <1>3 DEF Atomic!Next

LEMMA TransactionImplements ==
    ASSUME SqlInv, DbInv, NEW w \in Workers, Commit(w)
    PROVE  Atomic!Next
<1>1. /\ Busy(w) /\ conn[w].step = "transaction" /\ conn[w].left = <<>>
      /\ Committed(w, Ran(w), Seen(w))
  BY DEF Commit, At
<1>2. /\ Path(w) \in Files /\ db[Path(w)] # Missing
      /\ Given(w) \in Seq(Sqls \cup {None}) /\ Len(Given(w)) =< MaxStatements
      /\ Len(Given(w)) \in Nat
      /\ \A k \in 1 .. Len(Given(w)) : Given(w)[k] # None
      /\ Ran(w) = [k \in 1 .. Len(Given(w)) |-> Bound(Head(Given(w)[k]))]
      /\ AllApply(db[Path(w)], Ran(w)) /\ Seen(w) = AfterAll(db[Path(w)], Ran(w))
  BY <1>1, WholeTransaction
<1>3. PICK n \in 0 .. MaxStatements : n = Len(Given(w))
  BY <1>2, StatementsAreListed
<1>4. \A k \in 1 .. n : Bound(Head(Given(w)[k])) \in Statements
  BY <1>2, <1>3, StatementsAreListed
<1>5. Ran(w) \in [1 .. n -> Statements]
  BY <1>2, <1>3, <1>4
<1>6. Ran(w) \in Atomic!Lists
  BY <1>5 DEF Atomic!Lists
<1>7. QED
  BY <1>1, <1>2, <1>6, CommitApplies

LEMMA AutocommitImplements ==
    ASSUME SqlInv, DbInv, NEW w \in Workers, Autocommit(w)
    PROVE  Atomic!Next \/ UNCHANGED <<db, commits>>
<1>1. CASE Fail(w, "failed")
  BY <1>1 DEF Fail, FinishUnchanged
<1>2. CASE ~Fail(w, "failed")
  <2>1. /\ Busy(w) /\ conn[w].step = "open" /\ Sql(w) # None
        /\ Applies(db[Path(w)], First(w))
        /\ Committed(w, <<First(w)>>, After(db[Path(w)], First(w)))
    BY <1>2 DEF Autocommit, At, Runs
  <2>2. Path(w) \in Files /\ db[Path(w)] # Missing /\ PayloadOK(Current(w).payload)
    BY <2>1, AtWorkFacts
  <2>3. First(w) \in Statements
    BY <2>1, <2>2, StatementsAreListed DEF PayloadOK, First, Sql
  <2>4. <<First(w)>> \in [1 .. 1 -> Statements] /\ 1 \in 0 .. MaxStatements
    BY <2>3, StatementsAreListed
  <2>5. <<First(w)>> \in Atomic!Lists
    BY <2>4 DEF Atomic!Lists
  <2>6. QED
    BY <2>1, <2>2, <2>5, OneStatement, CommitApplies
<1>3. QED
  BY <1>1, <1>2

LEMMA OpenImplements ==
    ASSUME SqlInv, DbInv, NEW w \in Workers, OpenConnection(w)
    PROVE  Atomic!Next \/ UNCHANGED <<db, commits>>
<1>1. CASE Fail(w, "open_failed") \/ db[Path(w)] # Missing
  BY <1>1 DEF OpenConnection, Fail, FinishUnchanged
<1>2. CASE ~Fail(w, "open_failed") /\ db[Path(w)] = Missing
  <2>1. Busy(w) /\ db' = [db EXCEPT ![Path(w)] = Empty] /\ UNCHANGED commits /\ Working(w)
    BY <1>2 DEF OpenConnection, At, Working
  <2>2. Path(w) \in Files
    BY <2>1, WorkingFacts DEF SqlInv, DbInv
  <2>3. Atomic!Create(Path(w))
    BY <1>2, <2>1, AtomicSame DEF Atomic!Create
  <2>4. QED
    BY <2>2, <2>3 DEF Atomic!Next
<1>3. QED
  BY <1>1, <1>2

LEMMA OtherImplements ==
    ASSUME Other
    PROVE  Atomic!Next \/ UNCHANGED <<db, commits>>
<1> SUFFICES ASSUME NEW f \in Files, NEW s \in Foreign, OtherCommits(f, s) PROVE Atomic!Next
  BY DEF Other, OtherLocks, OtherRollsBack
<1>1. /\ Applies(db[f], s) /\ db' = [db EXCEPT ![f] = After(@, s)]
      /\ commits' = Append(commits, [task |-> 0, file |-> f, statements |-> <<s>>])
  BY DEF OtherCommits
<1>2. db[f] # Missing
  BY <1>1, AppliesFacts
<1>3. Atomic!Apply(0, f, <<s>>)
  BY <1>1, <1>2, AtomicSame, OneStatement DEF Atomic!Apply, Atomic!Entry
<1>4. s \in Statements
  BY StatementsAreListed
<1>5. QED
  BY <1>3, <1>4 DEF Atomic!Next

LEMMA NextImplements == SqlInv /\ DbInv /\ [Next]_vars => [Atomic!Next]_<<db, commits>>
<1> SUFFICES ASSUME SqlInv, DbInv, [Next]_vars PROVE Atomic!Next \/ UNCHANGED <<db, commits>>
  OBVIOUS
<1>1. ASSUME NEW w \in Workers, EffectStep(w) \/ HostFails(w)
      PROVE  Atomic!Next \/ UNCHANGED <<db, commits>>
  <2>1. CASE OpenConnection(w) \/ Autocommit(w) \/ Commit(w)
    BY <2>1, OpenImplements, AutocommitImplements, TransactionImplements
  <2>2. CASE ~(OpenConnection(w) \/ Autocommit(w) \/ Commit(w))
    BY <1>1, <2>2 DEF EffectStep, Refuse, Close, Open, SqlMissing, Select, Begin, RunStatement,
       LockTimesOut, HostFails, Fail, FinishUnchanged
  <2>3. QED
    BY <2>1, <2>2
<1>2. CASE UNCHANGED vars
  BY <1>2 DEF vars
<1>3. QED
  BY <1>1, <1>2, OtherImplements DEF Next, databaseVars, DispatchAny

(* However statements fail, another process interferes, connections are dropped
   and the process dies, a file changes by whole transactions only, each task's
   at most once (execute_transaction, lib.rs:312; execute_sql, lib.rs:306). *)
THEOREM WholeTransactionsOnly == Spec => ImplementsAtomicDatabase
<1>1. Init => Atomic!Init
  BY DEF Init, Atomic!Init
<1>2. SqlInv /\ DbInv /\ [Next]_vars => [Atomic!Next]_Atomic!vars
  BY NextImplements DEF Atomic!vars
<1>3. QED
  BY <1>1, <1>2, SqlInvHolds, DbInvHolds, PTL DEF Spec, ImplementsAtomicDatabase, Atomic!Spec
-----------------------------------------------------------------------------
(* Replaying the log. *)

Redone(t, entry, f) == IF entry.file = f THEN AfterAll(t, entry.statements) ELSE t
Redoing(t, log, f, n, at) ==
    at = [k \in 0 .. n |-> IF k = 0 THEN t ELSE Redone(at[k - 1], log[k], f)]

LEMMA RedoingExists ==
    ASSUME NEW t, NEW log, NEW f, NEW n \in Nat
    PROVE  \E at : Redoing(t, log, f, n, at)
<1> DEFINE Bad == {m \in Nat : ~ \E at : Redoing(t, log, f, m, at)}
<1>1. Bad = {}
  <2> SUFFICES ASSUME Bad # {} PROVE FALSE
    OBVIOUS
  <2>1. PICK m \in Bad : \A l \in Bad : m =< l
    BY LeastNatural
  <2>2. m # 0
    <3>1. Redoing(t, log, f, 0, [k \in 0 .. 0 |-> t])
      BY DEF Redoing
    <3>2. QED
      BY <3>1
  <2>3. m - 1 \in Nat /\ m - 1 \notin Bad
    BY <2>1, <2>2
  <2>4. PICK at : Redoing(t, log, f, m - 1, at)
    BY <2>3
  <2> DEFINE next == [k \in 0 .. m |-> IF k = m THEN Redone(at[m - 1], log[m], f) ELSE at[k]]
  <2>5. \A k \in 0 .. m : next[k] = IF k = 0 THEN t ELSE Redone(next[k - 1], log[k], f)
    <3> SUFFICES ASSUME NEW k \in 0 .. m
                 PROVE  next[k] = IF k = 0 THEN t ELSE Redone(next[k - 1], log[k], f)
      OBVIOUS
    <3>1. CASE k = m
      BY <2>2, <3>1
    <3>2. CASE k # m
      <4>1. k \in 0 .. m - 1 /\ next[k] = at[k]
        BY <3>2
      <4>2. k # 0 => next[k - 1] = at[k - 1]
        BY <3>2
      <4>3. at[k] = IF k = 0 THEN t ELSE Redone(at[k - 1], log[k], f)
        BY <2>4, <4>1 DEF Redoing
      <4>4. QED
        BY <4>1, <4>2, <4>3
    <3>3. QED
      BY <3>1, <3>2
  <2>6. next = [k \in 0 .. m |-> IF k = 0 THEN t ELSE Redone(next[k - 1], log[k], f)]
    BY <2>5
  <2>7. Redoing(t, log, f, m, next)
    BY <2>6 DEF Redoing
  <2>8. QED
    BY <2>7
<1>2. QED
  BY <1>1

AtFirst(f) == IF InitDb[f] = Missing THEN Empty ELSE InitDb[f]
ReplayOf(f, log) ==
    LET at[k \in 0 .. Len(log)] == IF k = 0 THEN AtFirst(f) ELSE Redone(at[k - 1], log[k], f)
    IN  at

LEMMA ReplayFacts ==
    ASSUME NEW f, NEW log, Len(log) \in Nat
    PROVE  /\ ReplayOf(f, log)[0] = AtFirst(f)
           /\ \A k \in 1 .. Len(log) : ReplayOf(f, log)[k] = Redone(ReplayOf(f, log)[k - 1], log[k], f)
<1>1. PICK n \in Nat : n = Len(log)
  OBVIOUS
<1>2. \E at : Redoing(AtFirst(f), log, f, n, at)
  BY RedoingExists
<1>3. ReplayOf(f, log) = CHOOSE at : Redoing(AtFirst(f), log, f, n, at)
  BY <1>1 DEF ReplayOf, Redoing
<1>4. Redoing(AtFirst(f), log, f, n, ReplayOf(f, log))
  BY <1>2, <1>3
<1>5. PICK at : at = ReplayOf(f, log)
  OBVIOUS
<1>6. at = [k \in 0 .. n |-> IF k = 0 THEN AtFirst(f) ELSE Redone(at[k - 1], log[k], f)]
  BY <1>4, <1>5 DEF Redoing
<1>7. at[0] = AtFirst(f)
  BY <1>6
<1>8. \A k \in 1 .. n : at[k] = Redone(at[k - 1], log[k], f)
  BY <1>6
<1>9. QED
  BY <1>1, <1>5, <1>7, <1>8

(* One entry more leaves what came of the entries before it. *)
LEMMA ReplayOneMore ==
    ASSUME NEW f, NEW log, IsSeq(log), NEW entry
    PROVE  /\ \A k \in 0 .. Len(log) : ReplayOf(f, Append(log, entry))[k] = ReplayOf(f, log)[k]
           /\ ReplayOf(f, Append(log, entry))[Len(log) + 1] = Redone(ReplayOf(f, log)[Len(log)], entry, f)
<1> DEFINE old == ReplayOf(f, log)
           longer == Append(log, entry)
           new == ReplayOf(f, longer)
<1>1. PICK n \in Nat : n = Len(log)
  BY IsSeqFacts
<1>2. /\ Len(longer) = n + 1 /\ longer[n + 1] = entry
      /\ \A k \in 1 .. n : longer[k] = log[k]
  BY <1>1, IsSeqAppend
<1> HIDE DEF longer
<1>3. /\ old[0] = AtFirst(f)
      /\ \A k \in 1 .. n : old[k] = Redone(old[k - 1], log[k], f)
  BY <1>1, ReplayFacts
<1>4. /\ new[0] = AtFirst(f)
      /\ \A k \in 1 .. n + 1 : new[k] = Redone(new[k - 1], longer[k], f)
  <2>1. Len(longer) \in Nat
    BY <1>2
  <2>2. QED
    BY <1>2, <2>1, ReplayFacts
<1> HIDE DEF old, new
<1>5. \A k \in 0 .. n : new[k] = old[k]
  <2> DEFINE Bad == {k \in 0 .. n : new[k] # old[k]}
  <2> SUFFICES ASSUME Bad # {} PROVE FALSE
    OBVIOUS
  <2>1. PICK m \in Bad : \A l \in Bad : m =< l
    <3>1. Bad \subseteq Nat
      BY <1>1
    <3>2. QED
      BY <3>1, LeastNatural
  <2>2. m # 0 /\ m \in 0 .. n /\ new[m] # old[m]
    BY <1>3, <1>4, <2>1
  <2>3. m \in 1 .. n /\ m \in 1 .. n + 1 /\ m - 1 \in 0 .. n /\ m - 1 \notin Bad
    BY <2>1, <2>2
  <2>4. new[m - 1] = old[m - 1]
    BY <2>3
  <2>5. QED
    BY <1>2, <1>3, <1>4, <2>2, <2>3, <2>4
<1>6. n \in 0 .. n /\ n + 1 \in 1 .. n + 1 /\ (n + 1) - 1 = n
  OBVIOUS
<1>7. new[n + 1] = Redone(old[n], entry, f)
  BY <1>2, <1>4, <1>5, <1>6
<1>8. QED
  BY <1>1, <1>5, <1>7 DEF old, new, longer

LEMMA ReplayedOf == \A f : Replayed(f) = ReplayOf(f, commits)
  BY DEF Replayed, ReplayOf, AtFirst, Redone

(* What the files hold is what the commits so far make of the files there were. *)
ReplayInv ==
    \A f \in Files : ReplayOf(f, commits)[Len(commits)] = IF db[f] = Missing THEN Empty ELSE db[f]

LEMMA ReplayInvInit == Init => ReplayInv
<1> SUFFICES ASSUME Init, NEW f \in Files
             PROVE  ReplayOf(f, commits)[Len(commits)] = IF db[f] = Missing THEN Empty ELSE db[f]
  BY DEF ReplayInv
<1>1. commits = <<>> /\ Len(commits) = 0 /\ db = InitDb
  BY IsSeqShort DEF Init
<1>2. QED
  BY <1>1, ReplayFacts DEF AtFirst

LEMMA ReplayApplied ==
    ASSUME ReplayInv, IsSeq(commits), DOMAIN db = Files, NEW task, NEW f \in Files, NEW ss,
           Len(ss) \in Nat, Atomic!Apply(task, f, ss)
    PROVE  ReplayInv'
<1>1. /\ commits' = Append(commits, [task |-> task, file |-> f, statements |-> ss])
      /\ db[f] # Missing /\ AllApply(db[f], ss) /\ db' = [db EXCEPT ![f] = AfterAll(@, ss)]
  BY AtomicSame DEF Atomic!Apply, Atomic!Entry
<1>2. PICK entry : commits' = Append(commits, entry) /\ entry.file = f /\ entry.statements = ss
  BY <1>1
<1>3. AfterAll(db[f], ss) # Missing
  BY <1>1, AllApplyKind DEF Missing
<1> SUFFICES ASSUME NEW g \in Files
             PROVE  ReplayOf(g, commits')[Len(commits')] = IF db'[g] = Missing THEN Empty ELSE db'[g]
  BY DEF ReplayInv
<1>4. Len(commits') = Len(commits) + 1
  BY <1>2, IsSeqAppend
<1>5. ReplayOf(g, commits')[Len(commits')] = Redone(ReplayOf(g, commits)[Len(commits)], entry, g)
  BY <1>2, <1>4, ReplayOneMore
<1>6. ReplayOf(g, commits)[Len(commits)] = IF db[g] = Missing THEN Empty ELSE db[g]
  BY DEF ReplayInv
<1>7. CASE g = f
  BY <1>1, <1>2, <1>3, <1>5, <1>6, <1>7 DEF Redone
<1>8. CASE g # f
  BY <1>1, <1>2, <1>5, <1>6, <1>8 DEF Redone
<1>9. QED
  BY <1>7, <1>8

LEMMA ReplayInvNext == SqlInv /\ DbInv /\ ReplayInv /\ [Next]_vars => ReplayInv'
<1> SUFFICES ASSUME SqlInv, DbInv, ReplayInv, [Next]_vars PROVE ReplayInv'
  OBVIOUS
<1>1. [Atomic!Next]_<<db, commits>>
  BY NextImplements
<1>2. IsSeq(commits) /\ DOMAIN db = Files
  BY DEF SqlInv, CommitsInv, FilesInv
<1>3. CASE UNCHANGED <<db, commits>>
  BY <1>3 DEF ReplayInv
<1>4. ASSUME NEW f \in Files, Atomic!Create(f) PROVE ReplayInv'
  <2>1. db[f] = Missing /\ db' = [db EXCEPT ![f] = Empty] /\ commits' = commits
    BY <1>4, AtomicSame DEF Atomic!Create
  <2>2. QED
    BY <1>2, <2>1 DEF ReplayInv
<1>5. ASSUME NEW f \in Files, NEW task, NEW ss \in Atomic!Lists, Atomic!Apply(task, f, ss) PROVE ReplayInv'
  <2>1. PICK n \in 0 .. MaxStatements : ss \in [1 .. n -> Statements]
    BY DEF Atomic!Lists
  <2>2. n \in Nat /\ DOMAIN ss = 1 .. n /\ ss = [i \in 1 .. n |-> ss[i]]
    BY <2>1, StatementsAreListed
  <2>3. Len(ss) \in Nat
    BY <2>2, IsSeqFunction
  <2>4. QED
    BY <1>2, <1>5, <2>3, ReplayApplied
<1>6. ASSUME NEW f \in Files, NEW s, Atomic!Apply(0, f, <<s>>) PROVE ReplayInv'
  <2>1. Len(<<s>>) \in Nat
    OBVIOUS
  <2>2. QED
    BY <1>2, <1>6, <2>1, ReplayApplied
<1>7. QED
  BY <1>1, <1>3, <1>4, <1>5, <1>6 DEF Atomic!Next
-----------------------------------------------------------------------------
(* The order of queries and commits: every answer to a SELECT is of the moment
   its task was at, after all that earlier tasks committed. *)

InOrderAfter(i, k) ==
    \A j \in DOMAIN commits :
      /\ commits[j].task \in 1 .. i - 1 => j =< k
      /\ commits[j].task > i => j > k
ShownAfter(i, r) ==
    \E k \in 0 .. Len(commits) :
      InOrderAfter(i, k) /\ r.value = Shown(ReplayOf(issued[i].payload.path, commits)[k])
SelectInv == \A i, r : (Gave(i, r) /\ r.code = "ok" /\ Selects(i)) => ShownAfter(i, r)

LEMMA SelectInvInit == Init => SelectInv
<1> SUFFICES ASSUME Init PROVE SelectInv
  OBVIOUS
<1>1. \A w \in Workers : batch[w] = NoBatch
  BY DEF Init, RuntimeInit
<1>2. DOMAIN outcome = {}
  BY IsSeqShort, IsSeqFacts DEF Init, RuntimeInit
<1>3. QED
  BY <1>1, <1>2 DEF SelectInv, Gave

(* A step that commits nothing keeps what was shown. *)
LEMMA ShownSame ==
    ASSUME SelectInv, NEW i \in DOMAIN issued, NEW r, Gave(i, r), r.code = "ok", Selects(i)',
           issued'[i] = issued[i], commits' = commits
    PROVE  ShownAfter(i, r)'
<1>1. Selects(i)
  BY DEF Selects, IsOp
<1>2. ShownAfter(i, r)
  BY <1>1 DEF SelectInv
<1>3. QED
  BY <1>2 DEF ShownAfter, InOrderAfter

LEMMA QuietSelects ==
    ASSUME SqlInv, SelectInv, \A i, r : Gave(i, r)' => Gave(i, r), commits' = commits,
           \A i \in DOMAIN issued : issued'[i] = issued[i]
    PROVE  SelectInv'
<1> SUFFICES ASSUME NEW i, NEW r, Gave(i, r)', r.code = "ok", Selects(i)' PROVE ShownAfter(i, r)'
  BY DEF SelectInv
<1>1. Gave(i, r) /\ i \in DOMAIN issued
  BY GaveFacts DEF SqlInv
<1>2. QED
  BY <1>1, ShownSame

(* An entry that shows no rows. *)
LEMMA FinishShowsNothing ==
    ASSUME SqlInv, SelectInv, NEW w \in Workers, Busy(w), NEW result, Finish(w, result),
           commits' = commits, ~(result.code = "ok" /\ Selects(Position(w)))
    PROVE  SelectInv'
<1>1. /\ \A i, r : Gave(i, r)' => Gave(i, r) \/ (i = Position(w) /\ r = result)
      /\ issued' = issued
  BY FinishCloses
<1> SUFFICES ASSUME NEW i, NEW r, Gave(i, r)', r.code = "ok", Selects(i)' PROVE ShownAfter(i, r)'
  BY DEF SelectInv
<1>2. Selects(i)
  BY <1>1 DEF Selects, IsOp
<1>3. Gave(i, r) /\ i \in DOMAIN issued
  BY <1>1, <1>2, GaveFacts DEF SqlInv
<1>4. QED
  BY <1>1, <1>3, ShownSame

(* A commit of a later task, or of the other process, moves nothing. *)
LEMMA ShownKept ==
    ASSUME SqlInv, NEW i \in Nat, NEW r, ShownAfter(i, r), issued' = issued,
           NEW entry, commits' = Append(commits, entry), entry.task \in Nat,
           entry.task = 0 \/ i < entry.task
    PROVE  ShownAfter(i, r)'
<1>1. PICK n \in Nat : n = Len(commits) /\ DOMAIN commits = 1 .. n
  BY IsSeqFacts DEF SqlInv, CommitsInv
<1>2. PICK k \in 0 .. n : /\ InOrderAfter(i, k)
                          /\ r.value = Shown(ReplayOf(issued[i].payload.path, commits)[k])
  BY <1>1 DEF ShownAfter
<1>3. /\ Len(commits') = n + 1 /\ DOMAIN commits' = 1 .. n + 1 /\ commits'[n + 1] = entry
      /\ \A j \in 1 .. n : commits'[j] = commits[j]
  BY <1>1, IsSeqAppend DEF SqlInv, CommitsInv
<1>4. ReplayOf(issued[i].payload.path, commits')[k] = ReplayOf(issued[i].payload.path, commits)[k]
  BY <1>1, <1>2, ReplayOneMore DEF SqlInv, CommitsInv
<1>5. InOrderAfter(i, k)'
  <2> SUFFICES ASSUME NEW j \in 1 .. n + 1
               PROVE  /\ commits'[j].task \in 1 .. i - 1 => j =< k
                      /\ commits'[j].task > i => j > k
    BY <1>3 DEF InOrderAfter
  <2>1. CASE j = n + 1
    <3>1. commits'[j].task = entry.task /\ entry.task \notin 1 .. i - 1 /\ j > k
      BY <1>3, <2>1
    <3>2. QED
      BY <3>1
  <2>2. CASE j \in 1 .. n
    BY <1>1, <1>2, <1>3, <2>2 DEF InOrderAfter
  <2>3. QED
    BY <1>1, <2>1, <2>2
<1>6. k \in 0 .. n + 1
  OBVIOUS
<1>7. QED
  BY <1>2, <1>3, <1>4, <1>5, <1>6 DEF ShownAfter

LEMMA CommitShows ==
    ASSUME SqlInv, SelectInv, NEW w \in Workers, Busy(w), NEW result, Finish(w, result),
           NEW ss, NEW next, Committed(w, ss, next), ~Selects(Position(w))
    PROVE  SelectInv'
<1>1. /\ \A i, r : Gave(i, r)' => Gave(i, r) \/ (i = Position(w) /\ r = result)
      /\ issued' = issued /\ Position(w) \in Nat
  BY FinishCloses
<1> SUFFICES ASSUME NEW i, NEW r, Gave(i, r)', r.code = "ok", Selects(i)' PROVE ShownAfter(i, r)'
  BY DEF SelectInv
<1>2. Selects(i)
  BY <1>1 DEF Selects, IsOp
<1>3. Gave(i, r)
  BY <1>1, <1>2
<1>4. i \in Nat /\ i < Position(w)
  BY <1>3, GaveBefore DEF SqlInv
<1>5. PICK entry : commits' = Append(commits, entry) /\ entry.task = Position(w)
  BY DEF Committed
<1>6. ShownAfter(i, r)
  BY <1>2, <1>3 DEF SelectInv
<1>7. QED
  BY <1>1, <1>4, <1>5, <1>6, ShownKept

(* The rows shown are those of the file as it is. *)
LEMMA SelectShows ==
    ASSUME SqlInv, DbInv, ReplayInv, SelectInv, NEW w \in Workers, Select(w)
    PROVE  SelectInv'
<1>1. Busy(w) /\ conn[w].step = "open"
  BY DEF Select, At
<1>2. CASE Fail(w, "failed")
  <2>1. Finish(w, Failure("failed")) /\ commits' = commits
    BY <1>2 DEF Fail, FinishUnchanged
  <2>2. Failure("failed").code # "ok"
    BY DEF Failure
  <2>3. QED
    BY <1>1, <2>1, <2>2, FinishShowsNothing
<1>3. CASE FinishUnchanged(w, Success(Shown(db[Path(w)])))
  <2> DEFINE result == Success(Shown(db[Path(w)]))
  <2>1. Finish(w, result) /\ commits' = commits
    BY <1>3 DEF FinishUnchanged
  <2>2. result.value = Shown(db[Path(w)])
    BY DEF Success
  <2> HIDE DEF result
  <2>3. /\ \A i, r : Gave(i, r)' => Gave(i, r) \/ (i = Position(w) /\ r = result)
        /\ issued' = issued
    BY <1>1, <2>1, FinishCloses
  <2> SUFFICES ASSUME NEW i, NEW r, Gave(i, r)', r.code = "ok", Selects(i)' PROVE ShownAfter(i, r)'
    BY DEF SelectInv
  <2>4. CASE Gave(i, r)
    <3>1. i \in DOMAIN issued
      BY <2>4, GaveFacts DEF SqlInv
    <3>2. QED
      BY <2>1, <2>3, <2>4, <3>1, ShownSame
  <2>5. CASE i = Position(w) /\ r = result
    <3>1. Path(w) \in Files /\ db[Path(w)] # Missing /\ issued[i].payload.path = Path(w)
      BY <1>1, <2>5, AtWorkFacts DEF Path, Current
    <3>2. PICK n \in Nat : n = Len(commits) /\ DOMAIN commits = 1 .. n
      BY IsSeqFacts DEF SqlInv, CommitsInv
    <3>3. ReplayOf(Path(w), commits)[n] = db[Path(w)]
      BY <3>1, <3>2 DEF ReplayInv
    <3>4. InOrderAfter(i, n)
      <4>1. \A j \in 1 .. n : commits[j].task \in Nat /\ commits[j].task < i /\ i \in Nat
        BY <1>1, <2>5, <3>2, BusyFacts DEF SqlInv, CommitsInv
      <4>2. QED
        BY <3>2, <4>1 DEF InOrderAfter
    <3>5. n \in 0 .. Len(commits)
      BY <3>2
    <3>6. ShownAfter(i, r)
      BY <2>2, <2>5, <3>1, <3>3, <3>4, <3>5 DEF ShownAfter
    <3>7. QED
      BY <2>1, <2>3, <3>6 DEF ShownAfter, InOrderAfter
  <2>6. QED
    BY <2>3, <2>4, <2>5
<1>4. QED
  BY <1>2, <1>3 DEF Select

LEMMA EffectStepShows ==
    ASSUME SqlInv, DbInv, ReplayInv, SelectInv, NEW w \in Workers, EffectStep(w) \/ HostFails(w)
    PROVE  SelectInv'
<1>1. ASSUME NEW code, code # "ok", Busy(w), Fail(w, code) PROVE SelectInv'
  <2>1. Finish(w, Failure(code)) /\ commits' = commits /\ Failure(code).code # "ok"
    BY <1>1 DEF Fail, FinishUnchanged, Failure
  <2>2. QED
    BY <1>1, <2>1, FinishShowsNothing
<1>2. ASSUME UNCHANGED <<runtimeVars, commits>> PROVE SelectInv'
  <2>1. (\A i, r : Gave(i, r)' => Gave(i, r)) /\ issued' = issued /\ commits' = commits
    BY <1>2, RuntimeUnchanged, RuntimeSame DEF SqlInv
  <2>2. QED
    BY <2>1, QuietSelects
<1>3. CASE Refuse(w) \/ SqlMissing(w) \/ LockTimesOut(w) \/ HostFails(w)
  <2>1. Busy(w) /\ \E code : code # "ok" /\ Fail(w, code)
    BY <1>3 DEF Refuse, SqlMissing, LockTimesOut, HostFails, At
  <2>2. QED
    BY <1>1, <2>1
<1>4. CASE Close(w) \/ Open(w)
  <2>1. Busy(w) /\ FinishUnchanged(w, Success({})) /\ (Is(w, "close") \/ Is(w, "open"))
    BY <1>4 DEF Close, Open, At
  <2>2. ~Selects(Position(w))
    BY <2>1, OpsDiffer DEF Selects, IsOp, Is, Current
  <2>3. QED
    BY <2>1, <2>2, FinishShowsNothing DEF FinishUnchanged
<1>5. CASE OpenConnection(w) \/ Begin(w) \/ RunStatement(w)
  <2>1. Busy(w)
    BY <1>5 DEF OpenConnection, Begin, RunStatement, At
  <2>2. (\E code : code # "ok" /\ Fail(w, code)) \/ UNCHANGED <<runtimeVars, commits>>
    BY <1>5 DEF OpenConnection, Begin, RunStatement
  <2>3. QED
    BY <1>1, <1>2, <2>1, <2>2
<1>6. CASE Autocommit(w)
  <2>1. Busy(w) /\ ((Is(w, "query") /\ First(w).verb # "select") \/ Is(w, "execute"))
    BY <1>6 DEF Autocommit, At
  <2>2. ~Selects(Position(w))
    BY <2>1, OpsDiffer DEF Selects, IsOp, Is, Current, First, Sql
  <2>3. CASE Fail(w, "failed")
    BY <1>1, <2>1, <2>3
  <2>4. CASE ~Fail(w, "failed")
    <3>1. Committed(w, <<First(w)>>, After(db[Path(w)], First(w))) /\ Finish(w, Success({}))
      BY <1>6, <2>4 DEF Autocommit
    <3>2. QED
      BY <2>1, <2>2, <3>1, CommitShows
  <2>5. QED
    BY <2>3, <2>4
<1>7. CASE Commit(w)
  <2>1. /\ Busy(w) /\ Committed(w, Ran(w), Seen(w)) /\ Finish(w, Success({}))
        /\ conn[w].step = "transaction" /\ conn[w].left = <<>>
    BY <1>7 DEF Commit, At
  <2>2. Is(w, "transaction")
    BY <2>1, WholeTransaction
  <2>3. ~Selects(Position(w))
    BY <2>2, OpsDiffer DEF Selects, IsOp, Is, Current
  <2>4. QED
    BY <2>1, <2>3, CommitShows
<1>8. QED
  BY <1>3, <1>4, <1>5, <1>6, <1>7, SelectShows DEF EffectStep

LEMMA OtherShows ==
    ASSUME SqlInv, SelectInv, Other
    PROVE  SelectInv'
<1>1. UNCHANGED runtimeVars
  BY DEF Other, OtherLocks, OtherRollsBack, OtherCommits
<1>2. (\A i, r : Gave(i, r)' => Gave(i, r)) /\ issued' = issued
  BY <1>1, RuntimeUnchanged, RuntimeSame DEF SqlInv
<1>3. CASE commits' = commits
  BY <1>2, <1>3, QuietSelects
<1>4. ASSUME NEW entry, entry.task = 0, commits' = Append(commits, entry) PROVE SelectInv'
  <2> SUFFICES ASSUME NEW i, NEW r, Gave(i, r)', r.code = "ok", Selects(i)' PROVE ShownAfter(i, r)'
    BY DEF SelectInv
  <2>1. Gave(i, r) /\ i \in Nat
    BY <1>2, GaveFacts DEF SqlInv
  <2>2. Selects(i)
    BY <1>2 DEF Selects, IsOp
  <2>3. ShownAfter(i, r)
    BY <2>1, <2>2 DEF SelectInv
  <2>4. QED
    BY <1>2, <1>4, <2>1, <2>3, ShownKept
<1>5. commits' = commits \/ \E entry : entry.task = 0 /\ commits' = Append(commits, entry)
  BY DEF Other, OtherLocks, OtherRollsBack, OtherCommits
<1>6. QED
  BY <1>3, <1>4, <1>5

LEMMA SelectInvNext == SqlInv /\ DbInv /\ ReplayInv /\ SelectInv /\ [Next]_vars => SelectInv'
<1> SUFFICES ASSUME SqlInv, DbInv, ReplayInv, SelectInv, [Next]_vars PROVE SelectInv'
  OBVIOUS
<1>1. CASE Submit /\ UNCHANGED databaseVars
  <2>1. /\ \A i, r : Gave(i, r)' => Gave(i, r)
        /\ \A i \in DOMAIN issued : issued'[i] = issued[i]
    <3>1. ASSUME NEW source, NEW refused, RunFacade(source, refused, ProtocolPairs) PROVE <2>1!1 /\ <2>1!2
      BY <3>1, RunFacadeInv DEF SqlInv
    <3>2. ASSUME NEW task, SubmitEffect(task) PROVE <2>1!1 /\ <2>1!2
      BY <3>2, SubmitEffectInv DEF SqlInv
    <3>3. QED
      BY <1>1, <3>1, <3>2 DEF Submit
  <2>2. QED
    BY <1>1, <2>1, QuietSelects DEF databaseVars
<1>2. CASE DispatchAny
  <2>1. PICK w \in Workers, size \in 1 .. MaxBatch : Dispatch(w, size, 1)
    BY <1>2 DEF DispatchAny, MaxInflightBatches
  <2>2. (\A i, r : Gave(i, r)' => Gave(i, r)) /\ issued' = issued
    BY <2>1, DispatchInv DEF SqlInv
  <2>3. QED
    BY <1>2, <2>2, QuietSelects DEF DispatchAny, databaseVars
<1>3. ASSUME NEW w \in Workers, Answer(w) /\ UNCHANGED databaseVars PROVE SelectInv'
  <2>1. (\A i, r : Gave(i, r)' => Gave(i, r)) /\ issued' = issued
    BY <1>3, AnswerInv DEF SqlInv
  <2>2. QED
    BY <1>3, <2>1, QuietSelects DEF databaseVars
<1>4. CASE Crash /\ UNCHANGED <<db, commits>>
  <2>1. (\A i, r : Gave(i, r)' => Gave(i, r)) /\ issued' = issued
    BY <1>4, CrashInv DEF SqlInv
  <2>2. QED
    BY <1>4, <2>1, QuietSelects
<1>5. CASE UNCHANGED vars
  <2>1. (\A i, r : Gave(i, r)' => Gave(i, r)) /\ issued' = issued /\ commits' = commits
    BY <1>5, RuntimeUnchanged, RuntimeSame DEF SqlInv, vars
  <2>2. QED
    BY <2>1, QuietSelects
<1>6. QED
  BY <1>1, <1>2, <1>3, <1>4, <1>5, EffectStepShows, OtherShows DEF Next

(* A query shows one committed state, the one after every transaction queued
   before it and before every one queued after it, whatever the other process
   commits between (preserve_order and max_inflight_batches, lib.rs:176). *)
THEOREM QueriesShowOneState == Spec => []QueriesInOrder
<1>1. SqlInv /\ SelectInv => QueriesInOrder
  <2> SUFFICES ASSUME SqlInv, SelectInv, NEW i \in DOMAIN issued,
                      Result(i) # NoResult, Result(i).code = "ok", Selects(i)
               PROVE  \E k \in 0 .. Len(commits) :
                        /\ \A j \in DOMAIN commits :
                              /\ commits[j].task \in 1 .. i - 1 => j =< k
                              /\ commits[j].task > i => j > k
                        /\ Result(i).value = Shown(Replayed(issued[i].payload.path)[k])
    BY DEF QueriesInOrder
  <2>1. ShownAfter(i, Result(i))
    BY ResultWasGiven DEF SqlInv, SelectInv
  <2>2. QED
    BY <2>1, ReplayedOf DEF ShownAfter, InOrderAfter
<1>2. QED
  BY <1>1, SqlInvHolds, DbInvHolds, ReplayInvInit, ReplayInvNext, SelectInvInit, SelectInvNext, PTL DEF Spec
=============================================================================
