--------------------------- MODULE AtomicDatabase ---------------------------
(* What the SQLite effects promise: a database file changes only by coming into
   being, empty, and by whole transactions, one at a time and each task's at
   most once; other processes change it too, one statement at a time. *)
EXTENDS SqlStatements

CONSTANTS Files, InitDb, External, Tasks, Statements, MaxStatements

VARIABLES
    store,   \* what each file holds
    log      \* the transactions applied, in order: [task, file, statements]
vars == <<store, log>>

Entry(task, file, statements) == [task |-> task, file |-> file, statements |-> statements]
Lists == UNION {[1 .. n -> Statements] : n \in 0 .. MaxStatements}

Init == store = InitDb /\ log = <<>>

Create(f) ==
    /\ store[f] = Missing
    /\ store' = [store EXCEPT ![f] = Empty]
    /\ UNCHANGED log

Apply(task, f, statements) ==
    /\ log' = Append(log, Entry(task, f, statements))
    /\ store[f] # Missing
    /\ AllApply(store[f], statements)
    /\ store' = [store EXCEPT ![f] = AfterAll(@, statements)]

Once(task) == \A k \in DOMAIN log : log[k].task # task

Next ==
    \E f \in Files :
      \/ Create(f)
      \/ \E task \in Tasks, ss \in Lists : Once(task) /\ Apply(task, f, ss)
      \/ \E s \in Statements : Apply(External, f, <<s>>)

Spec == Init /\ [][Next]_vars
=============================================================================
