-------------------------- MODULE SqliteRefinement --------------------------
(* The SQLite effects implement AtomicDatabase: the file is the store, and the
   history of commits its log. *)
EXTENDS SqliteEffects

CONSTANTS Statements, MaxStatements   \* what transactions are made of, bound

ASSUME StatementsAreListed ==
    /\ MaxStatements \in Nat \ {0}
    /\ Foreign \subseteq Statements
    /\ \A sql \in Sqls : Bound(Head(sql)) \in Statements
    /\ \A r \in Requests :
         r.payload.statements # None => Len(r.payload.statements) =< MaxStatements

Atomic == INSTANCE AtomicDatabase WITH
             store <- db, log <- commits, External <- 0, Tasks <- 1 .. MaxTasks

(* However statements fail, another process interferes, connections are dropped
   and the process dies, a file changes by whole transactions only, each task's
   at most once (execute_transaction, lib.rs:312; execute_sql, lib.rs:306). *)
ImplementsAtomicDatabase == Atomic!Spec
=============================================================================
