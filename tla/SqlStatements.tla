---------------------------- MODULE SqlStatements ----------------------------
(* What SQLite does with the statements the plugin hands it: one table of
   unique keys, in a file that may not be there, may be empty, or holds the
   table. A statement has a verb, a key and a bound value. Statements of
   transaction control are left out. *)
EXTENDS Integers, Sequences, FiniteSets

Missing == [kind |-> "missing", rows |-> {}]
Empty == [kind |-> "empty", rows |-> {}]
Table(rows) == [kind |-> "table", rows |-> rows]
Row(key, value) == [key |-> key, value |-> value]
Keys(t) == {row.key : row \in t.rows}

(* CREATE of the table, INSERT of a row whose key is new and whose parameters
   are all given, DELETE of a key; a SELECT changes nothing and, executed for
   its changes, is an error once it has a row. Any other verb is an error. *)
Writes(s) == s.verb \in {"create", "insert", "delete"}
Applies(t, s) ==
    \/ s.verb = "create" /\ t.kind = "empty"
    \/ s.verb = "insert" /\ t.kind = "table" /\ s.key \notin Keys(t) /\ s.value # "missing"
    \/ s.verb = "delete" /\ t.kind = "table"
    \/ s.verb = "select" /\ t = Table({})
After(t, s) ==
    IF s.verb = "create" THEN Table({})
    ELSE IF s.verb = "insert" THEN Table(t.rows \cup {Row(s.key, s.value)})
    ELSE IF s.verb = "delete" THEN Table({row \in t.rows : row.key # s.key})
    ELSE t

(* The states a list of statements goes through, and whether all apply. *)
Through(t, ss) ==
    LET at[k \in 0 .. Len(ss)] == IF k = 0 THEN t ELSE After(at[k - 1], ss[k])
    IN  at
AllApply(t, ss) == \A k \in 1 .. Len(ss) : Applies(Through(t, ss)[k - 1], ss[k])
AfterAll(t, ss) == Through(t, ss)[Len(ss)]
=============================================================================
