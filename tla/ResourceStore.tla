--------------------------- MODULE ResourceStore ---------------------------
(***************************************************************************)
(* What a resource provider promises to its callers: every operation that   *)
(* succeeds takes effect in one step.  A resource is the list of the byte   *)
(* strings it has held; a version is a position in that list.               *)
(*                                                                          *)
(* A read, a view and a commit must name the last version, a snapshot may   *)
(* name an older one, because its view is taken before its slot is.  Any    *)
(* operation may fail, but it may call a plan stale only when it is.        *)
(***************************************************************************)
EXTENDS Naturals, Sequences

CONSTANTS Slots, Contents, None

VARIABLES
    log,      \* slot -> byte strings of its versions, oldest first
    sealed,   \* the slots that take no commits
    answer    \* what the step just taken returned to its caller

vars == <<log, sealed, answer>>

Answer(op, status, slot, version, content) ==
    [op |-> op, status |-> status, slot |-> slot, version |-> version,
     content |-> content]

Current(s, v) == s \in DOMAIN log /\ v = Len(log[s])
Existing(s, v) == s \in DOMAIN log /\ v \in 1 .. Len(log[s])

Init ==
    /\ log = [s \in {} |-> << >>]
    /\ sealed = {}
    /\ answer = None

With(s, q) == [t \in DOMAIN log \cup {s} |-> IF t = s THEN q ELSE log[t]]

Create(s, b, seals) ==
    /\ s \notin DOMAIN log
    /\ log' = With(s, <<b>>)
    /\ sealed' = IF seals THEN sealed \cup {s} ELSE sealed
    /\ answer' = Answer("create", "ok", s, 1, None)

Commit(s, b) ==
    /\ s \in DOMAIN log \ sealed
    /\ log' = With(s, Append(log[s], b))
    /\ answer' = Answer("commit", "ok", s, Len(log[s]) + 1, None)
    /\ UNCHANGED sealed

\* The snapshot takes slot t for version v of slot s.
Snapshot(s, v, t) ==
    /\ Existing(s, v)
    /\ t \notin DOMAIN log
    /\ log' = With(t, <<log[s][v]>>)
    /\ sealed' = sealed \cup {t}
    /\ answer' = Answer("snapshot", "ok", t, 1, None)

Read(op, s, v) ==
    /\ op \in {"collect", "export"}
    /\ Current(s, v)
    /\ answer' = Answer(op, "ok", s, v, log[s][v])
    /\ UNCHANGED <<log, sealed>>

\* A view of the current version, or of a retained one opened by its name.
View(s, v) ==
    /\ Existing(s, v)
    /\ answer' = Answer("view", "ok", s, v, log[s][v])
    /\ UNCHANGED <<log, sealed>>

\* A plan is stale: a newer version exists.
Stale(op, s, v) ==
    /\ Existing(s, v)
    /\ v < Len(log[s])
    /\ answer' = Answer(op, "mismatch", s, v, None)
    /\ UNCHANGED <<log, sealed>>

\* Any other failure, or a step inside an operation.
Other ==
    /\ answer' = None
    /\ UNCHANGED <<log, sealed>>

Next ==
    \/ \E s \in Slots, b \in Contents, seals \in BOOLEAN : Create(s, b, seals)
    \/ \E s \in DOMAIN log, b \in Contents : Commit(s, b)
    \/ \E s \in DOMAIN log, t \in Slots : \E v \in 1 .. Len(log[s]) : Snapshot(s, v, t)
    \/ \E s \in DOMAIN log : \E v \in 1 .. Len(log[s]) :
          \/ \E op \in {"collect", "export"} : Read(op, s, v)
          \/ View(s, v)
          \/ \E op \in {"collect", "export", "view", "snapshot", "commit"} :
                Stale(op, s, v)
    \/ Other

Spec == Init /\ [][Next]_vars
=============================================================================
