-------------------------- MODULE MemoryRefinement --------------------------
(***************************************************************************)
(* The in-memory provider implements ResourceStore as long as it is not     *)
(* loaded again: the slot is the resource, and what was handed out says     *)
(* which bytes each of its versions had.                                    *)
(***************************************************************************)
EXTENDS MemoryProvider

\* The runtime has finitely many threads; no answer is None.
ASSUME ClientsAreFinite == IsFiniteSet(Clients)
ASSUME NoneIsNoReply == None \notin Reply

BytesOf(s, v) ==
    (CHOOSE e \in published : e.desc.slot = s /\ e.desc.version = v).bytes

LogBar ==
    [s \in DOMAIN resources |-> [v \in 1 .. resources[s].desc.version |-> BytesOf(s, v)]]

SealedBar == {s \in DOMAIN resources : resources[s].desc.semantic # "cow"}

\* A write plan of the current version that is refused for what else it says is
\* answered with the code of a stale plan; to the abstract store that is
\* another failure.
RefusedOnItsFace ==
    /\ reply.op = "commit"
    /\ reply.req.desc.version = resources[reply.req.desc.slot].desc.version

AnswerBar ==
    LET As(d, content) ==
            [op |-> reply.op, status |-> reply.status, slot |-> d.slot,
             version |-> d.version, content |-> content] IN
    IF reply = None THEN None
    ELSE IF reply.status = "ok" THEN
        CASE reply.op \in {"create", "commit", "snapshot"} -> As(reply.got.desc, None)
          [] reply.op \in {"collect", "export"} -> As(reply.req.desc, reply.got.bytes)
          [] OTHER -> None
    ELSE IF /\ reply.status = "mismatch"
            /\ reply.op \in {"collect", "export", "snapshot", "commit"}
            /\ ~RefusedOnItsFace
         THEN As(reply.req.desc, None)
    ELSE None

Store == INSTANCE ResourceStore WITH
            Slots <- 1 .. MaxSlot + Cardinality(Clients), log <- LogBar,
            sealed <- SealedBar, answer <- AnswerBar

\* The provider implements the atomic store: reads and commits take effect in
\* their critical section, a snapshot when it is entered, and every plan called
\* stale is.
ImplementsResourceStore == Store!Spec
=============================================================================
