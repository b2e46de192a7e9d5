----------------------- MODULE SharedMemoryRefinement -----------------------
(***************************************************************************)
(* One SharedMemoryProvider implements ResourceStore, although a snapshot   *)
(* takes the mutex twice, a collect takes it twice before it copies, and a  *)
(* commit writes its bytes before it takes it.  The slot number is the      *)
(* resource; the descriptors handed out say which mapping holds which of    *)
(* its versions.                                                            *)
(***************************************************************************)
EXTENDS SharedMemoryProvider

TheProvider == CHOOSE p \in Providers : TRUE

\* The bytes of version v of slot s.
BytesOf(s, v) ==
    maps[(CHOOSE d \in published : d.slot = s /\ d.version = v).name]

LogBar ==
    [s \in DOMAIN resources[TheProvider] |->
        [v \in 1 .. resources[TheProvider][s].desc.version |-> BytesOf(s, v)]]

SealedBar ==
    {s \in DOMAIN resources[TheProvider] :
        resources[TheProvider][s].desc.semantic # "cow"}

\* A write plan that disagrees with its own descriptor, or whose version has no
\* successor, is answered with the code of a stale plan; to the abstract store
\* that is another failure.
RefusedOnItsFace ==
    /\ reply.op = "commit"
    /\ \/ reply.req.semantic # "cow"
       \/ ~HasSuccessor(reply.req)
       \/ reply.req.version = resources[TheProvider][reply.req.slot].desc.version

AnswerBar ==
    LET As(d, content) ==
            [op |-> reply.op, status |-> reply.status, slot |-> d.slot,
             version |-> d.version, content |-> content] IN
    IF reply = None THEN None
    ELSE IF reply.status = "ok" THEN
        CASE reply.op \in {"create", "commit", "snapshot"} -> As(reply.desc, None)
          [] reply.op \in {"collect", "export"} -> As(reply.req, reply.content)
          [] reply.op = "view" -> As(reply.req, maps[reply.desc.name])
          [] OTHER -> None
    ELSE IF reply.status = "mismatch" /\ ~RefusedOnItsFace THEN As(reply.req, None)
    ELSE None

Store == INSTANCE ResourceStore WITH
            log <- LogBar, sealed <- SealedBar, answer <- AnswerBar

\* One provider implements the atomic store: every read, commit and snapshot
\* that succeeds does so as if in one step, and every plan called stale is.
ImplementsResourceStore == Store!Spec
=============================================================================
