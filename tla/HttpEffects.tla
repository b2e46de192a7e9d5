----------------------------- MODULE HttpEffects -----------------------------
(* HTTP effects (plugins/mutsuki-plugin-io-http-client): the checks of the
   facade and of the effect runner, and one blocking request per effect task,
   one action per call on the socket. The server is not this program's: it may
   be unreachable, reply in pieces, stop half-way, or say nothing more. *)
EXTENDS EffectRuntime, SequencesExt

CONSTANTS
    PrivateHosts,   \* hosts is_private_host recognises
    Replies         \* what servers reply: sequences of pieces, the head first

VARIABLES
    stream,         \* per worker, its socket
    server          \* per request that arrived: whose it was, what was sent back
socketVars == <<stream, server>>

ProtocolPairs == <<[public |-> <<"http", "request">>, effect |-> <<"effect", "http", "request">>]>>
TwoInflightBatches == 2   \* mutant
MaxInflightBatches == 1

-----------------------------------------------------------------------------
(* parse_request: the URL, then the method, GET when there is none. A host is
   the sequence of its labels. *)
Method(task) == IF task.payload.method = None THEN "GET" ELSE task.payload.method
ParseRefusal(task) ==
    IF task.payload.scheme # "http" THEN "invalid_url"
    ELSE IF Method(task) \notin {"GET", "POST", "PUT", "PATCH", "DELETE"} THEN "invalid_method"
    ELSE "ok"

(* ensure_domain_allowed: the domain itself, or one below it. *)
DomainAllowed(task) ==
    /\ task.payload.allowlist # None
    /\ \E domain \in task.payload.allowlist : IsSuffix(domain, task.payload.host)

FacadeRefuses(task) ==
    \/ ParseRefusal(task) # "ok"
    \/ ~DomainAllowed(task)
    \/ task.payload.denyPrivate /\ task.payload.host \in PrivateHosts

EffectRefusal(task) ==
    IF task.protocol # ProtocolPairs[1].effect THEN "unsupported"
    ELSE IF ParseRefusal(task) # "ok" THEN ParseRefusal(task)
    ELSE IF ~DomainAllowed(task) THEN "domain_denied"
    ELSE "ok"

-----------------------------------------------------------------------------
(* execute_http. *)

Stream(step, conn) == [step |-> step, conn |-> conn]
NoStream == Stream("none", 0)
Request(task, sent, closed) == [task |-> task, sent |-> sent, closed |-> closed]

HttpInit ==
    /\ RuntimeInit
    /\ stream = [w \in Workers |-> NoStream]
    /\ server = <<>>

At(w, step) == Busy(w) /\ stream[w].step = step
Finish(w, result) ==
    /\ FinishEntry(w, result)
    /\ stream' = [stream EXCEPT ![w] = NoStream]
    /\ UNCHANGED server
FailLeavingStream(w, code) ==   \* mutant: the socket outlives its request
    FinishEntry(w, Failure(code)) /\ UNCHANGED socketVars
Fail(w, code) == Finish(w, Failure(code))

Refuse(w) ==
    /\ At(w, "none") /\ EffectRefusal(Current(w)) # "ok"
    /\ Fail(w, EffectRefusal(Current(w)))

(* TcpStream::connect, and the timeouts, which may not be zero. *)
Connect(w) ==
    /\ At(w, "none") /\ EffectRefusal(Current(w)) = "ok"
    /\ \/ Fail(w, "connect_failed")
       \/ Current(w).payload.timeout = 0 /\ Fail(w, "timeout_failed")
       \/ /\ Current(w).payload.timeout # 0
          /\ stream' = [stream EXCEPT ![w] = Stream("connected", 0)]
          /\ UNCHANGED <<runtimeVars, server>>

(* write_all: the whole request arrives, or the write fails half-way. *)
Send(w) ==
    /\ At(w, "connected")
    /\ \/ Fail(w, "write_failed")
       \/ /\ server' = Append(server, Request(Position(w), <<>>, FALSE))
          /\ stream' = [stream EXCEPT ![w] = Stream("reading", Len(server'))]
          /\ UNCHANGED runtimeVars

(* The server's side of a worker's socket, and what is there to be read. *)
Peer(w) == server[stream[w].conn]

(* The reply: its status, 0 when there is no status line to read, and its body.
   Whether the body is all the server meant to send is not asked. *)
Parsed(got) ==
    [status |-> IF got = <<>> \/ Head(got) # "head" THEN 0 ELSE 200,
     body |-> IF got = <<>> THEN <<>> ELSE Tail(got)]

(* read_to_string: up to the end of the stream. A piece that is no UTF-8 makes
   it fail there, as a reset would. *)
ReadEnds(w) ==
    /\ At(w, "reading") /\ Peer(w).closed
    /\ IF Contains(Peer(w).sent, "binary") THEN Fail(w, "read_failed")
       ELSE Finish(w, Success({Parsed(Peer(w).sent)}))

(* Mutants: a timeout taken for the end of the reply; no timeout. *)
ReadTimesOutAsEnd(w) ==
    /\ At(w, "reading") /\ ~Peer(w).closed
    /\ Finish(w, Success({Parsed(Peer(w).sent)}))
ReadWaits(w) == FALSE

(* The read timeout passes while nothing arrives, whatever arrived before. *)
ReadTimesOut(w) ==
    /\ At(w, "reading") /\ ~Peer(w).closed
    /\ Fail(w, "read_failed")

(* The server: it sends its reply piece by piece, and closes when it likes.
   What it does when nobody reads any more is not seen. *)
Reads(w, c) == At(w, "reading") /\ stream[w].conn = c
ServerSends(c) ==
    /\ ~server[c].closed /\ \E w \in Workers : Reads(w, c)
    /\ \E reply \in Replies :
         /\ IsStrictPrefix(server[c].sent, reply)
         /\ server' = [server EXCEPT ![c] =
                         Request(@.task, Append(@.sent, reply[Len(@.sent) + 1]), FALSE)]
    /\ UNCHANGED <<runtimeVars, stream>>
ServerCloses(c) ==
    /\ ~server[c].closed /\ \E w \in Workers : Reads(w, c)
    /\ server' = [server EXCEPT ![c] = Request(@.task, @.sent, TRUE)]
    /\ UNCHANGED <<runtimeVars, stream>>

EffectStep(w) ==
    Refuse(w) \/ Connect(w) \/ Send(w) \/ ReadEnds(w) \/ ReadTimesOut(w)
Server == \E c \in DOMAIN server : ServerSends(c) \/ ServerCloses(c)
HttpDispatch ==
    /\ \E w \in Workers, n \in 1 .. MaxBatch : Dispatch(w, n, MaxInflightBatches)
    /\ UNCHANGED socketVars
HttpAnswer(w) == Answer(w) /\ UNCHANGED socketVars
HttpCrash ==
    /\ Crash
    /\ stream' = [w \in Workers |-> NoStream]
    /\ UNCHANGED server

-----------------------------------------------------------------------------
(* Properties. *)

HttpTypeOK ==
    /\ RuntimeTypeOK
    /\ \A w \in Workers :
         /\ stream[w] # NoStream => Busy(w)
         /\ stream[w].step = "reading" =>
              /\ stream[w].conn \in DOMAIN server
              /\ Peer(w).task = Position(w)

(* A request is sent at most once, whatever fails after it, and requests reach
   servers in the order their tasks were queued (preserve_order and
   max_inflight_batches, lib.rs:140; there is no retry in execute_http). *)
RequestsOnceInOrder ==
    \A a, b \in DOMAIN server : a < b => server[a].task < server[b].task

(* A task completes only with the reply of its own request, up to where the
   server closed; one that stops until the read timeout is an error. *)
CompletedWithReply ==
    \A i \in DOMAIN issued :
      (outcome[i] # NoResult /\ outcome[i].code = "ok") =>
        \E c \in DOMAIN server :
          /\ server[c].task = i /\ server[c].closed
          /\ outcome[i].value = {Parsed(server[c].sent)}
=============================================================================
