--------------------------- MODULE WorkflowsProofs ---------------------------
(* Theorems about Workflows and the HTTP effects it is composed with, for any
   submissions, replies, number of threads, batch size, tasks and crashes.

   The first part is about requests: a worker that has not sent its entry's
   request is past all that have arrived, so the one it sends is new and last;
   and a socket that is read is that of the entry's own request. The second is
   about the tasks workflows derive: their correlation, that a workflow derives
   all of them or none, that their ids never meet, and that requests follow the
   order of the steps. *)
EXTENDS Workflows, EffectRuntimeProofs

-----------------------------------------------------------------------------
(* Requests. *)

SocketInv ==
    /\ stream = [w \in Workers |-> stream[w]]
    /\ \A w \in Workers :
         stream[w] # NoStream =>
           /\ Busy(w)
           /\ stream[w].step = "reading" =>
                stream[w].conn \in DOMAIN server /\ server[stream[w].conn].task = Position(w)
ServerInv ==
    /\ IsSeq(server)
    /\ \A c \in DOMAIN server :
         /\ server[c].task \in Nat /\ 1 =< server[c].task /\ server[c].task =< taken
         /\ \A w \in Workers : Busy(w) =>
              \/ server[c].task < Position(w)
              \/ server[c].task = Position(w) /\ stream[w].step = "reading"
    /\ RequestsOnceInOrder
Replied(i, r) ==
    \E c \in DOMAIN server :
      server[c].task = i /\ server[c].closed /\ r.value = {Parsed(server[c].sent)}
RepliesInv == \A i, r : Gave(i, r) /\ r.code = "ok" => Replied(i, r)
HttpInv == RuntimeInv /\ SocketInv /\ ServerInv /\ RepliesInv

LEMMA HttpInvInit == HttpInit => HttpInv
<1> SUFFICES ASSUME HttpInit PROVE HttpInv
  OBVIOUS
<1>1. RuntimeInv
  BY RuntimeInvInit DEF HttpInit
<1>2. SocketInv
  BY DEF HttpInit, SocketInv
<1>3. server = <<>> /\ IsSeq(<<>>) /\ Len(<<>>) = 0 /\ DOMAIN server = {}
  BY IsSeqShort, IsSeqFacts DEF HttpInit
<1>4. ServerInv
  BY <1>3 DEF ServerInv, RequestsOnceInOrder
<1>5. RepliesInv
  <2>1. \A w \in Workers : batch[w] = NoBatch
    BY DEF HttpInit, RuntimeInit
  <2>2. DOMAIN outcome = {}
    BY IsSeqShort, IsSeqFacts DEF HttpInit, RuntimeInit
  <2>3. QED
    BY <2>1, <2>2 DEF RepliesInv, Gave
<1>6. QED
  BY <1>1, <1>2, <1>4, <1>5 DEF HttpInv

(* What leaves the sockets, the batches and what has left the queue alone. *)
LEMMA HttpInvQueue ==
    ASSUME HttpInv, RuntimeInv', \A i, r : Gave(i, r)' => Gave(i, r),
           UNCHANGED <<taken, batch, socketVars>>
    PROVE  HttpInv'
<1>1. SocketInv'
  BY DEF HttpInv, SocketInv, socketVars, Busy, Position
<1>2. ServerInv'
  BY DEF HttpInv, ServerInv, RequestsOnceInOrder, socketVars, Busy, Position
<1>3. RepliesInv'
  BY DEF HttpInv, RepliesInv, Replied, socketVars
<1>4. QED
  BY <1>1, <1>2, <1>3 DEF HttpInv

(* The socket of an idle worker is closed. *)
LEMMA IdleClosed ==
    ASSUME HttpInv, NEW w \in Workers, ~Busy(w)
    PROVE  stream[w] = NoStream
  BY DEF HttpInv, SocketInv

(* A worker ends its entry, with an error or with the reply to its request. *)
LEMMA FinishKeeps ==
    ASSUME HttpInv, NEW w \in Workers, Busy(w), NEW result, Finish(w, result),
           result.code = "ok" => Replied(Position(w), result)
    PROVE  HttpInv'
<1>1. /\ FinishEntry(w, result) /\ server' = server
      /\ stream' = [stream EXCEPT ![w] = NoStream]
  BY DEF Finish
<1>2. /\ RuntimeInv'
      /\ \A i, r : Gave(i, r)' => Gave(i, r) \/ (i = Position(w) /\ r = result)
      /\ taken' = taken
      /\ \A v \in Workers : batch'[v] # NoBatch => v = w
      /\ Position(w)' = Position(w) + 1
  BY <1>1, FinishEntryInv DEF HttpInv
<1>3. /\ Position(w) \in Nat /\ \A v \in Workers : batch[v] # NoBatch => v = w
  BY BusyFacts DEF HttpInv
<1>4. \A v \in Workers : Busy(v)' => v = w
  BY <1>2 DEF Busy
<1>5. \A v \in Workers : v # w => stream[v] = NoStream
  BY <1>3, IdleClosed DEF Busy
<1>6. SocketInv'
  BY <1>1, <1>5 DEF HttpInv, SocketInv
<1>7. ServerInv'
  <2>1. \A c \in DOMAIN server : server[c].task \in Nat /\ server[c].task < Position(w)'
    BY <1>2, <1>3 DEF HttpInv, ServerInv
  <2>2. QED
    BY <1>1, <1>2, <1>4, <2>1 DEF HttpInv, ServerInv, RequestsOnceInOrder
<1>8. RepliesInv'
  BY <1>1, <1>2 DEF HttpInv, RepliesInv, Replied
<1>9. QED
  BY <1>2, <1>6, <1>7, <1>8 DEF HttpInv

LEMMA FailKeeps ==
    ASSUME HttpInv, NEW w \in Workers, Busy(w), NEW code, code # "ok", Fail(w, code)
    PROVE  HttpInv'
<1>1. Failure(code).code # "ok"
  BY DEF Failure
<1>2. QED
  BY <1>1, FinishKeeps DEF Fail

LEMMA RefuseKeeps ==
    ASSUME HttpInv, NEW w \in Workers, Refuse(w)
    PROVE  HttpInv'
  BY FailKeeps DEF Refuse, At

LEMMA ConnectKeeps ==
    ASSUME HttpInv, NEW w \in Workers, Connect(w)
    PROVE  HttpInv'
<1>1. Busy(w) /\ stream[w].step = "none"
  BY DEF Connect, At
<1>2. CASE Fail(w, "connect_failed")
  BY <1>1, <1>2, FailKeeps
<1>3. CASE Fail(w, "timeout_failed")
  BY <1>1, <1>3, FailKeeps
<1>4. CASE /\ stream' = [stream EXCEPT ![w] = Stream("connected", 0)]
           /\ UNCHANGED <<runtimeVars, server>>
  <2>1. RuntimeInv' /\ \A i, r : Gave(i, r)' => Gave(i, r)
    BY <1>4, RuntimeUnchanged DEF HttpInv
  <2>2. \A v \in Workers : Busy(v)' = Busy(v) /\ Position(v)' = Position(v)
    BY <1>4 DEF runtimeVars, Busy, Position
  <2>3. taken' = taken
    BY <1>4 DEF runtimeVars
  <2>4. /\ stream'[w].step = "connected"
        /\ \A v \in Workers : v # w => stream'[v] = stream[v]
        /\ stream' = [v \in Workers |-> stream'[v]]
    BY <1>4 DEF Stream, HttpInv, SocketInv
  <2>5. SocketInv'
    BY <1>1, <1>4, <2>2, <2>4 DEF HttpInv, SocketInv
  <2>6. ServerInv'
    BY <1>1, <1>4, <2>2, <2>3, <2>4 DEF HttpInv, ServerInv, RequestsOnceInOrder
  <2>7. RepliesInv'
    BY <1>4, <2>1 DEF HttpInv, RepliesInv, Replied
  <2>8. QED
    BY <2>1, <2>5, <2>6, <2>7 DEF HttpInv
<1>5. QED
  BY <1>2, <1>3, <1>4 DEF Connect

LEMMA SendKeeps ==
    ASSUME HttpInv, NEW w \in Workers, Send(w)
    PROVE  HttpInv'
<1>1. Busy(w) /\ stream[w].step = "connected"
  BY DEF Send, At
<1>2. CASE Fail(w, "write_failed")
  BY <1>1, <1>2, FailKeeps
<1>3. CASE /\ server' = Append(server, Request(Position(w), <<>>, FALSE))
           /\ stream' = [stream EXCEPT ![w] = Stream("reading", Len(server'))]
           /\ UNCHANGED runtimeVars
  <2> DEFINE request == Request(Position(w), <<>>, FALSE)
             n == Len(server)
  <2>1. RuntimeInv' /\ \A i, r : Gave(i, r)' => Gave(i, r)
    BY <1>3, RuntimeUnchanged DEF HttpInv
  <2>2. \A v \in Workers : Busy(v)' = Busy(v) /\ Position(v)' = Position(v)
    BY <1>3 DEF runtimeVars, Busy, Position
  <2>3. taken' = taken
    BY <1>3 DEF runtimeVars
  <2>4. /\ n \in Nat /\ DOMAIN server = 1 .. n
        /\ IsSeq(server') /\ Len(server') = n + 1 /\ DOMAIN server' = 1 .. n + 1
        /\ \A c \in 1 .. n : server'[c] = server[c]
        /\ server'[n + 1] = request
    <3>1. IsSeq(server) /\ n \in Nat /\ DOMAIN server = 1 .. n
      BY IsSeqFacts DEF HttpInv, ServerInv
    <3>2. server' = Append(server, request)
      BY <1>3
    <3> HIDE DEF request
    <3>3. QED
      BY <3>1, <3>2, IsSeqAppend
  <2>5. request.task = Position(w)
    BY DEF Request
  <2>6. /\ stream'[w].step = "reading" /\ stream'[w].conn = n + 1
        /\ \A v \in Workers : v # w => stream'[v] = stream[v]
        /\ stream' = [v \in Workers |-> stream'[v]]
    BY <1>3, <2>4 DEF Stream, HttpInv, SocketInv
  <2>7. /\ Position(w) \in Nat /\ 1 =< Position(w) /\ Position(w) =< taken
        /\ \A v \in Workers : Busy(v) => v = w
    BY <1>1, BusyFacts DEF HttpInv, Busy
  <2> HIDE DEF request, n
  <2>8. SocketInv'
    BY <1>1, <2>2, <2>4, <2>5, <2>6 DEF HttpInv, SocketInv
  <2>9. \A c \in 1 .. n : server[c].task \in Nat /\ server[c].task < Position(w)
    BY <1>1, <2>4 DEF HttpInv, ServerInv
  <2>10. RequestsOnceInOrder'
    <3> SUFFICES ASSUME NEW a \in DOMAIN server', NEW b \in DOMAIN server', a < b
                 PROVE  server'[a].task < server'[b].task
      BY DEF RequestsOnceInOrder
    <3>1. a \in 1 .. n /\ (b \in 1 .. n \/ b = n + 1)
      BY <2>4
    <3>2. CASE b \in 1 .. n
      BY <2>4, <3>1, <3>2 DEF HttpInv, ServerInv, RequestsOnceInOrder
    <3>3. CASE b = n + 1
      BY <2>4, <2>5, <2>9, <3>1, <3>3
    <3>4. QED
      BY <3>1, <3>2, <3>3
  <2>11. ASSUME NEW c \in DOMAIN server'
         PROVE  /\ server'[c].task \in Nat /\ 1 =< server'[c].task /\ server'[c].task =< taken'
                /\ \A v \in Workers : Busy(v)' =>
                     \/ server'[c].task < Position(v)'
                     \/ server'[c].task = Position(v)' /\ stream'[v].step = "reading"
    <3>1. c \in 1 .. n \/ c = n + 1
      BY <2>4
    <3>2. CASE c \in 1 .. n
      BY <2>2, <2>3, <2>4, <2>7, <2>9, <3>2 DEF HttpInv, ServerInv
    <3>3. CASE c = n + 1
      BY <2>2, <2>3, <2>4, <2>5, <2>6, <2>7, <3>3
    <3>4. QED
      BY <3>1, <3>2, <3>3
  <2>12. ServerInv'
    BY <2>4, <2>10, <2>11 DEF ServerInv
  <2>13. RepliesInv'
    <3>1. \A i, r : Replied(i, r) => Replied(i, r)'
      BY <2>4 DEF Replied
    <3>2. QED
      BY <2>1, <3>1 DEF HttpInv, RepliesInv
  <2>14. QED
    BY <2>1, <2>8, <2>12, <2>13 DEF HttpInv
<1>4. QED
  BY <1>2, <1>3 DEF Send

LEMMA ReadEndsKeeps ==
    ASSUME HttpInv, NEW w \in Workers, ReadEnds(w)
    PROVE  HttpInv'
<1>1. Busy(w) /\ stream[w].step = "reading" /\ Peer(w).closed
  BY DEF ReadEnds, At
<1>2. CASE Fail(w, "read_failed")
  BY <1>1, <1>2, FailKeeps
<1>3. CASE Finish(w, Success({Parsed(Peer(w).sent)}))
  <2>1. stream[w] # NoStream
    BY <1>1 DEF NoStream, Stream
  <2>2. stream[w].conn \in DOMAIN server /\ Peer(w).task = Position(w)
    BY <1>1, <2>1 DEF HttpInv, SocketInv, Peer
  <2>3. Replied(Position(w), Success({Parsed(Peer(w).sent)}))
    BY <1>1, <2>2 DEF Replied, Peer, Success
  <2>4. QED
    BY <1>1, <1>3, <2>3, FinishKeeps
<1>4. QED
  BY <1>2, <1>3 DEF ReadEnds

LEMMA ReadTimesOutKeeps ==
    ASSUME HttpInv, NEW w \in Workers, ReadTimesOut(w)
    PROVE  HttpInv'
  BY FailKeeps DEF ReadTimesOut, At

(* The server sends or closes: a reply that was read to its end is over. *)
LEMMA ServerKeeps ==
    ASSUME HttpInv, NEW c \in DOMAIN server, ~server[c].closed, NEW sent, NEW closed,
           server' = [server EXCEPT ![c] = Request(@.task, sent, closed)],
           UNCHANGED <<runtimeVars, stream>>
    PROVE  HttpInv'
<1>1. RuntimeInv' /\ \A i, r : Gave(i, r)' => Gave(i, r)
  BY RuntimeUnchanged DEF HttpInv
<1>2. \A v \in Workers : Busy(v)' = Busy(v) /\ Position(v)' = Position(v)
  BY DEF runtimeVars, Busy, Position
<1>3. taken' = taken
  BY DEF runtimeVars
<1>4. /\ DOMAIN server' = DOMAIN server
      /\ \A d \in DOMAIN server : server'[d].task = server[d].task
      /\ \A d \in DOMAIN server : d # c => server'[d] = server[d]
  BY DEF Request
<1>5. IsSeq(server')
  <2>1. Len(server) \in Nat /\ DOMAIN server = 1 .. Len(server)
    BY IsSeqFacts DEF HttpInv, ServerInv
  <2>2. server' = [d \in 1 .. Len(server) |-> server'[d]]
    BY <2>1
  <2>3. QED
    BY <1>4, <2>1, <2>2, IsSeqFunction
<1>6. SocketInv'
  BY <1>2, <1>4 DEF HttpInv, SocketInv
<1>7. ServerInv'
  BY <1>2, <1>3, <1>4, <1>5 DEF HttpInv, ServerInv, RequestsOnceInOrder
<1>8. RepliesInv'
  <2>1. \A i, r : Replied(i, r) => Replied(i, r)'
    BY <1>4 DEF Replied
  <2>2. QED
    BY <1>1, <2>1 DEF HttpInv, RepliesInv
<1>9. QED
  BY <1>1, <1>6, <1>7, <1>8 DEF HttpInv

LEMMA ServerStepKeeps ==
    ASSUME HttpInv, Server
    PROVE  HttpInv'
<1>1. ASSUME NEW c \in DOMAIN server, ServerSends(c) PROVE HttpInv'
  BY <1>1, ServerKeeps DEF ServerSends
<1>2. ASSUME NEW c \in DOMAIN server, ServerCloses(c) PROVE HttpInv'
  BY <1>2, ServerKeeps DEF ServerCloses
<1>3. QED
  BY <1>1, <1>2 DEF Server

LEMMA HttpStepKeeps ==
    ASSUME HttpInv, NEW w \in Workers, EffectStep(w)
    PROVE  HttpInv'
  BY RefuseKeeps, ConnectKeeps, SendKeeps, ReadEndsKeeps, ReadTimesOutKeeps DEF EffectStep

LEMMA HttpDispatchKeeps ==
    ASSUME HttpInv, HttpDispatch
    PROVE  HttpInv'
<1>1. PICK w \in Workers, size \in 1 .. MaxBatch : Dispatch(w, size, 1)
  BY DEF HttpDispatch, MaxInflightBatches
<1>2. /\ RuntimeInv' /\ \A i, r : Gave(i, r)' => Gave(i, r)
      /\ \A v \in Workers : batch[v] = NoBatch
      /\ \A v \in Workers : batch'[v] # NoBatch => v = w
      /\ batch'[w] = Batch(taken + 1, taken + size, <<>>)
      /\ taken' = taken + size /\ size \in Nat
  BY <1>1, DispatchInv DEF HttpInv
<1>3. stream' = stream /\ server' = server
  BY DEF HttpDispatch, socketVars
<1>4. \A v \in Workers : stream[v] = NoStream
  BY <1>2, IdleClosed DEF Busy
<1>5. taken \in Nat
  BY DEF HttpInv, RuntimeInv, CountersInv
<1>6. \A v \in Workers : Busy(v)' => Position(v)' = taken + 1
  BY <1>2, <1>5, IsSeqShort DEF Busy, Position, Batch
<1>7. SocketInv'
  BY <1>3, <1>4 DEF HttpInv, SocketInv
<1>8. ServerInv'
  BY <1>2, <1>3, <1>5, <1>6 DEF HttpInv, ServerInv, RequestsOnceInOrder
<1>9. RepliesInv'
  BY <1>2, <1>3 DEF HttpInv, RepliesInv, Replied
<1>10. QED
  BY <1>2, <1>7, <1>8, <1>9 DEF HttpInv

(* The batch is over, or the process is: every socket is closed. *)
LEMMA AllIdleKeeps ==
    ASSUME HttpInv, RuntimeInv', \A i, r : Gave(i, r)' => Gave(i, r),
           \A v \in Workers : batch'[v] = NoBatch,
           taken =< taken', server' = server, stream' = [v \in Workers |-> NoStream]
    PROVE  HttpInv'
<1>1. \A v \in Workers : ~Busy(v)'
  BY DEF Busy
<1>2. taken \in Nat /\ taken' \in Nat
  BY DEF HttpInv, RuntimeInv, CountersInv
<1>3. SocketInv'
  BY DEF SocketInv
<1>4. ServerInv'
  BY <1>1, <1>2 DEF HttpInv, ServerInv, RequestsOnceInOrder
<1>5. RepliesInv'
  BY DEF HttpInv, RepliesInv, Replied
<1>6. QED
  BY <1>3, <1>4, <1>5 DEF HttpInv

LEMMA HttpAnswerKeeps ==
    ASSUME HttpInv, NEW w \in Workers, HttpAnswer(w)
    PROVE  HttpInv'
<1>1. Answer(w) /\ stream' = stream /\ server' = server
  BY DEF HttpAnswer, socketVars
<1>2. /\ RuntimeInv' /\ \A i, r : Gave(i, r)' => Gave(i, r)
      /\ \A v \in Workers : batch'[v] = NoBatch
      /\ taken' = taken
  BY <1>1, AnswerInv DEF HttpInv
<1>3. \A v \in Workers : ~Busy(v)
  BY <1>1 DEF Answer, HttpInv, RuntimeInv, OneBatch, Busy
<1>4. stream' = [v \in Workers |-> NoStream]
  BY <1>1, <1>3, IdleClosed DEF HttpInv, SocketInv
<1>5. taken =< taken'
  BY <1>2 DEF HttpInv, RuntimeInv, CountersInv
<1>6. QED
  BY <1>1, <1>2, <1>4, <1>5, AllIdleKeeps

LEMMA HttpCrashKeeps ==
    ASSUME HttpInv, HttpCrash
    PROVE  HttpInv'
<1>1. /\ RuntimeInv' /\ \A i, r : Gave(i, r)' => Gave(i, r)
      /\ \A v \in Workers : batch'[v] = NoBatch /\ taken =< taken'
  BY CrashInv DEF HttpCrash, HttpInv
<1>2. server' = server /\ stream' = [v \in Workers |-> NoStream]
  BY DEF HttpCrash
<1>3. taken =< taken'
  BY CrashInv DEF HttpCrash, HttpInv
<1>4. QED
  BY <1>1, <1>2, <1>3, AllIdleKeeps

LEMMA HttpInvNext == HttpInv /\ [Next]_vars => HttpInv'
<1> SUFFICES ASSUME HttpInv, [Next]_vars PROVE HttpInv'
  OBVIOUS
<1>1. ASSUME UNCHANGED <<runtimeVars, socketVars>> PROVE HttpInv'
  <2>1. RuntimeInv' /\ \A i, r : Gave(i, r)' => Gave(i, r)
    BY <1>1, RuntimeUnchanged DEF HttpInv
  <2>2. UNCHANGED <<taken, batch, socketVars>>
    BY <1>1 DEF runtimeVars
  <2>3. QED
    BY <2>1, <2>2, HttpInvQueue
<1>2. CASE Submit
  BY <1>1, <1>2 DEF Submit, Derive
<1>3. CASE SubmitDirect
  <2>1. PICK task : SubmitEffect(task)
    BY <1>3 DEF SubmitDirect
  <2>2. UNCHANGED socketVars
    BY <1>3 DEF SubmitDirect
  <2>3. QED
    BY <2>1, <2>2, SubmitEffectInv, HttpInvQueue DEF HttpInv
<1>4. ASSUME NEW n \in DOMAIN tasks, Run(n) PROVE HttpInv'
  <2>1. CASE RunLinear(n) \/ RunBroadcast(n) \/ RunPure(n)
    BY <1>1, <2>1 DEF RunLinear, RunBroadcast, RunPure, Derive
  <2>2. CASE RunRequest(n)
    <3>1. /\ RunFacade(tasks[n], FacadeRefuses(tasks[n]), ProtocolPairs)
          /\ UNCHANGED socketVars
      BY <2>2 DEF RunRequest
    <3>2. QED
      BY <3>1, RunFacadeInv, HttpInvQueue DEF HttpInv
  <2>3. QED
    BY <1>4, <2>1, <2>2 DEF Run
<1>5. CASE HttpDispatch
  BY <1>5, HttpDispatchKeeps
<1>6. CASE Server
  BY <1>6, ServerStepKeeps
<1>7. ASSUME NEW w \in Workers, EffectStep(w) \/ HttpAnswer(w) PROVE HttpInv'
  BY <1>7, HttpStepKeeps, HttpAnswerKeeps
<1>8. CASE ProcessCrash
  BY <1>8, HttpCrashKeeps DEF ProcessCrash
<1>9. CASE UNCHANGED vars
  BY <1>1, <1>9 DEF vars
<1>10. QED
  BY <1>2, <1>3, <1>4, <1>5, <1>6, <1>7, <1>8, <1>9 DEF Next

LEMMA HttpInvHolds == Spec => []HttpInv
<1>1. Init => HttpInv
  BY HttpInvInit DEF Init
<1>2. QED
  BY <1>1, HttpInvNext, PTL DEF Spec

(* A request arrives at most once, and in the order of the queue, whatever
   fails, breaks off or crashes (effect_runner_descriptor, lib.rs:148). *)
THEOREM RequestsAreOnceInOrder == Spec => []RequestsOnceInOrder
<1>1. HttpInv => RequestsOnceInOrder
  BY DEF HttpInv, ServerInv
<1>2. QED
  BY <1>1, HttpInvHolds, PTL

(* A task that completed holds what was sent back to its own request up to where
   the server closed the connection, and never a reply that stopped until the
   read timeout (execute_http, lib.rs:341). *)
THEOREM RepliesAreTheirOwn == Spec => []CompletedWithReply
<1>1. HttpInv => CompletedWithReply
  <2> SUFFICES ASSUME HttpInv, NEW i \in DOMAIN issued, outcome[i] # NoResult, outcome[i].code = "ok"
               PROVE  Replied(i, outcome[i])
    BY DEF CompletedWithReply, Replied
  <2>1. DOMAIN outcome = DOMAIN issued
    BY IsSeqFacts DEF HttpInv, RuntimeInv, QueueInv
  <2>2. Gave(i, outcome[i])
    BY <2>1 DEF Gave
  <2>3. QED
    BY <2>2 DEF HttpInv, RepliesInv
<1>2. QED
  BY <1>1, HttpInvHolds, PTL

-----------------------------------------------------------------------------
(* Tasks of workflows. *)

RootCorrelation(r) == IF tasks[r].correlation = None THEN tasks[r].id ELSE tasks[r].correlation
ListsSteps(protocol, payload) ==
    protocol \in {Linear, Broadcast} => payload.steps \in {None} \cup Seq(Steps)

(* One task, of the n-th place. *)
TaskOK(n) ==
    /\ tasks[n].parent \in 0 .. n - 1 /\ tasks[n].root \in 1 .. n
    /\ tasks[tasks[n].root].parent = 0
    /\ tasks[n].parent = 0 => tasks[n].root = n /\ tasks[n].id = <<n>>
    /\ tasks[n].parent # 0 => /\ tasks[n].root = tasks[tasks[n].parent].root
                              /\ tasks[n].correlation = RootCorrelation(tasks[n].root)
    /\ ListsSteps(tasks[n].protocol, tasks[n].payload)
TaskInv ==
    /\ IsSeq(tasks) /\ IsSeq(state) /\ Len(state) = Len(tasks)
    /\ \A n \in DOMAIN tasks : TaskOK(n)

LEMMA IdIsNotNone ==
    ASSUME NEW n \in Nat
    PROVE  <<n>> # None
<1>1. <<n>> \in Seq(IdParts)
  BY DEF IdParts
<1>2. QED
  BY <1>1, NoneIsNoId

(* What a task derives carries its submission's correlation. *)
LEMMA CorrelationFact ==
    ASSUME TaskInv, NEW n \in DOMAIN tasks
    PROVE  Correlation(tasks[n]) = RootCorrelation(tasks[n].root)
<1>1. TaskOK(n) /\ n \in Nat
  BY IsSeqFacts DEF TaskInv
<1>2. CASE tasks[n].parent = 0
  BY <1>1, <1>2 DEF TaskOK, Correlation, RootCorrelation
<1>3. CASE tasks[n].parent # 0
  <2>1. tasks[n].root \in DOMAIN tasks /\ tasks[n].root \in Nat
    BY <1>1, IsSeqFacts DEF TaskInv, TaskOK
  <2>2. PICK r \in DOMAIN tasks : r = tasks[n].root /\ r \in Nat
    BY <2>1
  <2>3. tasks[r].parent = 0 /\ TaskOK(r)
    BY <1>1, <2>2 DEF TaskInv, TaskOK
  <2>4. tasks[r].id = <<r>>
    BY <2>3 DEF TaskOK
  <2>5. tasks[r].id # None
    BY <2>2, <2>4, IdIsNotNone
  <2>6. RootCorrelation(r) # None
    BY <2>5 DEF RootCorrelation
  <2>7. tasks[n].correlation = RootCorrelation(r)
    BY <1>1, <1>3, <2>2 DEF TaskOK
  <2>8. QED
    BY <2>2, <2>6, <2>7 DEF Correlation
<1>4. QED
  BY <1>2, <1>3

(* The steps of a workflow that derives tasks. *)
LEMMA StepsFact ==
    ASSUME TaskInv, NEW n \in DOMAIN tasks, tasks[n].protocol \in {Linear, Broadcast},
           Derivable(tasks[n])
    PROVE  tasks[n].payload.steps \in Seq(Steps)
  BY DEF TaskInv, TaskOK, ListsSteps, Derivable, ListsNone

LEMMA DerivedTaskOK ==
    ASSUME NEW k,
           tasks'[k].parent \in 0 .. k - 1, tasks'[k].parent # 0,
           tasks'[k].root \in 1 .. k, tasks'[tasks'[k].root].parent = 0,
           tasks'[k].root = tasks'[tasks'[k].parent].root,
           tasks'[k].correlation = RootCorrelation(tasks[k].root)',
           ListsSteps(tasks'[k].protocol, tasks'[k].payload)
    PROVE  TaskOK(k)'
  BY DEF TaskOK, RootCorrelation

(* Tasks are added at the end. *)
LEMMA TaskInvGrows ==
    ASSUME TaskInv, NEW news, IsSeq(news), IsSeq(state'), Len(state') = Len(tasks) + Len(news),
           tasks' = tasks \o news,
           \A i \in 1 .. Len(news) :
             /\ news[i].parent \in 0 .. Len(tasks)
             /\ news[i].parent = 0 => /\ i = 1
                                      /\ news[i].root = Len(tasks) + 1
                                      /\ news[i].id = <<Len(tasks) + 1>>
             /\ news[i].parent # 0 => /\ news[i].root = tasks[news[i].parent].root
                                      /\ news[i].correlation = RootCorrelation(news[i].root)
             /\ ListsSteps(news[i].protocol, news[i].payload)
    PROVE  TaskInv'
<1>0. PICK n \in Nat : n = Len(tasks)
  BY IsSeqFacts DEF TaskInv
<1>1. /\ DOMAIN tasks = 1 .. n /\ Len(news) \in Nat
      /\ IsSeq(tasks') /\ Len(tasks') = n + Len(news) /\ DOMAIN tasks' = 1 .. n + Len(news)
      /\ \A k \in 1 .. n : tasks'[k] = tasks[k]
      /\ \A i \in 1 .. Len(news) : tasks'[n + i] = news[i]
  BY <1>0, IsSeqFacts, IsSeqConcat DEF TaskInv
<1>2. \A k \in 1 .. n : TaskOK(k)
  BY <1>1 DEF TaskInv
<1>3. ASSUME NEW k \in 1 .. n PROVE TaskOK(k)'
  <2>1. TaskOK(k) /\ tasks'[k] = tasks[k]
    BY <1>1, <1>2
  <2>2. tasks[k].root \in 1 .. n /\ (tasks[k].parent # 0 => tasks[k].parent \in 1 .. n)
    BY <1>0, <2>1 DEF TaskOK
  <2>3. QED
    BY <1>1, <2>1, <2>2 DEF TaskOK, RootCorrelation
<1>4. ASSUME NEW k \in n + 1 .. n + Len(news) PROVE TaskOK(k)'
  <2>1. PICK i \in 1 .. Len(news) : k = n + i
    <3>1. k - n \in 1 .. Len(news) /\ k = n + (k - n)
      BY <1>0, <1>1
    <3>2. QED
      BY <3>1
  <2>2. PICK new : new = news[i]
    OBVIOUS
  <2>3. tasks'[k] = new
    BY <1>1, <2>1, <2>2
  <2>4. /\ new.parent \in 0 .. n
        /\ new.parent = 0 => i = 1 /\ new.root = n + 1 /\ new.id = <<n + 1>>
        /\ new.parent # 0 => /\ new.root = tasks[new.parent].root
                             /\ new.correlation = RootCorrelation(new.root)
        /\ ListsSteps(new.protocol, new.payload)
    BY <1>0, <2>1, <2>2
  <2>5. k \in Nat /\ k > n
    <3>1. Len(news) \in Nat
      BY <1>1
    <3>2. QED
      BY <1>0, <3>1
  <2>6. new.parent \in 0 .. k - 1
    BY <1>0, <2>4, <2>5
  <2>7. CASE new.parent = 0
    <3>1. k = n + 1
      BY <2>1, <2>4, <2>7
    <3>2. new.root = k /\ new.id = <<k>>
      BY <2>4, <2>7, <3>1
    <3>3. new.root \in 1 .. k
      BY <2>5, <3>2, <1>0
    <3>4. QED
      BY <2>3, <2>4, <2>6, <2>7, <3>2, <3>3 DEF TaskOK
  <2>8. CASE new.parent # 0
    <3>1. PICK p \in 1 .. n : p = new.parent
      BY <1>0, <2>4, <2>8
    <3>2. TaskOK(p) /\ tasks'[p] = tasks[p]
      BY <1>1, <1>2, <3>1
    <3>3. new.root = tasks[p].root /\ new.root \in 1 .. n
      BY <1>0, <2>4, <2>8, <3>1, <3>2 DEF TaskOK
    <3>4. tasks'[new.root] = tasks[new.root] /\ tasks[new.root].parent = 0
      BY <1>1, <3>2, <3>3 DEF TaskOK
    <3>5. new.root \in 1 .. k
      BY <1>0, <2>5, <3>3
    <3>6. RootCorrelation(new.root)' = RootCorrelation(new.root)
      BY <3>4 DEF RootCorrelation
    <3>7. new.root = tasks'[new.parent].root /\ new.correlation = RootCorrelation(new.root)'
      BY <2>4, <2>8, <3>1, <3>2, <3>3, <3>6
    <3>8. tasks'[k].correlation = RootCorrelation(tasks[k].root)'
      BY <2>3, <3>7 DEF RootCorrelation
    <3>9. /\ tasks'[k].parent \in 0 .. k - 1 /\ tasks'[k].parent # 0
          /\ tasks'[k].root \in 1 .. k /\ tasks'[tasks'[k].root].parent = 0
          /\ tasks'[k].root = tasks'[tasks'[k].parent].root
          /\ ListsSteps(tasks'[k].protocol, tasks'[k].payload)
      BY <2>3, <2>4, <2>6, <2>8, <3>4, <3>5, <3>7
    <3>10. QED
      BY <3>8, <3>9, Zenon, DerivedTaskOK DEF RootCorrelation
  <2>9. QED
    BY <2>7, <2>8
<1>5. ASSUME NEW k \in DOMAIN tasks' PROVE TaskOK(k)'
  <2>1. k \in 1 .. n \/ k \in n + 1 .. n + Len(news)
    BY <1>0, <1>1
  <2>2. QED
    BY <1>3, <1>4, <2>1
<1>6. Len(state') = Len(tasks')
  BY <1>0, <1>1
<1>7. QED
  BY <1>1, <1>5, <1>6 DEF TaskInv

(* A task is answered: as many tasks are ready as were derived. *)
LEMMA AnswersFact ==
    ASSUME TaskInv, NEW n \in DOMAIN tasks, NEW answer, NEW children, IsSeq(children),
           Answers(n, answer, children)
    PROVE  IsSeq(state') /\ Len(state') = Len(tasks) + Len(children)
<1> DEFINE old == [state EXCEPT ![n] = answer]
           ready == [i \in DOMAIN children |-> "ready"]
<1>1. /\ Len(state) \in Nat /\ DOMAIN state = 1 .. Len(state)
      /\ Len(children) \in Nat /\ DOMAIN children = 1 .. Len(children)
  BY IsSeqFacts DEF TaskInv
<1>2. IsSeq(old) /\ Len(old) = Len(state)
  <2>1. DOMAIN old = 1 .. Len(state)
    BY <1>1
  <2>2. old = [i \in 1 .. Len(state) |-> old[i]]
    BY <1>1
  <2> HIDE DEF old
  <2>3. QED
    BY <1>1, <2>1, <2>2, IsSeqFunction
<1>3. IsSeq(ready) /\ Len(ready) = Len(children)
  BY <1>1, IsSeqFunction
<1>4. state' = old \o ready
  BY DEF Answers
<1> HIDE DEF old, ready
<1>5. IsSeq(old \o ready) /\ Len(old \o ready) = Len(old) + Len(ready)
  BY <1>2, <1>3, IsSeqConcat
<1>6. Len(state) = Len(tasks)
  BY DEF TaskInv
<1>7. QED
  BY <1>2, <1>3, <1>4, <1>5, <1>6

(* A task that derives none. *)
LEMMA TaskInvAnswered ==
    ASSUME TaskInv, NEW n \in DOMAIN tasks, NEW answer, Answers(n, answer, <<>>), tasks' = tasks
    PROVE  TaskInv'
<1>1. IsSeq(<<>>) /\ Len(<<>>) = 0
  BY IsSeqShort
<1>2. IsSeq(state') /\ Len(state') = Len(tasks)
  BY <1>1, AnswersFact, IsSeqFacts DEF TaskInv
<1>3. QED
  BY <1>2 DEF TaskInv, TaskOK, RootCorrelation

(* A task that derives children of its own. *)
LEMMA TaskInvDerived ==
    ASSUME TaskInv, NEW n \in DOMAIN tasks, NEW answer, NEW children, IsSeq(children),
           Answers(n, answer, children), tasks' = tasks \o children,
           \A i \in 1 .. Len(children) :
             /\ children[i].parent = n /\ children[i].root = tasks[n].root
             /\ children[i].correlation = Correlation(tasks[n])
             /\ ListsSteps(children[i].protocol, children[i].payload)
    PROVE  TaskInv'
<1>1. IsSeq(state') /\ Len(state') = Len(tasks) + Len(children)
  BY AnswersFact
<1>2. n \in 1 .. Len(tasks) /\ Len(tasks) \in Nat
  BY IsSeqFacts DEF TaskInv
<1>3. Correlation(tasks[n]) = RootCorrelation(tasks[n].root)
  BY CorrelationFact
<1>4. \A i \in 1 .. Len(children) :
        /\ children[i].parent \in 0 .. Len(tasks) /\ children[i].parent # 0
        /\ children[i].root = tasks[children[i].parent].root
        /\ children[i].correlation = RootCorrelation(children[i].root)
        /\ ListsSteps(children[i].protocol, children[i].payload)
  BY <1>2, <1>3
<1>5. QED
  BY <1>1, <1>4, TaskInvGrows

LEMMA LinearKeeps ==
    ASSUME TaskInv, NEW n \in DOMAIN tasks, RunLinear(n)
    PROVE  TaskInv'
<1>1. CASE ~Derivable(tasks[n])
  <2>1. PICK answer : Answers(n, answer, <<>>)
    BY <1>1 DEF RunLinear
  <2>2. tasks' = tasks
    BY <1>1, IsSeqShort DEF RunLinear, Derive, TaskInv, IsSeq
  <2>3. QED
    BY <2>1, <2>2, TaskInvAnswered
<1>2. CASE Derivable(tasks[n])
  <2> DEFINE steps == tasks[n].payload.steps
             children == LinearChildren(n)
  <2>1. steps \in Seq(Steps) /\ Len(steps) \in Nat /\ DOMAIN steps = 1 .. Len(steps)
    BY <1>2, StepsFact DEF RunLinear
  <2>2. children = [i \in 1 .. Len(steps) |-> StepTask(n, i)]
    BY <2>1 DEF LinearChildren
  <2>3. IsSeq(children) /\ Len(children) = Len(steps)
    BY <2>1, <2>2, IsSeqFunction
  <2>4. ASSUME NEW i \in 1 .. Len(children)
        PROVE  /\ children[i].parent = n /\ children[i].root = tasks[n].root
               /\ children[i].correlation = Correlation(tasks[n])
               /\ ListsSteps(children[i].protocol, children[i].payload)
    <3>1. steps[i] \in Steps /\ children[i] = StepTask(n, i)
      BY <2>1, <2>2, <2>3
    <3>2. ListsSteps(steps[i].protocol, steps[i].payload)
      BY <3>1, WorkflowsListSteps DEF ListsSteps
    <3>3. QED
      BY <3>1, <3>2 DEF StepTask, Node
  <2>5. tasks' = tasks \o children /\ \E answer : Answers(n, answer, children)
    BY <1>2 DEF RunLinear, Derive
  <2> HIDE DEF children
  <2>6. QED
    BY <2>3, <2>4, <2>5, TaskInvDerived
<1>3. QED
  BY <1>1, <1>2

LEMMA BroadcastKeeps ==
    ASSUME TaskInv, NEW n \in DOMAIN tasks, RunBroadcast(n)
    PROVE  TaskInv'
<1>1. CASE ~Derivable(tasks[n])
  <2>1. PICK answer : Answers(n, answer, <<>>)
    BY <1>1 DEF RunBroadcast
  <2>2. tasks' = tasks
    BY <1>1, IsSeqShort DEF RunBroadcast, Derive, TaskInv, IsSeq
  <2>3. QED
    BY <2>1, <2>2, TaskInvAnswered
<1>2. CASE Derivable(tasks[n])
  <2> DEFINE steps == tasks[n].payload.steps
             children == BroadcastChildren(n)
  <2>1. steps \in Seq(Steps) /\ Len(steps) \in Nat /\ DOMAIN steps = 1 .. Len(steps)
    BY <1>2, StepsFact DEF RunBroadcast
  <2>2. children = [i \in 1 .. Len(steps) |-> TargetTask(n, i)]
    BY <2>1 DEF BroadcastChildren
  <2>3. IsSeq(children) /\ Len(children) = Len(steps)
    BY <2>1, <2>2, IsSeqFunction
  <2>4. ASSUME NEW i \in 1 .. Len(children)
        PROVE  /\ children[i].parent = n /\ children[i].root = tasks[n].root
               /\ children[i].correlation = Correlation(tasks[n])
               /\ ListsSteps(children[i].protocol, children[i].payload)
    <3>1. steps[i] \in Steps /\ children[i] = TargetTask(n, i)
      BY <2>1, <2>2, <2>3
    <3>2. ListsSteps(steps[i].protocol, steps[i].payload)
      BY <3>1, WorkflowsListSteps DEF ListsSteps
    <3>3. QED
      BY <3>1, <3>2 DEF TargetTask, Node
  <2>5. tasks' = tasks \o children /\ \E answer : Answers(n, answer, children)
    BY <1>2 DEF RunBroadcast, Derive
  <2> HIDE DEF children
  <2>6. QED
    BY <2>3, <2>4, <2>5, TaskInvDerived
<1>3. QED
  BY <1>1, <1>2

LEMMA SubmitKeeps ==
    ASSUME TaskInv, Submit
    PROVE  TaskInv'
<1>1. PICK n \in Nat : n = Len(tasks)
  BY IsSeqFacts DEF TaskInv
<1>2. PICK s \in Submissions : tasks' = tasks \o <<Node(<<n + 1>>, s, s.correlation, None, 0, n + 1)>>
  BY <1>1 DEF Submit, Derive
<1>3. PICK new : new = Node(<<n + 1>>, s, s.correlation, None, 0, n + 1)
  OBVIOUS
<1>4. /\ new.parent = 0 /\ new.root = n + 1 /\ new.id = <<n + 1>>
      /\ ListsSteps(new.protocol, new.payload)
  <2>1. new.protocol = s.protocol /\ new.payload = s.payload
    BY <1>3 DEF Node
  <2>2. ListsSteps(s.protocol, s.payload)
    BY WorkflowsListSteps DEF ListsSteps
  <2>3. QED
    BY <1>3, <2>1, <2>2 DEF Node
<1>5. PICK news : news = <<new>>
  OBVIOUS
<1>6. IsSeq(news) /\ Len(news) = 1 /\ news[1] = new
  BY <1>5, IsSeqShort
<1>7. IsSeq(state') /\ Len(state') = n + 1
  BY <1>1, IsSeqAppend DEF Submit, TaskInv
<1>8. tasks' = tasks \o news
  BY <1>2, <1>3, <1>5
<1>9. \A i \in 1 .. Len(news) :
        /\ news[i].parent \in 0 .. Len(tasks)
        /\ news[i].parent = 0 /\ i = 1
        /\ news[i].root = Len(tasks) + 1 /\ news[i].id = <<Len(tasks) + 1>>
        /\ ListsSteps(news[i].protocol, news[i].payload)
  <2> SUFFICES ASSUME NEW i \in 1 .. Len(news)
               PROVE  /\ new.parent \in 0 .. Len(tasks)
                      /\ new.parent = 0 /\ i = 1
                      /\ new.root = Len(tasks) + 1 /\ new.id = <<Len(tasks) + 1>>
                      /\ ListsSteps(new.protocol, new.payload)
    BY <1>6
  <2>1. QED
    BY <1>1, <1>4, <1>6
<1>10. QED
  BY <1>1, <1>6, <1>7, <1>8, <1>9, TaskInvGrows

LEMMA TaskInvSame ==
    ASSUME TaskInv, UNCHANGED workflowVars
    PROVE  TaskInv'
  BY DEF workflowVars, TaskInv, TaskOK, RootCorrelation

LEMMA ProcessCrashKeeps ==
    ASSUME TaskInv, ProcessCrash
    PROVE  TaskInv'
<1>1. PICK n \in Nat : n = Len(state) /\ DOMAIN state = 1 .. n
  BY IsSeqFacts DEF TaskInv
<1>2. state' = [i \in 1 .. n |-> IF state[i] = "ready" THEN "lost" ELSE state[i]]
  BY <1>1 DEF ProcessCrash
<1>3. DOMAIN state' = 1 .. n /\ state' = [i \in 1 .. n |-> state'[i]]
  BY <1>2
<1>4. IsSeq(state') /\ Len(state') = n
  BY <1>3, IsSeqFunction
<1>5. tasks' = tasks
  BY DEF ProcessCrash
<1>6. QED
  BY <1>1, <1>4, <1>5 DEF TaskInv, TaskOK, RootCorrelation

LEMMA TaskInvNext == TaskInv /\ [Next]_vars => TaskInv'
<1> SUFFICES ASSUME TaskInv, [Next]_vars PROVE TaskInv'
  OBVIOUS
<1>1. CASE Submit
  BY <1>1, SubmitKeeps
<1>2. CASE UNCHANGED workflowVars
  BY <1>2, TaskInvSame
<1>3. CASE SubmitDirect
  BY <1>2, <1>3 DEF SubmitDirect
<1>4. ASSUME NEW n \in DOMAIN tasks, Run(n) PROVE TaskInv'
  <2>1. CASE RunLinear(n)
    BY <2>1, LinearKeeps
  <2>2. CASE RunBroadcast(n)
    BY <2>2, BroadcastKeeps
  <2>3. CASE RunRequest(n)
    BY <2>3, TaskInvAnswered DEF RunRequest
  <2>4. CASE RunPure(n)
    <3>1. tasks' = tasks
      BY <2>4 DEF RunPure, Derive, TaskInv, IsSeq
    <3>2. QED
      BY <2>4, <3>1, TaskInvAnswered DEF RunPure
  <2>5. QED
    BY <1>4, <2>1, <2>2, <2>3, <2>4 DEF Run
<1>5. CASE ProcessCrash
  BY <1>5, ProcessCrashKeeps
<1>6. QED
  BY <1>1, <1>2, <1>3, <1>4, <1>5 DEF Next, vars

LEMMA TaskInvHolds == Spec => []TaskInv
<1>1. Init => TaskInv
  BY IsSeqShort DEF Init, TaskInv
<1>2. QED
  BY <1>1, TaskInvNext, PTL DEF Spec

(* Whatever workflows derive, at any depth of nesting and whatever crashes,
   carries the correlation of the submission it comes from, or its id
   (workflow-linear lib.rs:182, workflow-broadcast lib.rs:171). *)
THEOREM CorrelationIsHandedOn == Spec => []CorrelationReaches
<1>1. TaskInv => CorrelationReaches
  <2> SUFFICES ASSUME TaskInv, NEW n \in DOMAIN tasks, n # tasks[n].root
               PROVE  tasks[n].correlation = RootCorrelation(tasks[n].root)
    BY DEF CorrelationReaches, RootCorrelation
  <2>1. QED
    BY DEF TaskInv, TaskOK
<1>2. QED
  BY <1>1, TaskInvHolds, PTL

(* The runtime's counters, the runners' sockets and the tasks' ancestry are as
   they should be: every derived task belongs to a submission. *)
THEOREM TypeCorrect == Spec => []TypeOK
<1>1. HttpInv /\ TaskInv => TypeOK
  <2> SUFFICES ASSUME HttpInv, TaskInv PROVE TypeOK
    OBVIOUS
  <2>1. HttpTypeOK
    <3>1. RuntimeTypeOK
      BY RuntimeTypes DEF HttpInv
    <3>2. NoStream.step # "reading"
      BY DEF NoStream, Stream
    <3>3. QED
      BY <3>1, <3>2 DEF HttpTypeOK, HttpInv, SocketInv, Peer
  <2>2. ASSUME NEW n \in DOMAIN tasks
        PROVE  /\ tasks[n].parent \in 0 .. n - 1 /\ tasks[n].root \in Sources
               /\ tasks[n].parent # 0 => tasks[n].root = tasks[tasks[n].parent].root
    <3>1. TaskOK(n) /\ DOMAIN tasks = 1 .. Len(tasks) /\ Len(tasks) \in Nat
      BY IsSeqFacts DEF TaskInv
    <3>2. tasks[n].root \in DOMAIN tasks
      BY <3>1 DEF TaskOK
    <3>3. QED
      BY <3>1, <3>2 DEF TaskOK, Sources
  <2>3. QED
    BY <2>1, <2>2 DEF TypeOK, TaskInv
<1>2. QED
  BY <1>1, HttpInvHolds, TaskInvHolds, PTL
-----------------------------------------------------------------------------
(* The tree of tasks: what a workflow derived are the tasks that follow one
   another where the queue ended when it ran; and of two tasks in one sequence
   the later one waits for the earlier one. *)

IsWorkflow(n) == tasks[n].protocol \in {Linear, Broadcast}
HasDerived(n) == IsWorkflow(n) /\ state[n] = "ok"
ChildTask(n, i) == IF tasks[n].protocol = Linear THEN StepTask(n, i) ELSE TargetTask(n, i)
StepCount(n) == Len(tasks[n].payload.steps)
WholeFrom(n, before) ==
    /\ before + StepCount(n) =< Len(tasks)
    /\ \A k \in DOMAIN tasks :
         tasks[k].parent = n <=> before < k /\ k =< before + StepCount(n)
    /\ \A i \in 1 .. StepCount(n) : tasks[before + i] = ChildTask(n, i)
Strict(m, n) == tasks[m].sequence # None /\ tasks[m].sequence = tasks[n].sequence

ParentsInv == \A k \in DOMAIN tasks : tasks[k].parent # 0 => HasDerived(tasks[k].parent)
WholeInv ==
    \A n \in DOMAIN tasks :
      HasDerived(n) => Derivable(tasks[n]) /\ \E before \in Nat : WholeFrom(n, before)
SequencesInv ==
    \A m, n \in DOMAIN tasks : (m < n /\ Strict(m, n) /\ state[n] # "ready") => state[m] # "ready"
TreeInv == ParentsInv /\ WholeInv /\ SequencesInv

LEMMA ProtocolsDiffer == Linear # Broadcast /\ ProtocolPairs[1].public \notin {Linear, Broadcast}
  BY DEF Linear, Broadcast, ProtocolPairs

(* What becomes of the states when a task is answered. *)
LEMMA AnswerStates ==
    ASSUME TaskInv, NEW n \in DOMAIN tasks, NEW answer, NEW children, IsSeq(children),
           Answers(n, answer, children)
    PROVE  /\ \A k \in DOMAIN tasks : state'[k] = IF k = n THEN answer ELSE state[k]
           /\ \A i \in 1 .. Len(children) : state'[Len(tasks) + i] = "ready"
<1> DEFINE old == [state EXCEPT ![n] = answer]
           ready == [i \in DOMAIN children |-> "ready"]
<1>1. PICK N \in Nat, C \in Nat : /\ N = Len(tasks) /\ N = Len(state) /\ DOMAIN tasks = 1 .. N
                                  /\ DOMAIN state = 1 .. N
                                  /\ C = Len(children) /\ DOMAIN children = 1 .. C
  BY IsSeqFacts DEF TaskInv
<1>2. /\ DOMAIN old = 1 .. N /\ old = [k \in 1 .. N |-> old[k]]
      /\ \A k \in 1 .. N : old[k] = IF k = n THEN answer ELSE state[k]
  BY <1>1
<1>3. /\ DOMAIN ready = 1 .. C /\ ready = [k \in 1 .. C |-> ready[k]]
      /\ \A k \in 1 .. C : ready[k] = "ready"
  BY <1>1
<1>4. state' = old \o ready
  BY DEF Answers
<1> HIDE DEF old, ready
<1>5. IsSeq(old) /\ Len(old) = N /\ IsSeq(ready) /\ Len(ready) = C
  BY <1>2, <1>3, IsSeqFunction
<1>6. /\ \A k \in 1 .. N : (old \o ready)[k] = old[k]
      /\ \A i \in 1 .. C : (old \o ready)[N + i] = ready[i]
  BY <1>5, IsSeqConcat
<1>7. QED
  BY <1>1, <1>2, <1>3, <1>4, <1>6

LEMMA WholeStays ==
    ASSUME TaskInv, NEW news, IsSeq(news), tasks' = tasks \o news, NEW n \in DOMAIN tasks,
           NEW before \in Nat, WholeFrom(n, before), Derivable(tasks[n]), IsWorkflow(n),
           \A i \in 1 .. Len(news) : news[i].parent # n
    PROVE  WholeFrom(n, before)'
<1>1. PICK N \in Nat, C \in Nat : N = Len(tasks) /\ DOMAIN tasks = 1 .. N /\ C = Len(news)
  BY IsSeqFacts DEF TaskInv
<1>2. /\ Len(tasks') = N + C /\ DOMAIN tasks' = 1 .. N + C
      /\ \A k \in 1 .. N : tasks'[k] = tasks[k]
      /\ \A i \in 1 .. C : tasks'[N + i] = news[i]
  BY <1>1, IsSeqConcat DEF TaskInv
<1>3. tasks'[n] = tasks[n]
  BY <1>1, <1>2
<1>4. PICK len \in Nat : len = StepCount(n)
  BY StepsFact DEF StepCount, IsWorkflow
<1>5. StepCount(n)' = len /\ \A i : ChildTask(n, i)' = ChildTask(n, i)
  BY <1>3, <1>4 DEF StepCount, ChildTask, StepTask, TargetTask, Node, ChildId, SequenceId, Correlation
<1>6. /\ before + len =< N
      /\ \A k \in 1 .. N : tasks[k].parent = n <=> before < k /\ k =< before + len
      /\ \A i \in 1 .. len : tasks[before + i] = ChildTask(n, i)
  BY <1>1, <1>4 DEF WholeFrom
<1>7. before + len =< N + C
  BY <1>6
<1>8. ASSUME NEW k \in 1 .. N + C
      PROVE  tasks'[k].parent = n <=> before < k /\ k =< before + len
  <2>1. CASE k \in 1 .. N
    BY <1>2, <1>6, <2>1
  <2>2. CASE k \notin 1 .. N
    <3>1. k - N \in 1 .. C /\ k = N + (k - N) /\ ~(k =< before + len)
      BY <1>6, <2>2
    <3>2. PICK i \in 1 .. C : k = N + i
      BY <3>1
    <3>3. tasks'[k].parent # n
      BY <1>1, <1>2, <3>2
    <3>4. QED
      BY <3>1, <3>3
  <2>3. QED
    BY <2>1, <2>2
<1>9. ASSUME NEW i \in 1 .. len PROVE tasks'[before + i] = ChildTask(n, i)
  <2>1. before + i \in 1 .. N
    BY <1>6
  <2>2. QED
    BY <1>2, <1>6, <2>1
<1>10. QED
  BY <1>2, <1>5, <1>7, <1>8, <1>9 DEF WholeFrom

(* A submission, or a task with what it derived. *)
LEMMA ParentsGrow ==
    ASSUME TaskInv, ParentsInv, NEW news, IsSeq(news), tasks' = tasks \o news,
           \A k \in DOMAIN tasks : HasDerived(k) => state'[k] = "ok",
           \A i \in 1 .. Len(news) :
             news[i].parent # 0 => /\ news[i].parent \in DOMAIN tasks /\ IsWorkflow(news[i].parent)
                                   /\ state'[news[i].parent] = "ok"
    PROVE  ParentsInv'
<1>1. PICK N \in Nat, C \in Nat : N = Len(tasks) /\ DOMAIN tasks = 1 .. N /\ C = Len(news)
  BY IsSeqFacts DEF TaskInv
<1>2. /\ DOMAIN tasks' = 1 .. N + C
      /\ \A k \in 1 .. N : tasks'[k] = tasks[k]
      /\ \A i \in 1 .. C : tasks'[N + i] = news[i]
  BY <1>1, IsSeqConcat DEF TaskInv
<1> SUFFICES ASSUME NEW k \in 1 .. N + C, tasks'[k].parent # 0 PROVE HasDerived(tasks[k].parent)'
  BY <1>2 DEF ParentsInv
<1>3. \A p \in 1 .. N : IsWorkflow(p)' <=> IsWorkflow(p)
  BY <1>2 DEF IsWorkflow
<1>4. CASE k \in 1 .. N
  <2>1. PICK p : p = tasks[k].parent
    OBVIOUS
  <2>2. p # 0 /\ HasDerived(p) /\ tasks'[k].parent = p
    BY <1>1, <1>2, <1>4, <2>1 DEF ParentsInv
  <2>3. p \in 1 .. N
    <3>1. TaskOK(k)
      BY <1>1, <1>4 DEF TaskInv
    <3>2. p \in 0 .. k - 1
      BY <2>1, <3>1 DEF TaskOK
    <3>3. QED
      BY <1>4, <2>2, <3>2
  <2>4. QED
    BY <1>1, <1>3, <2>2, <2>3 DEF HasDerived
<1>5. CASE k \notin 1 .. N
  <2>1. k - N \in 1 .. C /\ k = N + (k - N)
    BY <1>5
  <2>2. PICK i \in 1 .. C : k = N + i
    BY <2>1
  <2>3. PICK p : p = news[i].parent /\ tasks'[k].parent = p
    BY <1>2, <2>2
  <2>4. p \in 1 .. N /\ IsWorkflow(p) /\ state'[p] = "ok"
    BY <1>1, <2>3
  <2>5. QED
    BY <1>3, <2>3, <2>4 DEF HasDerived
<1>6. QED
  BY <1>4, <1>5
(* A task that has not run has derived nothing, so what it derives now is all. *)
LEMMA WholeGrows ==
    ASSUME TaskInv, ParentsInv, WholeInv, NEW news, IsSeq(news), tasks' = tasks \o news,
           NEW r \in Nat, r = 0 \/ (r \in DOMAIN tasks /\ state[r] = "ready"),
           \A i \in 1 .. Len(news) : news[i].parent = r /\ state'[Len(tasks) + i] = "ready",
           \A k \in DOMAIN tasks : (k # r /\ state'[k] = "ok") => state[k] = "ok",
           (r \in DOMAIN tasks /\ IsWorkflow(r) /\ state'[r] = "ok") =>
             /\ Derivable(tasks[r]) /\ Len(news) = StepCount(r)
             /\ \A i \in 1 .. Len(news) : news[i] = ChildTask(r, i)
    PROVE  WholeInv'
<1>1. PICK N \in Nat, C \in Nat : N = Len(tasks) /\ DOMAIN tasks = 1 .. N /\ C = Len(news)
  BY IsSeqFacts DEF TaskInv
<1>2. /\ Len(tasks') = N + C /\ DOMAIN tasks' = 1 .. N + C
      /\ \A k \in 1 .. N : tasks'[k] = tasks[k]
      /\ \A i \in 1 .. C : tasks'[N + i] = news[i]
  BY <1>1, IsSeqConcat DEF TaskInv
<1> SUFFICES ASSUME NEW n \in 1 .. N + C, HasDerived(n)'
             PROVE  Derivable(tasks[n])' /\ \E before \in Nat : WholeFrom(n, before)'
  BY <1>2 DEF WholeInv
<1>3. n \in 1 .. N
  <2> SUFFICES ASSUME n \notin 1 .. N PROVE FALSE
    OBVIOUS
  <2>1. n - N \in 1 .. C /\ n = N + (n - N)
    OBVIOUS
  <2>2. PICK i \in 1 .. C : n = N + i
    BY <2>1
  <2>3. state'[n] = "ready"
    BY <1>1, <2>2
  <2>4. QED
    BY <2>3 DEF HasDerived
<1>4. tasks'[n] = tasks[n] /\ IsWorkflow(n) /\ state'[n] = "ok"
  BY <1>2, <1>3 DEF HasDerived, IsWorkflow
<1>5. Derivable(tasks[n])' <=> Derivable(tasks[n])
  BY <1>4 DEF Derivable, ListsNone
<1>6. CASE n # r
  <2>1. HasDerived(n)
    BY <1>1, <1>3, <1>4, <1>6 DEF HasDerived
  <2>2. PICK before \in Nat : Derivable(tasks[n]) /\ WholeFrom(n, before)
    BY <1>1, <1>3, <2>1 DEF WholeInv
  <2>3. \A i \in 1 .. Len(news) : news[i].parent # n
    BY <1>6
  <2>4. WholeFrom(n, before)'
    BY <1>1, <1>3, <1>4, <2>2, <2>3, WholeStays
  <2>5. QED
    BY <1>5, <2>2, <2>4
<1>7. CASE n = r
  <2>1. /\ Derivable(tasks[n]) /\ C = StepCount(n)
        /\ \A i \in 1 .. C : news[i] = ChildTask(n, i) /\ news[i].parent = n
    BY <1>1, <1>3, <1>4, <1>7
  <2>2. StepCount(n)' = C /\ \A i : ChildTask(n, i)' = ChildTask(n, i)
    BY <1>4, <2>1 DEF StepCount, ChildTask, StepTask, TargetTask, Node, ChildId, SequenceId, Correlation
  <2>3. ~HasDerived(n) /\ n # 0
    <3>1. state[n] = "ready"
      BY <1>1, <1>3, <1>7
    <3>2. QED
      BY <1>3, <3>1 DEF HasDerived
  <2>4. \A k \in 1 .. N : tasks[k].parent # n
    BY <1>1, <2>3 DEF ParentsInv
  <2>5. ASSUME NEW k \in 1 .. N + C
        PROVE  tasks'[k].parent = n <=> N < k /\ k =< N + C
    <3>1. CASE k \in 1 .. N
      BY <1>2, <2>4, <3>1
    <3>2. CASE k \notin 1 .. N
      <4>1. k - N \in 1 .. C /\ k = N + (k - N) /\ N < k
        BY <3>2
      <4>2. PICK i \in 1 .. C : k = N + i
        BY <4>1
      <4>3. tasks'[k].parent = n
        BY <1>2, <2>1, <4>2
      <4>4. QED
        BY <4>1, <4>3
    <3>3. QED
      BY <3>1, <3>2
  <2>6. \A i \in 1 .. C : tasks'[N + i] = ChildTask(n, i)
    BY <1>2, <2>1
  <2>7. WholeFrom(n, N)'
    BY <1>2, <2>2, <2>5, <2>6 DEF WholeFrom
  <2>8. QED
    BY <1>5, <2>1, <2>7
<1>8. QED
  BY <1>6, <1>7

(* What is answered leaves no task of its sequence behind. *)
LEMMA SequencesGrow ==
    ASSUME TaskInv, SequencesInv, NEW news, IsSeq(news), tasks' = tasks \o news,
           \A i \in 1 .. Len(news) : state'[Len(tasks) + i] = "ready",
           \A k \in DOMAIN tasks : state[k] # "ready" => state'[k] # "ready",
           \A m, n \in DOMAIN tasks :
             (m < n /\ Strict(m, n) /\ state[n] = "ready" /\ state'[n] # "ready")
               => state'[m] # "ready"
    PROVE  SequencesInv'
<1>1. PICK N \in Nat, C \in Nat : N = Len(tasks) /\ DOMAIN tasks = 1 .. N /\ C = Len(news)
  BY IsSeqFacts DEF TaskInv
<1>2. DOMAIN tasks' = 1 .. N + C /\ \A k \in 1 .. N : tasks'[k] = tasks[k]
  BY <1>1, IsSeqConcat DEF TaskInv
<1> SUFFICES ASSUME NEW m \in 1 .. N + C, NEW n \in 1 .. N + C,
                    m < n, Strict(m, n)', state'[n] # "ready"
             PROVE  state'[m] # "ready"
  BY <1>2 DEF SequencesInv
<1>3. n \in 1 .. N
  <2> SUFFICES ASSUME n \notin 1 .. N PROVE FALSE
    OBVIOUS
  <2>1. n - N \in 1 .. C /\ n = N + (n - N)
    OBVIOUS
  <2>2. PICK i \in 1 .. C : n = N + i
    BY <2>1
  <2>3. QED
    BY <1>1, <2>2
<1>4. m \in 1 .. N
  BY <1>3
<1>5. Strict(m, n)
  BY <1>2, <1>3, <1>4 DEF Strict
<1>6. CASE state[n] = "ready"
  BY <1>1, <1>3, <1>4, <1>5, <1>6
<1>7. CASE state[n] # "ready"
  BY <1>1, <1>3, <1>4, <1>5, <1>7 DEF SequencesInv
<1>8. QED
  BY <1>6, <1>7
LEMMA ReadyFact ==
    ASSUME TaskInv, NEW n \in DOMAIN tasks, Ready(n)
    PROVE  \A m \in DOMAIN tasks : (m < n /\ Strict(m, n)) => state[m] # "ready"
<1> SUFFICES ASSUME NEW m \in DOMAIN tasks, m < n, Strict(m, n) PROVE state[m] # "ready"
  OBVIOUS
<1>1. m \in 1 .. n - 1 /\ tasks[n].sequence # None /\ tasks[m].sequence = tasks[n].sequence
  BY IsSeqFacts DEF TaskInv, Strict
<1>2. QED
  BY <1>1 DEF Ready

(* A task runs: it derives its children, or none. *)
LEMMA TreeRuns ==
    ASSUME TaskInv, TreeInv, NEW n \in DOMAIN tasks, Ready(n), NEW answer,
           NEW children, IsSeq(children), tasks' = tasks \o children,
           Answers(n, answer, children),
           \A i \in 1 .. Len(children) : children[i].parent = n,
           Len(children) # 0 => IsWorkflow(n) /\ answer = "ok",
           (IsWorkflow(n) /\ answer = "ok") =>
             /\ Derivable(tasks[n]) /\ Len(children) = StepCount(n)
             /\ \A i \in 1 .. Len(children) : children[i] = ChildTask(n, i)
    PROVE  TreeInv'
<1>1. /\ \A k \in DOMAIN tasks : state'[k] = IF k = n THEN answer ELSE state[k]
      /\ \A i \in 1 .. Len(children) : state'[Len(tasks) + i] = "ready"
  BY AnswerStates
<1>2. state[n] = "ready" /\ n \in Nat
  BY IsSeqFacts DEF Ready, TaskInv
<1>3. state'[n] = answer
  BY <1>1
<1>4. ParentsInv'
  <2>1. \A k \in DOMAIN tasks : HasDerived(k) => state'[k] = "ok"
    BY <1>1, <1>2 DEF HasDerived
  <2>2. Len(children) \in Nat
    BY IsSeqFacts
  <2>3. \A i \in 1 .. Len(children) :
          /\ children[i].parent \in DOMAIN tasks /\ IsWorkflow(children[i].parent)
          /\ state'[children[i].parent] = "ok"
    BY <1>3, <2>2
  <2>4. QED
    BY <2>1, <2>3, ParentsGrow DEF TreeInv
<1>5. WholeInv'
  <2>1. \A k \in DOMAIN tasks : (k # n /\ state'[k] = "ok") => state[k] = "ok"
    BY <1>1
  <2>2. QED
    BY <1>1, <1>2, <1>3, <2>1, WholeGrows DEF TreeInv
<1>6. SequencesInv'
  <2>1. \A k \in DOMAIN tasks : state[k] # "ready" => state'[k] # "ready"
    BY <1>1, <1>2
  <2>2. ASSUME NEW m \in DOMAIN tasks, NEW k \in DOMAIN tasks,
               m < k, Strict(m, k), state[k] = "ready", state'[k] # "ready"
        PROVE  state'[m] # "ready"
    <3>1. k = n
      BY <1>1, <2>2
    <3>2. state[m] # "ready"
      BY <2>2, <3>1, ReadyFact
    <3>3. QED
      BY <2>1, <3>2
  <2>3. QED
    BY <1>1, <2>1, <2>2, SequencesGrow DEF TreeInv
<1>7. QED
  BY <1>4, <1>5, <1>6 DEF TreeInv

LEMMA TreeAnswered ==
    ASSUME TaskInv, TreeInv, NEW n \in DOMAIN tasks, Ready(n), NEW answer,
           Answers(n, answer, <<>>), tasks' = tasks, IsWorkflow(n) => answer # "ok"
    PROVE  TreeInv'
<1>1. IsSeq(<<>>) /\ Len(<<>>) = 0
  BY IsSeqShort
<1>2. tasks \o <<>> = tasks
  BY DEF TaskInv, IsSeq
<1>3. PICK none : none = <<>>
  OBVIOUS
<1>4. /\ IsSeq(none) /\ Len(none) = 0 /\ tasks' = tasks \o none /\ Answers(n, answer, none)
      /\ \A i \in 1 .. Len(none) : FALSE
  BY <1>1, <1>2, <1>3
<1>5. QED
  BY <1>4, TreeRuns

(* A workflow that derives tasks: a task for each of its steps. *)
LEMMA DerivesFact ==
    ASSUME TaskInv, NEW n \in DOMAIN tasks, RunLinear(n) \/ RunBroadcast(n)
    PROVE  /\ Ready(n) /\ IsWorkflow(n)
           /\ \/ \E answer : Answers(n, answer, <<>>) /\ answer # "ok" /\ tasks' = tasks
              \/ \E children :
                   /\ IsSeq(children) /\ tasks' = tasks \o children /\ Answers(n, "ok", children)
                   /\ Derivable(tasks[n]) /\ Len(children) = StepCount(n)
                   /\ \A i \in 1 .. Len(children) :
                        children[i] = ChildTask(n, i) /\ children[i].parent = n
<1>1. Ready(n) /\ IsWorkflow(n)
  BY DEF RunLinear, RunBroadcast, IsWorkflow
<1>2. UNCHANGED <<runtimeVars, socketVars>>
  BY DEF RunLinear, RunBroadcast, Derive
<1>3. CASE ~Derivable(tasks[n])
  <2>1. tasks \o <<>> = tasks
    BY DEF TaskInv, IsSeq
  <2>2. \E answer : Answers(n, answer, <<>>) /\ answer # "ok" /\ tasks' = tasks
    <3>1. CASE RunLinear(n)
      BY <1>3, <2>1, <3>1 DEF RunLinear, Derive
    <3>2. CASE RunBroadcast(n)
      BY <1>3, <2>1, <3>2 DEF RunBroadcast, Derive
    <3>3. QED
      BY <3>1, <3>2
  <2>3. QED
    BY <1>1, <2>2
<1>4. CASE Derivable(tasks[n])
  <2>1. PICK steps : steps = tasks[n].payload.steps
    OBVIOUS
  <2>2. PICK len \in Nat : len = Len(steps) /\ DOMAIN steps = 1 .. len /\ len # 0
    <3>1. steps \in Seq(Steps) /\ steps # <<>>
      BY <1>1, <1>4, <2>1, StepsFact DEF IsWorkflow, Derivable, ListsNone
    <3>2. Len(steps) \in Nat /\ DOMAIN steps = 1 .. Len(steps) /\ Len(steps) # 0
      BY <3>1
    <3>3. QED
      BY <3>2
  <2>3. PICK children : /\ children = [i \in 1 .. len |-> ChildTask(n, i)]
                        /\ children = IF tasks[n].protocol = Linear
                                        THEN LinearChildren(n) ELSE BroadcastChildren(n)
    BY <2>1, <2>2 DEF ChildTask, LinearChildren, BroadcastChildren
  <2>4. IsSeq(children) /\ Len(children) = len
    BY <2>3, IsSeqFunction
  <2>5. children # <<>>
    BY <2>2, <2>4, IsSeqShort
  <2>6. tasks' = tasks \o children /\ Answers(n, "ok", children)
    <3>1. CASE RunLinear(n)
      BY <1>4, <2>3, <2>5, <3>1 DEF RunLinear, Derive
    <3>2. CASE RunBroadcast(n)
      BY <1>4, <2>3, <2>5, <3>2, ProtocolsDiffer DEF RunBroadcast, Derive
    <3>3. QED
      BY <3>1, <3>2
  <2>7. \A i \in 1 .. len : children[i] = ChildTask(n, i) /\ children[i].parent = n
    BY <2>3 DEF ChildTask, StepTask, TargetTask, Node
  <2>8. StepCount(n) = len
    BY <2>1, <2>2 DEF StepCount
  <2>9. \E c : /\ IsSeq(c) /\ tasks' = tasks \o c /\ Answers(n, "ok", c)
               /\ Derivable(tasks[n]) /\ Len(c) = StepCount(n)
               /\ \A i \in 1 .. Len(c) : c[i] = ChildTask(n, i) /\ c[i].parent = n
    BY <1>4, <2>4, <2>6, <2>7, <2>8
  <2>10. QED
    BY <1>1, <2>9
<1>5. QED
  BY <1>3, <1>4
LEMMA TreeDerives ==
    ASSUME TaskInv, TreeInv, NEW n \in DOMAIN tasks, RunLinear(n) \/ RunBroadcast(n)
    PROVE  TreeInv'
<1>1. Ready(n) /\ IsWorkflow(n)
  BY DerivesFact
<1>2. CASE \E answer : Answers(n, answer, <<>>) /\ answer # "ok" /\ tasks' = tasks
  BY <1>1, <1>2, TreeAnswered
<1>3. CASE \E children :
             /\ IsSeq(children) /\ tasks' = tasks \o children /\ Answers(n, "ok", children)
             /\ Derivable(tasks[n]) /\ Len(children) = StepCount(n)
             /\ \A i \in 1 .. Len(children) :
                  children[i] = ChildTask(n, i) /\ children[i].parent = n
  <2>1. PICK children :
          /\ IsSeq(children) /\ tasks' = tasks \o children /\ Answers(n, "ok", children)
          /\ Derivable(tasks[n]) /\ Len(children) = StepCount(n)
          /\ \A i \in 1 .. Len(children) :
               children[i] = ChildTask(n, i) /\ children[i].parent = n
    BY <1>3
  <2>2. QED
    BY <1>1, <2>1, TreeRuns
<1>4. QED
  BY <1>2, <1>3, DerivesFact

(* Nothing runs: a submission is put at the end, or a crash loses what is ready. *)
LEMMA TreeWaits ==
    ASSUME TaskInv, TreeInv, NEW news, IsSeq(news), tasks' = tasks \o news,
           \A i \in 1 .. Len(news) : news[i].parent = 0 /\ state'[Len(tasks) + i] = "ready",
           \/ \A k \in DOMAIN tasks : state'[k] = state[k]
           \/ \A k \in DOMAIN tasks : state'[k] = IF state[k] = "ready" THEN "lost" ELSE state[k]
    PROVE  TreeInv'
<1>1. \A k \in DOMAIN tasks : /\ state'[k] = "ok" <=> state[k] = "ok"
                              /\ state[k] # "ready" => state'[k] # "ready"
  OBVIOUS
<1>2. ParentsInv'
  <2>1. \A k \in DOMAIN tasks : HasDerived(k) => state'[k] = "ok"
    BY <1>1 DEF HasDerived
  <2>2. QED
    BY <2>1, ParentsGrow DEF TreeInv
<1>3. WholeInv'
  <2>1. 0 \notin DOMAIN tasks
    BY IsSeqFacts DEF TaskInv
  <2>2. QED
    BY <1>1, <2>1, WholeGrows DEF TreeInv
<1>4. SequencesInv'
  <2>1. \A m, n \in DOMAIN tasks :
          (state[n] = "ready" /\ state'[n] # "ready") => state'[m] # "ready"
    OBVIOUS
  <2>2. QED
    BY <1>1, <2>1, SequencesGrow DEF TreeInv
<1>5. QED
  BY <1>2, <1>3, <1>4 DEF TreeInv

LEMMA SubmitFact ==
    ASSUME TaskInv, Submit
    PROVE  \E s \in Submissions : \E news :
             /\ IsSeq(news) /\ Len(news) = 1 /\ tasks' = tasks \o news
             /\ news[1] = Node(<<Len(tasks) + 1>>, s, s.correlation, None, 0, Len(tasks) + 1)
             /\ \A i \in 1 .. Len(news) : i = 1
             /\ state'[Len(tasks) + 1] = "ready"
             /\ \A k \in DOMAIN tasks : state'[k] = state[k]
             /\ UNCHANGED <<runtimeVars, socketVars>>
<1>1. PICK n \in Nat : n = Len(tasks) /\ n = Len(state) /\ DOMAIN tasks = 1 .. n
  BY IsSeqFacts DEF TaskInv
<1>2. PICK s \in Submissions : tasks' = tasks \o <<Node(<<n + 1>>, s, s.correlation, None, 0, n + 1)>>
  BY <1>1 DEF Submit, Derive
<1>3. PICK new, news : /\ new = Node(<<n + 1>>, s, s.correlation, None, 0, n + 1)
                       /\ news = <<new>>
  OBVIOUS
<1>4. IsSeq(news) /\ Len(news) = 1 /\ news[1] = new /\ tasks' = tasks \o news
  BY <1>2, <1>3, IsSeqShort
<1>5. state'[n + 1] = "ready" /\ \A k \in 1 .. n : state'[k] = state[k]
  BY <1>1, IsSeqAppend DEF Submit, TaskInv
<1>6. UNCHANGED <<runtimeVars, socketVars>>
  BY DEF Submit, Derive
<1>7. /\ news[1] = Node(<<Len(tasks) + 1>>, s, s.correlation, None, 0, Len(tasks) + 1)
      /\ \A i \in 1 .. Len(news) : i = 1
      /\ state'[Len(tasks) + 1] = "ready"
      /\ \A k \in DOMAIN tasks : state'[k] = state[k]
  BY <1>1, <1>3, <1>4, <1>5
<1>8. QED
  BY <1>4, <1>6, <1>7

LEMMA TreeSubmits ==
    ASSUME TaskInv, TreeInv, Submit
    PROVE  TreeInv'
<1>1. PICK s \in Submissions : \E news :
        /\ IsSeq(news) /\ tasks' = tasks \o news
        /\ news[1] = Node(<<Len(tasks) + 1>>, s, s.correlation, None, 0, Len(tasks) + 1)
        /\ \A i \in 1 .. Len(news) : i = 1
        /\ state'[Len(tasks) + 1] = "ready"
        /\ \A k \in DOMAIN tasks : state'[k] = state[k]
  BY SubmitFact
<1>2. PICK news :
        /\ IsSeq(news) /\ tasks' = tasks \o news
        /\ news[1] = Node(<<Len(tasks) + 1>>, s, s.correlation, None, 0, Len(tasks) + 1)
        /\ \A i \in 1 .. Len(news) : i = 1
        /\ state'[Len(tasks) + 1] = "ready"
        /\ \A k \in DOMAIN tasks : state'[k] = state[k]
  BY <1>1
<1>3. news[1].parent = 0
  BY <1>2 DEF Node
<1>4. \A i \in 1 .. Len(news) : news[i].parent = 0 /\ state'[Len(tasks) + i] = "ready"
  BY <1>2, <1>3
<1>5. QED
  BY <1>2, <1>4, TreeWaits

LEMMA TreeInvNext == TaskInv /\ TreeInv /\ [Next]_vars => TreeInv'
<1> SUFFICES ASSUME TaskInv, TreeInv, [Next]_vars PROVE TreeInv'
  OBVIOUS
<1>1. PICK none : /\ none = <<>> /\ IsSeq(none) /\ tasks \o none = tasks
                  /\ \A i \in 1 .. Len(none) : FALSE
  <2>1. tasks \o <<>> = tasks
    BY DEF TaskInv, IsSeq
  <2>2. IsSeq(<<>>) /\ \A i \in 1 .. Len(<<>>) : FALSE
    BY IsSeqShort
  <2>3. QED
    BY <2>1, <2>2
<1>2. CASE Submit
  BY <1>2, TreeSubmits
<1>3. CASE UNCHANGED workflowVars
  <2>1. tasks' = tasks \o none /\ state' = state
    BY <1>1, <1>3 DEF workflowVars
  <2>2. QED
    BY <1>1, <2>1, TreeWaits
<1>4. CASE SubmitDirect
  BY <1>3, <1>4 DEF SubmitDirect
<1>5. ASSUME NEW n \in DOMAIN tasks, Run(n) PROVE TreeInv'
  <2>1. CASE RunLinear(n) \/ RunBroadcast(n)
    BY <2>1, TreeDerives
  <2>2. CASE RunRequest(n)
    <3>1. Ready(n) /\ tasks' = tasks /\ ~IsWorkflow(n)
      BY <2>2, ProtocolsDiffer DEF RunRequest, IsWorkflow
    <3>2. QED
      BY <2>2, <3>1, TreeAnswered DEF RunRequest
  <2>3. CASE RunPure(n)
    <3>1. Ready(n) /\ tasks' = tasks /\ ~IsWorkflow(n)
      BY <2>3 DEF RunPure, Derive, IsWorkflow, TaskInv, IsSeq
    <3>2. QED
      BY <2>3, <3>1, TreeAnswered DEF RunPure
  <2>4. QED
    BY <1>5, <2>1, <2>2, <2>3 DEF Run
<1>6. CASE ProcessCrash
  <2>1. tasks' = tasks \o none
    BY <1>1, <1>6 DEF ProcessCrash
  <2>2. \A k \in DOMAIN tasks : state'[k] = IF state[k] = "ready" THEN "lost" ELSE state[k]
    <3>1. DOMAIN tasks = DOMAIN state
      BY IsSeqFacts DEF TaskInv
    <3>2. QED
      BY <1>6, <3>1 DEF ProcessCrash
  <2>3. QED
    BY <1>1, <2>1, <2>2, TreeWaits
<1>7. QED
  BY <1>2, <1>3, <1>4, <1>5, <1>6 DEF Next, vars

LEMMA TreeInvHolds == Spec => [](TaskInv /\ TreeInv)
<1>1. Init => TreeInv
  BY IsSeqShort DEF Init, TreeInv, ParentsInv, WholeInv, SequencesInv
<1>2. Spec => []TreeInv
  BY <1>1, TreeInvNext, TaskInvHolds, PTL DEF Spec
<1>3. QED
  BY <1>2, TaskInvHolds, PTL

(* A workflow that answered ok has derived one task for each of its steps, next
   to one another and in their order; one that answered an error, has not run
   or was lost in a crash has derived none (workflow-linear lib.rs:121,
   workflow-broadcast lib.rs:120). *)
THEOREM WorkflowsDeriveWhole == Spec => []WorkflowsAreWhole
<1>1. TaskInv /\ TreeInv => WorkflowsAreWhole
  <2> SUFFICES ASSUME TaskInv, TreeInv, NEW n \in DOMAIN tasks, IsWorkflow(n)
               PROVE  IF state[n] = "ok"
                        THEN \E before \in 0 .. Len(tasks) :
                               /\ Children(n) = before + 1 .. before + Len(tasks[n].payload.steps)
                               /\ \A i \in DOMAIN tasks[n].payload.steps :
                                    /\ tasks[n].payload.steps[i].protocol # None
                                    /\ tasks[before + i].protocol = tasks[n].payload.steps[i].protocol
                        ELSE Children(n) = {}
    BY DEF WorkflowsAreWhole, IsWorkflow
  <2>1. PICK N \in Nat : N = Len(tasks) /\ DOMAIN tasks = 1 .. N
    BY IsSeqFacts DEF TaskInv
  <2>2. CASE state[n] = "ok"
    <3>1. HasDerived(n)
      BY <2>2 DEF HasDerived
    <3>2. PICK before \in Nat : Derivable(tasks[n]) /\ WholeFrom(n, before)
      BY <3>1 DEF TreeInv, WholeInv
    <3>3. PICK steps : steps = tasks[n].payload.steps
      OBVIOUS
    <3>4. PICK len \in Nat : len = Len(steps) /\ DOMAIN steps = 1 .. len
      <4>1. steps \in Seq(Steps)
        BY <3>2, <3>3, StepsFact DEF IsWorkflow
      <4>2. QED
        BY <4>1
    <3>5. /\ before + len =< N
          /\ \A k \in 1 .. N : tasks[k].parent = n <=> before < k /\ k =< before + len
          /\ \A i \in 1 .. len : tasks[before + i] = ChildTask(n, i)
      BY <2>1, <3>2, <3>3, <3>4 DEF WholeFrom, StepCount
    <3>6. Children(n) = before + 1 .. before + len
      BY <2>1, <3>5 DEF Children
    <3>7. \A i \in 1 .. len : ChildTask(n, i).protocol = steps[i].protocol
      BY <3>3 DEF ChildTask, StepTask, TargetTask, Node
    <3>8. \A i \in 1 .. len : steps[i].protocol # None
      BY <3>2, <3>3, <3>4 DEF Derivable, ListsNone
    <3>9. before \in 0 .. N
      BY <3>5
    <3>10. QED
      BY <2>1, <2>2, <3>3, <3>4, <3>5, <3>6, <3>7, <3>8, <3>9
  <2>3. CASE state[n] # "ok"
    <3>1. \A k \in DOMAIN tasks : tasks[k].parent # n
      <4>1. n # 0 /\ ~HasDerived(n)
        BY <2>1, <2>3 DEF HasDerived
      <4>2. QED
        BY <4>1 DEF TreeInv, ParentsInv
    <3>2. QED
      BY <2>3, <3>1 DEF Children
  <2>4. QED
    BY <2>2, <2>3
<1>2. QED
  BY <1>1, TreeInvHolds, PTL
-----------------------------------------------------------------------------
(* The ids the runners make up, when no step brings one: a submission's is its
   place, a derived task's is its parent's with the kind and the place among the
   children, an effect task's is its source's with the word "effect". *)

StepsNameNoId == \A s \in Steps : s.id = None
Kind(n) == IF tasks[n].protocol = Linear THEN "step" ELSE "target"
OddLength(id) == \E d \in Nat : Len(id) = 2 * d + 1
IdOK(n) ==
    /\ tasks[n].id \in Seq(IdParts) /\ OddLength(tasks[n].id)
    /\ tasks[n].parent # 0 =>
         /\ 3 =< Len(tasks[n].id)
         /\ \E i \in Nat : tasks[n].id = tasks[tasks[n].parent].id \o <<Kind(tasks[n].parent), i>>
IdInv ==
    /\ \A n \in DOMAIN tasks : IdOK(n)
    /\ \A m, n \in DOMAIN tasks : m # n => tasks[m].id # tasks[n].id

LEMMA ConcatCancels ==
    ASSUME NEW S, NEW s \in Seq(S), NEW t \in Seq(S), NEW x \in Seq(S), NEW y \in Seq(S),
           Len(x) = 2, Len(y) = 2, s \o x = t \o y
    PROVE  s = t /\ x = y
<1>1. PICK m \in Nat, n \in Nat : m = Len(s) /\ n = Len(t) /\ DOMAIN s = 1 .. m /\ DOMAIN t = 1 .. n
  OBVIOUS
<1>2. /\ Len(s \o x) = m + 2 /\ Len(t \o y) = n + 2
      /\ \A k \in 1 .. m + 2 : (s \o x)[k] = IF k =< m THEN s[k] ELSE x[k - m]
      /\ \A k \in 1 .. n + 2 : (t \o y)[k] = IF k =< n THEN t[k] ELSE y[k - n]
  <2>1. /\ Len(s \o x) = Len(s) + Len(x)
        /\ \A k \in 1 .. Len(s) + Len(x) : (s \o x)[k] = IF k =< Len(s) THEN s[k] ELSE x[k - Len(s)]
    BY ConcatProperties
  <2>2. /\ Len(t \o y) = Len(t) + Len(y)
        /\ \A k \in 1 .. Len(t) + Len(y) : (t \o y)[k] = IF k =< Len(t) THEN t[k] ELSE y[k - Len(t)]
    BY ConcatProperties
  <2>3. QED
    BY <1>1, <2>1, <2>2
<1>3. m = n
  BY <1>2
<1>4. ASSUME NEW k \in 1 .. m PROVE s[k] = t[k]
  <2>1. k \in 1 .. m + 2 /\ k =< m
    OBVIOUS
  <2>2. (s \o x)[k] = s[k] /\ (t \o y)[k] = t[k]
    BY <1>2, <1>3, <2>1
  <2>3. QED
    BY <2>2
<1>5. x = y
  <2>1. /\ x = [k \in 1 .. 2 |-> x[k]] /\ y = [k \in 1 .. 2 |-> y[k]]
    OBVIOUS
  <2>2. ASSUME NEW k \in 1 .. 2 PROVE x[k] = y[k]
    <3>1. m + k \in 1 .. m + 2 /\ ~(m + k =< m) /\ (m + k) - m = k
      OBVIOUS
    <3>2. (s \o x)[m + k] = x[k] /\ (t \o y)[m + k] = y[k]
      BY <1>2, <1>3, <3>1
    <3>3. QED
      BY <3>2
  <2>3. QED
    BY <2>1, <2>2
<1>6. s = t
  <2>1. s = [k \in 1 .. m |-> s[k]] /\ t = [k \in 1 .. m |-> t[k]]
    BY <1>1, <1>3
  <2>2. QED
    BY <1>4, <2>1
<1>7. QED
  BY <1>5, <1>6

LEMMA PairCancels ==
    ASSUME NEW s \in Seq(IdParts), NEW t \in Seq(IdParts),
           NEW a \in IdParts, NEW b \in IdParts, NEW i \in IdParts, NEW j \in IdParts, NEW id,
           id = s \o <<a, i>>, id = t \o <<b, j>>
    PROVE  s = t
<1>1. PICK x, y : x = <<a, i>> /\ y = <<b, j>>
  OBVIOUS
<1>2. x \in Seq(IdParts) /\ Len(x) = 2
  BY <1>1
<1>3. y \in Seq(IdParts) /\ Len(y) = 2
  BY <1>1
<1>4. s \o x = t \o y
  BY <1>1
<1>5. s = t /\ x = y
  BY <1>2, <1>3, <1>4, ConcatCancels
<1>6. QED
  BY <1>1, <1>5

LEMMA IndexCancels ==
    ASSUME NEW s \in Seq(IdParts), NEW t \in Seq(IdParts),
           NEW a \in IdParts, NEW b \in IdParts, NEW i \in IdParts, NEW j \in IdParts, NEW id,
           id = s \o <<a, i>>, id = t \o <<b, j>>
    PROVE  i = j
<1>1. PICK x, y : x = <<a, i>> /\ y = <<b, j>>
  OBVIOUS
<1>2. x \in Seq(IdParts) /\ Len(x) = 2
  BY <1>1
<1>3. y \in Seq(IdParts) /\ Len(y) = 2
  BY <1>1
<1>4. s \o x = t \o y
  BY <1>1
<1>5. s = t /\ x = y
  BY <1>2, <1>3, <1>4, ConcatCancels
<1>6. QED
  BY <1>1, <1>5

(* The id of a child. *)
LEMMA ChildIdFact ==
    ASSUME TaskInv, IdInv, NEW n \in DOMAIN tasks, NEW i \in Nat, NEW id,
           id = tasks[n].id \o <<Kind(n), i>>
    PROVE  id \in Seq(IdParts) /\ OddLength(id) /\ 3 =< Len(id)
<1>1. tasks[n].id \in Seq(IdParts) /\ OddLength(tasks[n].id)
  BY DEF IdInv, IdOK
<1>2. PICK d \in Nat : Len(tasks[n].id) = 2 * d + 1
  BY <1>1 DEF OddLength
<1>3. PICK pair : pair = <<Kind(n), i>>
  OBVIOUS
<1>4. pair \in Seq(IdParts) /\ Len(pair) = 2
  <2>1. Kind(n) \in IdParts /\ i \in IdParts
    BY DEF Kind, IdParts
  <2>2. QED
    BY <1>3, <2>1
<1>5. id = tasks[n].id \o pair
  BY <1>3
<1>6. id \in Seq(IdParts) /\ Len(id) = Len(tasks[n].id) + Len(pair)
  BY <1>1, <1>4, <1>5, ConcatProperties
<1>7. PICK e \in Nat : e = d + 1
  OBVIOUS
<1>8. Len(id) = 2 * e + 1 /\ 3 =< Len(id)
  BY <1>2, <1>4, <1>6, <1>7
<1>9. QED
  BY <1>6, <1>8 DEF OddLength

LEMMA RootIdFact ==
    ASSUME NEW n \in Nat, NEW id, id = <<n>>
    PROVE  id \in Seq(IdParts) /\ OddLength(id) /\ Len(id) = 1 /\ id[1] = n
<1>1. n \in IdParts
  BY DEF IdParts
<1>2. id \in Seq(IdParts) /\ Len(id) = 1 /\ id[1] = n
  BY <1>1
<1>3. Len(id) = 2 * 0 + 1 /\ 0 \in Nat
  BY <1>2
<1>4. QED
  BY <1>2, <1>3 DEF OddLength

(* Of the tasks already there nothing changes. *)
LEMMA IdsStay ==
    ASSUME TaskInv, IdInv, NEW news, IsSeq(news), tasks' = tasks \o news, NEW n \in DOMAIN tasks
    PROVE  IdOK(n)' /\ tasks'[n] = tasks[n] /\ n \in DOMAIN tasks'
<1>1. /\ \A k \in DOMAIN tasks : tasks'[k] = tasks[k] /\ k \in DOMAIN tasks'
  <2>1. PICK N \in Nat, C \in Nat : N = Len(tasks) /\ DOMAIN tasks = 1 .. N /\ C = Len(news)
    BY IsSeqFacts DEF TaskInv
  <2>2. DOMAIN tasks' = 1 .. N + C /\ \A k \in 1 .. N : tasks'[k] = tasks[k]
    BY <2>1, IsSeqConcat DEF TaskInv
  <2>3. QED
    BY <2>1, <2>2
<1>2. IdOK(n) /\ TaskOK(n)
  BY DEF IdInv, TaskInv
<1>3. CASE tasks[n].parent = 0
  BY <1>1, <1>2, <1>3 DEF IdOK
<1>4. CASE tasks[n].parent # 0
  <2>1. tasks[n].parent \in DOMAIN tasks
    <3>1. DOMAIN tasks = 1 .. Len(tasks) /\ Len(tasks) \in Nat
      BY IsSeqFacts DEF TaskInv
    <3>2. tasks[n].parent \in 0 .. n - 1
      BY <1>2 DEF TaskOK
    <3>3. QED
      BY <1>4, <3>1, <3>2
  <2>2. PICK p \in DOMAIN tasks : p = tasks[n].parent
    BY <2>1
  <2>3. tasks'[p] = tasks[p] /\ tasks'[n] = tasks[n]
    BY <1>1
  <2>4. Kind(p)' = Kind(p)
    BY <2>3 DEF Kind
  <2>5. QED
    BY <1>1, <1>2, <2>2, <2>3, <2>4 DEF IdOK
<1>5. QED
  BY <1>1, <1>3, <1>4

(* The ids of what is added are new and differ from one another. *)
LEMMA IdsGrow ==
    ASSUME TaskInv, IdInv, NEW news, IsSeq(news), tasks' = tasks \o news,
           NEW last, last = Len(tasks),
           \A i \in 1 .. Len(news) :
             /\ IdOK(last + i)'
             /\ \A k \in DOMAIN tasks : tasks[k].id # news[i].id
             /\ \A j \in 1 .. Len(news) : i # j => news[i].id # news[j].id
    PROVE  IdInv'
<1>1. PICK N \in Nat, C \in Nat : N = Len(tasks) /\ DOMAIN tasks = 1 .. N /\ C = Len(news)
  BY IsSeqFacts DEF TaskInv
<1>2. /\ Len(tasks') = N + C /\ DOMAIN tasks' = 1 .. N + C
      /\ \A k \in 1 .. N : tasks'[k] = tasks[k]
      /\ \A i \in 1 .. C : tasks'[N + i] = news[i]
  BY <1>1, IsSeqConcat DEF TaskInv
<1>3. ASSUME NEW k \in 1 .. N + C
      PROVE  k \in 1 .. N \/ \E i \in 1 .. C : k = N + i
  <2>1. k \in 1 .. N \/ (k - N \in 1 .. C /\ k = N + (k - N))
    OBVIOUS
  <2>2. QED
    BY <2>1
<1>4. ASSUME NEW k \in 1 .. N + C PROVE IdOK(k)'
  <2>1. CASE k \in 1 .. N
    BY <1>1, <2>1, IdsStay
  <2>2. ASSUME NEW i \in 1 .. C, k = N + i PROVE IdOK(k)'
    BY <1>1, <2>2
  <2>3. QED
    BY <1>3, <2>1, <2>2
<1>5. ASSUME NEW m \in 1 .. N + C, NEW n \in 1 .. N + C, m # n
      PROVE  tasks'[m].id # tasks'[n].id
  <2>1. CASE m \in 1 .. N /\ n \in 1 .. N
    BY <1>1, <1>2, <1>5, <2>1 DEF IdInv
  <2>2. ASSUME NEW i \in 1 .. C, n = N + i, m \in 1 .. N PROVE tasks'[m].id # tasks'[n].id
    BY <1>1, <1>2, <2>2
  <2>3. ASSUME NEW i \in 1 .. C, m = N + i, n \in 1 .. N PROVE tasks'[m].id # tasks'[n].id
    BY <1>1, <1>2, <2>3
  <2>4. ASSUME NEW i \in 1 .. C, NEW j \in 1 .. C, m = N + i, n = N + j
        PROVE  tasks'[m].id # tasks'[n].id
    <3>1. i # j
      BY <1>5, <2>4
    <3>2. QED
      BY <1>1, <1>2, <2>4, <3>1
  <2>5. QED
    BY <1>3, <2>1, <2>2, <2>3, <2>4
<1>6. QED
  BY <1>2, <1>4, <1>5 DEF IdInv
LEMMA IdsDerived ==
    ASSUME StepsNameNoId, TaskInv, TreeInv, IdInv, NEW n \in DOMAIN tasks, Ready(n), IsWorkflow(n),
           NEW children, IsSeq(children), tasks' = tasks \o children,
           Derivable(tasks[n]), Len(children) = StepCount(n),
           \A i \in 1 .. Len(children) : children[i] = ChildTask(n, i) /\ children[i].parent = n
    PROVE  IdInv'
<1>1. PICK N \in Nat, C \in Nat : N = Len(tasks) /\ DOMAIN tasks = 1 .. N /\ C = Len(children)
  BY IsSeqFacts DEF TaskInv
<1>2. /\ DOMAIN tasks' = 1 .. N + C
      /\ \A k \in 1 .. N : tasks'[k] = tasks[k]
      /\ \A i \in 1 .. C : tasks'[N + i] = children[i]
  BY <1>1, IsSeqConcat DEF TaskInv
<1>3. PICK steps : steps = tasks[n].payload.steps
  OBVIOUS
<1>4. steps \in Seq(Steps) /\ C = Len(steps)
  BY <1>1, <1>3, StepsFact DEF IsWorkflow, StepCount
<1>5. ASSUME NEW i \in 1 .. C
      PROVE  /\ children[i].id = tasks[n].id \o <<Kind(n), i>> /\ children[i].parent = n
             /\ i \in Nat
  <2>1. steps[i].id = None
    <3>1. steps[i] \in Steps
      BY <1>4
    <3>2. QED
      BY <3>1 DEF StepsNameNoId
  <2>2. children[i] = ChildTask(n, i) /\ children[i].parent = n
    BY <1>1
  <2>3. ChildTask(n, i).id = tasks[n].id \o <<Kind(n), i>>
    BY <1>3, <2>1 DEF ChildTask, StepTask, TargetTask, Node, ChildId, Kind
  <2>4. QED
    BY <2>2, <2>3
<1>6. PICK id : id = tasks[n].id
  OBVIOUS
<1>7. id \in Seq(IdParts) /\ Kind(n) \in IdParts /\ \A i \in 1 .. C : i \in IdParts
  BY <1>1, <1>6 DEF IdInv, IdOK, Kind, IdParts
<1>8. ASSUME NEW i \in 1 .. C PROVE IdOK(N + i)'
  <2>1. Kind(n)' = Kind(n) /\ tasks'[n] = tasks[n]
    BY <1>1, <1>2 DEF Kind
  <2>2. PICK cid : cid = tasks[n].id \o <<Kind(n), i>>
    OBVIOUS
  <2>3. cid \in Seq(IdParts) /\ OddLength(cid) /\ 3 =< Len(cid)
    BY <1>5, <2>2, ChildIdFact
  <2>4. tasks'[N + i].id = cid /\ tasks'[N + i].parent = n
    BY <1>2, <1>5, <2>2
  <2>5. cid = tasks'[n].id \o <<Kind(n)', i>>
    BY <2>1, <2>2
  <2>6. QED
    BY <1>5, <2>3, <2>4, <2>5 DEF IdOK
<1>9. ASSUME NEW i \in 1 .. C, NEW k \in 1 .. N, tasks[k].id = children[i].id PROVE FALSE
  <2>1. tasks[k].id = id \o <<Kind(n), i>> /\ i \in Nat
    BY <1>5, <1>6, <1>9
  <2>2. 3 =< Len(tasks[k].id)
    BY <1>6, <2>1, ChildIdFact
  <2>3. tasks[k].parent # 0
    <3> SUFFICES ASSUME tasks[k].parent = 0 PROVE FALSE
      OBVIOUS
    <3>1. tasks[k].id = <<k>>
      BY <1>1 DEF TaskInv, TaskOK
    <3>2. Len(tasks[k].id) = 1
      BY <3>1, RootIdFact
    <3>3. QED
      BY <2>2, <3>2
  <2>4. tasks[k].parent \in 1 .. N
    <3>1. tasks[k].parent \in 0 .. k - 1
      BY <1>1 DEF TaskInv, TaskOK
    <3>2. QED
      BY <2>3, <3>1
  <2>5. PICK p \in 1 .. N : p = tasks[k].parent
    BY <2>4
  <2>6. PICK j \in Nat : tasks[k].id = tasks[p].id \o <<Kind(p), j>>
    BY <1>1, <2>3, <2>5 DEF IdInv, IdOK
  <2>7. PICK pid : pid = tasks[p].id /\ pid \in Seq(IdParts) /\ Kind(p) \in IdParts /\ j \in IdParts
    BY <1>1 DEF IdInv, IdOK, Kind, IdParts
  <2>8. PICK a \in IdParts, b \in IdParts : a = Kind(p) /\ b = Kind(n)
    BY <1>7, <2>7
  <2>9. pid = id
    <3>1. PICK x \in IdParts, y \in IdParts : x = j /\ y = i
      BY <1>7, <2>7
    <3>2. PICK cid : cid = pid \o <<a, x>> /\ cid = id \o <<b, y>>
      BY <2>1, <2>6, <2>7, <2>8, <3>1
    <3>3. pid \in Seq(IdParts) /\ id \in Seq(IdParts)
      BY <1>7, <2>7
    <3>4. QED
      BY <3>2, <3>3, PairCancels
  <2>10. p = n
    BY <1>1, <1>6, <2>7, <2>9 DEF IdInv
  <2>11. HasDerived(n)
    BY <1>1, <2>3, <2>5, <2>10 DEF TreeInv, ParentsInv
  <2>12. QED
    BY <2>11 DEF HasDerived, Ready
<1>10. ASSUME NEW i \in 1 .. C, NEW j \in 1 .. C, children[i].id = children[j].id PROVE i = j
  <2>1. PICK b \in IdParts : b = Kind(n)
    BY <1>7
  <2>2. PICK cid : cid = children[i].id /\ cid = id \o <<b, i>> /\ cid = id \o <<b, j>>
    BY <1>5, <1>6, <1>10, <2>1
  <2>3. i \in IdParts /\ j \in IdParts
    BY <1>7
  <2>4. QED
    BY <1>7, <2>2, <2>3, IndexCancels
<1>11. \A i \in 1 .. Len(children) :
         /\ IdOK(N + i)'
         /\ \A k \in DOMAIN tasks : tasks[k].id # children[i].id
         /\ \A j \in 1 .. Len(children) : i # j => children[i].id # children[j].id
  BY <1>1, <1>8, <1>9, <1>10
<1>12. QED
  BY <1>1, <1>11, IdsGrow

LEMMA AddedFact ==
    ASSUME TaskInv, NEW news, IsSeq(news), tasks' = tasks \o news, NEW n, n = Len(tasks)
    PROVE  \A i \in 1 .. Len(news) : tasks'[n + i] = news[i]
<1>1. PICK N \in Nat, C \in Nat : N = Len(tasks) /\ C = Len(news)
  BY IsSeqFacts DEF TaskInv
<1>2. \A i \in 1 .. C : tasks'[N + i] = news[i]
  BY <1>1, IsSeqConcat DEF TaskInv
<1>3. QED
  BY <1>1, <1>2

LEMMA IdsSubmitted ==
    ASSUME TaskInv, IdInv, NEW news, IsSeq(news), Len(news) = 1, tasks' = tasks \o news,
           NEW n \in Nat, n = Len(tasks), news[1].id = <<n + 1>>, news[1].parent = 0
    PROVE  IdInv'
<1>1. DOMAIN tasks = 1 .. n /\ tasks'[n + 1] = news[1]
  <2>1. DOMAIN tasks = 1 .. n
    BY IsSeqFacts DEF TaskInv
  <2>2. \A i \in 1 .. Len(news) : tasks'[n + i] = news[i]
    BY AddedFact
  <2>3. QED
    BY <2>1, <2>2
<1>2. PICK id : id = <<n + 1>>
  OBVIOUS
<1>3. id \in Seq(IdParts) /\ OddLength(id) /\ Len(id) = 1 /\ id[1] = n + 1
  <2>1. n + 1 \in Nat
    OBVIOUS
  <2>2. QED
    BY <1>2, <2>1, RootIdFact
<1>4. IdOK(n + 1)'
  BY <1>1, <1>2, <1>3 DEF IdOK
<1>5. ASSUME NEW k \in 1 .. n, tasks[k].id = id PROVE FALSE
  <2>1. CASE tasks[k].parent = 0
    <3>1. tasks[k].id = <<k>>
      BY <1>1, <2>1 DEF TaskInv, TaskOK
    <3>2. tasks[k].id[1] = k
      BY <3>1
    <3>3. id[1] = k
      BY <1>5, <3>2
    <3>4. k # n + 1
      OBVIOUS
    <3>5. QED
      BY <1>3, <3>3, <3>4
  <2>2. CASE tasks[k].parent # 0
    <3>1. 3 =< Len(tasks[k].id)
      BY <1>1, <2>2 DEF IdInv, IdOK
    <3>2. Len(tasks[k].id) = 1
      BY <1>3, <1>5
    <3>3. QED
      BY <3>1, <3>2
  <2>3. QED
    BY <2>1, <2>2
<1>6. \A i \in 1 .. Len(news) :
        /\ IdOK(n + i)'
        /\ \A k \in DOMAIN tasks : tasks[k].id # news[i].id
        /\ \A j \in 1 .. Len(news) : i # j => news[i].id # news[j].id
  <2> SUFFICES ASSUME NEW i \in 1 .. Len(news)
               PROVE  /\ IdOK(n + i)'
                      /\ \A k \in DOMAIN tasks : tasks[k].id # news[i].id
                      /\ \A j \in 1 .. Len(news) : i # j => news[i].id # news[j].id
    OBVIOUS
  <2>1. i = 1 /\ \A j \in 1 .. Len(news) : j = 1
    OBVIOUS
  <2>2. QED
    BY <1>1, <1>2, <1>4, <1>5, <2>1
<1>7. QED
  BY <1>6, IdsGrow
LEMMA IdsSame ==
    ASSUME TaskInv, IdInv, tasks' = tasks
    PROVE  IdInv'
  BY DEF IdInv, IdOK, Kind

LEMMA IdInvNext == StepsNameNoId /\ TaskInv /\ TreeInv /\ IdInv /\ [Next]_vars => IdInv'
<1> SUFFICES ASSUME StepsNameNoId, TaskInv, TreeInv, IdInv, [Next]_vars PROVE IdInv'
  OBVIOUS
<1>1. CASE Submit
  <2>1. PICK s \in Submissions : \E news :
          /\ IsSeq(news) /\ Len(news) = 1 /\ tasks' = tasks \o news
          /\ news[1] = Node(<<Len(tasks) + 1>>, s, s.correlation, None, 0, Len(tasks) + 1)
    BY <1>1, SubmitFact
  <2>2. PICK news :
          /\ IsSeq(news) /\ Len(news) = 1 /\ tasks' = tasks \o news
          /\ news[1] = Node(<<Len(tasks) + 1>>, s, s.correlation, None, 0, Len(tasks) + 1)
    BY <2>1
  <2>3. PICK n \in Nat : n = Len(tasks)
    BY IsSeqFacts DEF TaskInv
  <2>4. news[1].id = <<n + 1>> /\ news[1].parent = 0
    BY <2>2, <2>3 DEF Node
  <2>5. QED
    BY <2>2, <2>3, <2>4, IdsSubmitted
<1>2. CASE UNCHANGED workflowVars
  BY <1>2, IdsSame DEF workflowVars
<1>3. CASE SubmitDirect
  BY <1>2, <1>3 DEF SubmitDirect
<1>4. ASSUME NEW n \in DOMAIN tasks, Run(n) PROVE IdInv'
  <2>1. CASE RunLinear(n) \/ RunBroadcast(n)
    <3>1. Ready(n) /\ IsWorkflow(n)
      BY <2>1, DerivesFact
    <3>2. CASE \E answer : Answers(n, answer, <<>>) /\ answer # "ok" /\ tasks' = tasks
      BY <3>2, IdsSame
    <3>3. CASE \E children :
                 /\ IsSeq(children) /\ tasks' = tasks \o children /\ Answers(n, "ok", children)
                 /\ Derivable(tasks[n]) /\ Len(children) = StepCount(n)
                 /\ \A i \in 1 .. Len(children) :
                      children[i] = ChildTask(n, i) /\ children[i].parent = n
      BY <3>1, <3>3, IdsDerived
    <3>4. QED
      BY <2>1, <3>2, <3>3, DerivesFact
  <2>2. CASE RunRequest(n)
    BY <2>2, IdsSame DEF RunRequest
  <2>3. CASE RunPure(n)
    <3>1. tasks' = tasks
      BY <2>3 DEF RunPure, Derive, TaskInv, IsSeq
    <3>2. QED
      BY <3>1, IdsSame
  <2>4. QED
    BY <1>4, <2>1, <2>2, <2>3 DEF Run
<1>5. CASE ProcessCrash
  BY <1>5, IdsSame DEF ProcessCrash
<1>6. QED
  BY <1>1, <1>2, <1>3, <1>4, <1>5 DEF Next, vars

(* What an id of a task is like: no id of an effect task is one, and none of a
   facade's is one of the host's. *)
IdGood(id) == id \in Seq(IdParts) /\ OddLength(id) /\ (Len(id) = 1 => id[1] # 0)
GoodIds ==
    /\ \A n \in DOMAIN tasks : IdGood(tasks[n].id)
    /\ \A m, n \in DOMAIN tasks : m # n => tasks[m].id # tasks[n].id
Effect(id) == Append(id, "effect")

LEMMA GoodIdsFact == TaskInv /\ IdInv => GoodIds
<1> SUFFICES ASSUME TaskInv, IdInv, NEW n \in DOMAIN tasks, Len(tasks[n].id) = 1
             PROVE  tasks[n].id[1] # 0
  BY DEF GoodIds, IdGood, IdInv, IdOK
<1>1. tasks[n].parent = 0
  <2>1. tasks[n].parent # 0 => 3 =< Len(tasks[n].id)
    BY DEF IdInv, IdOK
  <2>2. QED
    BY <2>1
<1>2. tasks[n].id = <<n>>
  BY <1>1 DEF TaskInv, TaskOK
<1>3. tasks[n].id[1] = n
  BY <1>2
<1>4. n # 0
  BY IsSeqFacts DEF TaskInv
<1>5. QED
  BY <1>3, <1>4

LEMMA GoodIdsHold == StepsNameNoId /\ Spec => []GoodIds
<1>1. Init => IdInv
  BY IsSeqShort DEF Init, IdInv
<1>2. StepsNameNoId /\ Spec => []IdInv
  <2> SUFFICES ASSUME StepsNameNoId PROVE Spec => []IdInv
    OBVIOUS
  <2>1. TaskInv /\ TreeInv /\ IdInv /\ [Next]_vars => IdInv'
    BY IdInvNext
  <2>2. QED
    BY <1>1, <2>1, TreeInvHolds, PTL DEF Spec
<1>3. QED
  BY <1>2, TreeInvHolds, GoodIdsFact, PTL

LEMMA EffectCancels ==
    ASSUME NEW a, NEW b, IdGood(a), IdGood(b), Effect(a) = Effect(b)
    PROVE  a = b
<1>1. a \in Seq(IdParts) /\ b \in Seq(IdParts)
  BY DEF IdGood
<1>2. "effect" \in IdParts \cup {"effect"} /\ Append(a, "effect") = Append(b, "effect")
  BY DEF Effect
<1>3. a \in Seq(IdParts \cup {"effect"}) /\ b \in Seq(IdParts \cup {"effect"})
  BY <1>1, SeqMonotonic
<1>4. QED
  BY <1>2, <1>3, AppendProperties

LEMMA EffectLength ==
    ASSUME NEW a, IdGood(a)
    PROVE  Len(Effect(a)) = Len(a) + 1 /\ Len(a) \in Nat /\ (Len(a) = 1 => Effect(a)[1] = a[1])
<1>1. a \in Seq(IdParts)
  BY DEF IdGood
<1>2. IsSeq(a)
  BY <1>1 DEF IsSeq
<1>3. Len(a) \in Nat /\ Len(Append(a, "effect")) = Len(a) + 1
  BY <1>1, <1>2, IsSeqAppend
<1>4. ASSUME Len(a) = 1 PROVE Append(a, "effect")[1] = a[1]
  <2>1. \A i \in 1 .. Len(a) : Append(a, "effect")[i] = a[i]
    BY <1>2, IsSeqAppend
  <2>2. QED
    BY <1>4, <2>1
<1>5. QED
  BY <1>3, <1>4 DEF Effect

LEMMA EffectNotDirect ==
    ASSUME NEW a, IdGood(a), NEW s, NEW id, id = <<0, s>>
    PROVE  Effect(a) # id
<1> SUFFICES ASSUME Effect(a) = id PROVE FALSE
  OBVIOUS
<1>1. Len(id) = 2 /\ id[1] = 0
  OBVIOUS
<1>2. Len(a) = 1 /\ Effect(a)[1] = a[1]
  BY <1>1, EffectLength
<1>3. QED
  BY <1>1, <1>2 DEF IdGood

LEMMA EffectNotTask ==
    ASSUME NEW a, NEW b, IdGood(a), IdGood(b), NEW s
    PROVE  Effect(a) # b /\ <<0, s>> # b
<1>1. PICK d \in Nat : Len(a) = 2 * d + 1
  BY DEF IdGood, OddLength
<1>2. PICK e \in Nat : Len(b) = 2 * e + 1
  BY DEF IdGood, OddLength
<1>3. Len(Effect(a)) = 2 * d + 2
  BY <1>1, EffectLength
<1>4. Len(<<0, s>>) = 2
  OBVIOUS
<1>5. 2 * d + 2 # 2 * e + 1 /\ 2 # 2 * e + 1
  OBVIOUS
<1>6. QED
  BY <1>2, <1>3, <1>4, <1>5
-----------------------------------------------------------------------------
(* What is queued: a request's effect task once the request has run, or what
   came straight from the host. Of two requests in one sequence the later one
   runs after the earlier one, so its effect task is queued after the other's. *)

HasRun(n) == n \in DOMAIN tasks /\ state[n] # "ready"
Origin(id) ==
    \/ \E n : HasRun(n) /\ id = Effect(tasks[n].id)
    \/ \E s \in 1 .. submitted : id = <<0, s>>
OriginInv == \A i \in DOMAIN issued : Origin(issued[i].id)
IssuedDistinct == \A i, j \in DOMAIN issued : i # j => issued[i].id # issued[j].id
SiblingInv ==
    \A i, j \in DOMAIN issued : \A m, n \in DOMAIN tasks :
      (/\ m < n /\ Strict(m, n)
       /\ issued[i].id = Effect(tasks[m].id) /\ issued[j].id = Effect(tasks[n].id)) => i < j
OrderInv == OriginInv /\ IssuedDistinct /\ SiblingInv

(* An effect task's source is the one task whose id it extends. *)
LEMMA SourceHasRun ==
    ASSUME GoodIds, OriginInv, NEW i \in DOMAIN issued, NEW n \in DOMAIN tasks,
           issued[i].id = Effect(tasks[n].id)
    PROVE  HasRun(n)
<1>1. IdGood(tasks[n].id)
  BY DEF GoodIds
<1>2. ASSUME NEW s, issued[i].id = <<0, s>> PROVE FALSE
  BY <1>1, <1>2, EffectNotDirect
<1>3. PICK m : HasRun(m) /\ issued[i].id = Effect(tasks[m].id)
  BY <1>2 DEF OriginInv, Origin
<1>4. m \in DOMAIN tasks /\ IdGood(tasks[m].id)
  BY <1>3 DEF GoodIds, HasRun
<1>5. tasks[m].id = tasks[n].id
  BY <1>1, <1>3, <1>4, EffectCancels
<1>6. m = n
  BY <1>4, <1>5 DEF GoodIds
<1>7. QED
  BY <1>3, <1>6

(* Tasks are added or answered, and none is queued. *)
LEMMA OrderQuiet ==
    ASSUME GoodIds, GoodIds', OrderInv, issued' = issued, submitted' = submitted,
           \A k \in DOMAIN tasks : /\ k \in DOMAIN tasks' /\ tasks'[k] = tasks[k]
                                   /\ state[k] # "ready" => state'[k] # "ready"
    PROVE  OrderInv'
<1>1. OriginInv'
  <2> SUFFICES ASSUME NEW i \in DOMAIN issued PROVE Origin(issued[i].id)'
    BY DEF OriginInv
  <2>1. CASE \E n : HasRun(n) /\ issued[i].id = Effect(tasks[n].id)
    <3>1. PICK n : HasRun(n) /\ issued[i].id = Effect(tasks[n].id)
      BY <2>1
    <3>2. HasRun(n)' /\ tasks'[n] = tasks[n]
      BY <3>1 DEF HasRun
    <3>3. QED
      BY <3>1, <3>2 DEF Origin
  <2>2. CASE \E s \in 1 .. submitted : issued[i].id = <<0, s>>
    BY <2>2 DEF Origin
  <2>3. QED
    BY <2>1, <2>2 DEF OrderInv, OriginInv, Origin
<1>2. IssuedDistinct'
  BY DEF OrderInv, IssuedDistinct
<1>3. SiblingInv'
  <2> SUFFICES ASSUME NEW i \in DOMAIN issued, NEW j \in DOMAIN issued,
                      NEW m \in DOMAIN tasks', NEW n \in DOMAIN tasks',
                      m < n, Strict(m, n)', issued[i].id = Effect(tasks'[m].id),
                      issued[j].id = Effect(tasks'[n].id)
               PROVE  i < j
    BY DEF SiblingInv
  <2>1. ASSUME NEW c \in DOMAIN issued, NEW k \in DOMAIN tasks', issued[c].id = Effect(tasks'[k].id)
        PROVE  k \in DOMAIN tasks /\ tasks'[k] = tasks[k]
    <3>1. IdGood(tasks'[k].id)
      BY DEF GoodIds
    <3>2. ASSUME NEW s, issued[c].id = <<0, s>> PROVE FALSE
      BY <2>1, <3>1, <3>2, EffectNotDirect
    <3>3. PICK o : HasRun(o) /\ issued[c].id = Effect(tasks[o].id)
      BY <3>2 DEF OrderInv, OriginInv, Origin
    <3>4. o \in DOMAIN tasks /\ o \in DOMAIN tasks' /\ tasks'[o] = tasks[o] /\ IdGood(tasks[o].id)
      BY <3>3 DEF GoodIds, HasRun
    <3>5. tasks[o].id = tasks'[k].id
      BY <2>1, <3>1, <3>3, <3>4, EffectCancels
    <3>6. o = k
      BY <3>4, <3>5 DEF GoodIds
    <3>7. QED
      BY <3>4, <3>6
  <2>2. /\ m \in DOMAIN tasks /\ tasks'[m] = tasks[m]
        /\ n \in DOMAIN tasks /\ tasks'[n] = tasks[n]
    BY <2>1
  <2>3. Strict(m, n)
    BY <2>2 DEF Strict
  <2>4. QED
    BY <2>2, <2>3 DEF OrderInv, SiblingInv
<1>4. QED
  BY <1>1, <1>2, <1>3 DEF OrderInv

(* A request runs, which may queue its effect task. *)
LEMMA OrderRequest ==
    ASSUME TaskInv, GoodIds, SequencesInv, OrderInv, tasks' = tasks, submitted \in Nat,
           submitted' = submitted + 1,
           NEW n \in DOMAIN tasks, state[n] = "ready", state'[n] # "ready",
           \A k \in DOMAIN tasks : state[k] # "ready" => state'[k] # "ready",
           NEW last \in Nat, DOMAIN issued = 1 .. last,
           \A i \in DOMAIN issued' :
             \/ i \in DOMAIN issued /\ issued'[i] = issued[i]
             \/ i = last + 1 /\ issued'[i].id = Effect(tasks[n].id)
    PROVE  OrderInv'
<1>1. ASSUME NEW i \in DOMAIN issued, issued[i].id = Effect(tasks[n].id) PROVE FALSE
  BY <1>1, SourceHasRun DEF OrderInv, HasRun
<1>2. OriginInv'
  <2> SUFFICES ASSUME NEW i \in DOMAIN issued' PROVE Origin(issued[i].id)'
    BY DEF OriginInv
  <2>1. CASE i \in DOMAIN issued /\ issued'[i] = issued[i]
    <3>1. CASE \E k : HasRun(k) /\ issued[i].id = Effect(tasks[k].id)
      <4>1. PICK k : HasRun(k) /\ issued[i].id = Effect(tasks[k].id)
        BY <3>1
      <4>2. HasRun(k)' /\ tasks'[k] = tasks[k]
        BY <4>1 DEF HasRun
      <4>3. QED
        BY <2>1, <4>1, <4>2 DEF Origin
    <3>2. CASE \E s \in 1 .. submitted : issued[i].id = <<0, s>>
      <4>1. PICK s \in 1 .. submitted : issued[i].id = <<0, s>>
        BY <3>2
      <4>2. s \in 1 .. submitted'
        OBVIOUS
      <4>3. QED
        BY <2>1, <4>1, <4>2 DEF Origin
    <3>3. QED
      BY <2>1, <3>1, <3>2 DEF OrderInv, OriginInv, Origin
  <2>2. CASE i = last + 1 /\ issued'[i].id = Effect(tasks[n].id)
    BY <2>2 DEF Origin, HasRun
  <2>3. QED
    BY <2>1, <2>2
<1>3. ASSUME NEW i \in DOMAIN issued', NEW j \in DOMAIN issued', i # j
      PROVE  issued'[i].id # issued'[j].id
  <2>1. CASE i \in DOMAIN issued /\ issued'[i] = issued[i]
    <3>1. CASE j \in DOMAIN issued /\ issued'[j] = issued[j]
      BY <1>3, <2>1, <3>1 DEF OrderInv, IssuedDistinct
    <3>2. CASE j = last + 1 /\ issued'[j].id = Effect(tasks[n].id)
      BY <1>1, <2>1, <3>2
    <3>3. QED
      BY <3>1, <3>2
  <2>2. CASE i = last + 1 /\ issued'[i].id = Effect(tasks[n].id)
    <3>1. j \in DOMAIN issued /\ issued'[j] = issued[j]
      BY <1>3, <2>2
    <3>2. QED
      BY <1>1, <2>2, <3>1
  <2>3. QED
    BY <2>1, <2>2
<1>4. SiblingInv'
  <2> SUFFICES ASSUME NEW i \in DOMAIN issued', NEW j \in DOMAIN issued',
                      NEW m \in DOMAIN tasks, NEW k \in DOMAIN tasks,
                      m < k, Strict(m, k), issued'[i].id = Effect(tasks[m].id),
                      issued'[j].id = Effect(tasks[k].id)
               PROVE  i < j
    BY DEF SiblingInv, Strict
  <2>1. IdGood(tasks[m].id) /\ IdGood(tasks[k].id) /\ IdGood(tasks[n].id)
    BY DEF GoodIds
  <2>2. CASE i \in DOMAIN issued /\ issued'[i] = issued[i]
    <3>1. CASE j \in DOMAIN issued /\ issued'[j] = issued[j]
      BY <2>2, <3>1 DEF OrderInv, SiblingInv
    <3>2. CASE j = last + 1
      BY <2>2, <3>2
    <3>3. QED
      BY <3>1, <3>2
  <2>3. CASE i = last + 1 /\ issued'[i].id = Effect(tasks[n].id)
    <3>1. tasks[m].id = tasks[n].id
      BY <2>1, <2>3, EffectCancels
    <3>2. m = n
      BY <3>1 DEF GoodIds
    <3>3. CASE j \in DOMAIN issued /\ issued'[j] = issued[j]
      <4>1. HasRun(k)
        BY <3>3, SourceHasRun DEF OrderInv
      <4>2. state[m] # "ready"
        BY <4>1 DEF SequencesInv, HasRun
      <4>3. QED
        BY <3>2, <4>2
    <3>4. CASE j = last + 1 /\ issued'[j].id = Effect(tasks[n].id)
      <4>1. tasks[k].id = tasks[n].id
        BY <2>1, <3>4, EffectCancels
      <4>2. k = n
        BY <4>1 DEF GoodIds
      <4>3. m \in Nat
        BY IsSeqFacts DEF TaskInv
      <4>4. QED
        BY <3>2, <4>2, <4>3
    <3>5. QED
      BY <3>3, <3>4
  <2>4. QED
    BY <2>2, <2>3
<1>5. QED
  BY <1>2, <1>3, <1>4 DEF OrderInv, IssuedDistinct

(* The host queues an effect task itself. *)
LEMMA OrderDirect ==
    ASSUME GoodIds, OrderInv, tasks' = tasks, state' = state, submitted \in Nat,
           submitted' = submitted + 1,
           NEW last \in Nat, DOMAIN issued = 1 .. last,
           \A i \in DOMAIN issued' :
             \/ i \in DOMAIN issued /\ issued'[i] = issued[i]
             \/ i = last + 1 /\ issued'[i].id = <<0, submitted + 1>>
    PROVE  OrderInv'
<1>1. ASSUME NEW i \in DOMAIN issued, issued[i].id = <<0, submitted + 1>> PROVE FALSE
  <2>1. CASE \E n : HasRun(n) /\ issued[i].id = Effect(tasks[n].id)
    <3>1. PICK n \in DOMAIN tasks : issued[i].id = Effect(tasks[n].id)
      BY <2>1 DEF HasRun
    <3>2. IdGood(tasks[n].id)
      BY DEF GoodIds
    <3>3. QED
      BY <1>1, <3>1, <3>2, EffectNotDirect
  <2>2. CASE \E s \in 1 .. submitted : issued[i].id = <<0, s>>
    <3>1. PICK s \in 1 .. submitted : issued[i].id = <<0, s>>
      BY <2>2
    <3>2. s = submitted + 1
      BY <1>1, <3>1
    <3>3. QED
      BY <3>2
  <2>3. QED
    BY <2>1, <2>2 DEF OrderInv, OriginInv, Origin
<1>2. OriginInv'
  <2> SUFFICES ASSUME NEW i \in DOMAIN issued' PROVE Origin(issued[i].id)'
    BY DEF OriginInv
  <2>1. CASE i \in DOMAIN issued /\ issued'[i] = issued[i]
    <3>1. CASE \E k : HasRun(k) /\ issued[i].id = Effect(tasks[k].id)
      BY <2>1, <3>1 DEF Origin, HasRun
    <3>2. CASE \E s \in 1 .. submitted : issued[i].id = <<0, s>>
      <4>1. PICK s \in 1 .. submitted : issued[i].id = <<0, s>>
        BY <3>2
      <4>2. s \in 1 .. submitted'
        OBVIOUS
      <4>3. QED
        BY <2>1, <4>1, <4>2 DEF Origin
    <3>3. QED
      BY <2>1, <3>1, <3>2 DEF OrderInv, OriginInv, Origin
  <2>2. CASE i = last + 1 /\ issued'[i].id = <<0, submitted + 1>>
    <3>1. submitted' \in 1 .. submitted' /\ issued'[i].id = <<0, submitted'>>
      BY <2>2
    <3>2. QED
      BY <3>1 DEF Origin
  <2>3. QED
    BY <2>1, <2>2
<1>3. ASSUME NEW i \in DOMAIN issued', NEW j \in DOMAIN issued', i # j
      PROVE  issued'[i].id # issued'[j].id
  <2>1. CASE i \in DOMAIN issued /\ issued'[i] = issued[i]
    <3>1. CASE j \in DOMAIN issued /\ issued'[j] = issued[j]
      BY <1>3, <2>1, <3>1 DEF OrderInv, IssuedDistinct
    <3>2. CASE j = last + 1 /\ issued'[j].id = <<0, submitted + 1>>
      BY <1>1, <2>1, <3>2
    <3>3. QED
      BY <3>1, <3>2
  <2>2. CASE i = last + 1 /\ issued'[i].id = <<0, submitted + 1>>
    <3>1. j \in DOMAIN issued /\ issued'[j] = issued[j]
      BY <1>3, <2>2
    <3>2. QED
      BY <1>1, <2>2, <3>1
  <2>3. QED
    BY <2>1, <2>2
<1>4. SiblingInv'
  <2> SUFFICES ASSUME NEW i \in DOMAIN issued', NEW j \in DOMAIN issued',
                      NEW m \in DOMAIN tasks, NEW k \in DOMAIN tasks,
                      m < k, Strict(m, k), issued'[i].id = Effect(tasks[m].id),
                      issued'[j].id = Effect(tasks[k].id)
               PROVE  i < j
    BY DEF SiblingInv, Strict
  <2>1. ASSUME NEW c \in DOMAIN issued', NEW n \in DOMAIN tasks, issued'[c].id = Effect(tasks[n].id)
        PROVE  c \in DOMAIN issued /\ issued'[c] = issued[c]
    <3>1. IdGood(tasks[n].id)
      BY DEF GoodIds
    <3>2. issued'[c].id # <<0, submitted + 1>>
      BY <2>1, <3>1, EffectNotDirect
    <3>3. QED
      BY <3>2
  <2>2. /\ i \in DOMAIN issued /\ issued'[i] = issued[i]
        /\ j \in DOMAIN issued /\ issued'[j] = issued[j]
    BY <2>1
  <2>3. QED
    BY <2>2 DEF OrderInv, SiblingInv
<1>5. QED
  BY <1>2, <1>3, <1>4 DEF OrderInv, IssuedDistinct
LEMMA FacadeQueues ==
    ASSUME RuntimeInv, NEW source, NEW refused, NEW table, RunFacade(source, refused, table)
    PROVE  \A i \in DOMAIN issued' :
             \/ i \in DOMAIN issued /\ issued'[i] = issued[i]
             \/ i = Len(issued) + 1 /\ issued'[i].id = Effect(source.id)
<1>1. PICK n \in Nat : n = Len(issued) /\ DOMAIN issued = 1 .. n /\ IsSeq(issued)
  BY IsSeqFacts DEF RuntimeInv, QueueInv
<1>2. PICK news : /\ issued' = issued \o news
                  /\ news = IF refused THEN <<>> ELSE DeriveEffectFromPair(source, table)
  BY DEF RunFacade, Enqueue
<1>3. news = <<>> \/ \E task : news = <<task>> /\ task.id = Effect(source.id)
  BY <1>2 DEF DeriveEffectFromPair, DeriveEffectTask, Task, Effect
<1>4. CASE news = <<>>
  BY <1>1, <1>2, <1>4, IsSeqConcat, IsSeqShort
<1>5. ASSUME NEW task, news = <<task>>, task.id = Effect(source.id)
      PROVE  \A i \in DOMAIN issued' :
               \/ i \in DOMAIN issued /\ issued'[i] = issued[i]
               \/ i = Len(issued) + 1 /\ issued'[i].id = Effect(source.id)
  <2>1. issued' = issued \o <<task>>
    BY <1>2, <1>5
  <2>2. IsSeq(<<task>>) /\ Len(<<task>>) = 1 /\ <<task>>[1] = task
    BY IsSeqShort
  <2>3. /\ DOMAIN issued' = 1 .. n + 1 /\ issued'[n + 1] = task
        /\ \A i \in 1 .. n : issued'[i] = issued[i]
    BY <1>1, <2>1, <2>2, IsSeqConcat
  <2>4. \A i \in 1 .. n + 1 : i \in 1 .. n \/ i = n + 1
    BY <1>1
  <2>5. QED
    BY <1>1, <1>5, <2>3, <2>4
<1>6. QED
  BY <1>3, <1>4, <1>5

LEMMA DirectQueues ==
    ASSUME RuntimeInv, NEW task, SubmitEffect(task)
    PROVE  \A i \in DOMAIN issued' :
             \/ i \in DOMAIN issued /\ issued'[i] = issued[i]
             \/ i = Len(issued) + 1 /\ issued'[i] = task
<1>1. PICK n \in Nat : n = Len(issued) /\ DOMAIN issued = 1 .. n /\ IsSeq(issued)
  BY IsSeqFacts DEF RuntimeInv, QueueInv
<1>2. /\ DOMAIN issued' = 1 .. n + 1 /\ issued'[n + 1] = task
      /\ \A i \in 1 .. n : issued'[i] = issued[i]
  BY <1>1, IsSeqConcat, IsSeqShort DEF SubmitEffect, Enqueue
<1>3. \A i \in 1 .. n + 1 : i \in 1 .. n \/ i = n + 1
  BY <1>1
<1>4. QED
  BY <1>1, <1>2, <1>3

(* The HTTP runner takes tasks from the queue and puts none there. *)
LEMMA RunnerQueuesNone ==
    ASSUME HttpDispatch \/ Server \/ (\E w \in Workers : EffectStep(w) \/ HttpAnswer(w)) \/ HttpCrash
    PROVE  issued' = issued /\ submitted' = submitted
<1>1. CASE HttpDispatch
  BY <1>1 DEF HttpDispatch, Dispatch
<1>2. CASE Server
  BY <1>2 DEF Server, ServerSends, ServerCloses, runtimeVars
<1>3. ASSUME NEW w \in Workers, EffectStep(w) PROVE issued' = issued /\ submitted' = submitted
  <2>1. ASSUME NEW result, Finish(w, result) PROVE issued' = issued /\ submitted' = submitted
    BY <2>1 DEF Finish, FinishEntry
  <2>2. ASSUME NEW code, Fail(w, code) PROVE issued' = issued /\ submitted' = submitted
    BY <2>1, <2>2 DEF Fail
  <2>3. QED
    BY <1>3, <2>1, <2>2
       DEF EffectStep, Refuse, Connect, Send, ReadEnds, ReadTimesOut, runtimeVars
<1>4. ASSUME NEW w \in Workers, HttpAnswer(w) PROVE issued' = issued /\ submitted' = submitted
  BY <1>4 DEF HttpAnswer, Answer
<1>5. CASE HttpCrash
  BY <1>5 DEF HttpCrash, Crash
<1>6. QED
  BY <1>1, <1>2, <1>3, <1>4, <1>5

(* Tasks only come, and what has run is not ready again. *)
LEMMA TasksStay ==
    ASSUME TaskInv, Submit \/ (\E n \in DOMAIN tasks : Run(n)) \/ ProcessCrash \/ UNCHANGED workflowVars
    PROVE  \A k \in DOMAIN tasks : /\ k \in DOMAIN tasks' /\ tasks'[k] = tasks[k]
                                   /\ state[k] # "ready" => state'[k] # "ready"
<1>1. ASSUME NEW news, IsSeq(news), tasks' = tasks \o news
      PROVE  \A k \in DOMAIN tasks : k \in DOMAIN tasks' /\ tasks'[k] = tasks[k]
  <2>1. PICK N \in Nat, C \in Nat : N = Len(tasks) /\ DOMAIN tasks = 1 .. N /\ C = Len(news)
    BY <1>1, IsSeqFacts DEF TaskInv
  <2>2. DOMAIN tasks' = 1 .. N + C /\ \A k \in 1 .. N : tasks'[k] = tasks[k]
    BY <1>1, <2>1, IsSeqConcat DEF TaskInv
  <2>3. QED
    BY <2>1, <2>2
<1>2. CASE Submit
  <2>1. PICK s \in Submissions : \E news :
          /\ IsSeq(news) /\ tasks' = tasks \o news /\ \A k \in DOMAIN tasks : state'[k] = state[k]
    BY <1>2, SubmitFact
  <2>2. QED
    BY <1>1, <2>1
<1>3. ASSUME NEW n \in DOMAIN tasks, NEW answer, NEW children, IsSeq(children),
             Answers(n, answer, children), Ready(n)
      PROVE  \A k \in DOMAIN tasks : state[k] # "ready" => state'[k] # "ready"
  <2>1. \A k \in DOMAIN tasks : state'[k] = IF k = n THEN answer ELSE state[k]
    BY <1>3, AnswerStates
  <2>2. QED
    BY <1>3, <2>1 DEF Ready
<1>4. ASSUME NEW n \in DOMAIN tasks, Run(n)
      PROVE  \A k \in DOMAIN tasks : /\ k \in DOMAIN tasks' /\ tasks'[k] = tasks[k]
                                     /\ state[k] # "ready" => state'[k] # "ready"
  <2>1. IsSeq(<<>>)
    BY IsSeqShort
  <2>2. CASE RunLinear(n) \/ RunBroadcast(n)
    <3>1. Ready(n)
      BY <2>2, DerivesFact
    <3>2. CASE \E answer : Answers(n, answer, <<>>) /\ answer # "ok" /\ tasks' = tasks
      BY <1>3, <2>1, <3>1, <3>2
    <3>3. CASE \E children :
                 IsSeq(children) /\ tasks' = tasks \o children /\ Answers(n, "ok", children)
      BY <1>1, <1>3, <3>1, <3>3
    <3>4. QED
      BY <2>2, <3>2, <3>3, DerivesFact
  <2>3. CASE RunRequest(n)
    BY <1>3, <2>1, <2>3 DEF RunRequest
  <2>4. CASE RunPure(n)
    <3>1. tasks' = tasks
      BY <2>4 DEF RunPure, Derive, TaskInv, IsSeq
    <3>2. QED
      BY <1>3, <2>1, <2>4, <3>1 DEF RunPure
  <2>5. QED
    BY <1>4, <2>2, <2>3, <2>4 DEF Run
<1>5. CASE ProcessCrash
  <2>1. DOMAIN tasks = DOMAIN state
    BY IsSeqFacts DEF TaskInv
  <2>2. QED
    BY <1>5, <2>1 DEF ProcessCrash
<1>6. CASE UNCHANGED workflowVars
  BY <1>6 DEF workflowVars
<1>7. QED
  BY <1>2, <1>4, <1>5, <1>6
LEMMA OrderInvNext ==
    HttpInv /\ TaskInv /\ TreeInv /\ GoodIds /\ GoodIds' /\ OrderInv /\ [Next]_vars => OrderInv'
<1> SUFFICES ASSUME HttpInv, TaskInv, TreeInv, GoodIds, GoodIds', OrderInv, [Next]_vars
             PROVE  OrderInv'
  OBVIOUS
<1>1. PICK last \in Nat : last = Len(issued) /\ DOMAIN issued = 1 .. last
  BY IsSeqFacts DEF HttpInv, RuntimeInv, QueueInv
<1>2. submitted \in Nat
  BY WorkersFacts DEF HttpInv, RuntimeInv, CountersInv
<1>3. SequencesInv
  BY DEF TreeInv
<1>4. ASSUME issued' = issued, submitted' = submitted,
             Submit \/ (\E n \in DOMAIN tasks : Run(n)) \/ ProcessCrash \/ UNCHANGED workflowVars
      PROVE  OrderInv'
  BY <1>4, TasksStay, OrderQuiet
<1>5. CASE Submit
  BY <1>4, <1>5 DEF Submit, Derive, runtimeVars
<1>6. CASE SubmitDirect
  <2>1. PICK task : SubmitEffect(task) /\ task.id = <<0, submitted + 1>>
    BY <1>6 DEF SubmitDirect, Task
  <2>2. tasks' = tasks /\ state' = state /\ submitted' = submitted + 1
    BY <1>6, <2>1 DEF SubmitDirect, SubmitEffect, workflowVars
  <2>3. \A i \in DOMAIN issued' :
          \/ i \in DOMAIN issued /\ issued'[i] = issued[i]
          \/ i = last + 1 /\ issued'[i].id = <<0, submitted + 1>>
    BY <1>1, <2>1, DirectQueues DEF HttpInv
  <2>4. QED
    BY <1>1, <1>2, <2>2, <2>3, OrderDirect
<1>7. ASSUME NEW n \in DOMAIN tasks, RunRequest(n) PROVE OrderInv'
  <2>1. PICK answer : answer \in {"ok", "refused"} /\ Answers(n, answer, <<>>)
    BY <1>7 DEF RunRequest
  <2>2. \A k \in DOMAIN tasks : state'[k] = IF k = n THEN answer ELSE state[k]
    BY <2>1, AnswerStates, IsSeqShort
  <2>3. state[n] = "ready" /\ state'[n] # "ready"
    BY <1>7, <2>1, <2>2 DEF RunRequest, Ready
  <2>4. \A k \in DOMAIN tasks : state[k] # "ready" => state'[k] # "ready"
    BY <2>2, <2>3
  <2>5. tasks' = tasks /\ submitted' = submitted + 1
    BY <1>7 DEF RunRequest, RunFacade
  <2>6. \A i \in DOMAIN issued' :
          \/ i \in DOMAIN issued /\ issued'[i] = issued[i]
          \/ i = last + 1 /\ issued'[i].id = Effect(tasks[n].id)
    BY <1>1, <1>7, FacadeQueues DEF RunRequest, HttpInv
  <2>7. QED
    BY <1>1, <1>2, <1>3, <2>3, <2>4, <2>5, <2>6, OrderRequest
<1>8. ASSUME NEW n \in DOMAIN tasks, Run(n) PROVE OrderInv'
  <2>1. CASE RunLinear(n) \/ RunBroadcast(n) \/ RunPure(n)
    BY <1>4, <1>8, <2>1 DEF RunLinear, RunBroadcast, RunPure, Derive, runtimeVars
  <2>2. QED
    BY <1>7, <1>8, <2>1 DEF Run
<1>9. CASE HttpDispatch \/ Server \/ \E w \in Workers : EffectStep(w) \/ HttpAnswer(w)
  <2>1. issued' = issued /\ submitted' = submitted
    BY <1>9, RunnerQueuesNone
  <2>2. CASE UNCHANGED workflowVars
    BY <1>4, <2>1, <2>2
  <2>3. QED
    BY <1>4, <1>5, <1>6, <1>8, <2>1, <2>2 DEF Next, vars, ProcessCrash
<1>10. CASE ProcessCrash
  BY <1>4, <1>10, RunnerQueuesNone DEF ProcessCrash
<1>11. CASE UNCHANGED vars
  BY <1>4, <1>11 DEF vars, runtimeVars
<1>12. QED
  BY <1>5, <1>6, <1>8, <1>9, <1>10, <1>11 DEF Next

LEMMA OrderInvHolds == StepsNameNoId /\ Spec => [](HttpInv /\ TaskInv /\ TreeInv /\ GoodIds /\ OrderInv)
<1> SUFFICES ASSUME StepsNameNoId PROVE Spec => [](HttpInv /\ TaskInv /\ TreeInv /\ GoodIds /\ OrderInv)
  OBVIOUS
<1>1. Init => OrderInv
  BY IsSeqShort, IsSeqFacts
     DEF Init, HttpInit, RuntimeInit, OrderInv, OriginInv, IssuedDistinct, SiblingInv
<1>2. Spec => []GoodIds
  BY GoodIdsHold
<1>3. QED
  BY <1>1, <1>2, HttpInvHolds, TreeInvHolds, OrderInvNext, PTL DEF Spec

(* When no step brings an id of its own, the ids that workflows, the facade and
   the host make up never meet, at any depth of nesting (workflow-linear
   lib.rs:152, workflow-broadcast lib.rs:135, std-effect lib.rs:108). *)
THEOREM IdsNeverMeet == StepsNameNoId /\ Spec => []IdsDistinct
<1>1. GoodIds /\ OrderInv => IdsDistinct
  <2> SUFFICES ASSUME GoodIds, OrderInv, NEW i \in DOMAIN issued, NEW n \in DOMAIN tasks,
                      issued[i].id = tasks[n].id
               PROVE  FALSE
    BY DEF IdsDistinct, GoodIds, OrderInv, IssuedDistinct
  <2>1. IdGood(tasks[n].id)
    BY DEF GoodIds
  <2>2. ASSUME NEW m \in DOMAIN tasks, issued[i].id = Effect(tasks[m].id) PROVE FALSE
    <3>1. IdGood(tasks[m].id)
      BY DEF GoodIds
    <3>2. QED
      BY <2>1, <2>2, <3>1, EffectNotTask
  <2>3. ASSUME NEW s, issued[i].id = <<0, s>> PROVE FALSE
    BY <2>1, <2>3, EffectNotTask
  <2>4. QED
    BY <2>2, <2>3 DEF OrderInv, OriginInv, Origin, HasRun
<1>2. QED
  BY <1>1, OrderInvHolds, PTL

(* The steps of a linear workflow are of one sequence. *)
LEMMA StepsAreStrict ==
    ASSUME TaskInv, TreeInv, GoodIds, NEW m \in DOMAIN tasks, NEW n \in DOMAIN tasks,
           tasks[m].parent = tasks[n].parent, tasks[m].parent # 0,
           tasks[tasks[m].parent].protocol = Linear
    PROVE  Strict(m, n)
<1>1. PICK N \in Nat : N = Len(tasks) /\ DOMAIN tasks = 1 .. N
  BY IsSeqFacts DEF TaskInv
<1>2. tasks[m].parent \in 1 .. N
  <2>1. tasks[m].parent \in 0 .. m - 1
    BY DEF TaskInv, TaskOK
  <2>2. QED
    BY <1>1, <2>1
<1>3. PICK p \in 1 .. N : p = tasks[m].parent
  BY <1>2
<1>4. HasDerived(p)
  BY <1>3 DEF TreeInv, ParentsInv
<1>5. PICK before \in Nat : WholeFrom(p, before)
  BY <1>1, <1>4 DEF TreeInv, WholeInv
<1>6. PICK len \in Nat : len = StepCount(p)
  <2>1. Derivable(tasks[p])
    BY <1>1, <1>4 DEF TreeInv, WholeInv
  <2>2. QED
    BY <1>1, <1>4, <2>1, StepsFact DEF StepCount, HasDerived, IsWorkflow
<1>7. ASSUME NEW k \in 1 .. N, tasks[k].parent = p
      PROVE  \E i \in 1 .. len : tasks[k] = StepTask(p, i)
  <2>1. before < k /\ k =< before + len
    BY <1>1, <1>5, <1>6, <1>7 DEF WholeFrom
  <2>2. PICK i \in 1 .. len : k = before + i
    <3>1. k - before \in 1 .. len /\ k = before + (k - before)
      BY <2>1
    <3>2. QED
      BY <3>1
  <2>3. tasks[k] = ChildTask(p, i)
    BY <1>5, <1>6, <2>2 DEF WholeFrom
  <2>4. QED
    BY <1>3, <2>3 DEF ChildTask
<1>8. PICK i, j : tasks[m] = StepTask(p, i) /\ tasks[n] = StepTask(p, j)
  BY <1>1, <1>3, <1>7
<1>9. PICK sequence : \A k : SequenceId(tasks[p], k) = sequence
  BY DEF SequenceId
<1>10. sequence # None
  <2>1. CASE tasks[p].payload.sequence = None
    <3>1. PICK id : id = tasks[p].id /\ id \in Seq(IdParts)
      BY <1>1 DEF GoodIds, IdGood
    <3>2. PICK word : word = <<"workflow.linear">>
      OBVIOUS
    <3>3. word \in Seq(IdParts)
      BY <3>2 DEF IdParts
    <3>4. sequence = word \o id
      BY <1>9, <2>1, <3>1, <3>2 DEF SequenceId
    <3>5. sequence \in Seq(IdParts)
      BY <3>1, <3>3, <3>4, ConcatProperties
    <3>6. QED
      BY <3>5, NoneIsNoId
  <2>2. CASE tasks[p].payload.sequence # None
    BY <1>9, <2>2 DEF SequenceId
  <2>3. QED
    BY <2>1, <2>2
<1>11. QED
  BY <1>8, <1>9, <1>10 DEF Strict, StepTask, Node

(* The requests of one linear workflow reach their servers in the order of its
   steps, whatever runs in between, fails or crashes, when no step brings an id
   of its own (StrictSequence, workflow-linear lib.rs:187; preserve_order and
   max_inflight_batches, io-http-client lib.rs:140). *)
THEOREM RequestsKeepStepOrder == StepsNameNoId /\ Spec => []RequestsFollowSteps
<1>1. HttpInv /\ TaskInv /\ TreeInv /\ GoodIds /\ OrderInv => RequestsFollowSteps
  <2> SUFFICES ASSUME HttpInv, TaskInv, TreeInv, GoodIds, OrderInv,
                      NEW a \in DOMAIN server, NEW b \in DOMAIN server,
                      NEW m \in DOMAIN tasks, NEW n \in DOMAIN tasks,
                      m < n, tasks[m].parent = tasks[n].parent, tasks[m].parent # 0,
                      tasks[tasks[m].parent].protocol = Linear,
                      issued[server[a].task].id = EffectOf(m), issued[server[b].task].id = EffectOf(n)
               PROVE  a < b
    BY DEF RequestsFollowSteps
  <2>1. PICK i \in Nat, j \in Nat : /\ i = server[a].task /\ j = server[b].task
                                    /\ i \in DOMAIN issued /\ j \in DOMAIN issued
    <3>1. taken \in Nat /\ taken =< Len(issued) /\ DOMAIN issued = 1 .. Len(issued) /\ Len(issued) \in Nat
      BY IsSeqFacts DEF HttpInv, RuntimeInv, CountersInv, QueueInv
    <3>2. \A c \in DOMAIN server : server[c].task \in Nat /\ 1 =< server[c].task /\ server[c].task =< taken
      BY DEF HttpInv, ServerInv
    <3>3. \A c \in DOMAIN server : server[c].task \in Nat /\ server[c].task \in DOMAIN issued
      BY <3>1, <3>2
    <3>4. QED
      BY <3>3
  <2>2. Strict(m, n)
    BY StepsAreStrict
  <2>3. i < j
    BY <2>1, <2>2 DEF OrderInv, SiblingInv, EffectOf, Effect
  <2>4. a \in Nat /\ b \in Nat
    BY IsSeqFacts DEF HttpInv, ServerInv
  <2>5. a # b /\ ~(b < a)
    <3>1. b < a => j < i
      BY <2>1 DEF HttpInv, ServerInv, RequestsOnceInOrder
    <3>2. a = b => i = j
      BY <2>1
    <3>3. QED
      BY <2>3, <3>1, <3>2
  <2>6. QED
    BY <2>4, <2>5
<1>2. QED
  BY <1>1, OrderInvHolds, PTL
=============================================================================
