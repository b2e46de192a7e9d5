------------------------- MODULE EffectRuntimeProofs -------------------------
(* Lemmas about EffectRuntime that the plugins' proofs share. Every effect
   runner allows one batch at a time, so the invariant is of that case: the
   queue, the answers and the one batch under way fit together, and what has
   left the queue unanswered is in that batch or was lost in a crash. *)
EXTENDS EffectRuntime, FiniteSetTheorems, SequenceTheorems, WellFoundedInduction, TLAPS

IsSeq(s) == \E S : s \in Seq(S)

-----------------------------------------------------------------------------
(* Sequences whose elements have no type. *)

LEMMA IsSeqFacts ==
    ASSUME NEW s, IsSeq(s)
    PROVE  Len(s) \in Nat /\ DOMAIN s = 1 .. Len(s)
<1>1. PICK S : s \in Seq(S)
  BY DEF IsSeq
<1>2. QED
  BY <1>1

LEMMA IsSeqFunction ==
    ASSUME NEW n \in Nat, NEW f, DOMAIN f = 1 .. n, f = [i \in 1 .. n |-> f[i]]
    PROVE  IsSeq(f) /\ Len(f) = n
<1> DEFINE S == {f[i] : i \in 1 .. n}
<1>1. f \in [1 .. n -> S]
  OBVIOUS
<1>2. f \in Seq(S)
  BY <1>1
<1>3. Len(f) = n
  BY <1>1, <1>2, LenProperties
<1>4. QED
  BY <1>2, <1>3 DEF IsSeq

LEMMA IsSeqConcat ==
    ASSUME NEW s, NEW t, IsSeq(s), IsSeq(t)
    PROVE  /\ IsSeq(s \o t)
           /\ Len(s \o t) = Len(s) + Len(t)
           /\ DOMAIN (s \o t) = 1 .. Len(s) + Len(t)
           /\ \A i \in 1 .. Len(s) : (s \o t)[i] = s[i]
           /\ \A i \in 1 .. Len(t) : (s \o t)[Len(s) + i] = t[i]
<1>1. PICK S : s \in Seq(S)
  BY DEF IsSeq
<1>2. PICK T : t \in Seq(T)
  BY DEF IsSeq
<1> DEFINE U == S \cup T
<1>3. s \in Seq(U) /\ t \in Seq(U)
  BY <1>1, <1>2, SeqMonotonic
<1>4. /\ s \o t \in Seq(U)
      /\ Len(s \o t) = Len(s) + Len(t)
      /\ \A i \in 1 .. Len(s) + Len(t) :
            (s \o t)[i] = IF i =< Len(s) THEN s[i] ELSE t[i - Len(s)]
  BY <1>3, ConcatProperties
<1>5. Len(s) \in Nat /\ Len(t) \in Nat
  BY <1>3
<1>6. IsSeq(s \o t)
  BY <1>4 DEF IsSeq
<1>7. DOMAIN (s \o t) = 1 .. Len(s) + Len(t)
  BY <1>4
<1>8. \A i \in 1 .. Len(s) : (s \o t)[i] = s[i]
  BY <1>4, <1>5
<1>9. \A i \in 1 .. Len(t) : (s \o t)[Len(s) + i] = t[i]
  <2> SUFFICES ASSUME NEW i \in 1 .. Len(t) PROVE (s \o t)[Len(s) + i] = t[i]
    OBVIOUS
  <2>1. Len(s) + i \in 1 .. Len(s) + Len(t) /\ ~(Len(s) + i =< Len(s)) /\ (Len(s) + i) - Len(s) = i
    BY <1>5
  <2>2. QED
    BY <1>4, <2>1
<1>10. QED
  BY <1>4, <1>6, <1>7, <1>8, <1>9

LEMMA IsSeqAppend ==
    ASSUME NEW s, NEW e, IsSeq(s)
    PROVE  /\ IsSeq(Append(s, e))
           /\ Len(Append(s, e)) = Len(s) + 1
           /\ DOMAIN Append(s, e) = 1 .. Len(s) + 1
           /\ \A i \in 1 .. Len(s) : Append(s, e)[i] = s[i]
           /\ Append(s, e)[Len(s) + 1] = e
<1>1. PICK S : s \in Seq(S)
  BY DEF IsSeq
<1> DEFINE U == S \cup {e}
<1>2. s \in Seq(U) /\ e \in U
  BY <1>1, SeqMonotonic
<1>3. Append(s, e) \in Seq(U)
  BY <1>2, AppendProperties
<1>4. QED
  BY <1>2, <1>3, AppendProperties DEF IsSeq

LEMMA IsSeqShort == /\ IsSeq(<<>>) /\ Len(<<>>) = 0
                    /\ \A e : IsSeq(<<e>>) /\ Len(<<e>>) = 1 /\ <<e>>[1] = e /\ DOMAIN <<e>> = {1}
<1>1. <<>> \in Seq({}) /\ Len(<<>>) = 0
  OBVIOUS
<1>2. ASSUME NEW e PROVE <<e>> \in Seq({e}) /\ Len(<<e>>) = 1 /\ <<e>>[1] = e /\ DOMAIN <<e>> = {1}
  OBVIOUS
<1>3. QED
  BY <1>1, <1>2 DEF IsSeq

(* A set of naturals has a least element: what stands in for induction where a
   recursive function is defined. *)
NatLess == {pair \in Nat \X Nat : pair[1] < pair[2]}
LEMMA NatLessWellFounded == IsWellFoundedOn(NatLess, Nat)
  BY NatLessThanWellFounded DEF OpToRel, NatLess

LEMMA LeastNatural ==
    ASSUME NEW S, S \subseteq Nat, S # {}
    PROVE  \E m \in S : \A n \in S : m =< n
<1>1. PICK m \in S : \A n \in S : ~ (<<n, m>> \in NatLess)
  BY NatLessWellFounded, WFMin
<1>2. \A n \in S : ~ (n < m) /\ n \in Nat /\ m \in Nat
  BY <1>1 DEF NatLess
<1>3. \A n \in S : m =< n
  BY <1>2
<1>4. QED
  BY <1>3

-----------------------------------------------------------------------------
(* The invariant. *)

BatchLength(b) == b.last + 1 - b.first

BatchOK(b) ==
    /\ b = Batch(b.first, b.last, b.results)
    /\ b.first \in Nat /\ b.last \in Nat
    /\ 1 =< b.first /\ b.first =< b.last
    /\ IsSeq(b.results)
    /\ Len(b.results) =< BatchLength(b)

(* Result(i) is still to come: i is in the queue or in the batch under way. *)
Unanswered(i) ==
    \/ taken < i
    \/ \E w \in Workers : batch[w] # NoBatch /\ i \in batch[w].first .. batch[w].last

CountersInv ==
    /\ submitted \in 0 .. MaxTasks
    /\ taken \in Nat
    /\ crashes \in 0 .. MaxCrashes
QueueInv ==
    /\ IsSeq(issued) /\ IsSeq(outcome)
    /\ Len(outcome) = Len(issued)
    /\ taken =< Len(issued)
    /\ Len(issued) =< submitted
BatchInv ==
    /\ batch = [w \in Workers |-> batch[w]]
    /\ \A w \in Workers : batch[w] # NoBatch => BatchOK(batch[w]) /\ batch[w].last = taken
OneBatch == \A v, w \in Workers : batch[v] # NoBatch /\ batch[w] # NoBatch => v = w
UnansweredInv == \A i \in DOMAIN outcome : Unanswered(i) => outcome[i] = NoResult
RuntimeInv == CountersInv /\ QueueInv /\ BatchInv /\ OneBatch /\ UnansweredInv

(* Task i was given the answer r: its batch was answered, or still holds it. *)
Gave(i, r) ==
    \/ i \in DOMAIN outcome /\ outcome[i] = r /\ r # NoResult
    \/ \E w \in Workers, k \in Nat :
          /\ batch[w] # NoBatch
          /\ k \in 1 .. Len(batch[w].results)
          /\ i = batch[w].first + k - 1 /\ r = batch[w].results[k]

LEMMA WorkersFacts == IsFiniteSet(Workers) /\ MaxBatch \in Nat /\ MaxTasks \in Nat /\ MaxCrashes \in Nat
<1>1. {MaxWorkers, MaxTasks, MaxBatch, MaxCrashes} \subseteq Nat
  BY BoundsAssumption
<1>2. MaxWorkers \in Nat
  BY <1>1
<1>3. IsFiniteSet(1 .. MaxWorkers)
  BY <1>2, FS_Interval
<1>4. QED
  BY <1>1, <1>3 DEF Workers

(* The batch of a worker that has an entry to run. *)
LEMMA BusyFacts ==
    ASSUME RuntimeInv, NEW w \in Workers, Busy(w)
    PROVE  /\ batch[w] # NoBatch /\ BatchOK(batch[w])
           /\ Len(batch[w].results) \in Nat
           /\ Position(w) \in Nat /\ Position(w) = batch[w].first + Len(batch[w].results)
           /\ 1 =< Position(w) /\ Position(w) =< batch[w].last
           /\ batch[w].last = taken /\ taken \in Nat
           /\ Position(w) \in 1 .. taken
           /\ Position(w) \in DOMAIN issued
           /\ \A v \in Workers : batch[v] # NoBatch => v = w
<1>1. batch[w] # NoBatch /\ BatchOK(batch[w]) /\ batch[w].last = taken
  BY DEF RuntimeInv, BatchInv, Busy
<1>2. Len(batch[w].results) \in Nat
  BY <1>1, IsSeqFacts DEF BatchOK
<1>3. /\ Position(w) = batch[w].first + Len(batch[w].results)
      /\ Len(batch[w].results) < batch[w].last + 1 - batch[w].first
  BY DEF Position, Busy
<1>4. batch[w].first \in Nat /\ batch[w].last \in Nat /\ 1 =< batch[w].first
  BY <1>1 DEF BatchOK
<1>5. Position(w) \in Nat /\ 1 =< Position(w) /\ Position(w) =< batch[w].last
  BY <1>2, <1>3, <1>4
<1>6. taken \in Nat /\ taken =< Len(issued) /\ Len(issued) \in Nat /\ DOMAIN issued = 1 .. Len(issued)
  BY IsSeqFacts DEF RuntimeInv, CountersInv, QueueInv
<1>7. Position(w) \in 1 .. taken /\ Position(w) \in DOMAIN issued
  BY <1>1, <1>4, <1>5, <1>6
<1>8. \A v \in Workers : batch[v] # NoBatch => v = w
  BY <1>1 DEF RuntimeInv, OneBatch
<1>9. QED
  BY <1>1, <1>2, <1>3, <1>5, <1>6, <1>7, <1>8

(* A task that was given an answer is not the one a worker is at. *)
LEMMA GaveFacts ==
    ASSUME RuntimeInv, NEW i, NEW r, Gave(i, r)
    PROVE  /\ i \in Nat /\ 1 =< i /\ i =< taken
           /\ i \in DOMAIN issued
           /\ \A w \in Workers : Busy(w) => i # Position(w)
<1>1. /\ taken \in Nat /\ taken =< Len(issued) /\ Len(issued) \in Nat
      /\ DOMAIN issued = 1 .. Len(issued) /\ DOMAIN outcome = 1 .. Len(issued)
  BY IsSeqFacts DEF RuntimeInv, CountersInv, QueueInv
<1>2. CASE i \in DOMAIN outcome /\ outcome[i] = r /\ r # NoResult
  <2>1. ~Unanswered(i)
    BY <1>2 DEF RuntimeInv, UnansweredInv
  <2>2. i \in Nat /\ 1 =< i /\ i =< taken /\ i \in DOMAIN issued
    BY <1>1, <1>2, <2>1 DEF Unanswered
  <2>3. ASSUME NEW w \in Workers, Busy(w) PROVE i # Position(w)
    <3>1. Position(w) \in batch[w].first .. batch[w].last /\ batch[w] # NoBatch
      BY <2>3, BusyFacts DEF BatchOK
    <3>2. QED
      BY <2>1, <3>1 DEF Unanswered
  <2>4. QED
    BY <2>2, <2>3
<1>3. ASSUME NEW v \in Workers, NEW k \in Nat, batch[v] # NoBatch,
             k \in 1 .. Len(batch[v].results), i = batch[v].first + k - 1
      PROVE  /\ i \in Nat /\ 1 =< i /\ i =< taken /\ i \in DOMAIN issued
             /\ \A w \in Workers : Busy(w) => i # Position(w)
  <2>1. BatchOK(batch[v]) /\ batch[v].last =< taken
    BY <1>3 DEF RuntimeInv, BatchInv, BatchOK, CountersInv
  <2>2. /\ batch[v].first \in Nat /\ batch[v].last \in Nat /\ 1 =< batch[v].first
        /\ Len(batch[v].results) \in Nat /\ Len(batch[v].results) =< batch[v].last + 1 - batch[v].first
    BY <2>1, IsSeqFacts DEF BatchOK, BatchLength
  <2>3. i \in Nat /\ 1 =< i /\ i =< batch[v].last
    BY <1>3, <2>2
  <2>4. i =< taken /\ i \in DOMAIN issued
    BY <1>1, <2>1, <2>2, <2>3
  <2>5. ASSUME NEW w \in Workers, Busy(w) PROVE i # Position(w)
    <3>1. v = w /\ Position(w) = batch[w].first + Len(batch[w].results)
      BY <1>3, <2>5, BusyFacts
    <3>2. QED
      BY <1>3, <2>2, <3>1
  <2>6. QED
    BY <2>3, <2>4, <2>5
<1>4. QED
  BY <1>2, <1>3 DEF Gave

(* What has left the queue, and what was given an answer, comes before the entry
   a worker is at: there is one batch, and it is the last. *)
LEMMA PastBefore ==
    ASSUME RuntimeInv, NEW w \in Workers, Busy(w), NEW c \in Nat, ~Unanswered(c)
    PROVE  c < Position(w)
<1>1. PICK first \in Nat, n \in Nat :
        /\ first = batch[w].first /\ n = Len(batch[w].results)
        /\ Position(w) = first + n /\ first =< taken + 1
  BY BusyFacts DEF BatchOK
<1>2. c =< taken /\ c \notin first .. taken /\ taken \in Nat
  BY <1>1, BusyFacts DEF Unanswered
<1>3. c < first
  BY <1>1, <1>2
<1>4. QED
  BY <1>1, <1>3

LEMMA GaveBefore ==
    ASSUME RuntimeInv, NEW w \in Workers, Busy(w), NEW i, NEW r, Gave(i, r)
    PROVE  i \in Nat /\ i < Position(w)
<1>1. i \in Nat
  BY GaveFacts
<1>2. CASE i \in DOMAIN outcome /\ outcome[i] = r /\ r # NoResult
  BY <1>1, <1>2, PastBefore DEF RuntimeInv, UnansweredInv
<1>3. ASSUME NEW v \in Workers, NEW k \in Nat, batch[v] # NoBatch,
             k \in 1 .. Len(batch[v].results), i = batch[v].first + k - 1
      PROVE  i < Position(w)
  <2>1. v = w /\ batch[w].first \in Nat /\ Len(batch[w].results) \in Nat
    BY <1>3, BusyFacts DEF BatchOK
  <2>2. PICK first \in Nat, n \in Nat :
          first = batch[w].first /\ n = Len(batch[w].results) /\ Position(w) = first + n
    BY <2>1, BusyFacts
  <2>3. k \in 1 .. n /\ i = first + k - 1
    BY <1>3, <2>1, <2>2
  <2>4. QED
    BY <1>1, <2>2, <2>3
<1>4. QED
  BY <1>1, <1>2, <1>3 DEF Gave

(* What the properties call a task's result was given. *)
LEMMA ResultWasGiven ==
    ASSUME RuntimeInv, NEW i \in DOMAIN issued, Result(i) # NoResult
    PROVE  Gave(i, Result(i))
<1>1. DOMAIN outcome = DOMAIN issued
  BY IsSeqFacts DEF RuntimeInv, QueueInv
<1>2. CASE outcome[i] # NoResult
  BY <1>1, <1>2 DEF Result, Gave
<1>3. CASE outcome[i] = NoResult
  <2>1. \E w \in Workers : Kept(i, w)
    BY <1>3 DEF Result
  <2> DEFINE v == CHOOSE w \in Workers : Kept(i, w)
  <2>2. v \in Workers /\ Kept(i, v)
    BY <2>1
  <2>3. Result(i) = batch[v].results[i + 1 - batch[v].first]
    BY <1>3, <2>1 DEF Result
  <2> HIDE DEF v
  <2>4. BatchOK(batch[v]) /\ batch[v] # NoBatch
    BY <2>2 DEF Kept, RuntimeInv, BatchInv
  <2>5. batch[v].first \in Nat /\ Len(batch[v].results) \in Nat
    BY <2>4, IsSeqFacts DEF BatchOK
  <2>6. i \in batch[v].first .. batch[v].first + Len(batch[v].results) - 1
    BY <2>2 DEF Kept
  <2>7. /\ i + 1 - batch[v].first \in Nat
        /\ i + 1 - batch[v].first \in 1 .. Len(batch[v].results)
        /\ i = batch[v].first + (i + 1 - batch[v].first) - 1
    BY <2>5, <2>6
  <2>8. QED
    BY <2>2, <2>3, <2>4, <2>7 DEF Gave
<1>4. QED
  BY <1>2, <1>3

-----------------------------------------------------------------------------
(* The actions. Each keeps the invariant, and gives no task an answer but
   FinishEntry, which gives the one the worker is at. *)

LEMMA RuntimeInvInit == RuntimeInit => RuntimeInv
<1> SUFFICES ASSUME RuntimeInit PROVE RuntimeInv
  OBVIOUS
<1>1. CountersInv
  BY WorkersFacts DEF RuntimeInit, CountersInv
<1>2. QueueInv
  BY IsSeqShort DEF RuntimeInit, QueueInv
<1>3. BatchInv /\ OneBatch
  BY DEF RuntimeInit, BatchInv, OneBatch
<1>4. UnansweredInv
  BY IsSeqShort, IsSeqFacts DEF RuntimeInit, UnansweredInv
<1>5. QED
  BY <1>1, <1>2, <1>3, <1>4 DEF RuntimeInv

LEMMA RuntimeUnchanged ==
    ASSUME RuntimeInv, UNCHANGED runtimeVars
    PROVE  RuntimeInv' /\ \A i, r : Gave(i, r)' => Gave(i, r)
<1>1. RuntimeInv'
  BY DEF runtimeVars, RuntimeInv, CountersInv, QueueInv, BatchInv, OneBatch, UnansweredInv, Unanswered
<1>2. \A i, r : Gave(i, r)' => Gave(i, r)
  BY DEF runtimeVars, Gave
<1>3. QED
  BY <1>1, <1>2

LEMMA EnqueueInv ==
    ASSUME RuntimeInv, NEW tasks, IsSeq(tasks), Len(tasks) =< 1,
           submitted < MaxTasks, submitted' = submitted + 1,
           Enqueue(tasks), UNCHANGED <<taken, batch, crashes>>
    PROVE  /\ RuntimeInv'
           /\ \A i, r : Gave(i, r)' => Gave(i, r)
           /\ Len(issued) =< Len(issued')
           /\ \A i \in DOMAIN issued : i \in DOMAIN issued' /\ issued'[i] = issued[i]
           /\ \A i \in DOMAIN outcome : outcome'[i] = outcome[i]
<1> DEFINE news == [i \in DOMAIN tasks |-> NoResult]
           n == Len(issued)
<1>1. /\ IsSeq(issued) /\ IsSeq(outcome) /\ n \in Nat /\ Len(outcome) = n
      /\ DOMAIN issued = 1 .. n /\ DOMAIN outcome = 1 .. n
      /\ taken \in Nat /\ taken =< n /\ n =< submitted /\ submitted \in Nat
  BY IsSeqFacts, WorkersFacts DEF RuntimeInv, CountersInv, QueueInv
<1>2. Len(tasks) \in Nat /\ DOMAIN tasks = 1 .. Len(tasks)
  BY IsSeqFacts
<1>3. IsSeq(news) /\ Len(news) = Len(tasks) /\ DOMAIN news = 1 .. Len(tasks)
  BY <1>2, IsSeqFunction
<1>4. issued' = issued \o tasks /\ outcome' = outcome \o news
  BY DEF Enqueue
<1> HIDE DEF news
<1>5. /\ IsSeq(issued') /\ Len(issued') = n + Len(tasks)
      /\ \A i \in 1 .. n : issued'[i] = issued[i]
      /\ DOMAIN issued' = 1 .. n + Len(tasks)
  BY <1>1, <1>4, IsSeqConcat
<1>6. /\ IsSeq(outcome') /\ Len(outcome') = n + Len(tasks)
      /\ \A i \in 1 .. n : outcome'[i] = outcome[i]
      /\ \A i \in 1 .. Len(tasks) : outcome'[n + i] = news[i]
      /\ DOMAIN outcome' = 1 .. n + Len(tasks)
  BY <1>1, <1>3, <1>4, IsSeqConcat
<1>7. \A i \in DOMAIN outcome' : i \notin DOMAIN outcome => outcome'[i] = NoResult
  <2> SUFFICES ASSUME NEW i \in 1 .. n + Len(tasks), i \notin 1 .. n PROVE outcome'[i] = NoResult
    BY <1>1, <1>6
  <2>1. i - n \in 1 .. Len(tasks) /\ n + (i - n) = i
    BY <1>1, <1>2
  <2>2. news[i - n] = NoResult
    BY <1>2, <2>1 DEF news
  <2>3. QED
    BY <1>6, <2>1, <2>2
<1>8. CountersInv'
  BY <1>1, WorkersFacts DEF RuntimeInv, CountersInv
<1>9. QueueInv'
  BY <1>1, <1>2, <1>5, <1>6 DEF QueueInv
<1>10. BatchInv' /\ OneBatch'
  BY DEF RuntimeInv, BatchInv, OneBatch
<1>11. UnansweredInv'
  BY <1>1, <1>6, <1>7 DEF RuntimeInv, UnansweredInv, Unanswered
<1>12. \A i, r : Gave(i, r)' => Gave(i, r)
  BY <1>1, <1>6, <1>7 DEF Gave
<1>13. QED
  BY <1>1, <1>2, <1>5, <1>6, <1>8, <1>9, <1>10, <1>11, <1>12 DEF RuntimeInv

(* A task is queued, by a facade or by the host. *)
LEMMA RunFacadeInv ==
    ASSUME RuntimeInv, NEW source, NEW refused, NEW table, RunFacade(source, refused, table)
    PROVE  /\ RuntimeInv'
           /\ \A i, r : Gave(i, r)' => Gave(i, r)
           /\ Len(issued) =< Len(issued')
           /\ \A i \in DOMAIN issued : i \in DOMAIN issued' /\ issued'[i] = issued[i]
           /\ \A i \in DOMAIN outcome : outcome'[i] = outcome[i]
           /\ UNCHANGED <<taken, batch, crashes>>
<1> DEFINE tasks == IF refused THEN <<>> ELSE DeriveEffectFromPair(source, table)
<1>1. IsSeq(tasks) /\ Len(tasks) =< 1
  BY IsSeqShort DEF DeriveEffectFromPair
<1>2. /\ submitted < MaxTasks /\ submitted' = submitted + 1
      /\ Enqueue(tasks) /\ UNCHANGED <<taken, batch, crashes>>
  BY DEF RunFacade
<1> HIDE DEF tasks
<1>3. QED
  BY <1>1, <1>2, EnqueueInv

LEMMA SubmitEffectInv ==
    ASSUME RuntimeInv, NEW task, SubmitEffect(task)
    PROVE  /\ RuntimeInv'
           /\ \A i, r : Gave(i, r)' => Gave(i, r)
           /\ Len(issued) =< Len(issued')
           /\ \A i \in DOMAIN issued : i \in DOMAIN issued' /\ issued'[i] = issued[i]
           /\ \A i \in DOMAIN outcome : outcome'[i] = outcome[i]
           /\ UNCHANGED <<taken, batch, crashes>>
<1>1. IsSeq(<<task>>) /\ Len(<<task>>) =< 1
  BY IsSeqShort
<1>2. QED
  BY <1>1, EnqueueInv DEF SubmitEffect

(* What is queued is what was submitted. *)
LEMMA SubmittedTask ==
    ASSUME RuntimeInv, NEW task, SubmitEffect(task)
    PROVE  \A i \in DOMAIN issued' : i \in DOMAIN issued \/ issued'[i] = task
<1>1. PICK n \in Nat : n = Len(issued) /\ DOMAIN issued = 1 .. n /\ IsSeq(issued)
  BY IsSeqFacts DEF RuntimeInv, QueueInv
<1>2. /\ DOMAIN issued' = 1 .. n + 1 /\ issued'[n + 1] = task
  BY <1>1, IsSeqConcat, IsSeqShort DEF SubmitEffect, Enqueue
<1>3. \A i \in 1 .. n + 1 : i \in 1 .. n \/ i = n + 1
  BY <1>1
<1>4. QED
  BY <1>1, <1>2, <1>3

LEMMA FacadePayload ==
    ASSUME RuntimeInv, NEW source, NEW refused, NEW table, RunFacade(source, refused, table)
    PROVE  \A i \in DOMAIN issued' : i \in DOMAIN issued \/ issued'[i].payload = source.payload
<1>1. PICK n \in Nat : n = Len(issued) /\ DOMAIN issued = 1 .. n /\ IsSeq(issued)
  BY IsSeqFacts DEF RuntimeInv, QueueInv
<1>2. PICK tasks : /\ issued' = issued \o tasks
                   /\ tasks = IF refused THEN <<>> ELSE DeriveEffectFromPair(source, table)
  BY DEF RunFacade, Enqueue
<1>3. tasks = <<>> \/ \E task : tasks = <<task>> /\ task.payload = source.payload
  BY <1>2 DEF DeriveEffectFromPair, DeriveEffectTask, Task
<1>4. CASE tasks = <<>>
  BY <1>1, <1>2, <1>4, IsSeqConcat, IsSeqShort
<1>5. ASSUME NEW task, tasks = <<task>>, task.payload = source.payload
      PROVE  \A i \in DOMAIN issued' : i \in DOMAIN issued \/ issued'[i].payload = source.payload
  <2>1. issued' = issued \o <<task>>
    BY <1>2, <1>5
  <2>2. IsSeq(<<task>>) /\ Len(<<task>>) = 1 /\ <<task>>[1] = task
    BY IsSeqShort
  <2>3. DOMAIN issued' = 1 .. n + 1 /\ issued'[n + 1] = task
    BY <1>1, <2>1, <2>2, IsSeqConcat
  <2>4. \A i \in 1 .. n + 1 : i \in 1 .. n \/ i = n + 1
    BY <1>1
  <2>5. QED
    BY <1>1, <1>5, <2>3, <2>4
<1>6. QED
  BY <1>3, <1>4, <1>5

(* The batch taken is the only one, and comes after all that was answered. *)
LEMMA DispatchInv ==
    ASSUME RuntimeInv, NEW w \in Workers, NEW size, Dispatch(w, size, 1)
    PROVE  /\ RuntimeInv'
           /\ \A i, r : Gave(i, r)' => Gave(i, r)
           /\ \A v \in Workers : batch[v] = NoBatch
           /\ \A v \in Workers : batch'[v] # NoBatch => v = w
           /\ batch'[w] = Batch(taken + 1, taken + size, <<>>)
           /\ taken' = taken + size /\ size \in Nat \ {0} /\ taken' =< Len(issued)
           /\ UNCHANGED <<submitted, issued, outcome, crashes>>
<1> DEFINE busy == {v \in Workers : batch[v] # NoBatch}
           b == Batch(taken + 1, taken + size, <<>>)
<1>1. \A v \in Workers : batch[v] = NoBatch
  <2>1. IsFiniteSet(busy)
    BY WorkersFacts, FS_Subset
  <2>2. Cardinality(busy) < 1
    BY DEF Dispatch
  <2>3. Cardinality(busy) = 0
    BY <2>1, <2>2, FS_CardinalityType
  <2>4. busy = {}
    BY <2>1, <2>3, FS_EmptySet
  <2>5. QED
    BY <2>4
<1>2. /\ size \in Nat \ {0} /\ taken + size =< Len(issued) /\ taken' = taken + size
      /\ batch' = [batch EXCEPT ![w] = b]
      /\ UNCHANGED <<submitted, issued, outcome, crashes>>
  BY WorkersFacts DEF Dispatch
<1>3. taken \in Nat /\ Len(issued) \in Nat /\ Len(issued) = Len(outcome) /\ DOMAIN outcome = 1 .. Len(issued)
  BY IsSeqFacts DEF RuntimeInv, CountersInv, QueueInv
<1>4. /\ b.first = taken + 1 /\ b.last = taken + size /\ b.results = <<>>
      /\ b = Batch(b.first, b.last, b.results)
  BY DEF Batch
<1>5. BatchOK(b) /\ b.last = taken'
  BY <1>2, <1>3, <1>4, IsSeqShort DEF BatchOK, BatchLength
<1>6. batch'[w] = b /\ \A v \in Workers : v # w => batch'[v] = NoBatch
  BY <1>1, <1>2 DEF RuntimeInv, BatchInv
<1>7. CountersInv' /\ QueueInv'
  BY <1>2, <1>3 DEF RuntimeInv, CountersInv, QueueInv
<1>8. BatchInv'
  <2>1. batch' = [v \in Workers |-> batch'[v]]
    BY <1>2 DEF RuntimeInv, BatchInv
  <2>2. QED
    BY <1>5, <1>6, <2>1 DEF BatchInv
<1>9. OneBatch'
  BY <1>6 DEF OneBatch
<1>10. UnansweredInv'
  <2> SUFFICES ASSUME NEW i \in DOMAIN outcome, Unanswered(i)' PROVE Unanswered(i)
    BY <1>2 DEF RuntimeInv, UnansweredInv
  <2>1. i > taken
    BY <1>2, <1>3, <1>4, <1>6 DEF Unanswered
  <2>2. QED
    BY <2>1 DEF Unanswered
<1>11. \A i, r : Gave(i, r)' => Gave(i, r)
  <2>1. \A v \in Workers, k \in Nat : batch'[v] # NoBatch => k \notin 1 .. Len(batch'[v].results)
    BY <1>4, <1>6, IsSeqShort
  <2>2. QED
    BY <1>2, <2>1 DEF Gave
<1>12. QED
  BY <1>1, <1>2, <1>3, <1>6, <1>7, <1>8, <1>9, <1>10, <1>11 DEF RuntimeInv

(* The entry a worker is at is answered, and no other. *)
LEMMA FinishEntryInv ==
    ASSUME RuntimeInv, NEW w \in Workers, Busy(w), NEW result, FinishEntry(w, result)
    PROVE  /\ RuntimeInv'
           /\ \A i, r : Gave(i, r)' => Gave(i, r) \/ (i = Position(w) /\ r = result)
           /\ UNCHANGED <<submitted, issued, taken, outcome, crashes>>
           /\ \A v \in Workers : batch'[v] # NoBatch => v = w
           /\ batch'[w] # NoBatch /\ Position(w)' = Position(w) + 1
<1> DEFINE old == batch[w]
           new == Batch(old.first, old.last, Append(old.results, result))
<1>1. /\ old # NoBatch /\ BatchOK(old) /\ old.last =< taken
      /\ Position(w) = old.first + Len(old.results)
      /\ Len(old.results) \in Nat /\ \A v \in Workers : batch[v] # NoBatch => v = w
  BY BusyFacts
<1>2. /\ UNCHANGED <<submitted, issued, taken, outcome, crashes>>
      /\ batch' = [batch EXCEPT ![w] = new]
  BY DEF FinishEntry
<1>3. batch'[w] = new /\ \A v \in Workers : v # w => batch'[v] = batch[v]
  BY <1>2 DEF RuntimeInv, BatchInv
<1>4. /\ IsSeq(old.results)
      /\ IsSeq(Append(old.results, result))
      /\ Len(Append(old.results, result)) = Len(old.results) + 1
      /\ \A i \in 1 .. Len(old.results) : Append(old.results, result)[i] = old.results[i]
      /\ Append(old.results, result)[Len(old.results) + 1] = result
  BY <1>1, IsSeqAppend DEF BatchOK
<1>5. /\ new.first = old.first /\ new.last = old.last
      /\ new.results = Append(old.results, result)
      /\ new = Batch(new.first, new.last, new.results)
  BY DEF Batch
<1>6. /\ old.first \in Nat /\ old.last \in Nat /\ 1 =< old.first /\ old.first =< old.last
      /\ Len(old.results) < old.last + 1 - old.first
  BY <1>1 DEF BatchOK, Busy
<1>7. BatchOK(new) /\ new # NoBatch
  <2>1. BatchOK(new)
    BY <1>1, <1>4, <1>5, <1>6 DEF BatchOK, BatchLength
  <2>2. new.first # NoBatch.first
    BY <1>5, <1>6 DEF NoBatch, Batch
  <2>3. QED
    BY <2>1, <2>2
<1> HIDE DEF new
<1>8. CountersInv' /\ QueueInv'
  BY <1>2 DEF RuntimeInv, CountersInv, QueueInv
<1>9. BatchInv'
  <2>1. batch' = [v \in Workers |-> batch'[v]]
    BY <1>2 DEF RuntimeInv, BatchInv
  <2>2. ASSUME NEW v \in Workers, batch'[v] # NoBatch
        PROVE  BatchOK(batch'[v]) /\ batch'[v].last = taken'
    BY <1>1, <1>2, <1>3, <1>5, <1>7, <2>2 DEF RuntimeInv, BatchInv
  <2>3. QED
    BY <2>1, <2>2 DEF BatchInv
<1>10. \A v \in Workers : batch'[v] # NoBatch => v = w
  BY <1>1, <1>3
<1>11. OneBatch'
  BY <1>10 DEF OneBatch
<1>12. UnansweredInv'
  <2> SUFFICES ASSUME NEW i \in DOMAIN outcome, Unanswered(i)' PROVE Unanswered(i)
    BY <1>2 DEF RuntimeInv, UnansweredInv
  <2>1. QED
    BY <1>1, <1>2, <1>3, <1>5, <1>10 DEF Unanswered
<1>13. \A i, r : Gave(i, r)' => Gave(i, r) \/ (i = Position(w) /\ r = result)
  <2> SUFFICES ASSUME NEW i, NEW r, Gave(i, r)'
               PROVE  Gave(i, r) \/ (i = Position(w) /\ r = result)
    OBVIOUS
  <2>1. CASE i \in DOMAIN outcome' /\ outcome'[i] = r /\ r # NoResult
    BY <1>2, <2>1 DEF Gave
  <2>2. ASSUME NEW v \in Workers, NEW k \in Nat, batch'[v] # NoBatch,
               k \in 1 .. Len(batch'[v].results),
               i = batch'[v].first + k - 1, r = batch'[v].results[k]
        PROVE  Gave(i, r) \/ (i = Position(w) /\ r = result)
    <3> DEFINE n == Len(old.results)
    <3>1. /\ v = w /\ k \in 1 .. n + 1
          /\ i = old.first + k - 1 /\ r = Append(old.results, result)[k]
      BY <1>3, <1>4, <1>5, <1>10, <2>2
    <3>2. n \in Nat
      BY <1>1
    <3>3. CASE k = n + 1
      BY <1>1, <1>4, <1>6, <3>1, <3>3
    <3>4. CASE k \in 1 .. n
      BY <1>1, <1>4, <3>1, <3>4 DEF Gave
    <3> HIDE DEF n
    <3>5. k \in 1 .. n \/ k = n + 1
      BY <3>1, <3>2
    <3>6. QED
      BY <3>3, <3>4, <3>5
  <2>3. QED
    BY <2>1, <2>2 DEF Gave
<1>14. Position(w)' = Position(w) + 1
  BY <1>1, <1>3, <1>4, <1>5, <1>6 DEF Position
<1>15. QED
  BY <1>2, <1>3, <1>7, <1>8, <1>9, <1>10, <1>11, <1>12, <1>13, <1>14 DEF RuntimeInv

(* The answers of a batch become the runtime's. *)
LEMMA AnswerInv ==
    ASSUME RuntimeInv, NEW w \in Workers, Answer(w)
    PROVE  /\ RuntimeInv'
           /\ \A i, r : Gave(i, r)' => Gave(i, r)
           /\ \A v \in Workers : batch'[v] = NoBatch
           /\ UNCHANGED <<submitted, issued, taken, crashes>>
<1> DEFINE b == batch[w]
<1>1. b # NoBatch /\ BatchOK(b) /\ b.last =< taken /\ ~Busy(w)
  BY DEF Answer, RuntimeInv, BatchInv, BatchOK, CountersInv
<1>2. /\ outcome' = [i \in DOMAIN outcome |->
                       IF i \in b.first .. b.last THEN b.results[i + 1 - b.first] ELSE outcome[i]]
      /\ batch' = [batch EXCEPT ![w] = NoBatch]
      /\ UNCHANGED <<submitted, issued, taken, crashes>>
  BY DEF Answer
<1>3. /\ b.first \in Nat /\ b.last \in Nat /\ 1 =< b.first
      /\ Len(b.results) \in Nat /\ Len(b.results) = b.last + 1 - b.first
  BY <1>1, IsSeqFacts DEF BatchOK, BatchLength, Busy
<1>4. \A v \in Workers : batch'[v] = NoBatch
  BY <1>1, <1>2 DEF RuntimeInv, OneBatch, BatchInv
<1>5. /\ Len(outcome) \in Nat /\ DOMAIN outcome = 1 .. Len(outcome)
      /\ IsSeq(outcome') /\ Len(outcome') = Len(outcome) /\ DOMAIN outcome' = DOMAIN outcome
  <2>1. Len(outcome) \in Nat /\ DOMAIN outcome = 1 .. Len(outcome)
    BY IsSeqFacts DEF RuntimeInv, QueueInv
  <2>2. DOMAIN outcome' = 1 .. Len(outcome) /\ outcome' = [i \in 1 .. Len(outcome) |-> outcome'[i]]
    BY <1>2, <2>1
  <2>3. QED
    BY <2>1, <2>2, IsSeqFunction
<1>6. CountersInv' /\ QueueInv'
  BY <1>2, <1>5 DEF RuntimeInv, CountersInv, QueueInv
<1>7. BatchInv' /\ OneBatch'
  <2>1. batch' = [v \in Workers |-> batch'[v]]
    BY <1>2 DEF RuntimeInv, BatchInv
  <2>2. QED
    BY <1>4, <2>1 DEF BatchInv, OneBatch
<1>8. UnansweredInv'
  <2> SUFFICES ASSUME NEW i \in DOMAIN outcome, Unanswered(i)' PROVE outcome'[i] = NoResult
    BY <1>5 DEF UnansweredInv
  <2>1. i > taken /\ taken \in Nat
    BY <1>2, <1>4 DEF Unanswered, RuntimeInv, CountersInv
  <2>2. i \notin b.first .. b.last /\ Unanswered(i)
    BY <1>1, <1>3, <1>5, <2>1 DEF Unanswered
  <2>3. QED
    BY <1>2, <2>2 DEF RuntimeInv, UnansweredInv
<1>9. \A i, r : Gave(i, r)' => Gave(i, r)
  <2> SUFFICES ASSUME NEW i, NEW r, i \in DOMAIN outcome, outcome'[i] = r, r # NoResult
               PROVE  Gave(i, r)
    BY <1>4, <1>5 DEF Gave
  <2>1. CASE i \in b.first .. b.last
    <3>1. r = b.results[i + 1 - b.first]
      BY <1>2, <2>1
    <3> DEFINE k == i + 1 - b.first
    <3>2. k \in Nat /\ k \in 1 .. Len(b.results) /\ i = b.first + k - 1
      <4> HIDE DEF b
      <4>1. i \in Int /\ b.first =< i /\ i =< b.last
        BY <1>3, <2>1
      <4>2. QED
        BY <1>3, <4>1
    <3>3. r = b.results[k]
      BY <3>1
    <3> HIDE DEF k
    <3>4. QED
      BY <1>1, <3>2, <3>3 DEF Gave
  <2>2. CASE i \notin b.first .. b.last
    BY <1>2, <2>2 DEF Gave
  <2>3. QED
    BY <2>1, <2>2
<1>10. QED
  BY <1>2, <1>4, <1>6, <1>7, <1>8, <1>9 DEF RuntimeInv

(* A crash gives no answer, and nothing is open any more. *)
LEMMA CrashInv ==
    ASSUME RuntimeInv, Crash
    PROVE  /\ RuntimeInv'
           /\ \A i, r : Gave(i, r)' => Gave(i, r)
           /\ \A v \in Workers : batch'[v] = NoBatch
           /\ taken =< taken'
           /\ UNCHANGED <<submitted, issued, outcome>>
<1>1. /\ crashes < MaxCrashes /\ crashes' = crashes + 1 /\ taken' = Len(issued)
      /\ batch' = [w \in Workers |-> NoBatch]
      /\ UNCHANGED <<submitted, issued, outcome>>
  BY DEF Crash
<1>2. /\ Len(issued) \in Nat /\ taken =< Len(issued) /\ Len(outcome) = Len(issued)
      /\ DOMAIN outcome = 1 .. Len(issued)
  BY IsSeqFacts DEF RuntimeInv, QueueInv
<1>3. CountersInv' /\ QueueInv'
  BY <1>1, <1>2, WorkersFacts DEF RuntimeInv, CountersInv, QueueInv
<1>4. BatchInv' /\ OneBatch'
  BY <1>1 DEF BatchInv, OneBatch
<1>5. \A i \in DOMAIN outcome' : ~Unanswered(i)'
  BY <1>1, <1>2 DEF Unanswered
<1>6. \A i, r : Gave(i, r)' => Gave(i, r)
  BY <1>1 DEF Gave
<1>7. QED
  BY <1>1, <1>2, <1>3, <1>4, <1>5, <1>6 DEF RuntimeInv, UnansweredInv

-----------------------------------------------------------------------------
(* What was given stays given, but for a crash; and it is what the properties
   call the task's result. *)

LEMMA GaveIsResult ==
    ASSUME RuntimeInv, NEW i, NEW r, Gave(i, r), r # NoResult
    PROVE  i \in DOMAIN issued /\ Result(i) = r
<1>1. i \in DOMAIN issued
  BY GaveFacts
<1>2. CASE i \in DOMAIN outcome /\ outcome[i] = r /\ r # NoResult
  BY <1>1, <1>2 DEF Result
<1>3. ASSUME NEW w \in Workers, NEW k \in Nat, batch[w] # NoBatch,
             k \in 1 .. Len(batch[w].results),
             i = batch[w].first + k - 1, r = batch[w].results[k]
      PROVE  Result(i) = r
  <2>1. BatchOK(batch[w])
    BY <1>3 DEF RuntimeInv, BatchInv
  <2>2. /\ batch[w].first \in Nat /\ batch[w].last \in Nat /\ Len(batch[w].results) \in Nat
        /\ Len(batch[w].results) =< batch[w].last + 1 - batch[w].first
    BY <2>1, IsSeqFacts DEF BatchOK, BatchLength
  <2>3. /\ i \in batch[w].first .. batch[w].last
        /\ i \in batch[w].first .. batch[w].first + Len(batch[w].results) - 1
        /\ i + 1 - batch[w].first = k
    <3>1. PICK first \in Nat, last \in Nat, n \in Nat :
             first = batch[w].first /\ last = batch[w].last /\ n = Len(batch[w].results)
      BY <2>2
    <3>2. n =< last + 1 - first /\ k \in 1 .. n /\ i = first + k - 1
      BY <1>3, <2>2, <3>1
    <3>3. i \in first .. last /\ i \in first .. first + n - 1 /\ i + 1 - first = k
      BY ONLY <3>2
    <3>4. QED
      BY <3>1, <3>3
  <2>4. outcome[i] = NoResult
    <3>1. DOMAIN outcome = DOMAIN issued
      BY IsSeqFacts DEF RuntimeInv, QueueInv
    <3>2. QED
      BY <1>1, <1>3, <2>3, <3>1 DEF RuntimeInv, UnansweredInv, Unanswered
  <2>5. Kept(i, w) /\ \A v \in Workers : Kept(i, v) => v = w
    BY <1>3, <2>3 DEF Kept, RuntimeInv, OneBatch
  <2>6. (CHOOSE v \in Workers : Kept(i, v)) = w
    BY <2>5
  <2>7. QED
    BY <1>3, <2>3, <2>4, <2>5, <2>6 DEF Result
<1>4. QED
  BY <1>1, <1>2, <1>3 DEF Gave

LEMMA SubmitGivenStays ==
    ASSUME RuntimeInv, NEW task, SubmitEffect(task), NEW i, NEW r, Gave(i, r)
    PROVE  Gave(i, r)'
<1>1. DOMAIN outcome = DOMAIN issued /\ DOMAIN outcome' = DOMAIN issued'
  BY SubmitEffectInv, IsSeqFacts DEF RuntimeInv, QueueInv
<1>2. QED
  BY <1>1, SubmitEffectInv DEF Gave

LEMMA DispatchGivenStays ==
    ASSUME RuntimeInv, NEW w \in Workers, NEW size, Dispatch(w, size, 1), NEW i, NEW r, Gave(i, r)
    PROVE  Gave(i, r)'
  BY DispatchInv DEF Gave

LEMMA FinishEntryGives ==
    ASSUME RuntimeInv, NEW w \in Workers, Busy(w), NEW result, FinishEntry(w, result)
    PROVE  /\ \A i : i = Position(w) => Gave(i, result)'
           /\ \A i, r : Gave(i, r) => Gave(i, r)'
<1> DEFINE old == batch[w]
<1>1. /\ old # NoBatch /\ BatchOK(old) /\ Len(old.results) \in Nat
      /\ Position(w) = old.first + Len(old.results)
  BY BusyFacts
<1>2. /\ batch' = [batch EXCEPT ![w] = Batch(old.first, old.last, Append(old.results, result))]
      /\ UNCHANGED <<issued, outcome>>
  BY DEF FinishEntry
<1>3. /\ IsSeq(old.results) /\ old.first \in Nat
      /\ Len(Append(old.results, result)) = Len(old.results) + 1
      /\ \A k \in 1 .. Len(old.results) : Append(old.results, result)[k] = old.results[k]
      /\ Append(old.results, result)[Len(old.results) + 1] = result
  BY <1>1, IsSeqAppend DEF BatchOK
<1>4. /\ batch'[w].first = old.first /\ batch'[w].results = Append(old.results, result)
      /\ \A v \in Workers : v # w => batch'[v] = batch[v]
      /\ batch'[w] # NoBatch
  <2>1. /\ batch'[w].first = old.first /\ batch'[w].results = Append(old.results, result)
        /\ \A v \in Workers : v # w => batch'[v] = batch[v]
    BY <1>2 DEF RuntimeInv, BatchInv, Batch
  <2>2. batch'[w] # NoBatch
    BY FinishEntryInv
  <2>3. QED
    BY <2>1, <2>2
<1>5. ASSUME NEW i, i = Position(w) PROVE Gave(i, result)'
  <2>1. PICK k \in Nat : k = Len(old.results) + 1
    BY <1>1
  <2>2. k \in 1 .. Len(batch'[w].results) /\ i = batch'[w].first + k - 1
    BY <1>1, <1>3, <1>4, <1>5, <2>1
  <2>3. result = batch'[w].results[k]
    BY <1>3, <1>4, <2>1
  <2>4. QED
    BY <1>4, <2>2, <2>3 DEF Gave
<1>6. ASSUME NEW i, NEW r, Gave(i, r) PROVE Gave(i, r)'
  <2>1. CASE i \in DOMAIN outcome /\ outcome[i] = r /\ r # NoResult
    BY <1>2, <2>1 DEF Gave
  <2>2. ASSUME NEW v \in Workers, NEW k \in Nat, batch[v] # NoBatch,
               k \in 1 .. Len(batch[v].results),
               i = batch[v].first + k - 1, r = batch[v].results[k]
        PROVE  Gave(i, r)'
    <3>1. v = w
      BY <2>2, BusyFacts
    <3>2. k \in 1 .. Len(batch'[w].results) /\ i = batch'[w].first + k - 1 /\ r = batch'[w].results[k]
      BY <1>1, <1>3, <1>4, <2>2, <3>1
    <3>3. QED
      BY <1>4, <2>2, <3>2 DEF Gave
  <2>3. QED
    BY <1>6, <2>1, <2>2 DEF Gave
<1>7. QED
  BY <1>5, <1>6

LEMMA AnswerGivenStays ==
    ASSUME RuntimeInv, NEW w \in Workers, Answer(w), NEW i, NEW r, Gave(i, r), r # NoResult
    PROVE  Gave(i, r)'
<1>1. i \in DOMAIN issued /\ Result(i) = r /\ DOMAIN outcome = DOMAIN issued
  BY GaveIsResult, IsSeqFacts DEF RuntimeInv, QueueInv
<1> DEFINE b == batch[w]
<1>2. /\ b # NoBatch /\ BatchOK(b)
      /\ outcome' = [j \in DOMAIN outcome |->
                       IF j \in b.first .. b.last THEN b.results[j + 1 - b.first] ELSE outcome[j]]
  BY DEF Answer, RuntimeInv, BatchInv
<1>3. CASE outcome[i] # NoResult
  <2>1. i \notin b.first .. b.last
    BY <1>1, <1>2, <1>3 DEF RuntimeInv, UnansweredInv, Unanswered
  <2>2. outcome[i] = r
    BY <1>1, <1>3 DEF Result
  <2>3. QED
    BY <1>1, <1>2, <2>1, <2>2 DEF Gave
<1>4. CASE outcome[i] = NoResult
  <2>1. PICK v \in Workers, k \in Nat :
           /\ batch[v] # NoBatch /\ k \in 1 .. Len(batch[v].results)
           /\ i = batch[v].first + k - 1 /\ r = batch[v].results[k]
    BY <1>4 DEF Gave
  <2>2. v = w
    BY <1>2, <2>1 DEF RuntimeInv, OneBatch
  <2>3. /\ b.first \in Nat /\ b.last \in Nat /\ Len(b.results) \in Nat
        /\ Len(b.results) =< b.last + 1 - b.first
    BY <1>2, IsSeqFacts DEF BatchOK, BatchLength
  <2>4. i \in b.first .. b.last /\ i + 1 - b.first = k
    <3>1. PICK first \in Nat, last \in Nat, n \in Nat :
             first = b.first /\ last = b.last /\ n = Len(b.results)
      BY <2>3
    <3>2. n =< last + 1 - first /\ k \in 1 .. n /\ i = first + k - 1
      BY <2>1, <2>2, <2>3, <3>1
    <3>3. i \in first .. last /\ i + 1 - first = k
      BY ONLY <3>2
    <3>4. QED
      BY <3>1, <3>3
  <2>5. outcome'[i] = r /\ i \in DOMAIN outcome'
    BY <1>1, <1>2, <2>1, <2>2, <2>4
  <2>6. QED
    BY <2>5 DEF Gave
<1>5. QED
  BY <1>3, <1>4

LEMMA UnchangedGivenStays ==
    ASSUME UNCHANGED runtimeVars, NEW i, NEW r, Gave(i, r)
    PROVE  Gave(i, r)'
  BY DEF runtimeVars, Gave

(* The types are among it. *)
LEMMA RuntimeTypes == RuntimeInv => RuntimeTypeOK
<1> SUFFICES ASSUME RuntimeInv PROVE RuntimeTypeOK
  OBVIOUS
<1>1. Len(issued) \in Nat
  BY IsSeqFacts DEF RuntimeInv, QueueInv
<1>2. QED
  BY <1>1 DEF RuntimeInv, CountersInv, QueueInv, BatchInv, BatchOK, BatchLength, RuntimeTypeOK
=============================================================================
