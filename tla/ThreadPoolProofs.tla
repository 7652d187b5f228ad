--------------------------- MODULE ThreadPoolProofs ---------------------------
(***************************************************************************)
(* Proofs about ThreadPool for any finite set of workers and any set of    *)
(* tasks.  PoolInv is inductive; the invariants the runs check are its     *)
(* conjuncts or follow from it.                                            *)
(***************************************************************************)
EXTENDS ThreadPool, TLAPS, SequenceTheorems, FiniteSetTheorems

-----------------------------------------------------------------------------
(* Sequences: what adding at the back and taking from the front do to a     *)
(* concatenation of three.                                                  *)
LEMMA SubmitKeepsOrder ==
  ASSUME NEW S, NEW s \in Seq(S), NEW q \in Seq(S), NEW t \in S
  PROVE  Append(s \o q \o <<>>, t) = s \o Append(q, t) \o <<>>
<1>1. s \o q \in Seq(S) /\ Append(q, t) \in Seq(S) /\ s \o Append(q, t) \in Seq(S)
  BY ConcatProperties, AppendProperties
<1>2. s \o q \o <<>> = s \o q /\ s \o Append(q, t) \o <<>> = s \o Append(q, t)
  BY <1>1, ConcatEmptySeq
<1>3. Append(s \o q, t) = (s \o q) \o <<t>> /\ Append(q, t) = q \o <<t>>
  BY <1>1, AppendIsConcat
<1>4. <<t>> \in Seq(S)
  OBVIOUS
<1>5. (s \o q) \o <<t>> = s \o (q \o <<t>>)
  BY <1>4, ConcatAssociative
<1> QED
  BY <1>2, <1>3, <1>5

LEMMA GrabKeepsOrder ==
  ASSUME NEW S, NEW s \in Seq(S), NEW q \in Seq(S), q # <<>>
  PROVE  s \o q = Append(s, Head(q)) \o Tail(q)
<1>1. Head(q) \in S /\ Tail(q) \in Seq(S) /\ <<Head(q)>> \in Seq(S)
  BY HeadTailProperties
<1>2. q = <<Head(q)>> \o Tail(q)
  <2> DEFINE p == <<Head(q)>> \o Tail(q)
  <2>1. /\ p \in Seq(S) /\ Len(p) = 1 + (Len(q) - 1)
        /\ \A i \in 1 .. 1 + (Len(q) - 1) :
              p[i] = IF i <= 1 THEN <<Head(q)>>[i] ELSE Tail(q)[i - 1]
    BY <1>1, HeadTailProperties, ConcatProperties
  <2>2. Len(q) \in Nat \ {0}
    BY EmptySeq
  <2>3. \A i \in 1 .. Len(q) : p[i] = q[i]
    <3> TAKE i \in 1 .. Len(q)
    <3>1. CASE i = 1
      BY <2>1, <2>2, <3>1
    <3>2. CASE i > 1
      <4>1. i - 1 \in 1 .. Len(Tail(q)) /\ Tail(q)[i - 1] = q[(i - 1) + 1]
        BY <3>2, <2>2, HeadTailProperties
      <4> QED
        BY <2>1, <2>2, <3>2, <4>1
    <3> QED
      BY <3>1, <3>2
  <2> HIDE DEF p
  <2> QED
    BY <2>1, <2>2, <2>3, SeqEqual DEF p
<1>3. Append(s, Head(q)) = s \o <<Head(q)>>
  BY <1>1, AppendIsConcat
<1>4. (s \o <<Head(q)>>) \o Tail(q) = s \o (<<Head(q)>> \o Tail(q))
  BY <1>1, ConcatAssociative
<1> QED
  BY <1>2, <1>3, <1>4

-----------------------------------------------------------------------------
(* Every value stays in its type (the types of struct thread_pool and of    *)
(* the worker's local t, lines 12-27 and 45).                               *)
LEMMA TypeInit == Init => TypeOK
<1> SUFFICES ASSUME Init PROVE TypeOK
  OBVIOUS
<1> USE DEF Init
<1>1. queue \in Seq(Tasks) /\ accepted \in Seq(Tasks)
      /\ started \in Seq(Tasks) /\ dropped \in Seq(Tasks)
  BY EmptySeq
<1>2. worker \in [Workers -> WorkerStates] /\ owner \in OwnerStates
  BY DEF WorkerStates, OwnerStates
<1>3. holds \in [Workers -> Tasks \cup {NoTask}] /\ shutdown \in BOOLEAN
  OBVIOUS
<1> QED
  BY <1>1, <1>2, <1>3 DEF TypeOK

LEMMA TypeStep == TypeOK /\ Hands /\ [Next]_vars => TypeOK'
<1> SUFFICES ASSUME TypeOK, Hands, [Next]_vars
             PROVE  TypeOK'
  OBVIOUS
<1> USE DEF TypeOK, WorkerStates, OwnerStates
<1>1. ASSUME NEW t \in Tasks, Submit(t)
      PROVE  TypeOK'
  <2>1. worker' \in [Workers -> WorkerStates]
    BY <1>1 DEF Submit, Enqueue, Signal, Asleep
  <2> QED
    BY <1>1, <2>1, AppendProperties DEF Submit, Enqueue
<1>2. ASSUME NEW t \in Tasks, Refuse(t)
      PROVE  TypeOK'
  BY <1>2 DEF Refuse
<1>3. ASSUME NEW w \in Workers, Sleep(w) \/ SpuriousWake(w) \/ Exit(w)
      PROVE  TypeOK'
  BY <1>3 DEF Sleep, SpuriousWake, Exit
<1>4. ASSUME NEW w \in Workers, Grab(w)
      PROVE  TypeOK'
  <2>1. Head(queue) \in Tasks /\ Tail(queue) \in Seq(Tasks)
    BY <1>4, HeadTailProperties DEF Grab, Unlinked
  <2> QED
    BY <1>4, <2>1, AppendProperties DEF Grab, Unlinked
<1>5. ASSUME NEW w \in Workers, Finish(w)
      PROVE  TypeOK'
  BY <1>5 DEF Finish, Hands
<1>6. ASSUME NEW w \in Workers, CreateWorker(w)
      PROVE  TypeOK'
  BY <1>6 DEF CreateWorker
<1>7. CASE BeginDestroy
  BY <1>7 DEF BeginDestroy, Broadcast
<1>8. CASE FinishDestroy
  BY <1>8 DEF FinishDestroy
<1>9. CASE UNCHANGED vars
  BY <1>9 DEF vars
<1> QED
  BY <1>1, <1>2, <1>3, <1>4, <1>5, <1>6, <1>7, <1>8, <1>9 DEF Next

-----------------------------------------------------------------------------
(* The owner's progress and the workers' states stay in step (shutdown is   *)
(* set and broadcast in one critical section, lines 150-152, and only a     *)
(* worker that saw it exits, lines 37-40).                                  *)
LEMMA PhasesStep == TypeOK /\ Phases /\ [Next]_vars => Phases'
<1> SUFFICES ASSUME TypeOK, Phases, [Next]_vars
             PROVE  Phases'
  OBVIOUS
<1> USE DEF TypeOK, WorkerStates, OwnerStates, Phases, Asleep
<1>1. ASSUME NEW t \in Tasks, Submit(t)
      PROVE  Phases'
  <2>1. \A w \in Workers : /\ worker'[w] \in {"unborn", "exited"} <=> worker[w] \in {"unborn", "exited"}
                           /\ worker'[w] = "exited" <=> worker[w] = "exited"
                           /\ worker'[w] = "unborn" <=> worker[w] = "unborn"
    BY <1>1 DEF Submit, Enqueue, Signal
  <2> QED
    BY <1>1, <2>1 DEF Submit
<1>2. ASSUME NEW t \in Tasks, Refuse(t)
      PROVE  Phases'
  BY <1>2 DEF Refuse
<1>3. ASSUME NEW w \in Workers, Sleep(w) \/ SpuriousWake(w) \/ Exit(w)
      PROVE  Phases'
  BY <1>3 DEF Sleep, SpuriousWake, Exit
<1>4. ASSUME NEW w \in Workers, Grab(w)
      PROVE  Phases'
  BY <1>4 DEF Grab, Unlinked
<1>5. ASSUME NEW w \in Workers, Finish(w)
      PROVE  Phases'
  BY <1>5 DEF Finish
<1>6. ASSUME NEW w \in Workers, CreateWorker(w)
      PROVE  Phases'
  BY <1>6 DEF CreateWorker
<1>7. CASE BeginDestroy
  BY <1>7 DEF BeginDestroy, Broadcast
<1>8. CASE FinishDestroy
  BY <1>8 DEF FinishDestroy, AllJoined
<1>9. CASE UNCHANGED vars
  BY <1>9 DEF vars
<1> QED
  BY <1>1, <1>2, <1>3, <1>4, <1>5, <1>6, <1>7, <1>8, <1>9 DEF Next

-----------------------------------------------------------------------------
(* Until the pool is freed the accepted tasks are the taken ones followed   *)
(* by the queued ones; so the task at the head was never taken before.      *)
LEMMA TakenThenQueued ==
  ASSUME TypeOK, InOrder, Phases, owner # "freed"
  PROVE  /\ accepted = started \o queue
         /\ \A i \in 1 .. Len(started) : i \in DOMAIN accepted /\ accepted[i] = started[i]
         /\ queue # <<>> => /\ Len(started) + 1 \in DOMAIN accepted
                            /\ accepted[Len(started) + 1] = Head(queue)
         /\ \A t : InSeq(t, accepted) <=> InSeq(t, started) \/ InSeq(t, queue)
<1>1. started \in Seq(Tasks) /\ queue \in Seq(Tasks) /\ started \o queue \in Seq(Tasks)
  BY ConcatProperties DEF TypeOK
<1>2. dropped = <<>>
  BY DEF Phases, TypeOK
<1>3. accepted = started \o queue
  BY <1>1, <1>2, ConcatEmptySeq DEF InOrder
<1>4. /\ Len(accepted) = Len(started) + Len(queue) /\ DOMAIN accepted = 1 .. Len(accepted)
      /\ \A i \in 1 .. Len(started) + Len(queue) :
            accepted[i] = IF i <= Len(started) THEN started[i] ELSE queue[i - Len(started)]
      /\ Len(started) \in Nat /\ Len(queue) \in Nat
  BY <1>1, <1>3, ConcatProperties, LenProperties
<1>5. queue # <<>> => Len(queue) >= 1 /\ Head(queue) = queue[1]
  BY <1>1, EmptySeq
<1>6. DOMAIN started = 1 .. Len(started) /\ DOMAIN queue = 1 .. Len(queue)
  BY <1>1, LenProperties
<1>7. \A t : InSeq(t, accepted) => InSeq(t, started) \/ InSeq(t, queue)
  <2> SUFFICES ASSUME NEW i \in DOMAIN accepted
               PROVE  InSeq(accepted[i], started) \/ InSeq(accepted[i], queue)
    BY DEF InSeq
  <2>1. CASE i <= Len(started)
    BY <1>4, <1>6, <2>1 DEF InSeq
  <2>2. CASE i > Len(started)
    <3>1. i - Len(started) \in DOMAIN queue /\ accepted[i] = queue[i - Len(started)]
      BY <1>4, <1>6, <2>2
    <3> QED
      BY <3>1 DEF InSeq
  <2> QED
    BY <1>4, <2>1, <2>2
<1>8. \A t : InSeq(t, started) => InSeq(t, accepted)
  BY <1>4, <1>6 DEF InSeq
<1>9. \A t : InSeq(t, queue) => InSeq(t, accepted)
  <2> SUFFICES ASSUME NEW i \in DOMAIN queue
               PROVE  InSeq(queue[i], accepted)
    BY DEF InSeq
  <2>1. /\ i + Len(started) \in DOMAIN accepted
        /\ accepted[i + Len(started)] = queue[i]
    BY <1>4, <1>6
  <2> QED
    BY <2>1 DEF InSeq
<1> QED
  BY <1>3, <1>4, <1>5, <1>7, <1>8, <1>9

LEMMA HeadIsFresh ==
  ASSUME TypeOK, InOrder, Phases, Distinct, ~shutdown, queue # <<>>
  PROVE  ~InSeq(Head(queue), started)
<1>1. DOMAIN started = 1 .. Len(started) /\ Len(started) \in Nat
  BY LenProperties DEF TypeOK
<1>2. owner # "freed"
  BY DEF Phases
<1> QED
  BY <1>1, <1>2, TakenThenQueued DEF InSeq, Distinct

-----------------------------------------------------------------------------
(* FIFO: submit links at the tail, a worker unlinks at the head, destroy    *)
(* keeps what it frees in order.                                            *)
LEMMA OrderStep == TypeOK /\ Phases /\ InOrder /\ [Next]_vars => InOrder'
<1> SUFFICES ASSUME TypeOK, Phases, InOrder, [Next]_vars
             PROVE  InOrder'
  OBVIOUS
<1>0. /\ queue \in Seq(Tasks) /\ started \in Seq(Tasks) /\ started \o queue \in Seq(Tasks)
      /\ ~shutdown => dropped = <<>>
      /\ owner = "joining" => dropped = <<>>
  BY ConcatProperties DEF TypeOK, Phases
<1>1. ASSUME NEW t \in Tasks, Submit(t)
      PROVE  InOrder'
  BY <1>0, <1>1, SubmitKeepsOrder DEF Submit, Enqueue, InOrder
<1>2. ASSUME NEW w \in Workers, Grab(w)
      PROVE  InOrder'
  <2>1. dropped = <<>> /\ queue # <<>> /\ dropped' = dropped /\ accepted' = accepted
        /\ started' = Append(started, Head(queue)) /\ queue' = Tail(queue)
    BY <1>0, <1>2 DEF Grab, Unlinked
  <2>2. Append(started, Head(queue)) \o Tail(queue) = started \o queue
    BY <1>0, <2>1, GrabKeepsOrder
  <2> QED
    BY <2>1, <2>2 DEF InOrder
<1>3. CASE FinishDestroy
  <2>1. dropped' = queue /\ queue' = <<>> /\ started' = started
        /\ accepted' = accepted /\ dropped = <<>>
    BY <1>0, <1>3 DEF FinishDestroy
  <2>2. started \o <<>> = started /\ (started \o queue) \o <<>> = started \o queue
    BY <1>0, ConcatEmptySeq
  <2> QED
    BY <2>1, <2>2 DEF InOrder
<1>4. ASSUME UNCHANGED <<queue, accepted, started, dropped>>
      PROVE  InOrder'
  BY <1>4 DEF InOrder
<1> QED
  BY <1>1, <1>2, <1>3, <1>4 DEF Next, Refuse, Sleep, SpuriousWake, Exit, Finish,
                               CreateWorker, BeginDestroy, Broadcast, vars

(* submit() is asked for a task it has neither accepted nor refused before. *)
LEMMA DistinctStep == TypeOK /\ Distinct /\ [Next]_vars => Distinct'
<1> SUFFICES ASSUME TypeOK, Distinct, [Next]_vars
             PROVE  Distinct'
  OBVIOUS
<1>1. ASSUME NEW t \in Tasks, Submit(t)
      PROVE  Distinct'
  <2>1. /\ accepted \in Seq(Tasks) /\ accepted' = Append(accepted, t) /\ accepted' \in Seq(Tasks)
        /\ DOMAIN accepted = 1 .. Len(accepted) /\ DOMAIN accepted' = 1 .. Len(accepted) + 1
        /\ Len(accepted) \in Nat
    BY <1>1, AppendProperties, LenProperties DEF Submit, TypeOK
  <2>2. /\ \A i \in 1 .. Len(accepted) : accepted'[i] = accepted[i] /\ accepted[i] # t
        /\ accepted'[Len(accepted) + 1] = t
        /\ t \notin refused /\ refused' = refused
    BY <1>1, <2>1, AppendProperties DEF Submit, New, InSeq
  <2> QED
    BY <2>1, <2>2 DEF Distinct
<1>2. ASSUME NEW t \in Tasks, Refuse(t)
      PROVE  Distinct'
  BY <1>2 DEF Refuse, New, InSeq, Distinct
<1>3. ASSUME UNCHANGED <<accepted, refused>>
      PROVE  Distinct'
  BY <1>3 DEF Distinct
<1> QED
  BY <1>1, <1>2, <1>3 DEF Next, Sleep, SpuriousWake, Exit, Grab, Unlinked, Finish,
                          CreateWorker, BeginDestroy, Broadcast, FinishDestroy, vars

-----------------------------------------------------------------------------
(* started only grows at its end.                                           *)
LEMMA StartedGrows ==
  ASSUME NEW s \in Seq(Tasks), NEW h \in Tasks
  PROVE  /\ \A t : InSeq(t, Append(s, h)) <=> InSeq(t, s) \/ t = h
         /\ DOMAIN Append(s, h) = 1 .. Len(s) + 1 /\ DOMAIN s = 1 .. Len(s)
         /\ \A i \in DOMAIN s : Append(s, h)[i] = s[i]
         /\ Append(s, h)[Len(s) + 1] = h
         /\ Len(s) \in Nat
<1>1. /\ Append(s, h) \in Seq(Tasks) /\ Len(Append(s, h)) = Len(s) + 1
      /\ \A i \in 1 .. Len(s) : Append(s, h)[i] = s[i]
      /\ Append(s, h)[Len(s) + 1] = h
  BY AppendProperties
<1>2. /\ DOMAIN Append(s, h) = 1 .. Len(s) + 1 /\ DOMAIN s = 1 .. Len(s)
      /\ Len(s) \in Nat
  BY <1>1, LenProperties
<1> QED
  BY <1>1, <1>2 DEF InSeq

(* A worker runs exactly the task it holds, which was taken and is not yet  *)
(* finished (lines 45-59).                                                  *)
LEMMA HandsStep ==
  TypeOK /\ Phases /\ InOrder /\ Distinct /\ TakenOrDone /\ OneHolder /\ Hands /\ [Next]_vars
     => Hands' /\ OneHolder'
<1> SUFFICES ASSUME TypeOK, Phases, InOrder, Distinct, TakenOrDone, OneHolder, Hands, [Next]_vars
             PROVE  Hands' /\ OneHolder'
  OBVIOUS
<1>1. ASSUME NEW t \in Tasks, Submit(t)
      PROVE  Hands' /\ OneHolder'
  <2>1. \A w \in Workers : worker'[w] = "running" <=> worker[w] = "running"
    BY <1>1 DEF Submit, Enqueue, Signal, Asleep, TypeOK
  <2> QED
    BY <1>1, <2>1 DEF Submit, Hands, OneHolder
<1>2. ASSUME NEW w \in Workers, Grab(w)
      PROVE  Hands' /\ OneHolder'
  <2> DEFINE h == Head(queue)
  <2>1. h \in Tasks /\ h # NoTask /\ started' = Append(started, h)
    BY <1>2, HeadTailProperties, PoolAssumption DEF Grab, Unlinked, TypeOK
  <2>2. ~InSeq(h, started)
    BY <1>2, HeadIsFresh DEF Grab, Unlinked
  <2>3. h \notin finished /\ \A v \in Workers : holds[v] # h
    BY <2>1, <2>2 DEF TakenOrDone, Hands
  <2>4. \A t : InSeq(t, started') <=> InSeq(t, started) \/ t = h
    BY <2>1, StartedGrows DEF TypeOK
  <2>5. /\ holds' = [holds EXCEPT ![w] = h] /\ worker' = [worker EXCEPT ![w] = "running"]
        /\ finished' = finished
    BY <1>2 DEF Grab, Unlinked
  <2> HIDE DEF h
  <2>6. Hands'
    BY <2>1, <2>3, <2>4, <2>5 DEF Hands, TypeOK
  <2>7. OneHolder'
    BY <2>3, <2>5 DEF OneHolder, TypeOK
  <2> QED
    BY <2>6, <2>7
<1>3. ASSUME NEW w \in Workers, Finish(w)
      PROVE  Hands' /\ OneHolder'
  <2>1. /\ holds' = [holds EXCEPT ![w] = NoTask] /\ worker' = [worker EXCEPT ![w] = "ready"]
        /\ started' = started /\ finished' = finished \cup {holds[w]} /\ holds[w] # NoTask
    BY <1>3 DEF Finish, Hands
  <2>2. \A v \in Workers : v # w => holds[v] # holds[w]
    BY <2>1 DEF OneHolder
  <2>3. Hands'
    BY <2>1, <2>2 DEF Hands, TypeOK
  <2>4. OneHolder'
    BY <2>1 DEF OneHolder, TypeOK
  <2> QED
    BY <2>3, <2>4
<1>4. ASSUME UNCHANGED <<holds, started, finished>>,
             \A w \in Workers : worker'[w] = "running" <=> worker[w] = "running"
      PROVE  Hands' /\ OneHolder'
  BY <1>4 DEF Hands, OneHolder
<1>5. ASSUME NEW w \in Workers,
             Sleep(w) \/ SpuriousWake(w) \/ Exit(w) \/ CreateWorker(w)
      PROVE  Hands' /\ OneHolder'
  <2>1. \A v \in Workers : worker'[v] = "running" <=> worker[v] = "running"
    BY <1>5 DEF Sleep, SpuriousWake, Exit, CreateWorker, TypeOK
  <2> QED
    BY <1>4, <1>5, <2>1 DEF Sleep, SpuriousWake, Exit, CreateWorker
<1>6. CASE BeginDestroy
  BY <1>4, <1>6 DEF BeginDestroy, Broadcast, TypeOK
<1>7. CASE UNCHANGED vars \/ FinishDestroy \/ \E t \in Tasks : Refuse(t)
  BY <1>4, <1>7 DEF vars, FinishDestroy, Refuse
<1> QED
  BY <1>1, <1>2, <1>3, <1>5, <1>6, <1>7 DEF Next

(* Every task taken is in a hand or finished, and none is finished that was *)
(* not taken.                                                               *)
LEMMA TakenStep == TypeOK /\ Hands /\ TakenOrDone /\ [Next]_vars => TakenOrDone'
<1> SUFFICES ASSUME TypeOK, Hands, TakenOrDone, [Next]_vars
             PROVE  TakenOrDone'
  OBVIOUS
<1>1. ASSUME NEW w \in Workers, Grab(w)
      PROVE  TakenOrDone'
  <2> DEFINE h == Head(queue)
  <2>1. /\ h \in Tasks /\ started \in Seq(Tasks) /\ started' = Append(started, h)
        /\ holds' = [holds EXCEPT ![w] = h] /\ finished' = finished
        /\ holds[w] = NoTask
    BY <1>1, HeadTailProperties DEF Grab, Unlinked, TypeOK, Hands
  <2> HIDE DEF h
  <2>2. holds'[w] = h /\ \A v \in Workers : v # w => holds'[v] = holds[v]
    BY <2>1 DEF TypeOK
  <2>3. \A i \in DOMAIN started : started[i] \in Tasks
    BY <2>1, LenProperties, ElementOfSeq
  <2>4. \A i \in DOMAIN started :
          started[i] \in finished \/ \E v \in Workers : holds'[v] = started[i]
    BY <2>1, <2>2, <2>3, PoolAssumption DEF TakenOrDone
  <2>5. \A i \in DOMAIN started' :
          started'[i] \in finished \/ \E v \in Workers : holds'[v] = started'[i]
    BY <2>1, <2>2, <2>4, StartedGrows
  <2>6. \A t \in finished' : InSeq(t, started')
    BY <2>1, StartedGrows DEF TakenOrDone
  <2> QED
    BY <2>1, <2>5, <2>6 DEF TakenOrDone
<1>2. ASSUME NEW w \in Workers, Finish(w)
      PROVE  TakenOrDone'
  <2>1. /\ holds' = [holds EXCEPT ![w] = NoTask] /\ started' = started
        /\ finished' = finished \cup {holds[w]} /\ InSeq(holds[w], started)
    BY <1>2 DEF Finish, Hands
  <2> QED
    BY <2>1 DEF TakenOrDone, TypeOK
<1>3. ASSUME UNCHANGED <<holds, started, finished>>
      PROVE  TakenOrDone'
  BY <1>3 DEF TakenOrDone, InSeq
<1> QED
  BY <1>1, <1>2, <1>3 DEF Next, Submit, Refuse, Sleep, SpuriousWake, Exit,
                          CreateWorker, BeginDestroy, Broadcast, FinishDestroy, vars

-----------------------------------------------------------------------------
(* A worker that becomes ready adds one to the count of ready workers.      *)
LEMMA OneMoreReady ==
  ASSUME TypeOK, NEW w \in Workers, worker[w] # "ready",
         worker' = [worker EXCEPT ![w] = "ready"]
  PROVE  /\ Cardinality(Ready') = Cardinality(Ready) + 1
         /\ Cardinality(Ready) \in Nat
         /\ Asleep' \subseteq Asleep
<1>1. IsFiniteSet(Ready)
  BY FS_Subset, PoolAssumption DEF Ready
<1>2. Ready' = Ready \cup {w} /\ w \notin Ready /\ Asleep' \subseteq Asleep
  BY DEF Ready, Asleep, TypeOK
<1> QED
  BY <1>1, <1>2, FS_AddElement, FS_CardinalityType

(* One signal per task and the empty-queue test under the lock: no worker   *)
(* sleeps while there are more tasks than workers about to look for one.    *)
LEMMA WakeStep == TypeOK /\ Hands /\ Phases /\ NoSleepOnWork /\ [Next]_vars => NoSleepOnWork'
<1> SUFFICES ASSUME TypeOK, Hands, Phases, NoSleepOnWork, [Next]_vars
             PROVE  NoSleepOnWork'
  OBVIOUS
<1>0. /\ Len(queue) \in Nat /\ queue \in Seq(Tasks)
      /\ IsFiniteSet(Ready) /\ IsFiniteSet(Ready')
  <2>1. Ready \in SUBSET Workers /\ Ready' \in SUBSET Workers
    BY DEF Ready
  <2> QED
    BY <2>1, FS_Subset, PoolAssumption, LenProperties DEF TypeOK
<1>1. ASSUME NEW w \in Workers, worker[w] # "ready",
             worker' = [worker EXCEPT ![w] = "ready"], queue' = queue
      PROVE  NoSleepOnWork'
  <2>1. /\ Cardinality(Ready') = Cardinality(Ready) + 1
        /\ Cardinality(Ready) \in Nat
        /\ Asleep' \subseteq Asleep
    BY <1>1, OneMoreReady
  <2> QED
    BY <1>0, <1>1, <2>1 DEF NoSleepOnWork
<1>2. ASSUME NEW t \in Tasks, Submit(t)
      PROVE  NoSleepOnWork'
  <2>1. Len(queue') = Len(queue) + 1
    BY <1>0, <1>2, AppendProperties DEF Submit, Enqueue
  <2>2. CASE Asleep = {}
    BY <1>2, <2>2 DEF Submit, Enqueue, Signal, NoSleepOnWork, Asleep
  <2>3. CASE Asleep # {}
    <3>1. PICK w \in Asleep : worker' = [worker EXCEPT ![w] = "ready"]
      BY <1>2, <2>3 DEF Submit, Enqueue, Signal
    <3>2. w \in Workers /\ worker[w] # "ready"
      BY DEF Asleep
    <3>3. Cardinality(Ready') = Cardinality(Ready) + 1 /\ Cardinality(Ready) \in Nat
      BY <3>1, <3>2, OneMoreReady
    <3> QED
      BY <1>0, <2>1, <2>3, <3>3 DEF NoSleepOnWork
  <2> QED
    BY <2>2, <2>3
<1>3. ASSUME NEW w \in Workers, Sleep(w)
      PROVE  NoSleepOnWork'
  <2>1. queue' = <<>>
    BY <1>3 DEF Sleep
  <2> QED
    BY <1>0, <2>1, FS_CardinalityType DEF NoSleepOnWork
<1>4. ASSUME NEW w \in Workers, SpuriousWake(w) \/ Finish(w) \/ CreateWorker(w)
      PROVE  NoSleepOnWork'
  BY <1>1, <1>4 DEF SpuriousWake, Finish, CreateWorker
<1>5. ASSUME NEW w \in Workers, Exit(w)
      PROVE  NoSleepOnWork'
  <2>1. Asleep' = {}
    BY <1>5 DEF Exit, Phases, Asleep, TypeOK
  <2> QED
    BY <2>1 DEF NoSleepOnWork
<1>6. ASSUME NEW w \in Workers, Grab(w)
      PROVE  NoSleepOnWork'
  <2>1. Len(queue') = Len(queue) - 1
    BY <1>0, <1>6, HeadTailProperties DEF Grab, Unlinked
  <2>2. Ready' = Ready \ {w} /\ w \in Ready /\ Asleep' = Asleep
    BY <1>6 DEF Grab, Unlinked, Ready, Asleep, TypeOK
  <2>3. Cardinality(Ready') = Cardinality(Ready) - 1 /\ Cardinality(Ready) \in Nat
    BY <1>0, <2>2, FS_RemoveElement, FS_CardinalityType
  <2> QED
    BY <1>0, <2>1, <2>2, <2>3 DEF NoSleepOnWork
<1>7. CASE BeginDestroy
  <2>1. Asleep' = {}
    BY <1>7 DEF BeginDestroy, Broadcast, Asleep, TypeOK
  <2> QED
    BY <2>1 DEF NoSleepOnWork
<1>8. CASE FinishDestroy
  <2>1. Asleep' = {}
    BY <1>8 DEF FinishDestroy, Phases, Asleep, TypeOK, OwnerStates
  <2> QED
    BY <2>1 DEF NoSleepOnWork
<1>9. ASSUME UNCHANGED <<worker, queue>>
      PROVE  NoSleepOnWork'
  BY <1>9 DEF NoSleepOnWork, Asleep, Ready
<1> QED
  BY <1>2, <1>3, <1>4, <1>5, <1>6, <1>7, <1>8, <1>9 DEF Next, Refuse, vars

-----------------------------------------------------------------------------
(* PoolInv is an invariant of the pool, for any workers and tasks.          *)
THEOREM PoolInvariant == Spec => []PoolInv
<1>1. Init => PoolInv
  <2> SUFFICES ASSUME Init PROVE PoolInv
    OBVIOUS
  <2>1. TypeOK
    BY TypeInit
  <2>2. InOrder
    <3>1. <<>> \in Seq(Tasks) /\ <<>> \o <<>> = <<>>
      BY EmptySeq, ConcatEmptySeq
    <3> QED
      BY <3>1 DEF Init, InOrder
  <2>3. NoSleepOnWork /\ Phases
    BY DEF Init, NoSleepOnWork, Phases, Asleep
  <2>4. OneHolder /\ Hands
    BY DEF Init, OneHolder, Hands
  <2>5. Distinct /\ TakenOrDone
    <3>1. DOMAIN <<>> = {}
      OBVIOUS
    <3> QED
      BY <3>1 DEF Init, Distinct, TakenOrDone
  <2> QED
    BY <2>1, <2>2, <2>3, <2>4, <2>5 DEF PoolInv
<1>2. PoolInv /\ [Next]_vars => PoolInv'
  BY TypeStep, PhasesStep, OrderStep, DistinctStep, HandsStep, TakenStep, WakeStep DEF PoolInv
<1> QED
  BY <1>1, <1>2, PTL DEF Spec

(* No accepted task is lost, taken twice or taken out of turn.              *)
THEOREM FirstInFirstOut == Spec => []InOrder
<1>1. PoolInv => InOrder
  BY DEF PoolInv
<1> QED
  BY <1>1, PoolInvariant, PTL

(* No task waits behind a sleeping worker.                                  *)
THEOREM NoLostWakeUp == Spec => []NoSleepOnWork
<1>1. PoolInv => NoSleepOnWork
  BY DEF PoolInv
<1> QED
  BY <1>1, PoolInvariant, PTL

(* Once the pool is freed no worker uses it and every task that was taken   *)
(* has finished: destroy joins before it frees (lines 154-178).             *)
THEOREM NoUseAfterFree == Spec => []FreedIsQuiet
<1>1. PoolInv => FreedIsQuiet
  <2> SUFFICES ASSUME PoolInv, owner = "freed"
               PROVE  /\ \A w \in Workers : worker[w] \in {"unborn", "exited"} /\ holds[w] = NoTask
                      /\ \A i \in DOMAIN started : started[i] \in finished
    BY DEF FreedIsQuiet
  <2>1. \A w \in Workers : worker[w] \in {"unborn", "exited"} /\ holds[w] = NoTask
    BY DEF PoolInv, Phases, Hands
  <2>2. \A i \in DOMAIN started : started[i] \in Tasks
    BY LenProperties, ElementOfSeq DEF PoolInv, TypeOK
  <2> QED
    BY <2>1, <2>2, PoolAssumption DEF PoolInv, TakenOrDone
<1> QED
  BY <1>1, PoolInvariant, PTL

-----------------------------------------------------------------------------
(* Refinement.  First, the stage of a task when the pool's history changes  *)
(* in one of the ways a step changes it.                                    *)
LEMMA AcceptedStage ==
  ASSUME PoolInv, owner # "freed", NEW t
  PROVE  /\ New(t) => StageOf(t) = "new"
         /\ InSeq(t, started) => t \notin refused
         /\ ~InSeq(t, dropped)
<1>1. dropped = <<>>
  BY DEF PoolInv, Phases
<1>2. ~InSeq(t, dropped)
  <2>1. DOMAIN <<>> = {}
    OBVIOUS
  <2> QED
    BY <1>1, <2>1 DEF InSeq
<1>3. InSeq(t, accepted) <=> InSeq(t, started) \/ InSeq(t, queue)
  BY TakenThenQueued DEF PoolInv
<1>4. t \in finished => InSeq(t, started)
  BY DEF PoolInv, TakenOrDone
<1>5. InSeq(t, accepted) => t \notin refused
  BY DEF PoolInv, Distinct, InSeq
<1> QED
  BY <1>2, <1>3, <1>4, <1>5 DEF New, StageOf

(* What is in the queue besides its head is in its tail.                    *)
LEMMA TailKeepsRest ==
  ASSUME NEW q \in Seq(Tasks), q # <<>>, NEW t, t # Head(q)
  PROVE  InSeq(t, Tail(q)) <=> InSeq(t, q)
<1>1. /\ Tail(q) \in Seq(Tasks) /\ Len(q) \in Nat \ {0} /\ Head(q) = q[1]
      /\ DOMAIN Tail(q) = 1 .. Len(q) - 1 /\ DOMAIN q = 1 .. Len(q)
      /\ \A i \in 1 .. Len(q) - 1 : Tail(q)[i] = q[i + 1]
  BY HeadTailProperties, LenProperties, EmptySeq
<1>2. InSeq(t, Tail(q)) => InSeq(t, q)
  <2> SUFFICES ASSUME NEW i \in DOMAIN Tail(q), Tail(q)[i] = t
               PROVE  InSeq(t, q)
    BY DEF InSeq
  <2>1. i + 1 \in DOMAIN q /\ q[i + 1] = t
    BY <1>1
  <2> QED
    BY <2>1 DEF InSeq
<1>3. InSeq(t, q) => InSeq(t, Tail(q))
  <2> SUFFICES ASSUME NEW i \in DOMAIN q, q[i] = t
               PROVE  InSeq(t, Tail(q))
    BY DEF InSeq
  <2>1. i # 1
    BY <1>1
  <2>2. i - 1 \in DOMAIN Tail(q) /\ Tail(q)[i - 1] = q[(i - 1) + 1]
    BY <1>1, <2>1
  <2> QED
    BY <1>1, <2>2 DEF InSeq
<1> QED
  BY <1>2, <1>3

(* The stages and the phase of the service, named to be hidden.             *)
Stages == [t \in Tasks |-> StageOf(t)]
Phase == IF ~shutdown THEN "open" ELSE IF owner = "freed" THEN "over" ELSE "closing"

(* Task t goes from stage a to stage b, as the abstract service sees it.    *)
Moves(t, a, b) == /\ StageOf(t) = a
                  /\ Stages' = [Stages EXCEPT ![t] = b]
                  /\ Phase' = Phase

LEMMA ServiceStep ==
  ASSUME PoolInv, PoolInv', [Next]_vars
  PROVE  \/ \E t \in Tasks : \/ Phase = "open" /\ Moves(t, "new", "accepted")
                             \/ Phase # "over" /\ Moves(t, "new", "refused")
                             \/ Phase = "open" /\ Moves(t, "accepted", "running")
                             \/ Phase # "over" /\ Moves(t, "running", "done")
         \/ Phase = "open" /\ Phase' = "closing" /\ Stages' = Stages
         \/ /\ Phase = "closing" /\ \A t \in Tasks : StageOf(t) # "running"
            /\ Phase' = "over"
            /\ Stages' = [t \in Tasks |->
                            IF StageOf(t) = "accepted" THEN "discarded" ELSE StageOf(t)]
         \/ Stages' = Stages /\ Phase' = Phase
<1>0. /\ TypeOK /\ queue \in Seq(Tasks) /\ started \in Seq(Tasks)
      /\ shutdown <=> owner \in {"joining", "freed"}
      /\ owner # "freed" => \A t : ~InSeq(t, dropped)
  BY AcceptedStage DEF PoolInv, TypeOK, Phases
<1>1. ASSUME NEW t \in Tasks, Submit(t)
      PROVE  Phase = "open" /\ Moves(t, "new", "accepted")
  <2>1. /\ StageOf(t) = "new" /\ owner # "freed"
        /\ t \notin refused /\ t \notin finished /\ ~InSeq(t, started)
    <3>1. owner # "freed" /\ New(t)
      BY <1>1 DEF Submit
    <3>2. StageOf(t) = "new"
      BY <3>1, AcceptedStage
    <3> QED
      BY <3>1, <3>2 DEF StageOf
  <2>2. \A u : InSeq(u, queue') <=> InSeq(u, queue) \/ u = t
    BY <1>0, <1>1, StartedGrows DEF Submit, Enqueue
  <2>3. UNCHANGED <<refused, finished, started, dropped, shutdown, owner>>
    BY <1>1 DEF Submit
  <2>4. StageOf(t)' = "accepted"
    BY <2>1, <2>2, <2>3 DEF StageOf
  <2>5. \A u \in Tasks \ {t} : StageOf(u)' = StageOf(u)
    BY <2>2, <2>3 DEF StageOf
  <2>6. Stages' = [Stages EXCEPT ![t] = "accepted"]
    BY <2>4, <2>5 DEF Stages
  <2> QED
    BY <1>1, <2>1, <2>3, <2>6 DEF Moves, Phase, Submit
<1>2. ASSUME NEW t \in Tasks, Refuse(t)
      PROVE  Phase # "over" /\ Moves(t, "new", "refused")
  <2>1. owner # "freed" /\ New(t)
    BY <1>2 DEF Refuse
  <2>2. StageOf(t) = "new"
    BY <2>1, AcceptedStage
  <2>3. UNCHANGED <<queue, finished, started, dropped, shutdown, owner>>
        /\ refused' = refused \cup {t}
    BY <1>2 DEF Refuse
  <2>4. StageOf(t)' = "refused" /\ \A u \in Tasks \ {t} : StageOf(u)' = StageOf(u)
    BY <2>3 DEF StageOf
  <2>5. Stages' = [Stages EXCEPT ![t] = "refused"]
    BY <2>4 DEF Stages
  <2> QED
    BY <2>1, <2>2, <2>3, <2>5 DEF Moves, Phase
<1>3. ASSUME NEW w \in Workers, Grab(w)
      PROVE  \E t \in Tasks : Phase = "open" /\ Moves(t, "accepted", "running")
  <2>0. PICK h : h = Head(queue)
    OBVIOUS
  <2>1. /\ ~shutdown /\ owner # "freed" /\ queue # <<>> /\ queue' = Tail(queue)
        /\ started' = Append(started, h)
        /\ UNCHANGED <<refused, finished, dropped, shutdown, owner>>
    BY <1>0, <1>3, <2>0 DEF Grab, Unlinked
  <2>2. h \in Tasks /\ InSeq(h, queue) /\ ~InSeq(h, started)
    <3>1. h \in Tasks /\ 1 \in DOMAIN queue /\ h = queue[1]
      BY <1>0, <2>0, <2>1, HeadTailProperties, LenProperties, EmptySeq
    <3>2. ~InSeq(h, started)
      BY <2>0, <2>1, HeadIsFresh DEF PoolInv
    <3> QED
      BY <3>1, <3>2 DEF InSeq
  <2>3. h \notin refused /\ h \notin finished
    <3>1. InSeq(h, accepted)
      BY <2>1, <2>2, TakenThenQueued DEF PoolInv
    <3> QED
      BY <2>2, <3>1 DEF PoolInv, Distinct, TakenOrDone, InSeq
  <2>4. \A u : InSeq(u, started') <=> InSeq(u, started) \/ u = h
    BY <1>0, <2>1, <2>2, StartedGrows
  <2>5. \A u : u # h => (InSeq(u, queue') <=> InSeq(u, queue))
    BY <1>0, <2>0, <2>1, TailKeepsRest
  <2>6. StageOf(h) = "accepted" /\ StageOf(h)' = "running"
    BY <2>1, <2>2, <2>3, <2>4 DEF StageOf
  <2>7. \A u \in Tasks \ {h} : StageOf(u)' = StageOf(u)
    BY <2>1, <2>4, <2>5 DEF StageOf
  <2>8. Stages' = [Stages EXCEPT ![h] = "running"]
    BY <2>2, <2>6, <2>7 DEF Stages
  <2>9. Phase = "open" /\ Phase' = Phase
    BY <2>1 DEF Phase
  <2> QED
    BY <2>2, <2>6, <2>8, <2>9 DEF Moves
<1>4. ASSUME NEW w \in Workers, Finish(w)
      PROVE  \E t \in Tasks : Phase # "over" /\ Moves(t, "running", "done")
  <2>0. PICK h : h = holds[w]
    OBVIOUS
  <2>1. /\ h \in Tasks /\ InSeq(h, started) /\ h \notin finished /\ owner # "freed"
        /\ finished' = finished \cup {h}
        /\ UNCHANGED <<refused, queue, started, dropped, shutdown, owner>>
    BY <1>4, <2>0 DEF Finish, PoolInv, Hands, TypeOK, Phases
  <2>2. h \notin refused
    BY <2>1, AcceptedStage
  <2>3. StageOf(h) = "running" /\ StageOf(h)' = "done"
    BY <2>1, <2>2 DEF StageOf
  <2>4. \A u \in Tasks \ {h} : StageOf(u)' = StageOf(u)
    BY <2>1 DEF StageOf
  <2>5. Stages' = [Stages EXCEPT ![h] = "done"]
    BY <2>1, <2>3, <2>4 DEF Stages
  <2>6. Phase # "over" /\ Phase' = Phase
    BY <2>1 DEF Phase
  <2> QED
    BY <2>1, <2>3, <2>5, <2>6 DEF Moves
<1>5. CASE BeginDestroy
  <2>1. /\ ~shutdown /\ shutdown' /\ owner' = "joining"
        /\ UNCHANGED <<refused, finished, started, queue, dropped>>
    BY <1>0, <1>5 DEF BeginDestroy, Broadcast
  <2>2. \A u \in Tasks : StageOf(u)' = StageOf(u)
    BY <2>1 DEF StageOf
  <2> QED
    BY <2>1, <2>2 DEF Stages, Phase
<1>6. CASE FinishDestroy
  <2>1. /\ owner = "joining" /\ shutdown /\ owner' = "freed" /\ shutdown' = shutdown
        /\ dropped' = queue /\ queue' = <<>> /\ UNCHANGED <<refused, finished, started>>
    BY <1>0, <1>6 DEF FinishDestroy
  <2>2. \A u : ~InSeq(u, dropped) /\ ~InSeq(u, queue') /\ (InSeq(u, dropped') <=> InSeq(u, queue))
    <3>1. DOMAIN <<>> = {}
      OBVIOUS
    <3> QED
      BY <1>0, <2>1, <3>1 DEF InSeq
  <2>3. \A u \in Tasks : InSeq(u, started) => u \in finished
    <3> SUFFICES ASSUME NEW i \in DOMAIN started, started[i] \in Tasks
                 PROVE  started[i] \in finished
      BY DEF InSeq
    <3>1. \A w \in Workers : holds[w] = NoTask
      BY <1>6 DEF FinishDestroy, AllJoined, PoolInv, Hands
    <3> QED
      BY <3>1, PoolAssumption DEF PoolInv, TakenOrDone
  <2>4. \A u \in Tasks : /\ StageOf(u) # "running"
                         /\ StageOf(u)' = IF StageOf(u) = "accepted" THEN "discarded" ELSE StageOf(u)
    BY <2>1, <2>2, <2>3 DEF StageOf
  <2> QED
    BY <2>1, <2>4 DEF Stages, Phase
<1>7. ASSUME UNCHANGED <<refused, finished, started, queue, dropped, shutdown>>,
             owner' = "freed" <=> owner = "freed"
      PROVE  Stages' = Stages /\ Phase' = Phase
  <2>1. \A u \in Tasks : StageOf(u)' = StageOf(u)
    BY <1>7 DEF StageOf
  <2> QED
    BY <1>7, <2>1 DEF Stages, Phase
<1>8. ASSUME NEW w \in Workers, Sleep(w) \/ SpuriousWake(w) \/ Exit(w) \/ CreateWorker(w)
      PROVE  Stages' = Stages /\ Phase' = Phase
  BY <1>7, <1>8 DEF Sleep, SpuriousWake, Exit, CreateWorker
<1>9. CASE UNCHANGED vars
  BY <1>7, <1>9 DEF vars
<1> HIDE DEF Stages, Phase
<1>10. CASE \E t \in Tasks : Submit(t) \/ Refuse(t)
  BY <1>1, <1>2, <1>10
<1>11. (\E w \in Workers : Grab(w))
         => \E t \in Tasks : Phase = "open" /\ Moves(t, "accepted", "running")
  BY <1>3, Zenon
<1>12. (\E w \in Workers : Finish(w))
         => \E t \in Tasks : Phase # "over" /\ Moves(t, "running", "done")
  BY <1>4, Zenon
<1> QED
  BY <1>5, <1>6, <1>8, <1>9, <1>10, <1>11, <1>12 DEF Next

(* The pool does to each task what the abstract service may do to it: the   *)
(* safety part of ImplementsService, for any workers and tasks.             *)
THEOREM PoolImplementsService == Spec => Service!SSafety
<1>1. Init => Service!SInit
  <2> SUFFICES ASSUME Init PROVE Service!SInit
    OBVIOUS
  <2>1. DOMAIN <<>> = {}
    OBVIOUS
  <2> QED
    BY <2>1 DEF Init, Service!SInit, StageOf, InSeq
<1>2. PoolInv /\ PoolInv' /\ [Next]_vars => [Service!SNext]_Service!svars
  <2> SUFFICES ASSUME PoolInv, PoolInv', [Next]_vars
               PROVE  [Service!SNext]_Service!svars
    OBVIOUS
  <2>1. \A t \in Tasks : Stages[t] = StageOf(t)
    BY DEF Stages
  <2> QED
    BY <2>1, ServiceStep DEF Service!SNext, Service!svars, Service!Accept, Service!Refuse,
         Service!Start, Service!Complete, Service!Move, Service!Close, Service!End, Moves, Stages, Phase
<1> QED
  BY <1>1, <1>2, PoolInvariant, PTL DEF Spec, Service!SSafety
=============================================================================
