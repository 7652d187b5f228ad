------------------------------ MODULE ThreadPool ------------------------------
(***************************************************************************)
(* util/thread_pool.c: one FIFO of tasks, a mutex, a condition variable    *)
(* and a fixed set of workers.                                             *)
(*                                                                         *)
(* Every access to the queue, to queue_size and to shutdown is made under  *)
(* pool->lock, and no thread blocks with the lock held except inside       *)
(* pthread_cond_wait, which releases it; so one action is one critical     *)
(* section, and the mutex itself needs no variable.  What does need one is *)
(* where each worker is between two critical sections: about to take the   *)
(* lock, asleep on the condition variable, or running a task.              *)
(***************************************************************************)
EXTENDS Naturals, Sequences, FiniteSets

CONSTANTS Workers,   (* the worker threads, pool->threads[]                *)
          Tasks,     (* the (function, arg) pairs callers submit           *)
          NoTask     (* "this worker holds no task"                        *)

ASSUME PoolAssumption == /\ IsFiniteSet(Workers)
                         /\ Workers # {}       (* worker_count > 0, line 65 *)
                         /\ NoTask \notin Tasks

VARIABLES
  queue,      (* tasks from queue_head to queue_tail; Len(queue) = queue_size *)
  shutdown,   (* pool->shutdown                                             *)
  worker,     (* where each worker is                                       *)
  holds,      (* the local t of thread_worker                               *)
  owner,      (* the thread that creates and destroys the pool              *)
  accepted,   (* history: tasks submit() returned 0 for, in that order      *)
  refused,    (* history: tasks submit() returned -1 for                    *)
  started,    (* history: tasks in the order workers took them              *)
  finished,   (* history: tasks whose function returned                     *)
  dropped     (* history: tasks freed by destroy without having run         *)

vars == <<queue, shutdown, worker, holds, owner,
          accepted, refused, started, finished, dropped>>

WorkerStates == {"unborn",   (* pthread_create not called yet              *)
                 "ready",    (* at pthread_mutex_lock, or woken and         *)
                             (* re-acquiring it inside pthread_cond_wait    *)
                 "asleep",   (* inside pthread_cond_wait                    *)
                 "running",  (* executing a task, lock released             *)
                 "exited"}   (* after pthread_exit                          *)

OwnerStates == {"creating",  (* in thread_pool_create                      *)
                "serving",   (* thread_pool_create returned the pool        *)
                "joining",   (* in thread_pool_destroy, at pthread_join     *)
                "freed"}     (* the pool is gone                           *)

Asleep == {w \in Workers : worker[w] = "asleep"}
Ready  == {w \in Workers : worker[w] = "ready"}

Init == /\ queue = <<>> /\ shutdown = FALSE
        /\ worker = [w \in Workers |-> "unborn"]
        /\ holds = [w \in Workers |-> NoTask]
        /\ owner = "creating"
        /\ accepted = <<>> /\ started = <<>> /\ dropped = <<>>
        /\ refused = {} /\ finished = {}

-----------------------------------------------------------------------------
(* Mutant: nobody is woken.                                                 *)
NoSignal == UNCHANGED worker

(* pthread_cond_signal: if some worker sleeps, one sleeper is woken.        *)
Signal == IF Asleep = {} THEN UNCHANGED worker
          ELSE \E w \in Asleep : worker' = [worker EXCEPT ![w] = "ready"]

(* Mutants: the task is linked in at the head; or a worker is woken only    *)
(* when the queue was empty.                                                *)
EnqueueFirst(t) == queue' = <<t>> \o queue /\ Signal
EnqueueSignalIfEmpty(t) == queue' = Append(queue, t)
                           /\ IF queue = <<>> THEN Signal ELSE UNCHANGED worker

(* The new task goes to the tail, and one sleeper is woken in either branch *)
(* of line 128.                                                             *)
Enqueue(t) == queue' = Append(queue, t) /\ Signal

(* t is an element of the sequence s                                        *)
InSeq(t, s) == \E i \in DOMAIN s : s[i] = t

New(t) == t \notin refused /\ ~InSeq(t, accepted)

(* thread_pool_submit by any thread that may still use the pool.            *)
Submit(t) == /\ owner \in {"serving", "joining"}
             /\ ~shutdown
             /\ New(t)
             /\ Enqueue(t)
             /\ accepted' = Append(accepted, t)
             /\ UNCHANGED <<shutdown, holds, owner, refused, started, finished, dropped>>

(* It returns -1 when mem_alloc fails, at any time, or when it finds the    *)
(* pool shutting down.                                                      *)
Refuse(t) == /\ owner \in {"serving", "joining"}
             /\ New(t)
             /\ refused' = refused \cup {t}
             /\ UNCHANGED <<queue, shutdown, worker, holds, owner,
                            accepted, started, finished, dropped>>

-----------------------------------------------------------------------------
(* thread_worker, one pass through its critical section.                    *)
Sleep(w) == /\ worker[w] = "ready"
            /\ queue = <<>> /\ ~shutdown
            /\ worker' = [worker EXCEPT ![w] = "asleep"]
            /\ UNCHANGED <<queue, shutdown, holds, owner,
                           accepted, refused, started, finished, dropped>>

(* POSIX lets pthread_cond_wait return with nobody having signalled.        *)
SpuriousWake(w) == /\ worker[w] = "asleep"
                   /\ worker' = [worker EXCEPT ![w] = "ready"]
                   /\ UNCHANGED <<queue, shutdown, holds, owner,
                                  accepted, refused, started, finished, dropped>>

(* shutdown is tested before the queue: a worker leaves whatever is queued. *)
Exit(w) == /\ worker[w] = "ready"
           /\ shutdown
           /\ worker' = [worker EXCEPT ![w] = "exited"]
           /\ UNCHANGED <<queue, shutdown, holds, owner,
                          accepted, refused, started, finished, dropped>>

(* Mutant: the task taken stays linked.                                     *)
NotUnlinked == queue

(* queue_head = t->next                                                     *)
Unlinked == Tail(queue)

Grab(w) == /\ worker[w] = "ready"
           /\ queue # <<>> /\ ~shutdown
           /\ holds' = [holds EXCEPT ![w] = Head(queue)]
           /\ queue' = Unlinked
           /\ started' = Append(started, Head(queue))
           /\ worker' = [worker EXCEPT ![w] = "running"]
           /\ UNCHANGED <<shutdown, owner, accepted, refused, finished, dropped>>

Finish(w) == /\ worker[w] = "running"
             /\ finished' = finished \cup {holds[w]}
             /\ holds' = [holds EXCEPT ![w] = NoTask]
             /\ worker' = [worker EXCEPT ![w] = "ready"]
             /\ UNCHANGED <<queue, shutdown, owner, accepted, refused, started, dropped>>

-----------------------------------------------------------------------------
(* thread_pool_create starts the workers one after the other.               *)
CreateWorker(w) ==
  /\ owner = "creating" /\ worker[w] = "unborn"
  /\ worker' = [worker EXCEPT ![w] = "ready"]
  /\ owner' = IF \A v \in Workers \ {w} : worker[v] # "unborn"
              THEN "serving" ELSE "creating"
  /\ UNCHANGED <<queue, shutdown, holds, accepted, refused, started, finished, dropped>>

(* Mutant: one sleeper is woken instead of all.                             *)
SignalAtShutdown == Signal

(* pthread_cond_broadcast                                                   *)
Broadcast == worker' = [w \in Workers |->
                          IF worker[w] = "asleep" THEN "ready" ELSE worker[w]]

(* thread_pool_destroy up to its first unlock: called by the owner, or by   *)
(* thread_pool_create when pthread_create fails.                            *)
BeginDestroy ==
  /\ owner \in {"creating", "serving"}
  /\ shutdown' = TRUE
  /\ Broadcast
  /\ owner' = "joining"
  /\ UNCHANGED <<queue, holds, accepted, refused, started, finished, dropped>>

(* Mutant: a worker inside a task is not waited for.                        *)
AllIdle == \A w \in Workers : worker[w] # "ready"

(* Only the threads that were started are joined (line 156).                *)
AllJoined == \A w \in Workers : worker[w] \in {"unborn", "exited"}

(* The join loop is over: the queued tasks and the pool are freed.          *)
FinishDestroy ==
  /\ owner = "joining"
  /\ AllJoined
  /\ dropped' = queue
  /\ queue' = <<>>
  /\ owner' = "freed"
  /\ UNCHANGED <<shutdown, worker, holds, accepted, refused, started, finished>>

Next == \/ \E t \in Tasks : Submit(t) \/ Refuse(t)
        \/ \E w \in Workers : \/ Sleep(w) \/ SpuriousWake(w) \/ Exit(w)
                              \/ Grab(w) \/ Finish(w) \/ CreateWorker(w)
        \/ BeginDestroy
        \/ FinishDestroy

(* A runnable thread is scheduled, a task function returns, and the owner,  *)
(* once inside destroy, goes on: nothing makes a caller submit or destroy,  *)
(* and nothing makes a sleeper wake by itself.                              *)
Fairness == /\ \A w \in Workers : /\ WF_vars(Sleep(w) \/ Exit(w) \/ Grab(w))
                                  /\ WF_vars(Finish(w))
            /\ WF_vars(FinishDestroy)

Spec == Init /\ [][Next]_vars
FairSpec == Spec /\ Fairness

-----------------------------------------------------------------------------
(* Type correctness of the pool and of the history variables.               *)
TypeOK == /\ queue \in Seq(Tasks)
          /\ shutdown \in BOOLEAN
          /\ worker \in [Workers -> WorkerStates]
          /\ holds \in [Workers -> Tasks \cup {NoTask}]
          /\ owner \in OwnerStates
          /\ accepted \in Seq(Tasks) /\ started \in Seq(Tasks) /\ dropped \in Seq(Tasks)
          /\ refused \subseteq Tasks /\ finished \subseteq Tasks

(* The tasks accepted are, in order of acceptance, the ones a worker took   *)
(* and then the ones still queued (or freed by destroy): no task is lost,   *)
(* taken twice, or taken out of turn (the list surgery of lines 47-50 and   *)
(* 128-139).                                                                *)
InOrder == accepted = started \o queue \o dropped

(* A worker sleeps on the condition variable only while the workers about   *)
(* to look at the queue are at least as many as the tasks in it: one signal *)
(* per task and no test before it, so no task waits behind a sleeping       *)
(* worker (lines 35-37 and 128-138).                                        *)
NoSleepOnWork == Asleep # {} => Len(queue) <= Cardinality(Ready)

(* When the pool is freed no worker can touch it again and no task is left  *)
(* half done (the join loop, lines 156-160, against line 164 onwards).      *)
FreedIsQuiet == owner = "freed" =>
  /\ \A w \in Workers : worker[w] \in {"unborn", "exited"} /\ holds[w] = NoTask
  /\ \A i \in DOMAIN started : started[i] \in finished

(* No two workers hold the same task, so mem_free(t) after the call frees   *)
(* it once (lines 56-59).                                                   *)
OneHolder == \A v, w \in Workers :
               v # w /\ holds[v] # NoTask => holds[v] # holds[w]

-----------------------------------------------------------------------------
(* The parts that make the above inductive.  A worker is running exactly    *)
(* while it holds a task, one that was taken and has not finished.          *)
Hands == \A w \in Workers :
  /\ worker[w] = "running" <=> holds[w] # NoTask
  /\ holds[w] # NoTask => InSeq(holds[w], started) /\ holds[w] \notin finished

(* A task is accepted once, and not if it was refused.                      *)
Distinct == /\ \A i, j \in DOMAIN accepted : accepted[i] = accepted[j] => i = j
            /\ \A i \in DOMAIN accepted : accepted[i] \notin refused

(* What was taken is finished or in somebody's hand, and nothing else is    *)
(* finished.                                                                *)
TakenOrDone ==
  /\ \A i \in DOMAIN started :
        started[i] \in finished \/ \E w \in Workers : holds[w] = started[i]
  /\ \A t \in finished : InSeq(t, started)

(* What the owner's progress says of the pool and of the workers.           *)
Phases == /\ shutdown <=> owner \in {"joining", "freed"}
          /\ shutdown => Asleep = {}
          /\ owner # "freed" => dropped = <<>>
          /\ owner = "freed" => /\ queue = <<>>
                                /\ \A w \in Workers : worker[w] \in {"unborn", "exited"}
          /\ owner = "serving" => \A w \in Workers : worker[w] # "unborn"
          /\ \A w \in Workers : worker[w] = "exited" => shutdown

(* The inductive invariant: the whole bookkeeping of the pool, from which   *)
(* the order of the queue, the wake-ups and the quiet end follow.           *)
PoolInv == /\ TypeOK
           /\ InOrder /\ NoSleepOnWork /\ OneHolder
           /\ Hands /\ Distinct /\ TakenOrDone /\ Phases

-----------------------------------------------------------------------------
(* A destroy that has begun returns: every worker is woken, finishes the    *)
(* task it may hold and exits (lines 150-160).                              *)
DestroyReturns == shutdown ~> owner = "freed"

(* What server.c:650 says of the pool's shutdown: "Wait for all pending     *)
(* tasks".  Every accepted task has been executed once destroy returned.    *)
PendingTasksExecuted ==
  owner = "freed" => \A i \in DOMAIN accepted : accepted[i] \in finished

-----------------------------------------------------------------------------
(* The abstract service: the stage of a task is read off the pool.          *)
StageOf(t) == IF t \in refused THEN "refused"
              ELSE IF t \in finished THEN "done"
              ELSE IF InSeq(t, started) THEN "running"
              ELSE IF InSeq(t, queue) THEN "accepted"
              ELSE IF InSeq(t, dropped) THEN "discarded"
              ELSE "new"

Service == INSTANCE TaskService WITH
  state <- [t \in Tasks |-> StageOf(t)],
  phase <- IF ~shutdown THEN "open" ELSE IF owner = "freed" THEN "over" ELSE "closing"

(* The pool is a task service: the queue, the wake-ups and the two phases   *)
(* of destroy are not visible to the caller except as the service allows.   *)
ImplementsService == Service!SSpec
=============================================================================
