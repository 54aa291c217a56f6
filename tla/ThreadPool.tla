----------------------------- MODULE ThreadPool -----------------------------
(***************************************************************************)
(* The thread pool of ps/thread_pools/tpool.c: thread_pool_open creates    *)
(* worker threads that wait for jobs, thread_pool_execute publishes one    *)
(* batch and waits until every job is done, thread_pool_close stops and    *)
(* joins the workers.                                                      *)
(*                                                                         *)
(* One thread, the caller, uses the handle; the workers run worker_thread. *)
(* The mutex is a variable, so what the code does outside the lock really  *)
(* interleaves.  A condition variable is the set of the threads blocked on *)
(* it: a signal or a broadcast takes threads out of the set, and a thread  *)
(* outside it competes for the mutex again.  The caller is the only thread *)
(* that ever blocks on all_done, so that set is a Boolean.                 *)
(***************************************************************************)
EXTENDS Naturals, FiniteSets

CONSTANTS
  MaxThreads,    (* bound: the largest num_threads a caller may ask for    *)
  OpenArgs,      (* the arguments of thread_pool_open that are tried       *)
  CreateFailsAt, (* the indices i at which pthread_create may fail         *)
  Values,        (* the integers handed to an executor                     *)
  Executors,     (* the executors                                          *)
  MaxWork,       (* bound: the largest num_work                            *)
  MaxBatches,    (* bound: how many times the caller executes a batch      *)
  MaxSpurious    (* bound: spurious wake-ups of pthread_cond_wait          *)

ASSUME BoundsAssumption ==
  /\ MaxThreads \in 1..32
  /\ OpenArgs \subseteq Nat
  /\ OpenArgs \cap (1..32) \subseteq 1..MaxThreads
  /\ MaxWork \in Nat
  /\ MaxBatches \in Nat
  /\ MaxSpurious \in Nat

Worker == 1..MaxThreads

(* Not a worker: the caller.  Free is the mutex when nobody holds it. *)
Caller == 0
Free == MaxThreads + 1

(* The work_vals of a call: num_work integers, indexed from 0 as in C. *)
Inputs == UNION { [0..n-1 -> Values] : n \in 0..MaxWork }
NumWork(vals) == Cardinality(DOMAIN vals)

(* What an executor returns for a value; only equality matters.  Zero is   *)
(* what calloc leaves in a result slot.                                    *)
Apply(exec, val) == <<exec, val>>
Zero == <<>>
Outcomes == (Executors \X Values) \cup {Zero}

-----------------------------------------------------------------------------

VARIABLES
  next, done, total,  (* int: index to take, jobs stored, jobs in the batch *)
  input, executor,    (* the published work_vals and executor               *)
  result,             (* the array tp->result points to                     *)
  die,                (* bool: stop flag                                    *)
  nthreads,           (* num_threads of a successful argument check         *)
  lock,               (* holder of the mutex, or Free                       *)
  job_available,      (* the workers blocked on this condition variable     *)
  all_done,           (* whether the caller is blocked on this one          *)
  wpc, job,           (* per worker: where it is, and its locals            *)
  cpc, args,          (* the caller: where it is, and its arguments         *)
  batches, spurious   (* how much of MaxBatches and MaxSpurious is used     *)

pool == <<next, done, total, input, executor, result>>
sync == <<lock, job_available, all_done>>
vars == <<pool, die, nthreads, sync, wpc, job, cpc, args, batches, spurious>>

(* The locals jid, val, exec and res of worker_thread. *)
NoJob == [jid |-> 0, val |-> Zero, exec |-> Zero, res |-> Zero]
Jobs == [jid : Nat, val : Values \cup {Zero}, exec : Executors \cup {Zero},
         res : Outcomes]
NoArgs == [vals |-> [j \in {} |-> Zero], exec |-> Zero]

WorkerPc == {"unborn", "lock", "check", "wait", "run", "relock", "store",
             "exited"}
CallerPc == {"start", "create", "abort", "null", "idle", "call", "publish",
             "wait", "recheck", "close", "stop", "join", "closed"}

Init ==
  /\ next = 0 /\ done = 0 /\ total = 0
  /\ input = NoArgs.vals /\ executor = NoArgs.exec /\ result = NoArgs.vals
  /\ die = FALSE
  /\ nthreads = 0
  /\ lock = Free /\ job_available = {} /\ all_done = FALSE
  /\ wpc = [w \in Worker |-> "unborn"]
  /\ job = [w \in Worker |-> NoJob]
  /\ cpc = "start" /\ args = NoArgs
  /\ batches = 0 /\ spurious = 0

-----------------------------------------------------------------------------
(* The mutex and the condition variables.                                  *)

GoWorker(w, from, to) == wpc[w] = from /\ wpc' = [wpc EXCEPT ![w] = to]
GoCaller(from, to) == cpc = from /\ cpc' = to

Acquire(t) == lock = Free /\ lock' = t
Unlock(t) == lock = t /\ lock' = Free

(* Mutant: the broadcast wakes one thread only, as a signal does. *)
SignalOnly(blocked) == { w \in blocked : \E v \in blocked : v < w }
(* Who is still blocked after pthread_cond_broadcast(&tp->job_available). *)
Broadcast(blocked) == {}

-----------------------------------------------------------------------------
(* worker_thread.                                                          *)

(* Lines 41 and 63, and the return from pthread_cond_wait of line 45: the  *)
(* worker takes the mutex.                                                 *)
WorkerLock(w) ==
  /\ \/ GoWorker(w, "lock", "check")
     \/ GoWorker(w, "wait", "check") /\ w \notin job_available
     \/ GoWorker(w, "relock", "store")
  /\ Acquire(w)
  /\ UNCHANGED <<pool, die, nthreads, job_available, all_done, job, cpc, args,
                 batches, spurious>>

(* Lines 44-45: nothing to take and no shutdown, block and drop the mutex. *)
WorkerWait(w) ==
  /\ GoWorker(w, "check", "wait")
  /\ ~die /\ next >= total
  /\ Unlock(w)
  /\ job_available' = job_available \cup {w}
  /\ UNCHANGED <<pool, die, nthreads, all_done, job, cpc, args, batches,
                 spurious>>

(* Lines 48-51 and 74: the shutdown check. *)
WorkerExit(w) ==
  /\ GoWorker(w, "check", "exited")
  /\ die
  /\ Unlock(w)
  /\ UNCHANGED <<pool, die, nthreads, job_available, all_done, job, cpc, args,
                 batches, spurious>>

(* Lines 54-57: take one job index, its value and the executor. *)
WorkerTake(w) ==
  /\ GoWorker(w, "check", "run")
  /\ ~die /\ next < total
  /\ job' = [job EXCEPT ![w] = [jid |-> next, val |-> input[next],
                                exec |-> executor, res |-> Zero]]
  /\ next' = next + 1
  /\ Unlock(w)
  /\ UNCHANGED <<done, total, input, executor, result, die, nthreads,
                 job_available, all_done, cpc, args, batches, spurious>>

(* Line 60: the job runs with the mutex released. *)
WorkerRun(w) ==
  /\ GoWorker(w, "run", "relock")
  /\ job' = [job EXCEPT ![w].res = Apply(job[w].exec, job[w].val)]
  /\ UNCHANGED <<pool, die, nthreads, sync, cpc, args, batches, spurious>>

(* ws.c, the second implementation of the same pool, keeps only the index  *)
(* (its lines 43-45): it reads the value and the executor when it runs the *)
(* job, after the unlock.  A worker here may do either.                    *)
WorkerRunLate(w) ==
  /\ GoWorker(w, "run", "relock")
  /\ job' = [job EXCEPT ![w].res = Apply(executor, input[job[w].jid])]
  /\ UNCHANGED <<pool, die, nthreads, sync, cpc, args, batches, spurious>>

(* Mutant: the slot is computed from the shared index. *)
StoreSlotShared(w) == next - 1
(* Line 64: the slot is the local jid. *)
StoreSlot(w) == job[w].jid

(* Mutant: the signal comes one job too early. *)
LastJobEarly(d) == d + 1 = total
(* Line 68. *)
LastJob(d) == d = total

(* Lines 64-71: store the result; the last job of the batch wakes the      *)
(* caller.                                                                 *)
WorkerStore(w) ==
  /\ GoWorker(w, "store", "lock")
  /\ result' = [result EXCEPT ![StoreSlot(w)] = job[w].res]
  /\ done' = done + 1
  /\ all_done' = (all_done /\ ~LastJob(done'))
  /\ job' = [job EXCEPT ![w] = NoJob]
  /\ Unlock(w)
  /\ UNCHANGED <<next, total, input, executor, die, nthreads, job_available,
                 cpc, args, batches, spurious>>

(* pthread_cond_wait may return without a signal (lines 45 and 143 are in  *)
(* a while for that reason).                                               *)
SpuriousWakeup ==
  /\ spurious < MaxSpurious
  /\ spurious' = spurious + 1
  /\ \/ /\ \E w \in job_available : job_available' = job_available \ {w}
        /\ UNCHANGED all_done
     \/ all_done /\ all_done' = FALSE /\ UNCHANGED job_available
  /\ UNCHANGED <<pool, die, nthreads, lock, wpc, job, cpc, args, batches>>

-----------------------------------------------------------------------------
(* thread_pool_open.                                                       *)

(* Lines 78-92: a bad argument, or a calloc that fails. *)
OpenRejected ==
  /\ GoCaller("start", "null")
  /\ UNCHANGED <<pool, die, nthreads, sync, wpc, job, args, batches, spurious>>

(* Mutant: the bounds of the argument check are off by one. *)
ThreadCountOffByOne(n) == n \in 0..33
(* Line 78. *)
ThreadCount(n) == n \in 1..32

(* Lines 85-104: an accepted argument. *)
OpenStart(n) ==
  /\ GoCaller("start", "create")
  /\ ThreadCount(n)
  /\ nthreads' = n
  /\ UNCHANGED <<pool, die, sync, wpc, job, args, batches, spurious>>

Created == { w \in Worker : wpc[w] # "unborn" }

(* Lines 107-108: create the next thread.  The pool is handed to the user  *)
(* (line 123) with the last one.                                           *)
OpenCreate(w) ==
  /\ cpc = "create"
  /\ w <= nthreads
  /\ Created = 1..w-1
  /\ wpc' = [wpc EXCEPT ![w] = "lock"]
  /\ cpc' = IF w = nthreads THEN "idle" ELSE "create"
  /\ UNCHANGED <<pool, die, nthreads, sync, job, args, batches, spurious>>

(* Lines 108-109: pthread_create fails for thread i; die is set without    *)
(* the lock and without a broadcast.                                       *)
OpenCreateFails(i) ==
  /\ GoCaller("create", "abort")
  /\ i < nthreads
  /\ Created = 1..i
  /\ die' = TRUE
  /\ UNCHANGED <<pool, nthreads, sync, wpc, job, args, batches, spurious>>

(* Lines 112-120: join the threads already created, then give up. *)
OpenAbort ==
  /\ GoCaller("abort", "null")
  /\ \A w \in Created : wpc[w] = "exited"
  /\ UNCHANGED <<pool, die, nthreads, sync, wpc, job, args, batches, spurious>>

-----------------------------------------------------------------------------
(* thread_pool_execute.                                                    *)

(* Lines 126-128: the call. *)
Execute(vals, exec) ==
  /\ GoCaller("idle", "call")
  /\ batches < MaxBatches
  /\ batches' = batches + 1
  /\ args' = [vals |-> vals, exec |-> exec]
  /\ UNCHANGED <<pool, die, nthreads, sync, wpc, job, spurious>>

(* Line 131, the return from pthread_cond_wait of line 143, and line 155:  *)
(* the caller takes the mutex.                                             *)
CallerLock ==
  /\ \/ GoCaller("call", "publish")
     \/ GoCaller("wait", "recheck") /\ ~all_done
     \/ GoCaller("close", "stop")
  /\ Acquire(Caller)
  /\ UNCHANGED <<pool, die, nthreads, job_available, all_done, wpc, job, args,
                 batches, spurious>>

(* Mutant: execute waits for all jobs but one. *)
MissingButOne(d, t) == d + 1 < t
(* Line 142. *)
Missing(d, t) == d < t

(* Lines 142-146: block while jobs are missing, else unlock and return. *)
AwaitBatch(d, t) ==
  /\ cpc' = IF Missing(d, t) THEN "wait" ELSE "idle"
  /\ all_done' = Missing(d, t)
  /\ Unlock(Caller)

(* Mutant: next keeps its value from the batch before. *)
FirstJobStale == next
(* Line 136. *)
FirstJob == 0

(* Lines 133-142: publish the batch, wake every worker, test the loop      *)
(* condition for the first time.                                           *)
Publish ==
  /\ cpc = "publish"
  /\ result' = [j \in DOMAIN args.vals |-> Zero]
  /\ input' = args.vals
  /\ executor' = args.exec
  /\ next' = FirstJob /\ done' = 0 /\ total' = NumWork(args.vals)
  /\ job_available' = Broadcast(job_available)
  /\ AwaitBatch(done', total')
  /\ UNCHANGED <<die, nthreads, wpc, job, args, batches, spurious>>

(* Line 142 again, after a wake-up. *)
Recheck ==
  /\ cpc = "recheck"
  /\ AwaitBatch(done, total)
  /\ UNCHANGED <<pool, die, nthreads, job_available, wpc, job, args, batches,
                 spurious>>

-----------------------------------------------------------------------------
(* thread_pool_close.                                                      *)

Close ==
  /\ GoCaller("idle", "close")
  /\ UNCHANGED <<pool, die, nthreads, sync, wpc, job, args, batches, spurious>>

(* Lines 156-158. *)
CloseDie ==
  /\ GoCaller("stop", "join")
  /\ die' = TRUE
  /\ job_available' = Broadcast(job_available)
  /\ Unlock(Caller)
  /\ UNCHANGED <<pool, nthreads, all_done, wpc, job, args, batches, spurious>>

(* Lines 160-169: join every worker, then destroy and free. *)
CloseFree ==
  /\ GoCaller("join", "closed")
  /\ \A w \in 1..nthreads : wpc[w] = "exited"
  /\ UNCHANGED <<pool, die, nthreads, sync, wpc, job, args, batches, spurious>>

(* The caller is done with the pool: nothing is left to happen. *)
Terminated == cpc \in {"null", "closed"} /\ UNCHANGED vars

-----------------------------------------------------------------------------

WorkerStep(w) ==
  \/ WorkerLock(w) \/ WorkerWait(w) \/ WorkerExit(w)
  \/ WorkerTake(w) \/ WorkerRun(w) \/ WorkerRunLate(w)
  \/ WorkerStore(w)

(* The steps of a call that is under way. *)
CallStep ==
  \/ \E w \in Worker : OpenCreate(w)
  \/ OpenAbort
  \/ CallerLock \/ Publish \/ Recheck
  \/ CloseDie \/ CloseFree

(* What the user of the pool and the system decide. *)
EnvironmentStep ==
  \/ OpenRejected
  \/ \E n \in OpenArgs : OpenStart(n)
  \/ \E i \in CreateFailsAt : OpenCreateFails(i)
  \/ \E vals \in Inputs, exec \in Executors : Execute(vals, exec)
  \/ Close
  \/ SpuriousWakeup

Next ==
  \/ \E w \in Worker : WorkerStep(w)
  \/ CallStep
  \/ EnvironmentStep
  \/ Terminated

(* Every thread that can run is run: the workers and a caller inside a     *)
(* call keep going.  Nothing obliges the user to call.                     *)
Fairness == WF_vars(CallStep) /\ \A w \in Worker : WF_vars(WorkerStep(w))

Spec == Init /\ [][Next]_vars /\ Fairness

-----------------------------------------------------------------------------
(* Properties.                                                             *)

TypeOK ==
  /\ next \in Nat /\ done \in Nat /\ total \in Nat
  /\ input \in Inputs
  /\ executor \in Executors \cup {Zero}
  /\ result \in [DOMAIN input -> Outcomes]
  /\ die \in BOOLEAN
  /\ nthreads \in 0..MaxThreads
  /\ lock \in Worker \cup {Caller, Free}
  /\ job_available \subseteq Worker
  /\ all_done \in BOOLEAN
  /\ wpc \in [Worker -> WorkerPc]
  /\ job \in [Worker -> Jobs]
  /\ cpc \in CallerPc
  /\ args \in [vals : Inputs, exec : Executors \cup {Zero}]
  /\ batches \in 0..MaxBatches
  /\ spurious \in 0..MaxSpurious

(* The workers that have taken a job and not stored it yet. *)
InFlight == { w \in Worker : wpc[w] \in {"run", "relock", "store"} }

(* Mutual exclusion, which the invariants below rest on: a thread holds the *)
(* mutex exactly in its critical sections (lines 41-57, 63-71, 131-145,     *)
(* 155-158).                                                                *)
LockHeld ==
  /\ \A w \in Worker : wpc[w] \in {"check", "store"} <=> lock = w
  /\ cpc \in {"publish", "recheck", "stop"} <=> lock = Caller

(* No job is lost or run twice (hash32 and hash64 consume the descriptor   *)
(* they read, so a second run would answer something else): every index    *)
(* below next is either in the hands of exactly one worker or stored with  *)
(* the right result, and none from next on was touched.  What a worker     *)
(* read under the lock and uses after it (jid, val, exec) is never that of *)
(* an earlier batch.                                                       *)
JobsAccounted ==
  /\ next = done + Cardinality(InFlight)
  /\ next <= total /\ total = NumWork(input)
  /\ \A w, v \in InFlight : job[w].jid = job[v].jid => w = v
  /\ \A w \in InFlight : /\ job[w].jid < next
                         /\ job[w].val = input[job[w].jid]
                         /\ job[w].exec = executor
  /\ \A j \in DOMAIN input :
       IF j \in { job[w].jid : w \in InFlight } \/ j >= next
       THEN result[j] = Zero
       ELSE result[j] = Apply(executor, input[j])

(* The result array belongs to the user once execute returned (the user    *)
(* frees it), and the pool to nobody once close or a failed open returned: *)
(* no worker still has a store to make, or a mutex to unlock, then.        *)
NoUseAfterReturn ==
  /\ cpc \in {"idle", "call", "publish", "close", "stop", "closed", "null"}
       => InFlight = {}
  /\ cpc \in {"closed", "null"}
       => \A w \in Worker : wpc[w] \in {"unborn", "exited"}

(* No wake-up is lost in an open pool: a worker is blocked only while      *)
(* there is nothing to take and no shutdown, the caller only while a job   *)
(* of its batch is missing.                                                *)
NoLostWakeup ==
  /\ cpc \notin {"abort", "null"} /\ job_available # {}
       => ~die /\ next >= total
  /\ all_done => cpc = "wait" /\ done < total

(* thread_pool_execute returns the results "ordered": the i-th is what the *)
(* executor returns for the i-th value, for every value of the batch.      *)
ResultsOrdered ==
  cpc = "idle" /\ batches > 0
    => result = [j \in DOMAIN args.vals |-> Apply(args.exec, args.vals[j])]

(* thread_pool_open returns, with the handle or with NULL: "if anything    *)
(* fails, it returns NULL".                                                *)
OpenReturns == cpc \in {"create", "abort"} ~> cpc \in {"idle", "null"}

(* The pool implements the service its user sees: calls are answered in    *)
(* full and in order, every call of execute and of close returns, close    *)
(* only comes after the last answer.                                       *)
Service == INSTANCE BatchService WITH
  Requests <- [vals : Inputs, exec : Executors],
  NoRequest <- NoArgs,
  NoReply <- NoArgs.vals,
  phase <- CASE cpc \in {"start", "create", "abort"} -> "opening"
             [] cpc = "idle" -> "ready"
             [] cpc \in {"call", "publish", "wait", "recheck"} -> "busy"
             [] cpc \in {"close", "stop", "join"} -> "closing"
             [] OTHER -> cpc,
  request <- args,
  reply <- IF cpc = "idle" THEN result ELSE NoArgs.vals

ImplementsService == Service!Spec

=============================================================================
