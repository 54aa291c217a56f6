-------------------------- MODULE ThreadPoolProofs --------------------------
(***************************************************************************)
(* Safety of the thread pool for every number of threads, values and       *)
(* executors, batches of any size and any number of spurious wake-ups.     *)
(***************************************************************************)
EXTENDS ThreadPool, FiniteSetTheorems, TLAPS

(* What each point of the caller's code knows: outside the waiting loop of *)
(* execute every job of the last batch is stored; inside it the published  *)
(* batch is the one the caller asked for; die is set on the way out only.  *)
CallerPhase ==
  /\ cpc \notin {"wait", "recheck"} => done = total
  /\ cpc \in {"wait", "recheck"} \/ (cpc = "idle" /\ batches > 0)
       => input = args.vals /\ executor = args.exec
  /\ cpc \in {"call", "publish"} => args.exec \in Executors
  /\ total > 0 => executor \in Executors
  /\ cpc \in {"start", "create", "abort"} => batches = 0 /\ result = NoArgs.vals
  /\ die => cpc \in {"abort", "null", "join", "closed"}

(* What each point of a worker's code knows. *)
WorkerPhase ==
  /\ \A w \in InFlight : wpc[w] # "run"
       => job[w].res = Apply(executor, input[job[w].jid])
  /\ \A w \in Worker : wpc[w] # "unborn" => w <= nthreads /\ cpc # "start"
  /\ \A w \in job_available : wpc[w] = "wait"
  /\ cpc \in {"closed", "null"}
       => \A w \in Worker : wpc[w] \in {"unborn", "exited"}

(* The inductive invariant. *)
IInv ==
  /\ TypeOK /\ LockHeld /\ CallerPhase /\ WorkerPhase
  /\ JobsAccounted /\ NoLostWakeup

-----------------------------------------------------------------------------

(* The work of a call is indexed from 0 to num_work - 1. *)
LEMMA WorkDomain ==
  ASSUME NEW vals \in Inputs
  PROVE  /\ NumWork(vals) \in Nat
         /\ DOMAIN vals = 0..NumWork(vals)-1
         /\ vals \in [DOMAIN vals -> Values]
<1>1. PICK n \in 0..MaxWork : vals \in [0..n-1 -> Values]
  BY DEF Inputs
<1>2. n \in Nat /\ DOMAIN vals = 0..n-1
  BY <1>1, BoundsAssumption
<1>3. Cardinality(0..n-1) = n
  BY <1>2, FS_Interval
<1> QED
  BY <1>1, <1>2, <1>3 DEF NumWork

LEMMA WorkerFinite ==
  /\ IsFiniteSet(Worker)
  /\ Caller \notin Worker /\ Free \notin Worker /\ Caller # Free
  /\ \A w \in Worker : w \in Nat
<1>1. IsFiniteSet(1..MaxThreads)
  BY FS_Interval, BoundsAssumption
<1> QED
  BY <1>1, BoundsAssumption DEF Worker, Caller, Free

LEMMA InFlightFinite ==
  IsFiniteSet(InFlight) /\ Cardinality(InFlight) \in Nat
<1>1. InFlight \in SUBSET Worker
  BY DEF InFlight
<1> QED
  BY <1>1, WorkerFinite, FS_Subset, FS_CardinalityType

(* A job in flight is one of the published batch, not yet counted in done. *)
LEMMA JobInRange ==
  ASSUME IInv, NEW w \in InFlight
  PROVE  /\ done < total
         /\ job[w].jid \in DOMAIN input
         /\ executor \in Executors
         /\ input[job[w].jid] \in Values
<1>1. Cardinality(InFlight) # 0
  BY InFlightFinite, FS_EmptySet
<1>2. done < next /\ next <= total
  BY <1>1, InFlightFinite DEF IInv, TypeOK, JobsAccounted
<1>3. job[w].jid \in 0..total-1
  BY <1>2 DEF IInv, TypeOK, JobsAccounted, Jobs, InFlight
<1>4. DOMAIN input = 0..total-1 /\ input \in [DOMAIN input -> Values]
  BY WorkDomain DEF IInv, TypeOK, JobsAccounted
<1>5. executor \in Executors
  BY <1>2 DEF IInv, TypeOK, CallerPhase
<1> QED
  BY <1>2, <1>3, <1>4, <1>5 DEF IInv, TypeOK

(* With as many jobs stored as the batch has, nobody is at work on it and  *)
(* the result array is complete.                                           *)
LEMMA BatchComplete ==
  ASSUME IInv, ~ Missing(done, total)
  PROVE  /\ next = total /\ done = total /\ InFlight = {}
         /\ result = [j \in DOMAIN input |-> Apply(executor, input[j])]
<1>1. next = total /\ done = total /\ Cardinality(InFlight) = 0
  BY InFlightFinite DEF IInv, TypeOK, JobsAccounted, Missing
<1>2. InFlight = {}
  BY <1>1, InFlightFinite, FS_EmptySet
<1>3. ASSUME NEW j \in DOMAIN input
      PROVE  result[j] = Apply(executor, input[j])
  <2>1. j \in 0..total-1
    BY WorkDomain DEF IInv, TypeOK, JobsAccounted
  <2>2. ~(j >= next) /\ j \notin { job[w].jid : w \in InFlight }
    BY <1>1, <1>2, <2>1 DEF IInv, TypeOK
  <2> QED
    BY <2>2 DEF IInv, JobsAccounted
<1>4. result = [j \in DOMAIN input |-> result[j]]
  BY DEF IInv, TypeOK
<1> QED
  BY <1>1, <1>2, <1>3, <1>4

-----------------------------------------------------------------------------

(* Steps that touch neither the batch nor who works on it keep the account *)
(* of its jobs.                                                            *)
LEMMA AccountUnchanged ==
  ASSUME JobsAccounted, UNCHANGED <<pool, job>>, InFlight' = InFlight
  PROVE  JobsAccounted'
BY DEF JobsAccounted, pool

(* Initially. *)
LEMMA InitIInv == Init => IInv
<1> SUFFICES ASSUME Init PROVE IInv
  OBVIOUS
<1>1. InFlight = {} /\ Cardinality(InFlight) = 0
  BY FS_EmptySet DEF Init, InFlight
<1>2. NoArgs.vals \in Inputs /\ DOMAIN NoArgs.vals = {} /\ NumWork(NoArgs.vals) = 0
  <2>1. NoArgs.vals \in [0..0-1 -> Values] /\ 0 \in 0..MaxWork /\ DOMAIN NoArgs.vals = {}
    BY BoundsAssumption DEF NoArgs
  <2> QED
    BY <2>1, FS_EmptySet DEF Inputs, NumWork
<1>3. TypeOK
  <2>1. args \in [vals : Inputs, exec : Executors \cup {Zero}]
    BY <1>2 DEF Init, NoArgs
  <2>2. job \in [Worker -> Jobs]
    BY DEF Init, NoJob, Jobs, Outcomes
  <2>3. executor \in Executors \cup {Zero} /\ result \in [DOMAIN input -> Outcomes]
    BY <1>2 DEF Init, NoArgs
  <2>4. next \in Nat /\ done \in Nat /\ total \in Nat /\ nthreads \in 0..MaxThreads
    BY BoundsAssumption DEF Init
  <2>5. batches \in 0..MaxBatches /\ spurious \in 0..MaxSpurious
    BY BoundsAssumption DEF Init
  <2>6. wpc \in [Worker -> WorkerPc] /\ cpc \in CallerPc
    BY DEF Init, WorkerPc, CallerPc
  <2>7. input \in Inputs
    BY <1>2 DEF Init
  <2> QED
    BY <2>1, <2>2, <2>3, <2>4, <2>5, <2>6, <2>7 DEF Init, TypeOK
<1>4. LockHeld
  BY WorkerFinite DEF Init, LockHeld
<1>5. CallerPhase /\ WorkerPhase /\ NoLostWakeup
  BY <1>1 DEF Init, CallerPhase, WorkerPhase, NoLostWakeup
<1>6. JobsAccounted
  BY <1>1, <1>2 DEF Init, JobsAccounted
<1> QED
  BY <1>3, <1>4, <1>5, <1>6 DEF IInv

(* A worker takes the mutex. *)
LEMMA WorkerLockIInv ==
  ASSUME IInv, NEW w \in Worker, WorkerLock(w)
  PROVE  IInv'
<1> USE DEF WorkerLock, GoWorker, Acquire, pool
<1>1. InFlight' = InFlight
  BY DEF IInv, TypeOK, InFlight
<1>2. TypeOK'
  BY DEF IInv, TypeOK, WorkerPc
<1>3. LockHeld'
  BY WorkerFinite DEF IInv, TypeOK, LockHeld
<1>4. CallerPhase' /\ NoLostWakeup'
  BY DEF IInv, TypeOK, CallerPhase, NoLostWakeup
<1>5. WorkerPhase'
  BY <1>1 DEF IInv, TypeOK, WorkerPhase, InFlight
<1>6. JobsAccounted'
  BY <1>1, AccountUnchanged DEF IInv
<1> QED
  BY <1>2, <1>3, <1>4, <1>5, <1>6 DEF IInv

(* A worker finds nothing to take and blocks. *)
LEMMA WorkerWaitIInv ==
  ASSUME IInv, NEW w \in Worker, WorkerWait(w)
  PROVE  IInv'
<1> USE DEF WorkerWait, GoWorker, Unlock, pool
<1>1. InFlight' = InFlight
  BY DEF IInv, TypeOK, InFlight
<1>2. TypeOK'
  BY DEF IInv, TypeOK, WorkerPc
<1>3. LockHeld'
  BY WorkerFinite DEF IInv, TypeOK, LockHeld
<1>4. CallerPhase' /\ NoLostWakeup'
  BY DEF IInv, TypeOK, CallerPhase, NoLostWakeup
<1>5. WorkerPhase'
  BY <1>1 DEF IInv, TypeOK, WorkerPhase, InFlight
<1>6. JobsAccounted'
  BY <1>1, AccountUnchanged DEF IInv
<1> QED
  BY <1>2, <1>3, <1>4, <1>5, <1>6 DEF IInv

(* A worker sees die and leaves. *)
LEMMA WorkerExitIInv ==
  ASSUME IInv, NEW w \in Worker, WorkerExit(w)
  PROVE  IInv'
<1> USE DEF WorkerExit, GoWorker, Unlock, pool
<1>1. InFlight' = InFlight
  BY DEF IInv, TypeOK, InFlight
<1>2. TypeOK'
  BY DEF IInv, TypeOK, WorkerPc
<1>3. LockHeld'
  BY WorkerFinite DEF IInv, TypeOK, LockHeld
<1>4. CallerPhase' /\ NoLostWakeup'
  BY DEF IInv, TypeOK, CallerPhase, NoLostWakeup
<1>5. WorkerPhase'
  BY <1>1 DEF IInv, TypeOK, WorkerPhase, InFlight
<1>6. JobsAccounted'
  BY <1>1, AccountUnchanged DEF IInv
<1> QED
  BY <1>2, <1>3, <1>4, <1>5, <1>6 DEF IInv

(* A worker takes the next job: one more is in flight. *)
LEMMA WorkerTakeIInv ==
  ASSUME IInv, NEW w \in Worker, WorkerTake(w)
  PROVE  IInv'
<1> USE DEF WorkerTake, GoWorker, Unlock
<1>1. w \notin InFlight /\ InFlight' = InFlight \cup {w}
  BY DEF IInv, TypeOK, InFlight
<1>2. Cardinality(InFlight') = Cardinality(InFlight) + 1
  BY <1>1, InFlightFinite, FS_AddElement
<1>3. next \in DOMAIN input /\ input[next] \in Values /\ executor \in Executors
  <2>1. DOMAIN input = 0..total-1 /\ input \in [DOMAIN input -> Values]
    BY WorkDomain DEF IInv, TypeOK, JobsAccounted
  <2> QED
    BY <2>1 DEF IInv, TypeOK, CallerPhase
<1>4. /\ job' \in [Worker -> Jobs]
      /\ job'[w] = [jid |-> next, val |-> input[next], exec |-> executor, res |-> Zero]
      /\ \A v \in Worker \ {w} : job'[v] = job[v]
  BY <1>3 DEF IInv, TypeOK, Jobs, Outcomes
<1>5. TypeOK'
  BY <1>4 DEF IInv, TypeOK, WorkerPc
<1>6. LockHeld'
  BY WorkerFinite DEF IInv, TypeOK, LockHeld
<1>7. CallerPhase' /\ NoLostWakeup'
  BY DEF IInv, TypeOK, CallerPhase, NoLostWakeup
<1>8. WorkerPhase'
  BY <1>1, <1>4 DEF IInv, TypeOK, WorkerPhase, InFlight
<1>9. JobsAccounted'
  <2>1. next' = done' + Cardinality(InFlight')
    BY <1>2, InFlightFinite DEF IInv, TypeOK, JobsAccounted
  <2>2. next' <= total' /\ total' = NumWork(input')
    BY DEF IInv, TypeOK, JobsAccounted
  <2>3. \A u, v \in InFlight' : job'[u].jid = job'[v].jid => u = v
    BY <1>1, <1>4 DEF IInv, TypeOK, JobsAccounted, Jobs, InFlight
  <2>4. \A v \in InFlight' : /\ job'[v].jid < next'
                             /\ job'[v].val = input'[job'[v].jid]
                             /\ job'[v].exec = executor'
    BY <1>1, <1>4 DEF IInv, TypeOK, JobsAccounted, Jobs, InFlight
  <2>5. { job'[v].jid : v \in InFlight' } = { job[v].jid : v \in InFlight } \cup {next}
    BY <1>1, <1>4 DEF InFlight
  <2>6. ASSUME NEW j \in DOMAIN input'
        PROVE  IF j \in { job'[v].jid : v \in InFlight' } \/ j >= next'
               THEN result'[j] = Zero
               ELSE result'[j] = Apply(executor', input'[j])
    <3>1. j \in Nat
      BY WorkDomain DEF IInv, TypeOK, JobsAccounted
    <3>2. j >= next' <=> j >= next /\ j # next
      BY <3>1 DEF IInv, TypeOK
    <3>3. next >= next
      BY DEF IInv, TypeOK
    <3> QED
      BY <2>5, <3>2, <3>3 DEF IInv, JobsAccounted
  <2> QED
    BY <2>1, <2>2, <2>3, <2>4, <2>6 DEF JobsAccounted
<1> QED
  BY <1>5, <1>6, <1>7, <1>8, <1>9 DEF IInv

(* A worker runs the executor, mutex released. *)
LEMMA WorkerRunIInv ==
  ASSUME IInv, NEW w \in Worker, WorkerRun(w)
  PROVE  IInv'
<1> USE DEF WorkerRun, GoWorker, pool, sync
<1>1. w \in InFlight /\ InFlight' = InFlight
  BY DEF IInv, TypeOK, InFlight
<1>2. job[w].exec \in Executors /\ job[w].val \in Values
  BY <1>1, JobInRange DEF IInv, JobsAccounted
<1>3. /\ job' \in [Worker -> Jobs]
      /\ job'[w] = [job[w] EXCEPT !.res = Apply(job[w].exec, job[w].val)]
      /\ \A v \in Worker \ {w} : job'[v] = job[v]
  BY <1>2 DEF IInv, TypeOK, Jobs, Outcomes, Apply
<1>4. job'[w].res = Apply(job[w].exec, job[w].val)
      /\ \A v \in Worker : /\ job'[v].jid = job[v].jid
                           /\ job'[v].val = job[v].val
                           /\ job'[v].exec = job[v].exec
  BY <1>3 DEF IInv, TypeOK, Jobs
<1>5. TypeOK'
  BY <1>3 DEF IInv, TypeOK, WorkerPc
<1>6. LockHeld'
  BY DEF IInv, TypeOK, LockHeld
<1>7. CallerPhase' /\ NoLostWakeup'
  BY DEF IInv, TypeOK, CallerPhase, NoLostWakeup
<1>8. WorkerPhase'
  BY <1>1, <1>3, <1>4 DEF IInv, TypeOK, WorkerPhase, JobsAccounted, InFlight
<1>9. JobsAccounted'
  <2>1. { job'[v].jid : v \in InFlight' } = { job[v].jid : v \in InFlight }
    BY <1>1, <1>4 DEF InFlight
  <2>2. \A v \in InFlight : v \in Worker
    BY DEF InFlight
  <2>3. \A u, v \in InFlight' : job'[u].jid = job'[v].jid => u = v
    BY <1>1, <1>4, <2>2 DEF IInv, JobsAccounted
  <2>4. \A v \in InFlight' : /\ job'[v].jid < next'
                             /\ job'[v].val = input'[job'[v].jid]
                             /\ job'[v].exec = executor'
    BY <1>1, <1>4, <2>2 DEF IInv, JobsAccounted
  <2>5. \A j \in DOMAIN input' :
          IF j \in { job'[v].jid : v \in InFlight' } \/ j >= next'
          THEN result'[j] = Zero
          ELSE result'[j] = Apply(executor', input'[j])
    BY <2>1 DEF IInv, JobsAccounted
  <2> QED
    BY <1>1, <2>3, <2>4, <2>5 DEF IInv, JobsAccounted
<1> QED
  BY <1>5, <1>6, <1>7, <1>8, <1>9 DEF IInv

(* Reading the value and the executor late reads the same ones. *)
LEMMA WorkerRunLateIsRun ==
  ASSUME IInv, NEW w \in Worker, WorkerRunLate(w)
  PROVE  WorkerRun(w)
<1>1. w \in InFlight
  BY DEF WorkerRunLate, GoWorker, InFlight
<1>2. job[w].val = input[job[w].jid] /\ job[w].exec = executor
  BY <1>1 DEF IInv, JobsAccounted
<1> QED
  BY <1>2 DEF WorkerRunLate, WorkerRun

(* A worker stores its result: one less in flight, one more done. *)
LEMMA WorkerStoreIInv ==
  ASSUME IInv, NEW w \in Worker, WorkerStore(w)
  PROVE  IInv'
<1> USE DEF WorkerStore, GoWorker, Unlock, StoreSlot, LastJob
<1>1. w \in InFlight /\ InFlight' = InFlight \ {w}
  BY DEF IInv, TypeOK, InFlight
<1>2. Cardinality(InFlight') = Cardinality(InFlight) - 1
  BY <1>1, InFlightFinite, FS_RemoveElement
<1>3. /\ done < total /\ done + 1 <= total
      /\ job[w].jid \in DOMAIN input
      /\ executor \in Executors
      /\ input[job[w].jid] \in Values
  BY <1>1, JobInRange DEF IInv, TypeOK
<1>4. job[w].res = Apply(executor, input[job[w].jid])
  BY <1>1 DEF IInv, WorkerPhase
<1>5. /\ job' \in [Worker -> Jobs]
      /\ \A v \in Worker \ {w} : job'[v] = job[v]
  BY DEF IInv, TypeOK, Jobs, NoJob, Outcomes
<1>6. /\ result' \in [DOMAIN input' -> Outcomes]
      /\ result'[job[w].jid] = Apply(executor, input[job[w].jid])
      /\ \A j \in DOMAIN input : j # job[w].jid => result'[j] = result[j]
  BY <1>3, <1>4 DEF IInv, TypeOK, Outcomes, Apply
<1>7. TypeOK'
  <2>1. done' \in Nat /\ all_done' \in BOOLEAN /\ lock' \in Worker \cup {Caller, Free}
    BY DEF IInv, TypeOK
  <2>2. wpc' \in [Worker -> WorkerPc]
    BY DEF IInv, TypeOK, WorkerPc
  <2> QED
    BY <1>5, <1>6, <2>1, <2>2 DEF IInv, TypeOK
<1>8. LockHeld'
  BY WorkerFinite DEF IInv, TypeOK, LockHeld
<1>9. CallerPhase'
  BY <1>3 DEF IInv, TypeOK, CallerPhase
<1>10. NoLostWakeup'
  <2>1. all_done' => all_done /\ done' # total'
    OBVIOUS
  <2>2. done' # total' => done' < total'
    BY <1>3 DEF IInv, TypeOK
  <2> QED
    BY <2>1, <2>2 DEF IInv, NoLostWakeup
<1>11. WorkerPhase'
  BY <1>1, <1>5 DEF IInv, TypeOK, WorkerPhase, InFlight
<1>12. JobsAccounted'
  <2>1. next' = done' + Cardinality(InFlight')
    BY <1>2, InFlightFinite DEF IInv, TypeOK, JobsAccounted
  <2>2. \A v \in InFlight' : v \in InFlight /\ job'[v] = job[v] /\ job[v].jid # job[w].jid
    BY <1>1, <1>5 DEF IInv, JobsAccounted, InFlight
  <2>3. { job'[v].jid : v \in InFlight' } = { job[v].jid : v \in InFlight } \ {job[w].jid}
    BY <1>1, <2>2
  <2>4. job[w].jid < next /\ job[w].jid \in Nat /\ next \in Nat
    BY <1>1 DEF IInv, TypeOK, JobsAccounted, Jobs
  <2>5. ASSUME NEW j \in DOMAIN input'
        PROVE  IF j \in { job'[v].jid : v \in InFlight' } \/ j >= next'
               THEN result'[j] = Zero
               ELSE result'[j] = Apply(executor', input'[j])
    <3>1. CASE j = job[w].jid
      BY <1>6, <2>3, <2>4, <3>1
    <3>2. CASE j # job[w].jid
      BY <1>6, <2>3, <3>2 DEF IInv, JobsAccounted
    <3> QED
      BY <3>1, <3>2
  <2> QED
    BY <2>1, <2>2, <2>5 DEF IInv, JobsAccounted
<1> QED
  BY <1>7, <1>8, <1>9, <1>10, <1>11, <1>12 DEF IInv

(* A wake-up nobody asked for. *)
LEMMA SpuriousWakeupIInv ==
  ASSUME IInv, SpuriousWakeup
  PROVE  IInv'
<1> USE DEF SpuriousWakeup, pool
<1>1. InFlight' = InFlight
  BY DEF InFlight
<1>2. job_available' \subseteq job_available /\ (all_done' => all_done)
  OBVIOUS
<1>3. TypeOK'
  <2>1. spurious' \in 0..MaxSpurious
    BY BoundsAssumption DEF IInv, TypeOK
  <2>2. all_done' \in BOOLEAN
    BY DEF IInv, TypeOK
  <2> QED
    BY <1>2, <2>1, <2>2 DEF IInv, TypeOK
<1>4. LockHeld' /\ CallerPhase' /\ NoLostWakeup'
  BY <1>2 DEF IInv, TypeOK, LockHeld, CallerPhase, NoLostWakeup
<1>5. WorkerPhase'
  BY <1>1, <1>2 DEF IInv, WorkerPhase
<1>6. JobsAccounted'
  BY <1>1, AccountUnchanged DEF IInv
<1> QED
  BY <1>3, <1>4, <1>5, <1>6 DEF IInv

(* The pool is not opened. *)
LEMMA OpenRejectedIInv ==
  ASSUME IInv, OpenRejected
  PROVE  IInv'
<1> USE DEF OpenRejected, GoCaller, pool, sync
<1>1. InFlight' = InFlight
  BY DEF IInv, TypeOK, InFlight
<1>2. TypeOK'
  BY BoundsAssumption DEF IInv, TypeOK, WorkerPc, CallerPc
<1>3. LockHeld'
  BY WorkerFinite DEF IInv, TypeOK, LockHeld
<1>4. CallerPhase' /\ NoLostWakeup'
  BY DEF IInv, TypeOK, CallerPhase, NoLostWakeup
<1>5. WorkerPhase'
  BY <1>1 DEF IInv, TypeOK, WorkerPhase, InFlight
<1>6. JobsAccounted'
  BY <1>1, AccountUnchanged DEF IInv
<1> QED
  BY <1>2, <1>3, <1>4, <1>5, <1>6 DEF IInv

(* The argument is accepted. *)
LEMMA OpenStartIInv ==
  ASSUME IInv, NEW n \in OpenArgs, OpenStart(n)
  PROVE  IInv'
<1> USE DEF OpenStart, GoCaller, ThreadCount, pool, sync
<1>1. InFlight' = InFlight
  BY DEF IInv, TypeOK, InFlight
<1>2. TypeOK'
  BY BoundsAssumption DEF IInv, TypeOK, WorkerPc, CallerPc
<1>3. LockHeld'
  BY WorkerFinite DEF IInv, TypeOK, LockHeld
<1>4. CallerPhase' /\ NoLostWakeup'
  BY DEF IInv, TypeOK, CallerPhase, NoLostWakeup
<1>5. WorkerPhase'
  BY <1>1 DEF IInv, TypeOK, WorkerPhase, InFlight
<1>6. JobsAccounted'
  BY <1>1, AccountUnchanged DEF IInv
<1> QED
  BY <1>2, <1>3, <1>4, <1>5, <1>6 DEF IInv

(* One more thread is created. *)
LEMMA OpenCreateIInv ==
  ASSUME IInv, NEW w \in Worker, OpenCreate(w)
  PROVE  IInv'
<1> USE DEF OpenCreate, Created, pool, sync
<1>1. InFlight' = InFlight
  BY DEF IInv, TypeOK, InFlight
<1>2. TypeOK'
  BY BoundsAssumption DEF IInv, TypeOK, WorkerPc, CallerPc
<1>3. LockHeld'
  BY WorkerFinite DEF IInv, TypeOK, LockHeld
<1>4. CallerPhase' /\ NoLostWakeup'
  BY DEF IInv, TypeOK, CallerPhase, NoLostWakeup
<1>5. WorkerPhase'
  BY <1>1 DEF IInv, TypeOK, WorkerPhase, InFlight
<1>6. JobsAccounted'
  BY <1>1, AccountUnchanged DEF IInv
<1> QED
  BY <1>2, <1>3, <1>4, <1>5, <1>6 DEF IInv

(* A thread cannot be created. *)
LEMMA OpenCreateFailsIInv ==
  ASSUME IInv, NEW i \in CreateFailsAt, OpenCreateFails(i)
  PROVE  IInv'
<1> USE DEF OpenCreateFails, GoCaller, pool, sync
<1>1. InFlight' = InFlight
  BY DEF IInv, TypeOK, InFlight
<1>2. TypeOK'
  BY BoundsAssumption DEF IInv, TypeOK, WorkerPc, CallerPc
<1>3. LockHeld'
  BY WorkerFinite DEF IInv, TypeOK, LockHeld
<1>4. CallerPhase' /\ NoLostWakeup'
  BY DEF IInv, TypeOK, CallerPhase, NoLostWakeup
<1>5. WorkerPhase'
  BY <1>1 DEF IInv, TypeOK, WorkerPhase, InFlight
<1>6. JobsAccounted'
  BY <1>1, AccountUnchanged DEF IInv
<1> QED
  BY <1>2, <1>3, <1>4, <1>5, <1>6 DEF IInv

(* The threads that were created are joined. *)
LEMMA OpenAbortIInv ==
  ASSUME IInv, OpenAbort
  PROVE  IInv'
<1> USE DEF OpenAbort, Created, GoCaller, pool, sync
<1>1. InFlight' = InFlight
  BY DEF IInv, TypeOK, InFlight
<1>2. TypeOK'
  BY BoundsAssumption DEF IInv, TypeOK, WorkerPc, CallerPc
<1>3. LockHeld'
  BY WorkerFinite DEF IInv, TypeOK, LockHeld
<1>4. CallerPhase' /\ NoLostWakeup'
  BY DEF IInv, TypeOK, CallerPhase, NoLostWakeup
<1>5. WorkerPhase'
  BY <1>1 DEF IInv, TypeOK, WorkerPhase, InFlight
<1>6. JobsAccounted'
  BY <1>1, AccountUnchanged DEF IInv
<1> QED
  BY <1>2, <1>3, <1>4, <1>5, <1>6 DEF IInv

(* The user calls execute. *)
LEMMA ExecuteIInv ==
  ASSUME IInv, NEW vals \in Inputs, NEW exec \in Executors, Execute(vals, exec)
  PROVE  IInv'
<1> USE DEF Execute, GoCaller, pool, sync
<1>1. InFlight' = InFlight
  BY DEF IInv, TypeOK, InFlight
<1>2. TypeOK'
  BY BoundsAssumption DEF IInv, TypeOK, WorkerPc, CallerPc
<1>3. LockHeld'
  BY WorkerFinite DEF IInv, TypeOK, LockHeld
<1>4. CallerPhase' /\ NoLostWakeup'
  BY DEF IInv, TypeOK, CallerPhase, NoLostWakeup
<1>5. WorkerPhase'
  BY <1>1 DEF IInv, TypeOK, WorkerPhase, InFlight
<1>6. JobsAccounted'
  BY <1>1, AccountUnchanged DEF IInv
<1> QED
  BY <1>2, <1>3, <1>4, <1>5, <1>6 DEF IInv

(* The caller takes the mutex. *)
LEMMA CallerLockIInv ==
  ASSUME IInv, CallerLock
  PROVE  IInv'
<1> USE DEF CallerLock, GoCaller, Acquire, pool
<1>1. InFlight' = InFlight
  BY DEF IInv, TypeOK, InFlight
<1>2. TypeOK'
  BY BoundsAssumption DEF IInv, TypeOK, WorkerPc, CallerPc
<1>3. LockHeld'
  BY WorkerFinite DEF IInv, TypeOK, LockHeld
<1>4. CallerPhase' /\ NoLostWakeup'
  BY DEF IInv, TypeOK, CallerPhase, NoLostWakeup
<1>5. WorkerPhase'
  BY <1>1 DEF IInv, TypeOK, WorkerPhase, InFlight
<1>6. JobsAccounted'
  BY <1>1, AccountUnchanged DEF IInv
<1> QED
  BY <1>2, <1>3, <1>4, <1>5, <1>6 DEF IInv

(* The user calls close. *)
LEMMA CloseIInv ==
  ASSUME IInv, Close
  PROVE  IInv'
<1> USE DEF Close, GoCaller, pool, sync
<1>1. InFlight' = InFlight
  BY DEF IInv, TypeOK, InFlight
<1>2. TypeOK'
  BY BoundsAssumption DEF IInv, TypeOK, WorkerPc, CallerPc
<1>3. LockHeld'
  BY WorkerFinite DEF IInv, TypeOK, LockHeld
<1>4. CallerPhase' /\ NoLostWakeup'
  BY DEF IInv, TypeOK, CallerPhase, NoLostWakeup
<1>5. WorkerPhase'
  BY <1>1 DEF IInv, TypeOK, WorkerPhase, InFlight
<1>6. JobsAccounted'
  BY <1>1, AccountUnchanged DEF IInv
<1> QED
  BY <1>2, <1>3, <1>4, <1>5, <1>6 DEF IInv

(* The workers are told to leave. *)
LEMMA CloseDieIInv ==
  ASSUME IInv, CloseDie
  PROVE  IInv'
<1> USE DEF CloseDie, GoCaller, Unlock, Broadcast, pool
<1>1. InFlight' = InFlight
  BY DEF IInv, TypeOK, InFlight
<1>2. TypeOK'
  BY BoundsAssumption DEF IInv, TypeOK, WorkerPc, CallerPc
<1>3. LockHeld'
  BY WorkerFinite DEF IInv, TypeOK, LockHeld
<1>4. CallerPhase' /\ NoLostWakeup'
  BY DEF IInv, TypeOK, CallerPhase, NoLostWakeup
<1>5. WorkerPhase'
  BY <1>1 DEF IInv, TypeOK, WorkerPhase, InFlight
<1>6. JobsAccounted'
  BY <1>1, AccountUnchanged DEF IInv
<1> QED
  BY <1>2, <1>3, <1>4, <1>5, <1>6 DEF IInv

(* Every worker is joined. *)
LEMMA CloseFreeIInv ==
  ASSUME IInv, CloseFree
  PROVE  IInv'
<1> USE DEF CloseFree, GoCaller, pool, sync
<1>1. InFlight' = InFlight
  BY DEF IInv, TypeOK, InFlight
<1>2. TypeOK'
  BY BoundsAssumption DEF IInv, TypeOK, WorkerPc, CallerPc
<1>3. LockHeld'
  BY WorkerFinite DEF IInv, TypeOK, LockHeld
<1>4. CallerPhase' /\ NoLostWakeup'
  BY DEF IInv, TypeOK, CallerPhase, NoLostWakeup
<1>5. WorkerPhase'
  <2>1. \A w \in Worker : wpc[w] # "unborn" => w \in 1..nthreads
    BY BoundsAssumption DEF IInv, TypeOK, WorkerPhase, Worker
  <2> QED
    BY <1>1, <2>1 DEF IInv, TypeOK, WorkerPhase, InFlight
<1>6. JobsAccounted'
  BY <1>1, AccountUnchanged DEF IInv
<1> QED
  BY <1>2, <1>3, <1>4, <1>5, <1>6 DEF IInv

(* A wake-up of the caller that finds the batch unfinished blocks again;   *)
(* one that finds it finished returns.                                     *)
LEMMA RecheckIInv ==
  ASSUME IInv, Recheck
  PROVE  IInv'
<1> USE DEF Recheck, AwaitBatch, Unlock, Missing, pool
<1>1. InFlight' = InFlight
  BY DEF IInv, TypeOK, InFlight
<1>2. TypeOK'
  BY DEF IInv, TypeOK, CallerPc
<1>3. LockHeld'
  BY WorkerFinite DEF IInv, TypeOK, LockHeld
<1>4. CallerPhase'
  BY BatchComplete DEF IInv, TypeOK, CallerPhase
<1>5. NoLostWakeup'
  BY DEF IInv, TypeOK, NoLostWakeup
<1>6. WorkerPhase'
  BY <1>1 DEF IInv, TypeOK, WorkerPhase, InFlight
<1>7. JobsAccounted'
  BY <1>1, AccountUnchanged DEF IInv
<1> QED
  BY <1>2, <1>3, <1>4, <1>5, <1>6, <1>7 DEF IInv

(* A new batch is published: the one before is complete, so no worker      *)
(* still works for it.                                                     *)
LEMMA PublishIInv ==
  ASSUME IInv, Publish
  PROVE  IInv'
<1> USE DEF Publish, AwaitBatch, Unlock, Missing, FirstJob, Broadcast
<1>1. InFlight = {} /\ InFlight' = {}
  <2>1. ~Missing(done, total)
    BY DEF IInv, TypeOK, CallerPhase
  <2> QED
    BY <2>1, BatchComplete DEF InFlight
<1>2. Cardinality(InFlight') = 0
  BY <1>1, FS_EmptySet
<1>3. /\ args.vals \in Inputs /\ args.exec \in Executors
      /\ NumWork(args.vals) \in Nat
      /\ DOMAIN args.vals = 0..NumWork(args.vals)-1
  <2>1. args.vals \in Inputs /\ args.exec \in Executors
    BY DEF IInv, TypeOK, CallerPhase
  <2> QED
    BY <2>1, WorkDomain
<1>4. result' \in [DOMAIN input' -> Outcomes]
  BY DEF Outcomes
<1>5. TypeOK'
  <2>1. cpc' \in CallerPc /\ all_done' \in BOOLEAN /\ lock' \in Worker \cup {Caller, Free}
    BY DEF CallerPc
  <2>2. next' \in Nat /\ done' \in Nat /\ total' \in Nat
    BY <1>3
  <2> QED
    BY <1>3, <1>4, <2>1, <2>2 DEF IInv, TypeOK
<1>6. LockHeld'
  BY WorkerFinite DEF IInv, TypeOK, LockHeld
<1>7. CallerPhase'
  BY <1>3 DEF IInv, TypeOK, CallerPhase
<1>8. NoLostWakeup'
  BY <1>3 DEF IInv, TypeOK, NoLostWakeup
<1>9. WorkerPhase'
  BY <1>1, job_available' = {}, cpc' \in {"wait", "idle"} DEF IInv, WorkerPhase
<1>10. JobsAccounted'
  BY <1>1, <1>2, <1>3 DEF JobsAccounted
<1> QED
  BY <1>5, <1>6, <1>7, <1>8, <1>9, <1>10 DEF IInv

-----------------------------------------------------------------------------

(* IInv is inductive. *)
LEMMA NextIInv == IInv /\ [Next]_vars => IInv'
<1> SUFFICES ASSUME IInv, [Next]_vars PROVE IInv'
  OBVIOUS
<1>1. CASE UNCHANGED vars
  <2>1. UNCHANGED <<pool, job>> /\ InFlight' = InFlight
    BY <1>1 DEF vars, pool, InFlight
  <2>2. JobsAccounted'
    BY <2>1, AccountUnchanged DEF IInv
  <2>3. TypeOK' /\ LockHeld'
    BY <1>1 DEF vars, pool, sync, IInv, TypeOK, LockHeld
  <2>4. CallerPhase' /\ NoLostWakeup'
    BY <1>1 DEF vars, pool, sync, IInv, CallerPhase, NoLostWakeup
  <2>5. WorkerPhase'
    BY <1>1, <2>1 DEF vars, pool, sync, IInv, WorkerPhase
  <2> QED
    BY <2>2, <2>3, <2>4, <2>5 DEF IInv
<1>2. ASSUME NEW w \in Worker, WorkerStep(w) PROVE IInv'
  BY <1>2, WorkerLockIInv, WorkerWaitIInv, WorkerExitIInv, WorkerTakeIInv,
     WorkerRunIInv, WorkerRunLateIsRun, WorkerStoreIInv DEF WorkerStep
<1>3. CASE CallStep
  BY <1>3, OpenCreateIInv, OpenAbortIInv, CallerLockIInv, PublishIInv,
     RecheckIInv, CloseDieIInv, CloseFreeIInv DEF CallStep
<1>4. CASE EnvironmentStep
  BY <1>4, OpenRejectedIInv, OpenStartIInv, OpenCreateFailsIInv, ExecuteIInv,
     CloseIInv, SpuriousWakeupIInv DEF EnvironmentStep
<1> QED
  BY <1>1, <1>2, <1>3, <1>4 DEF Next, Terminated

(* Everything below follows from it. *)
THEOREM Invariance == Spec => []IInv
BY InitIInv, NextIInv, PTL DEF Spec

(* The variables keep their types. *)
THEOREM TypeCorrect == Spec => []TypeOK
<1>1. IInv => TypeOK
  BY DEF IInv
<1> QED
  BY <1>1, Invariance, PTL

(* No job is lost, run twice or run for another batch. *)
THEOREM JobsSafe == Spec => []JobsAccounted
<1>1. IInv => JobsAccounted
  BY DEF IInv
<1> QED
  BY <1>1, Invariance, PTL

(* No worker is blocked while there is a job to take or a shutdown to see, *)
(* the caller is not blocked once its batch is done.                       *)
THEOREM WakeupsSafe == Spec => []NoLostWakeup
<1>1. IInv => NoLostWakeup
  BY DEF IInv
<1> QED
  BY <1>1, Invariance, PTL

(* No worker touches the results the user owns, or the pool once freed. *)
THEOREM OwnershipSafe == Spec => []NoUseAfterReturn
<1>1. IInv => NoUseAfterReturn
  <2> SUFFICES ASSUME IInv PROVE NoUseAfterReturn
    OBVIOUS
  <2>1. CASE cpc \in {"idle", "call", "publish", "close", "stop", "closed", "null"}
    <3>1. ~Missing(done, total)
      BY <2>1 DEF IInv, TypeOK, CallerPhase, Missing
    <3>2. InFlight = {}
      BY <3>1, BatchComplete
    <3> QED
      BY <2>1, <3>2 DEF NoUseAfterReturn, IInv, WorkerPhase
  <2>2. CASE cpc \notin {"idle", "call", "publish", "close", "stop", "closed", "null"}
    BY <2>2 DEF NoUseAfterReturn
  <2> QED
    BY <2>1, <2>2
<1> QED
  BY <1>1, Invariance, PTL

(* What execute returns is the executor's result for each value, in order. *)
THEOREM OrderSafe == Spec => []ResultsOrdered
<1>1. IInv => ResultsOrdered
  <2> SUFFICES ASSUME IInv, cpc = "idle", batches > 0
               PROVE  result = [j \in DOMAIN args.vals |-> Apply(args.exec, args.vals[j])]
    BY DEF ResultsOrdered
  <2>1. ~Missing(done, total)
    BY DEF IInv, TypeOK, CallerPhase, Missing
  <2>2. input = args.vals /\ executor = args.exec
    BY DEF IInv, CallerPhase
  <2> QED
    BY <2>1, <2>2, BatchComplete
<1> QED
  BY <1>1, Invariance, PTL

-----------------------------------------------------------------------------
(* The pool implements the service (its safety part; that calls return is  *)
(* left to TLC).                                                           *)

(* Initial states map to initial states. *)
LEMMA InitRefines == Init => Service!Init
BY DEF Init, Service!Init

(* A worker's step is invisible to the user. *)
LEMMA WorkerRefines ==
  ASSUME IInv, NEW w \in Worker, WorkerStep(w)
  PROVE  UNCHANGED Service!vars
<1>1. UNCHANGED <<cpc, args>>
  BY DEF WorkerStep, WorkerLock, WorkerWait, WorkerExit, WorkerTake, WorkerRun,
         WorkerRunLate, WorkerStore
<1>2. CASE UNCHANGED result
  BY <1>1, <1>2 DEF Service!vars
<1>3. CASE WorkerStore(w)
  <2>1. w \in InFlight
    BY <1>3 DEF WorkerStore, GoWorker, InFlight
  <2>2. done < total
    BY <2>1, JobInRange
  <2>3. cpc # "idle"
    BY <2>2 DEF IInv, TypeOK, CallerPhase
  <2> QED
    BY <1>1, <2>3 DEF Service!vars
<1> QED
  BY <1>2, <1>3 DEF WorkerStep, WorkerLock, WorkerWait, WorkerExit, WorkerTake, WorkerRun,
                    WorkerRunLate, pool

(* The caller's steps: the end of execute is the service's answer. *)
LEMMA CallRefines ==
  ASSUME IInv, CallStep
  PROVE  [Service!Next]_(Service!vars)
<1> USE DEF GoCaller, pool, Service!vars
<1>1. ASSUME NEW w \in Worker, OpenCreate(w) PROVE Service!Open \/ UNCHANGED Service!vars
  BY <1>1 DEF OpenCreate, Service!Open, IInv, CallerPhase
<1>2. CASE OpenAbort
  BY <1>2 DEF OpenAbort, Service!Open, Service!Next
<1>3. CASE CallerLock
  BY <1>3 DEF CallerLock
<1>4. CASE Publish
  <2>1. CASE Missing(done', total')
    BY <1>4, <2>1 DEF Publish, AwaitBatch
  <2>2. CASE ~Missing(done', total')
    <3>1. DOMAIN args.vals = {}
      <4>1. args.vals \in Inputs
        BY DEF IInv, TypeOK
      <4>2. NumWork(args.vals) = 0
        BY <1>4, <2>2, <4>1, WorkDomain DEF Publish, Missing
      <4> QED
        BY <4>1, <4>2, WorkDomain
    <3>2. result' = Service!Answer(args)
      BY <1>4, <3>1 DEF Publish, Service!Answer
    <3> QED
      BY <1>4, <2>2, <3>2 DEF Publish, AwaitBatch, Service!Return, Service!Next
  <2> QED
    BY <2>1, <2>2
<1>5. CASE Recheck
  <2>1. CASE Missing(done, total)
    BY <1>5, <2>1 DEF Recheck, AwaitBatch
  <2>2. CASE ~Missing(done, total)
    <3>1. input = args.vals /\ executor = args.exec
      BY <1>5 DEF Recheck, IInv, CallerPhase
    <3>2. result = Service!Answer(args)
      BY <2>2, <3>1, BatchComplete DEF Service!Answer
    <3> QED
      BY <1>5, <2>2, <3>2 DEF Recheck, AwaitBatch, Service!Return, Service!Next
  <2> QED
    BY <2>1, <2>2
<1>6. CASE CloseDie
  BY <1>6 DEF CloseDie
<1>7. CASE CloseFree
  BY <1>7 DEF CloseFree, Service!Closed, Service!Next
<1> QED
  BY <1>1, <1>2, <1>3, <1>4, <1>5, <1>6, <1>7 DEF CallStep, Service!Next

(* The user's and the system's steps. *)
LEMMA EnvironmentRefines ==
  ASSUME IInv, EnvironmentStep
  PROVE  [Service!Next]_(Service!vars)
<1> USE DEF GoCaller, pool, Service!vars, Service!Next
<1>1. CASE OpenRejected
  BY <1>1 DEF OpenRejected, Service!Open
<1>2. ASSUME NEW n \in OpenArgs, OpenStart(n) PROVE UNCHANGED Service!vars
  BY <1>2 DEF OpenStart
<1>3. ASSUME NEW i \in CreateFailsAt, OpenCreateFails(i) PROVE UNCHANGED Service!vars
  BY <1>3 DEF OpenCreateFails
<1>4. ASSUME NEW vals \in Inputs, NEW exec \in Executors, Execute(vals, exec)
      PROVE  Service!Call
  BY <1>4 DEF Execute, Service!Call
<1>5. CASE Close
  BY <1>5 DEF Close, Service!Close
<1>6. CASE SpuriousWakeup
  BY <1>6 DEF SpuriousWakeup
<1> QED
  BY <1>1, <1>2, <1>3, <1>4, <1>5, <1>6 DEF EnvironmentStep

(* Every behaviour of the pool is one of the service. *)
THEOREM PoolRefinesService ==
  Spec => Service!Init /\ [][Service!Next]_(Service!vars)
<1>1. IInv /\ [Next]_vars => [Service!Next]_(Service!vars)
  <2> SUFFICES ASSUME IInv, [Next]_vars PROVE [Service!Next]_(Service!vars)
    OBVIOUS
  <2>1. CASE UNCHANGED vars
    BY <2>1 DEF vars, pool, Service!vars
  <2> QED
    BY <2>1, WorkerRefines, CallRefines, EnvironmentRefines DEF Next, Terminated
<1> QED
  BY <1>1, Invariance, InitRefines, PTL DEF Spec

=============================================================================
