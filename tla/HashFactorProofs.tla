-------------------------- MODULE HashFactorProofs --------------------------
(***************************************************************************)
(* Safety of the hash factor lab for every number of runs, workers and     *)
(* targets and every size of the queue and of the shared memory.           *)
(***************************************************************************)
EXTENDS HashFactor, FiniteSetTheorems, SequenceTheorems, TLAPS

(* Runs are numbered, and no worker runs before it was forked.              *)
Begun == ppc # "idle" => runs # 0
Born ==
  /\ \A w \in Worker : w[1] > runs => wpc[w] = "unborn"
  /\ ppc \in {"mq", "sem", "shm"} => \A w \in Own : wpc[w] = "unborn"
  /\ ppc = "fork" => \A w \in Own : w[2] > i => wpc[w] = "unborn"

(* In sc.c a worker between its two stores has found room for its factor.   *)
RoomFound == version = "sc" => \A w \in Worker : wpc[w] = "count" => seen[w] < Words

(* TypeOK in four parts. *)
ParentTypes ==
  /\ version \in Versions /\ runs \in 0..MaxRuns
  /\ ppc \in ParentPc /\ target \in Nat /\ nworkers \in 0..MaxWorkers /\ i \in Nat
  /\ report \in Seq(Nat) /\ clean \in BOOLEAN
SharedTypes ==
  /\ linked \subseteq Names
  /\ mq \in Seq(Nat) /\ Len(mq) <= MaxMsg
  /\ sem \in Nat
  /\ count \in Nat /\ (version = "sc" => count <= Words) /\ slots \in [1..Words -> Nat]
WorkerTypes ==
  /\ wpc \in [Worker -> WorkerPc]
  /\ candidate \in [Worker -> Nat] /\ seen \in [Worker -> Nat] /\ goal \in [Worker -> Nat]
UsedTypes == failures \in 0..MaxFailures /\ interrupts \in 0..MaxInterrupts

(* A worker that still runs was forked when the three objects had names,    *)
(* which were not removed since, unless it is late.                        *)
Attached == { w \in Running : wpc[w] # "late" }
Linked ==
  /\ Attached # {} => linked = Names
  /\ ppc = "sem" => "mq" \in linked
  /\ ppc = "shm" => {"mq", "sem"} \subseteq linked
  /\ ppc = "fork" => linked = Names

(* The workers that hold the semaphore: never two.                         *)
Holding == { w \in Worker : wpc[w] \in {"load", "store", "count", "unlock"} }
Exclusive ==
  /\ sem \in {0, 1}
  /\ \A v, w \in Holding : v = w
  /\ Holding # {} => sem = 0

(* In hfactor.c the count a worker has read is still the count.             *)
GradedSeen ==
  version = "graded" => \A w \in Worker :
    wpc[w] # "count" /\ (wpc[w] = "store" => seen[w] = count)

(* In sc.c nobody but the workers of the run is running, unless a run gave  *)
(* up before it: in a run that found no names, or when no call has failed.  *)
(* Those of the run have ended when it reports.                             *)
Alone ==
  version = "sc" =>
    /\ failures = 0 /\ ppc = "idle" => Running = {}
    /\ (clean \/ failures = 0) /\ ppc # "idle" => Running \subseteq Own
    /\ ppc \in {"report", "deinit"} => Own \cap Running = {}

(* What is in the queue, and how far the candidates have got.               *)
Queued ==
  /\ \A k \in DOMAIN mq : mq[k] = 0 \/ mq[k] >= 2
  /\ ppc = "send" => i >= 2 /\ (i = 2 \/ i <= (target \div 2) + 1)

(* A run that found no names begins with an empty queue.                    *)
CleanStart ==
  /\ ppc \in {"mq", "sem", "shm"} => report = <<>>
  /\ clean =>
       /\ ppc = "mq" => linked = {}
       /\ ppc = "sem" => linked = {"mq"} /\ mq = <<>>
       /\ ppc = "shm" => linked = {"mq", "sem"} /\ mq = <<>>
       /\ ppc = "fork" => mq = <<>>

(* The objects are those of the run. *)
InRun == ppc \in {"fork", "send", "quit", "wait", "report", "deinit"}
Mine == version = "sc" /\ (clean \/ failures = 0) /\ InRun

(* Then the worker with the semaphore has read the count as it is, and what *)
(* is in hand or recorded is a divisor of the target.                      *)
Working ==
  Mine =>
    /\ \A w \in Running : goal[w] = target
    /\ \A w \in Finding : candidate[w] >= 2 /\ Divides(candidate[w], target)
    /\ \A w \in Worker : wpc[w] \in {"store", "count"} => seen[w] = count
    /\ \A w \in Worker : wpc[w] = "count" => slots[count + 1] = candidate[w]
    /\ \A k \in 1..count : slots[k] >= 2 /\ Divides(slots[k], target)

(* A run that found no names.  Its queue holds what was sent, in order and  *)
(* the zeros last, so that a worker that has got one leaves no candidate.   *)
Fresh == Mine /\ clean
SentSoFar == IF ppc = "fork" THEN {} ELSE Sent
Ordered ==
  Fresh =>
    /\ \A k \in DOMAIN mq : mq[k] = 0 \/ mq[k] \in SentSoFar
    /\ ppc \in {"fork", "send"} => \A k \in DOMAIN mq : mq[k] # 0
    /\ \A j, k \in DOMAIN mq : j < k => mq[k] = 0 \/ (mq[j] # 0 /\ mq[j] < mq[k])
    /\ \A w \in Own : wpc[w] = "exited" =>
         ppc \notin {"fork", "send"} /\ \A k \in DOMAIN mq : mq[k] = 0

(* Every factor that was sent is in one place. *)
Conserved ==
  Fresh =>
    /\ Waiting \cup { candidate[w] : w \in Finding } \cup Recorded = DivisorsIn(SentSoFar)
    /\ Cardinality(Waiting) + Cardinality(Finding) + count = Cardinality(DivisorsIn(SentSoFar))

(* The workers have ended before the reporter is sent what they recorded.   *)
Settled ==
  Fresh =>
    /\ ppc \in {"report", "deinit"} => Own \cap Running = {}
    /\ ppc # "deinit" => report = <<>>
    /\ ppc = "deinit" /\ report # <<>> => report = <<count>> \o [k \in 1..count |-> slots[k]]

Typed ==
  ParentTypes /\ SharedTypes /\ WorkerTypes /\ UsedTypes /\ Begun /\ Born /\ RoomFound

-----------------------------------------------------------------------------
(* Types. *)

LEMMA BoundsTyped ==
  /\ MaxWorkers \in Nat /\ Words \in Nat /\ GradedWords \in Nat /\ MaxRuns \in Nat
  /\ MaxFailures \in Nat /\ MaxInterrupts \in Nat
  /\ MaxMsg \in Nat \ {0} /\ Targets \subseteq Nat /\ WorkerCounts \subseteq 0..MaxWorkers
BY BoundsAssumption

LEMMA NewWorker ==
  ASSUME Typed, ppc = "fork", i < nworkers
  PROVE  <<runs, i + 1>> \in Worker /\ wpc[<<runs, i + 1>>] = "unborn" /\ i + 1 \in 0..MaxWorkers
<1>1. <<runs, i + 1>> \in Worker /\ i + 1 \in 0..MaxWorkers /\ i + 1 > i
  <2>1. runs \in 1..MaxRuns /\ i + 1 \in 1..MaxWorkers /\ i \in Nat /\ MaxWorkers \in Nat
    BY BoundsTyped DEF Typed, ParentTypes, Begun
  <2> QED
    BY <2>1 DEF Worker
<1>2. <<runs, i + 1>>[1] = runs /\ <<runs, i + 1>>[2] = i + 1
  OBVIOUS
<1>3. <<runs, i + 1>> \in Own
  BY <1>1, <1>2 DEF Own
<1> QED
  BY <1>1, <1>2, <1>3 DEF Typed, Born

LEMMA WorkerNumbers == \A w \in Worker : w[1] \in 1..MaxRuns /\ w[2] \in 1..MaxWorkers
BY DEF Worker

LEMMA HalfTyped ==
  ASSUME NEW t \in Nat
  PROVE  t \div 2 \in Nat
BY SMT

LEMMA TypedInit == Init => Typed
BY BoundsTyped DEF Init, Typed, ParentTypes, SharedTypes, WorkerTypes, UsedTypes, Begun, Born,
   RoomFound, ParentPc, WorkerPc, Own

(* A worker moves from a place behind its fork to another one.              *)
LEMMA WorkerMoves ==
  ASSUME Typed, NEW w \in Worker, NEW to \in WorkerPc, wpc[w] # "unborn",
         wpc' = [wpc EXCEPT ![w] = to], UNCHANGED <<ppc, runs, i>>
  PROVE  Born' /\ wpc' \in [Worker -> WorkerPc]
BY DEF Typed, WorkerTypes, Born, Own

(* Workers that still run are ended, or left without objects.               *)
LEMMA WorkersEnd ==
  ASSUME Typed, UNCHANGED runs, wpc' \in [Worker -> WorkerPc],
         \A w \in Worker : wpc[w] = "unborn" => wpc'[w] = "unborn",
         ppc' = "idle" \/ (ppc' = ppc /\ i' = i)
  PROVE  Born'
BY DEF Typed, Born, Own

LEMMA RemovedTyped ==
  ASSUME Typed, QueueRemoved
  PROVE  /\ wpc' \in [Worker -> WorkerPc] /\ Running' \subseteq Running
         /\ \A w \in Worker : wpc'[w] \in {"late", "detached", wpc[w]}
         /\ \A w \in Worker : wpc[w] = "unborn" => wpc'[w] = "unborn"
         /\ \A w \in Running' : wpc'[w] = "late"
BY DEF Typed, WorkerTypes, QueueRemoved, Opening, Running, WorkerPc

LEMMA StartTyped ==
  ASSUME Typed, NEW t \in Targets, NEW n \in WorkerCounts, Start(t, n)
  PROVE  Typed'
<1>1. t \in Nat /\ n \in 0..MaxWorkers /\ MaxRuns \in Nat
  BY BoundsTyped
<1>2. ParentTypes' /\ Begun'
  BY <1>1 DEF Typed, ParentTypes, Begun, Start, Go, ParentPc
<1>3. SharedTypes' /\ UsedTypes' /\ WorkerTypes' /\ RoomFound'
  BY DEF Typed, SharedTypes, UsedTypes, WorkerTypes, RoomFound, Start, shared, workers, used
<1>4. Born'
  <2>1. \A w \in Worker : w[1] \in Nat
    BY WorkerNumbers, BoundsTyped
  <2>2. runs \in Nat /\ runs' = runs + 1 /\ ppc' = "mq" /\ wpc' = wpc
    BY <1>1 DEF Typed, ParentTypes, Start, Go, workers
  <2>3. \A w \in Worker : w[1] > runs => wpc[w] = "unborn"
    BY DEF Typed, Born
  <2> QED
    BY <2>1, <2>2, <2>3 DEF Born, Own
<1> QED
  BY <1>2, <1>3, <1>4 DEF Typed

(* The steps of the parent, each with the version that has it.                *)
LEMMA ParentSteps ==
  ASSUME ParentStep
  PROVE  \/ OpenQueue \/ OpenQueueFails \/ OpenSemaphore \/ OpenSemaphoreFails \/ OpenSharedFails
         \/ Fork \/ ForkFails \/ ForkEnd \/ SendCandidate \/ SendEnd \/ SendSentinel \/ QuitEnd
         \/ WaitForWorkers \/ ReportFails \/ Deinit
         \/ version = "sc" /\ (OpenShared \/ OpenSharedUnmapped \/ Report)
         \/ version = "graded" /\ (GradedOpenShared \/ GradedReport \/ GradedReporterReturns)
BY Zenon DEF ParentStep, ScParentStep, GradedParentStep, CommonParentStep

LEMMA OpensTyped ==
  ASSUME Typed, OpenQueue \/ OpenSemaphore
  PROVE  Typed'
<1>1. ParentTypes' /\ Begun'
  BY DEF Typed, ParentTypes, Begun, OpenQueue, OpenSemaphore, Go, ParentPc
<1>2. SharedTypes'
  <2>1. linked' \subseteq Names
    BY DEF Typed, SharedTypes, OpenQueue, OpenSemaphore, Open, Names
  <2>2. mq' \in Seq(Nat) /\ Len(mq') <= MaxMsg /\ sem' \in Nat
    <3>1. <<>> \in Seq(Nat) /\ Len(<<>>) = 0 /\ 0 <= MaxMsg
      BY BoundsTyped
    <3>2. CASE OpenQueue
      BY <3>1, <3>2 DEF Typed, SharedTypes, OpenQueue
    <3>3. CASE OpenSemaphore
      BY <3>3 DEF Typed, SharedTypes, OpenSemaphore
    <3> QED
      BY <3>2, <3>3
  <2>3. UNCHANGED <<version, count, slots>>
    BY DEF OpenQueue, OpenSemaphore
  <2> QED
    BY <2>1, <2>2, <2>3 DEF Typed, SharedTypes
<1>3. UsedTypes' /\ WorkerTypes' /\ RoomFound'
  BY DEF Typed, UsedTypes, WorkerTypes, RoomFound, OpenQueue, OpenSemaphore, workers, used
<1>4. Born'
  BY DEF Typed, Born, OpenQueue, OpenSemaphore, workers, Go, Own
<1> QED
  BY <1>1, <1>2, <1>3, <1>4 DEF Typed

LEMMA OpenFailsTyped ==
  ASSUME Typed, OpenQueueFails \/ OpenSemaphoreFails \/ OpenSharedFails
  PROVE  Typed'
<1>1. ParentTypes' /\ Begun'
  BY DEF Typed, ParentTypes, Begun, OpenQueueFails, OpenSemaphoreFails, OpenSharedFails, Go,
         ParentPc
<1>2. SharedTypes'
  BY DEF Typed, SharedTypes, OpenQueueFails, OpenSemaphoreFails, OpenSharedFails, shared
<1>3. UsedTypes' /\ UNCHANGED <<candidate, seen, goal, version, runs>> /\ ppc' = "idle"
  BY BoundsTyped DEF Typed, UsedTypes, OpenQueueFails, OpenSemaphoreFails, OpenSharedFails, Fail,
     workers, Go
<1>4. Born' /\ wpc' \in [Worker -> WorkerPc] /\ \A w \in Worker : wpc'[w] = "count" => wpc[w] = "count"
  <2>1. CASE OpenQueueFails
    BY <2>1 DEF Typed, Born, WorkerTypes, OpenQueueFails, workers, Go, Own
  <2>2. CASE OpenSemaphoreFails \/ OpenSharedFails
    <3>1. QueueRemoved
      BY <2>2 DEF OpenSemaphoreFails, OpenSharedFails
    <3> QED
      BY <1>3, <3>1, RemovedTyped, WorkersEnd
  <2> QED
    BY <2>1, <2>2
<1>5. WorkerTypes' /\ RoomFound'
  BY <1>3, <1>4 DEF Typed, WorkerTypes, RoomFound
<1> QED
  BY <1>1, <1>2, <1>3, <1>4, <1>5 DEF Typed

LEMMA OpensSharedTyped ==
  ASSUME Typed, OpenShared \/ OpenSharedUnmapped \/ GradedOpenShared
  PROVE  Typed'
<1>1. ParentTypes' /\ Begun'
  BY DEF Typed, ParentTypes, Begun, OpenShared, OpenSharedUnmapped, GradedOpenShared, Go, ParentPc
<1>2. linked' \subseteq Names /\ UNCHANGED <<mq, sem, version>>
  BY DEF Typed, SharedTypes, OpenShared, OpenSharedUnmapped, GradedOpenShared, Open, Names
<1>3. count' \in {0, count} /\ slots' \in [1..Words -> Nat]
  BY DEF Typed, SharedTypes, OpenShared, OpenSharedUnmapped, GradedOpenShared, CounterAtStart
<1>4. SharedTypes'
  BY <1>2, <1>3, BoundsTyped DEF Typed, SharedTypes
<1>5. UsedTypes' /\ WorkerTypes' /\ RoomFound'
  BY BoundsTyped DEF Typed, UsedTypes, WorkerTypes, RoomFound, OpenShared, OpenSharedUnmapped,
     GradedOpenShared, workers, used, Fail
<1>6. Born'
  BY DEF Typed, Born, OpenShared, OpenSharedUnmapped, GradedOpenShared, workers, Go, Own
<1> QED
  BY <1>1, <1>4, <1>5, <1>6 DEF Typed

LEMMA ForkTyped ==
  ASSUME Typed, Fork
  PROVE  Typed'
<1> DEFINE new == <<runs, i + 1>>
<1>1. /\ new \in Worker /\ wpc[new] = "unborn" /\ i + 1 \in 0..MaxWorkers
      /\ new[1] = runs /\ new[2] = i + 1
  BY NewWorker DEF Fork
<1>2. ParentTypes' /\ SharedTypes' /\ UsedTypes' /\ Begun'
  BY DEF Typed, ParentTypes, SharedTypes, UsedTypes, Begun, Fork, shared, used
<1>3. /\ wpc' = [wpc EXCEPT ![new] = "open"] /\ goal' = [goal EXCEPT ![new] = target]
      /\ UNCHANGED <<runs, ppc, candidate, seen, version>> /\ i' = i + 1 /\ ppc = "fork"
  BY DEF Fork
<1>4. runs \in Nat /\ i \in Nat /\ target \in Nat /\ \A w \in Worker : w[1] \in Nat /\ w[2] \in Nat
  BY WorkerNumbers, BoundsTyped DEF Typed, ParentTypes
<1> HIDE DEF new
<1>5. WorkerTypes' /\ RoomFound'
  BY <1>1, <1>3, <1>4 DEF Typed, WorkerTypes, RoomFound, WorkerPc
<1>6. Born'
  BY <1>1, <1>3, <1>4 DEF Typed, WorkerTypes, Born, Own
<1> QED
  BY <1>2, <1>5, <1>6 DEF Typed

LEMMA SendsTyped ==
  ASSUME Typed,
         ForkFails \/ ForkEnd \/ SendCandidate \/ SendEnd \/ SendSentinel \/ QuitEnd
  PROVE  Typed'
<1> USE DEF ForkFails, ForkEnd, SendCandidate, SendEnd, SendSentinel, QuitEnd, Go
<1>1. i' \in Nat
  BY BoundsTyped DEF Typed, ParentTypes, QuitStart
<1>2. ParentTypes' /\ Begun'
  BY <1>1 DEF Typed, ParentTypes, Begun, ParentPc
<1>3. mq' \in Seq(Nat) /\ Len(mq') <= MaxMsg /\ UNCHANGED <<linked, sem, count, slots, version>>
  <2>1. ASSUME NEW message \in Nat, Send(message)
        PROVE  mq' \in Seq(Nat) /\ Len(mq') <= MaxMsg
    BY <2>1, BoundsTyped DEF Typed, SharedTypes, Send
  <2>2. i \in Nat /\ 0 \in Nat
    BY DEF Typed, ParentTypes
  <2>3. CASE SendCandidate \/ SendSentinel
    BY <2>1, <2>2, <2>3
  <2>4. CASE ForkFails \/ ForkEnd \/ SendEnd \/ QuitEnd
    BY <2>4 DEF Typed, SharedTypes, shared
  <2> QED
    BY <2>3, <2>4
<1>4. SharedTypes'
  BY <1>3 DEF Typed, SharedTypes
<1>5. UsedTypes' /\ WorkerTypes' /\ RoomFound' /\ Born'
  BY BoundsTyped DEF Typed, UsedTypes, WorkerTypes, RoomFound, Born, Own, workers, used, Fail
<1> QED
  BY <1>2, <1>4, <1>5 DEF Typed

LEMMA EndsTyped ==
  ASSUME Typed,
         \/ WaitForWorkers \/ (version = "sc" /\ Report) \/ ReportFails \/ GradedReport
         \/ GradedReporterReturns \/ Deinit
  PROVE  Typed'
<1> USE DEF WaitForWorkers, Report, ReportFails, GradedReport, GradedReporterReturns, Deinit, Go
<1>1. report' \in Seq(Nat)
  <2>1. ASSUME version = "sc", report' = <<count>> \o [k \in 1..count |-> slots[k]]
        PROVE  report' \in Seq(Nat)
    <3>1. count \in 0..Words /\ slots \in [1..Words -> Nat] /\ Words \in Nat
      BY <2>1, BoundsTyped DEF Typed, SharedTypes
    <3>2. [k \in 1..count |-> slots[k]] \in Seq(Nat) /\ <<count>> \in Seq(Nat)
      BY <3>1
    <3> QED
      BY <2>1, <3>2
  <2> QED
    BY <2>1 DEF Typed, ParentTypes, parent
<1>2. ParentTypes' /\ Begun'
  BY <1>1 DEF Typed, ParentTypes, Begun, ParentPc, parent
<1>3. SharedTypes' /\ UNCHANGED <<version, runs, i>>
  BY DEF Typed, SharedTypes, Unlink, shared, parent
<1>4. UsedTypes' /\ UNCHANGED <<candidate, seen, goal>>
  BY BoundsTyped DEF Typed, UsedTypes, Fail, workers, used
<1>5. Born' /\ wpc' \in [Worker -> WorkerPc] /\ \A w \in Worker : wpc'[w] = "count" => wpc[w] = "count"
  <2>1. CASE wpc' = wpc
    BY <1>3, <2>1 DEF Typed, Born, WorkerTypes, Own, parent
  <2>2. CASE GradedReporterReturns \/ Deinit
    <3>1. QueueRemoved
      BY <2>2 DEF Unlink
    <3>2. ppc' = "idle" \/ (ppc' = ppc /\ i' = i)
      BY <2>2 DEF parent
    <3> QED
      BY <1>3, <3>1, <3>2, RemovedTyped, WorkersEnd
  <2> QED
    BY <2>1, <2>2 DEF workers
<1>6. WorkerTypes' /\ RoomFound'
  BY <1>3, <1>4, <1>5 DEF Typed, WorkerTypes, RoomFound
<1> QED
  BY <1>2, <1>3, <1>4, <1>5, <1>6 DEF Typed

(* The steps of a worker, each with the version that has it.                *)
LEMMA WorkerSteps ==
  ASSUME NEW w, WorkerStep(w)
  PROVE  \/ Opens(w) \/ Receive(w) \/ Lock(w) \/ LoadCount(w) \/ Post(w)
         \/ version = "sc" /\ (StoreFactor(w) \/ StoreCount(w))
         \/ version = "graded" /\ (GradedStore(w) \/ GradedFault(w))
BY Zenon DEF WorkerStep, ScWorkerStep, GradedWorkerStep, CommonWorkerStep

LEMMA WorkerTyped ==
  ASSUME Typed, NEW w \in Worker, WorkerStep(w)
  PROVE  Typed'
<1> USE DEF Opens, OpenAll, OpenAllFails, OpenMissing, OpenRemoved, Opening, Receive, Lock, LoadCount, Post, StoreFactor, StoreCount,
            GradedStore, GradedFault, shared, used
<1>1. UNCHANGED <<version, runs, ppc, target, nworkers, i, report, clean, goal, linked>>
  BY WorkerSteps DEF parent
<1>2. PICK to \in WorkerPc \ {"unborn"} :
        /\ wpc[w] # "unborn" /\ wpc' = [wpc EXCEPT ![w] = to]
        /\ version = "sc" /\ to = "count" => wpc[w] = "store" /\ seen[w] < Words /\ seen' = seen
  BY WorkerSteps DEF GoWorker, WorkerPc
<1>3. seen' \in [Worker -> Nat] /\ \A v \in Worker : v # w => seen'[v] = seen[v]
  BY WorkerSteps DEF Typed, WorkerTypes, SharedTypes
<1>4. candidate' \in [Worker -> Nat] /\ mq' \in Seq(Nat) /\ Len(mq') <= MaxMsg
  <2>1. CASE Receive(w)
    <3>1. mq # <<>> /\ mq' = Tail(mq) /\ candidate' = [candidate EXCEPT ![w] = Head(mq)]
      BY <2>1
    <3>2. mq \in Seq(Nat) /\ Len(mq) <= MaxMsg /\ Len(mq) \in Nat /\ MaxMsg \in Nat
      BY BoundsTyped DEF Typed, SharedTypes
    <3>3. Head(mq) \in Nat /\ Tail(mq) \in Seq(Nat) /\ Len(Tail(mq)) = Len(mq) - 1
      BY <3>1, <3>2
    <3> QED
      BY <3>1, <3>2, <3>3 DEF Typed, WorkerTypes
  <2>2. CASE UNCHANGED <<mq, candidate>>
    BY <2>2 DEF Typed, WorkerTypes, SharedTypes
  <2> QED
    BY <2>1, <2>2, WorkerSteps
<1>5. sem' \in Nat
  <2>1. sem' = sem \/ sem' = sem + 1 \/ (sem > 0 /\ sem' = sem - 1)
    BY WorkerSteps DEF Wait
  <2> QED
    BY <2>1 DEF Typed, SharedTypes
<1>6. count' \in Nat /\ slots' \in [1..Words -> Nat] /\ (version = "sc" => count' <= Words)
  <2>1. /\ candidate[w] \in Nat /\ seen[w] \in Nat /\ Words \in Nat /\ count \in Nat
        /\ GradedWords \in Nat
        /\ slots \in [1..Words -> Nat] /\ (version = "sc" => count <= Words)
    BY BoundsTyped DEF Typed, SharedTypes, WorkerTypes
  <2>2. CASE version = "sc" /\ StoreFactor(w)
    BY <2>1, <2>2
  <2>3. CASE version = "sc" /\ StoreCount(w)
    <3>1. seen[w] < Words
      BY <2>3 DEF Typed, RoomFound, GoWorker
    <3> QED
      BY <2>1, <2>3, <3>1
  <2>4. CASE version = "graded" /\ GradedStore(w)
    <3>1. CASE seen[w] = 0
      BY <2>1, <2>4, <3>1
    <3>2. CASE seen[w] \in 1..GradedWords
      BY <2>1, <2>4, <3>2
    <3>3. CASE seen[w] > GradedWords
      BY <2>1, <2>4, <3>3
    <3> QED
      BY <2>1, <3>1, <3>2, <3>3
  <2>5. CASE UNCHANGED <<count, slots>>
    BY <2>1, <2>5
  <2> QED
    BY <2>2, <2>3, <2>4, <2>5, WorkerSteps
<1>8. UsedTypes'
  <2>1. UNCHANGED <<failures, interrupts>> \/ Fail
    BY WorkerSteps
  <2> QED
    BY <2>1, BoundsTyped DEF Typed, UsedTypes, Fail
<1>9. Born' /\ wpc' \in [Worker -> WorkerPc]
  BY <1>1, <1>2, WorkerMoves
<1>10. RoomFound'
  BY <1>1, <1>2, <1>3 DEF Typed, RoomFound, WorkerTypes
<1>11. ParentTypes' /\ Begun' /\ SharedTypes' /\ WorkerTypes'
  BY <1>1, <1>3, <1>4, <1>5, <1>6, <1>9
     DEF Typed, ParentTypes, Begun, SharedTypes, WorkerTypes
<1> QED
  BY <1>8, <1>9, <1>10, <1>11 DEF Typed

LEMMA InterruptTyped ==
  ASSUME Typed, Interrupt
  PROVE  Typed'
<1>1. ppc' = "idle" /\ UNCHANGED <<runs, version, seen>>
  BY DEF Interrupt
<1>2. wpc' = [w \in Worker |-> IF w \in Own \cap Running THEN "killed" ELSE wpc[w]]
  BY DEF Interrupt
<1>3. \A w \in Worker : wpc'[w] = "count" => wpc[w] = "count"
  BY <1>2
<1>4. Born' /\ wpc' \in [Worker -> WorkerPc]
  <2>1. wpc' \in [Worker -> WorkerPc]
    BY <1>2 DEF Typed, WorkerTypes, WorkerPc
  <2>2. \A w \in Worker : wpc[w] = "unborn" => wpc'[w] = "unborn"
    BY <1>2 DEF Running
  <2> QED
    BY <1>1, <2>1, <2>2, WorkersEnd
<1>5. RoomFound'
  BY <1>1, <1>3 DEF Typed, RoomFound
<1>6. UsedTypes'
  BY BoundsTyped DEF Interrupt, Typed, UsedTypes
<1>7. ParentTypes' /\ Begun' /\ SharedTypes' /\ WorkerTypes'
  BY <1>1, <1>4 DEF Interrupt, Typed, ParentTypes, ParentPc, Begun, SharedTypes, WorkerTypes, shared
<1> QED
  BY <1>4, <1>5, <1>6, <1>7 DEF Typed

LEMMA TypedNext ==
  ASSUME Typed, [Next]_vars
  PROVE  Typed'
<1>1. CASE ParentStep
  <2>1. CASE OpenQueue \/ OpenSemaphore \/ OpenQueueFails \/ OpenSemaphoreFails \/ OpenSharedFails
    BY <2>1, OpensTyped, OpenFailsTyped, Zenon
  <2>2. CASE OpenShared \/ OpenSharedUnmapped \/ GradedOpenShared \/ Fork
    BY <2>2, OpensSharedTyped, ForkTyped, Zenon
  <2>3. CASE ForkFails \/ ForkEnd \/ SendCandidate \/ SendEnd \/ SendSentinel \/ QuitEnd
    BY <2>3, SendsTyped, Zenon
  <2>4. CASE \/ WaitForWorkers \/ (version = "sc" /\ Report) \/ ReportFails \/ GradedReport
             \/ GradedReporterReturns \/ Deinit
    BY <2>4, EndsTyped, Zenon
  <2> QED
    BY <1>1, <2>1, <2>2, <2>3, <2>4, ParentSteps
<1>2. CASE UNCHANGED vars
  BY <1>2 DEF vars, parent, shared, workers, used, Typed, ParentTypes, SharedTypes, WorkerTypes,
     UsedTypes, Begun, Born, RoomFound, Own
<1> QED
  BY <1>1, <1>2, StartTyped, WorkerTyped, InterruptTyped DEF Next

LEMMA TypedAlways == Spec => []Typed
<1>1. Typed /\ [Next]_vars => Typed'
  BY TypedNext
<1> QED
  BY TypedInit, <1>1, PTL DEF Spec

(* The queue never holds more than mq_maxmsg messages, sc.c records no more *)
(* factors than the memory has room for, and every variable has its type.   *)
THEOREM TypeCorrect == Spec => []TypeOK
<1>1. Typed => TypeOK
  BY DEF Typed, ParentTypes, SharedTypes, WorkerTypes, UsedTypes, TypeOK
<1> QED
  BY TypedAlways, <1>1, PTL

-----------------------------------------------------------------------------
(* Names and the semaphore. *)

Base == Typed /\ Linked /\ Exclusive /\ GradedSeen

LEMMA HoldersRun == Holding \subseteq Attached
BY DEF Holding, Running, Attached

LEMMA BaseInit == Init => Linked /\ Exclusive /\ GradedSeen
BY DEF Init, Linked, Exclusive, GradedSeen, Running, Attached, Holding

LEMMA BaseUnlink ==
  ASSUME Base,
         OpenSemaphoreFails \/ OpenSharedFails \/ GradedReporterReturns \/ Deinit
  PROVE  Linked' /\ Exclusive' /\ GradedSeen'
<1>1. QueueRemoved
  BY DEF OpenSemaphoreFails, OpenSharedFails, GradedReporterReturns, Deinit, Unlink
<1>2. UNCHANGED <<sem, version>> /\ ppc' \in {"idle", "report"}
  BY DEF OpenSemaphoreFails, OpenSharedFails, GradedReporterReturns, Deinit, Go, parent
<1>3. Attached' = {}
  BY <1>1, RemovedTyped DEF Base, Attached
<1>4. Linked'
  BY <1>2, <1>3 DEF Linked
<1>5. Holding' = {} /\ \A w \in Worker : wpc'[w] # "count" /\ wpc'[w] # "store"
  BY <1>3 DEF Attached, Holding, Running
<1> QED
  BY <1>2, <1>4, <1>5 DEF Base, Exclusive, GradedSeen

LEMMA BaseFork ==
  ASSUME Base, Fork
  PROVE  Linked' /\ Exclusive' /\ GradedSeen'
<1> DEFINE new == <<runs, i + 1>>
<1>1. new \in Worker /\ wpc' = [wpc EXCEPT ![new] = "open"] /\ wpc \in [Worker -> WorkerPc]
  BY NewWorker DEF Fork, Base, Typed, WorkerTypes
<1>2. UNCHANGED <<ppc, linked, sem, count, seen, version>> /\ ppc = "fork"
  BY DEF Fork, shared
<1> HIDE DEF new
<1>3. Holding' \subseteq Holding
  BY <1>1 DEF Holding
<1>4. Linked'
  BY <1>2 DEF Base, Linked
<1>5. Exclusive'
  BY <1>2, <1>3 DEF Base, Exclusive
<1>6. GradedSeen'
  BY <1>1, <1>2 DEF Base, GradedSeen
<1> QED
  BY <1>4, <1>5, <1>6

(* A name is opened: an object is a new one only when nobody uses the old.  *)
LEMMA BaseOpens ==
  ASSUME Base,
         \/ OpenQueue \/ OpenSemaphore
         \/ version = "sc" /\ (OpenShared \/ OpenSharedUnmapped)
         \/ version = "graded" /\ GradedOpenShared
  PROVE  Linked' /\ Exclusive' /\ GradedSeen'
<1>1. UNCHANGED <<wpc, seen, version>> /\ Attached' = Attached /\ Holding' = Holding
  BY DEF OpenQueue, OpenSemaphore, OpenShared, OpenSharedUnmapped, GradedOpenShared, workers,
         Running, Attached, Holding
<1>2. Linked'
  BY <1>1 DEF Base, Typed, SharedTypes, Linked, Names, OpenQueue, OpenSemaphore, OpenShared,
              OpenSharedUnmapped, GradedOpenShared, Open, Go
<1>3. Exclusive'
  <2>1. sem' = sem \/ (sem' = 1 /\ "sem" \notin linked)
    BY DEF OpenQueue, OpenSemaphore, OpenShared, OpenSharedUnmapped, GradedOpenShared
  <2>2. "sem" \notin linked => Holding = {}
    BY HoldersRun DEF Base, Linked, Names
  <2> QED
    BY <1>1, <2>1, <2>2 DEF Base, Exclusive
<1>4. GradedSeen'
  <2>1. version = "graded" => count' = count \/ "shm" \notin linked
    BY DEF OpenQueue, OpenSemaphore, GradedOpenShared
  <2>2. "shm" \notin linked => Attached = {}
    BY DEF Base, Linked, Names
  <2>3. Attached = {} => \A w \in Worker : wpc[w] # "store" /\ wpc[w] # "count"
    BY DEF Running, Attached
  <2> QED
    BY <1>1, <2>1, <2>2, <2>3 DEF Base, GradedSeen
<1> QED
  BY <1>2, <1>3, <1>4

LEMMA BaseSame ==
  ASSUME Base, UNCHANGED <<wpc, linked, sem, count, seen, version>>,
         ppc' \in {ppc, "idle", "mq", "send", "quit", "wait", "report", "deinit"}
  PROVE  Linked' /\ Exclusive' /\ GradedSeen'
BY DEF Base, Linked, Exclusive, GradedSeen, Running, Attached, Holding

LEMMA BaseParent ==
  ASSUME Base, ParentStep
  PROVE  Linked' /\ Exclusive' /\ GradedSeen'
<1>1. CASE \/ OpenQueueFails \/ ForkFails \/ ForkEnd \/ SendCandidate \/ SendEnd \/ SendSentinel
           \/ QuitEnd \/ WaitForWorkers \/ ReportFails \/ Report \/ GradedReport
  <2>1. UNCHANGED <<wpc, linked, sem, count, seen, version>>
    BY <1>1 DEF OpenQueueFails, ForkFails, ForkEnd, SendCandidate, SendEnd, SendSentinel,
                QuitEnd, WaitForWorkers, ReportFails, Report, GradedReport, shared, workers
  <2>2. ppc' \in {ppc, "idle", "mq", "send", "quit", "wait", "report", "deinit"}
    BY <1>1 DEF OpenQueueFails, ForkFails, ForkEnd, SendCandidate, SendEnd, SendSentinel,
                QuitEnd, WaitForWorkers, ReportFails, Report, GradedReport, Go
  <2> QED
    BY <2>1, <2>2, BaseSame
<1> QED
  BY <1>1, BaseUnlink, BaseFork, BaseOpens, ParentSteps

LEMMA BaseWorker ==
  ASSUME Base, NEW w \in Worker, WorkerStep(w)
  PROVE  Linked' /\ Exclusive' /\ GradedSeen'
<1> USE DEF Opens, OpenAll, OpenAllFails, OpenMissing, OpenRemoved, Opening, Receive, Lock, LoadCount, Post, StoreFactor, StoreCount,
            GradedStore, GradedFault, shared, used
<1>1. UNCHANGED <<version, ppc, linked>> /\ wpc \in [Worker -> WorkerPc] /\ w \in Running
  BY WorkerSteps DEF parent, Base, Typed, WorkerTypes, GoWorker, Running
<1>2. \A v \in Worker : v # w => wpc'[v] = wpc[v] /\ seen'[v] = seen[v]
  BY WorkerSteps DEF GoWorker, Base, Typed, WorkerTypes
<1>3. Linked'
  <2>1. linked = Names \/ Attached' \subseteq Attached
    <3>1. CASE OpenAll(w)
      BY <3>1
    <3>2. CASE ~OpenAll(w)
      <4>1. wpc'[w] # "late" => wpc[w] # "late" \/ wpc'[w] \in {"failed", "detached"}
        BY <3>2, WorkerSteps DEF GoWorker, Base, Typed, WorkerTypes
      <4> QED
        BY <1>1, <1>2, <4>1 DEF Attached, Running
    <3> QED
      BY <3>1, <3>2
  <2> QED
    BY <1>1, <2>1 DEF Base, Linked
<1>4. CASE Lock(w)
  <2>1. Holding = {} /\ sem' = 0
    BY <1>4 DEF Base, Exclusive, Wait
  <2>2. Holding' = {w} /\ wpc'[w] = "load"
    BY <1>1, <1>2, <1>4, <2>1 DEF Holding, GoWorker
  <2>3. Exclusive'
    BY <2>1, <2>2 DEF Exclusive
  <2>4. GradedSeen'
    BY <1>1, <1>2, <1>4, <2>2 DEF Base, GradedSeen
  <2> QED
    BY <1>3, <2>3, <2>4
<1>5. CASE w \in Holding
  <2>1. Holding = {w} /\ sem = 0
    BY <1>5 DEF Base, Exclusive
  <2>2. Holding' \subseteq {w}
    BY <1>2, <2>1 DEF Holding
  <2>3. sem' = 0 \/ (sem' = 1 /\ Post(w))
    <3>1. ~Lock(w)
      BY <1>5 DEF GoWorker, Holding
    <3>2. UNCHANGED sem \/ Post(w)
      BY <3>1, WorkerSteps
    <3> QED
      BY <2>1, <3>2
  <2>4. Post(w) => Holding' = {}
    BY <1>1, <2>2 DEF GoWorker, Holding
  <2>5. Exclusive'
    BY <2>2, <2>3, <2>4 DEF Exclusive
  <2>6. GradedSeen'
    <3>1. ASSUME version = "graded", NEW v \in Worker
          PROVE  wpc'[v] # "count" /\ (wpc'[v] = "store" => seen'[v] = count')
      <4>1. CASE v = w
        BY <1>1, <3>1, <4>1, WorkerSteps DEF GoWorker, Base, Typed, WorkerTypes, GradedSeen
      <4>2. CASE v # w
        <5>1. v \notin Holding
          BY <2>1, <4>2
        <5> QED
          BY <1>2, <4>2, <5>1 DEF Holding
      <4> QED
        BY <4>1, <4>2
    <3> QED
      BY <1>1, <3>1 DEF GradedSeen
  <2> QED
    BY <1>3, <2>5, <2>6
<1>6. CASE Opens(w) \/ Receive(w)
  <2>1. UNCHANGED <<sem, count>> /\ wpc'[w] \notin {"load", "store", "count", "unlock"}
    BY <1>1, <1>6 DEF GoWorker
  <2>2. Holding' = Holding
    BY <1>2, <1>6, <2>1 DEF Holding, GoWorker
  <2>3. GradedSeen'
    BY <1>1, <1>2, <2>1 DEF Base, GradedSeen
  <2> QED
    BY <1>3, <2>1, <2>2, <2>3 DEF Base, Exclusive
<1>7. (LoadCount(w) \/ Post(w) \/ StoreFactor(w) \/ StoreCount(w) \/ GradedStore(w) \/ GradedFault(w))
        => w \in Holding
  BY DEF GoWorker, Holding
<1> QED
  BY <1>4, <1>5, <1>6, <1>7, WorkerSteps

LEMMA BaseNext ==
  ASSUME Base, [Next]_vars
  PROVE  Base'
<1>1. Typed'
  BY TypedNext DEF Base
<1>2. ASSUME NEW t \in Targets, NEW n \in WorkerCounts, Start(t, n)
      PROVE  Linked' /\ Exclusive' /\ GradedSeen'
  BY <1>2, BaseSame DEF Start, Go, shared, workers
<1>3. CASE Interrupt
  <2>1. UNCHANGED <<linked, sem, count, seen, version>> /\ ppc' = "idle"
    BY <1>3 DEF Interrupt, shared
  <2>2. \A w \in Worker : wpc'[w] # "killed" => wpc'[w] = wpc[w]
    BY <1>3 DEF Interrupt
  <2>3. Attached' \subseteq Attached /\ Holding' \subseteq Holding
    BY <2>2 DEF Running, Attached, Holding
  <2>4. GradedSeen'
    BY <2>1, <2>2 DEF Base, GradedSeen
  <2> QED
    BY <1>1, <2>1, <2>3, <2>4 DEF Base, Linked, Exclusive
<1>4. CASE UNCHANGED vars
  BY <1>1, <1>4, BaseSame DEF vars, parent, shared, workers, Base
<1> QED
  BY <1>1, <1>2, <1>3, <1>4, BaseParent, BaseWorker DEF Next, Base

LEMMA BaseAlways == Spec => []Base
<1>1. Init => Base
  BY TypedInit, BaseInit DEF Base
<1>2. Base /\ [Next]_vars => Base'
  BY BaseNext
<1> QED
  BY <1>1, <1>2, PTL DEF Spec

(* In hfactor.c only the first store after the object was made goes to the  *)
(* count, and the later ones to the word with its number.                   *)
LEMMA FirstFactorKept ==
  ASSUME Base, [Next]_vars, version = "graded", "shm" \in linked, count # 0
  PROVE  count' = count /\ \A k \in 1..Words : slots'[k] # slots[k] => k = count
<1>1. CASE UNCHANGED <<count, slots>>
  BY <1>1
<1>2. ASSUME NEW w \in Worker, GradedStore(w)
      PROVE  count' = count /\ \A k \in 1..Words : slots'[k] # slots[k] => k = count
  <2>1. seen[w] = count /\ count \in Nat /\ slots \in [1..Words -> Nat] /\ GradedWords \in Nat
    BY <1>2, BoundsTyped DEF Base, Typed, SharedTypes, GradedSeen, GradedStore, GoWorker
  <2>2. CASE seen[w] \in 1..GradedWords
    BY <1>2, <2>1, <2>2 DEF GradedStore
  <2>3. CASE seen[w] > GradedWords
    BY <1>2, <2>1, <2>3 DEF GradedStore
  <2> QED
    BY <2>1, <2>2, <2>3
<1>3. ASSUME ParentStep
      PROVE  UNCHANGED <<count, slots>>
  BY <1>3, ParentSteps
     DEF OpenQueue, OpenQueueFails, OpenSemaphore, OpenSemaphoreFails, OpenSharedFails, Fork,
         ForkFails, ForkEnd, SendCandidate, SendEnd, SendSentinel, QuitEnd, WaitForWorkers,
         ReportFails, Deinit, GradedOpenShared, GradedReport, GradedReporterReturns, shared
<1>4. ASSUME NEW w \in Worker, WorkerStep(w), ~GradedStore(w)
      PROVE  UNCHANGED <<count, slots>>
  BY <1>4, WorkerSteps
     DEF Opens, OpenAll, OpenAllFails, OpenMissing, OpenRemoved, Opening, Receive, Lock, LoadCount, Post, GradedFault, shared
<1>5. (Interrupt \/ UNCHANGED vars \/ \E t \in Targets, n \in WorkerCounts : Start(t, n))
        => UNCHANGED <<count, slots>>
  BY DEF Interrupt, vars, Start, shared
<1> QED
  BY <1>1, <1>2, <1>3, <1>4, <1>5 DEF Next

(* Two factors survive in hfactor.c, whatever the targets, the number of    *)
(* workers and the interleaving: the first one, in the word of the count,   *)
(* and the last of the others (hfactor.c:61-69).                            *)
THEOREM FirstFactorAlwaysStays == Spec => FirstFactorStays
<1> DEFINE Kept ==
      /\ version = "graded" /\ "shm" \in linked /\ count # 0
      /\ \A w \in Worker : wpc[w] # "detached"
      => count' = count /\ \A k \in 1..Words : slots'[k] # slots[k] => k = count
<1>1. Base /\ [Next]_vars => [Kept]_vars
  BY FirstFactorKept
<1> QED
  BY BaseAlways, <1>1, PTL DEF Spec, FirstFactorStays

-----------------------------------------------------------------------------
(* Who is running, and what is in the queue. *)

(* A version is one for good, and failures are counted.                    *)
LEMMA Counted ==
  ASSUME Base, [Next]_vars
  PROVE  version' = version /\ (failures' = 0 => failures = 0)
<1>1. failures \in Nat
  BY BoundsTyped DEF Base, Typed, UsedTypes
<1>2. ASSUME ParentStep
      PROVE  version' = version /\ (failures' = failures \/ failures' = failures + 1)
  BY <1>2, ParentSteps
     DEF OpenQueue, OpenQueueFails, OpenSemaphore, OpenSemaphoreFails, OpenSharedFails, Fork,
         ForkFails, ForkEnd, SendCandidate, SendEnd, SendSentinel, QuitEnd, WaitForWorkers,
         ReportFails, Deinit, OpenShared, OpenSharedUnmapped, Report, GradedOpenShared,
         GradedReport, GradedReporterReturns, Fail, used, parent
<1>3. ASSUME NEW w \in Worker, WorkerStep(w)
      PROVE  version' = version /\ (failures' = failures \/ failures' = failures + 1)
  BY <1>3, WorkerSteps
     DEF Opens, OpenAll, OpenAllFails, OpenMissing, OpenRemoved, Opening, Receive, Lock, LoadCount, Post, StoreFactor, StoreCount,
         GradedStore, GradedFault, parent, used, Fail
<1>4. (Interrupt \/ UNCHANGED vars \/ \E t \in Targets, n \in WorkerCounts : Start(t, n))
        => version' = version /\ failures' = failures
  BY DEF Interrupt, vars, Start, used, parent
<1> QED
  BY <1>1, <1>2, <1>3, <1>4 DEF Next

(* What a worker does to the others and to the parent: nothing.             *)
LEMMA WorkerAlone ==
  ASSUME Base, NEW w \in Worker, WorkerStep(w)
  PROVE  /\ UNCHANGED <<version, runs, ppc, target, nworkers, i, report, clean, goal, linked>>
         /\ wpc[w] # "unborn" /\ w \in Running
         /\ Own' = Own /\ Running' \subseteq Running
         /\ \A v \in Worker :
              v # w => wpc'[v] = wpc[v] /\ seen'[v] = seen[v] /\ candidate'[v] = candidate[v]
<1> USE DEF Opens, OpenAll, OpenAllFails, OpenMissing, OpenRemoved, Opening, Receive, Lock, LoadCount, Post, StoreFactor, StoreCount,
            GradedStore, GradedFault, GoWorker
<1>1. UNCHANGED <<version, runs, ppc, target, nworkers, i, report, clean, goal, linked>>
  BY WorkerSteps DEF parent, shared
<1>2. wpc[w] # "unborn" /\ w \in Running
  BY WorkerSteps DEF Running
<1>3. \A v \in Worker :
        v # w => wpc'[v] = wpc[v] /\ seen'[v] = seen[v] /\ candidate'[v] = candidate[v]
  BY WorkerSteps DEF Base, Typed, WorkerTypes
<1> QED
  BY <1>1, <1>2, <1>3 DEF Own, Running

LEMMA AloneParent ==
  ASSUME Base, Alone, ParentStep, version = "sc"
  PROVE  Alone'
<1>1. failures \in Nat
  BY BoundsTyped DEF Base, Typed, UsedTypes
<1>2. CASE Fork
  <2>1. <<runs, i + 1>> \in Own
    BY <1>2, NewWorker DEF Fork, Base, Own
  <2>2. /\ wpc' = [wpc EXCEPT ![<<runs, i + 1>>] = "open"] /\ wpc \in [Worker -> WorkerPc]
        /\ UNCHANGED <<runs, ppc, clean, failures>> /\ ppc = "fork"
    BY <1>2 DEF Fork, used, Base, Typed, WorkerTypes
  <2>3. Own' = Own /\ Running' \subseteq Running \cup {<<runs, i + 1>>}
    BY <2>2 DEF Own, Running
  <2> QED
    BY <2>1, <2>2, <2>3 DEF Alone
<1>3. CASE OpenSemaphoreFails \/ OpenSharedFails \/ Deinit
  <2>1. ppc # "idle" /\ ppc' = "idle" /\ Running' \subseteq Running /\ (failures' = 0 => failures = 0)
    BY <1>1, <1>3, RemovedTyped
       DEF OpenSemaphoreFails, OpenSharedFails, Deinit, Unlink, Go, Fail, used, Base
  <2>2. failures' = 0 => Own \cap Running = {}
    BY <1>1, <1>3 DEF OpenSemaphoreFails, OpenSharedFails, Deinit, Go, Fail, Alone
  <2> QED
    BY <2>1, <2>2 DEF Alone
<1>4. CASE \/ OpenQueue \/ OpenSemaphore \/ OpenShared \/ OpenSharedUnmapped \/ ForkEnd
           \/ SendCandidate \/ SendEnd \/ SendSentinel \/ QuitEnd \/ WaitForWorkers \/ Report
           \/ ReportFails
  <2>1. UNCHANGED <<wpc, runs, clean>> /\ ppc # "idle" /\ ppc' # "idle"
    BY <1>4 DEF OpenQueue, OpenSemaphore, OpenShared, OpenSharedUnmapped, ForkEnd, SendCandidate,
                SendEnd, SendSentinel, QuitEnd, WaitForWorkers, Report, ReportFails, Go, workers
  <2>2. failures' = 0 => failures = 0
    BY <1>1, <1>4 DEF OpenQueue, OpenSemaphore, OpenShared, OpenSharedUnmapped, ForkEnd,
                SendCandidate, SendEnd, SendSentinel, QuitEnd, WaitForWorkers, Report,
                ReportFails, Fail, used
  <2>3. ppc' \in {"report", "deinit"} => ppc \in {"report", "deinit"} \/ Own \cap Running = {}
    <3>1. AllCollected => Own \cap Running = {}
      BY DEF AllCollected, Own, Running
    <3> QED
      BY <1>4, <3>1 DEF OpenQueue, OpenSemaphore, OpenShared, OpenSharedUnmapped, ForkEnd,
         SendCandidate, SendEnd, SendSentinel, QuitEnd, WaitForWorkers, Report, ReportFails, Go
  <2> QED
    BY <2>1, <2>2, <2>3 DEF Alone, Running, Own
<1>5. CASE OpenQueueFails \/ ForkFails
  BY <1>1, <1>5 DEF OpenQueueFails, ForkFails, Go, Fail, Alone
<1> QED
  BY <1>2, <1>3, <1>4, <1>5, ParentSteps

LEMMA AloneNext ==
  ASSUME Base, Alone, [Next]_vars
  PROVE  Alone'
<1> SUFFICES ASSUME version = "sc" PROVE Alone'
  BY Counted DEF Alone
<1>1. ASSUME NEW t \in Targets, NEW n \in WorkerCounts, Start(t, n)
      PROVE  Alone'
  <2>1. Running' = Running /\ ppc = "idle" /\ ppc' = "mq" /\ failures' = failures
    BY <1>1 DEF Start, Go, workers, used, Running
  <2>2. clean' => Running = {}
    <3>1. clean' => linked # Names /\ \A w \in Worker : wpc[w] # "late"
      BY <1>1 DEF Start, Names
    <3> QED
      BY <3>1 DEF Base, Linked, Attached, Running
  <2> QED
    BY <2>1, <2>2 DEF Alone
<1>2. ASSUME NEW w \in Worker, WorkerStep(w)
      PROVE  Alone'
  BY <1>2, WorkerAlone, Counted DEF Alone
<1>3. CASE Interrupt
  <2>1. Running' \subseteq Running \ Own
    BY <1>3 DEF Interrupt, Running
  <2> QED
    BY <1>3, <2>1 DEF Interrupt, Alone
<1>4. CASE UNCHANGED vars
  BY <1>4 DEF vars, parent, workers, used, Alone, Running, Own
<1> QED
  BY <1>1, <1>2, <1>3, <1>4, AloneParent DEF Next

LEMMA QueuedWorker ==
  ASSUME Base, Queued, NEW w \in Worker, WorkerStep(w)
  PROVE  Queued'
<1>1. UNCHANGED <<ppc, i, target>>
  BY WorkerSteps DEF Opens, OpenAll, OpenAllFails, OpenMissing, OpenRemoved, Opening, Receive, Lock, LoadCount, Post, StoreFactor,
     StoreCount, GradedStore, GradedFault, parent
<1>2. mq' = mq \/ (mq # <<>> /\ mq' = Tail(mq))
  BY WorkerSteps DEF Opens, OpenAll, OpenAllFails, OpenMissing, OpenRemoved, Opening, Receive, Lock, LoadCount, Post, StoreFactor,
     StoreCount, GradedStore, GradedFault, shared
<1>3. mq \in Seq(Nat)
  BY DEF Base, Typed, SharedTypes
<1>4. ASSUME mq # <<>>, mq' = Tail(mq), NEW k \in DOMAIN mq'
      PROVE  mq'[k] = 0 \/ mq'[k] >= 2
  <2>1. k + 1 \in DOMAIN mq /\ mq'[k] = mq[k + 1]
    BY <1>3, <1>4
  <2> QED
    BY <2>1 DEF Queued
<1> QED
  BY <1>1, <1>2, <1>4 DEF Queued

LEMMA QueuedNext ==
  ASSUME Base, Queued, [Next]_vars
  PROVE  Queued'
<1>1. /\ mq \in Seq(Nat) /\ i \in Nat /\ target \in Nat /\ target \div 2 \in Nat
      /\ <<>> \in Seq(Nat) /\ DOMAIN <<>> = {}
  BY HalfTyped DEF Base, Typed, SharedTypes, ParentTypes
<1>2. ASSUME NEW m \in Nat, m = 0 \/ m >= 2, Send(m)
      PROVE  \A k \in DOMAIN mq' : mq'[k] = 0 \/ mq'[k] >= 2
  BY <1>1, <1>2 DEF Send, Queued
<1>3. CASE SendCandidate
  <2>1. i >= 2 /\ i <= target \div 2 /\ Send(i) /\ i' = i + 1 /\ target' = target
    BY <1>3 DEF SendCandidate, Queued
  <2> QED
    BY <1>1, <1>2, <2>1 DEF Queued
<1>4. CASE SendSentinel
  BY <1>2, <1>4 DEF SendSentinel, Queued
<1>5. CASE OpenQueue
  BY <1>1, <1>5 DEF OpenQueue, Go, Queued
<1>6. CASE ForkEnd
  BY <1>1, <1>6 DEF ForkEnd, Go, Queued, shared
<1>7. ASSUME ParentStep, ~SendCandidate, ~SendSentinel, ~OpenQueue, ~ForkEnd
      PROVE  Queued'
  <2>1. mq' = mq /\ (ppc' = "send" => UNCHANGED <<ppc, i, target>>)
    BY <1>7, ParentSteps
       DEF OpenQueueFails, OpenSemaphore, OpenSemaphoreFails, OpenSharedFails, Fork,
           ForkFails, SendEnd, QuitEnd, WaitForWorkers, ReportFails, Deinit, OpenShared,
           OpenSharedUnmapped, Report, GradedOpenShared, GradedReport, GradedReporterReturns,
           shared, parent, Go
  <2> QED
    BY <2>1 DEF Queued
<1>8. (Interrupt \/ UNCHANGED vars \/ \E t \in Targets, n \in WorkerCounts : Start(t, n))
        => Queued'
  BY DEF Interrupt, vars, Start, shared, parent, Go, Queued
<1> QED
  BY <1>3, <1>4, <1>5, <1>6, <1>7, <1>8, QueuedWorker DEF Next

LEMMA CleanStartNext ==
  ASSUME Base, CleanStart, [Next]_vars
  PROVE  CleanStart'
<1>1. ASSUME NEW t \in Targets, NEW n \in WorkerCounts, Start(t, n)
      PROVE  CleanStart'
  BY <1>1 DEF Start, Go, CleanStart, shared
<1>2. ASSUME NEW w \in Worker, WorkerStep(w)
      PROVE  CleanStart'
  <2>1. mq' = mq \/ mq # <<>>
    BY <1>2, WorkerSteps DEF Opens, OpenAll, OpenAllFails, OpenMissing, OpenRemoved, Opening, Receive, Lock, LoadCount, Post, StoreFactor,
       StoreCount, GradedStore, GradedFault, shared
  <2> QED
    BY <1>2, <2>1, WorkerAlone DEF CleanStart
<1>3. CASE OpenQueue \/ OpenSemaphore
  BY <1>3 DEF OpenQueue, OpenSemaphore, Open, Go, CleanStart
<1>4. CASE OpenShared \/ OpenSharedUnmapped \/ GradedOpenShared \/ Fork
  BY <1>4 DEF OpenShared, OpenSharedUnmapped, GradedOpenShared, Fork, Open, Go, shared, CleanStart
<1>5. ASSUME ParentStep, ~OpenQueue, ~OpenSemaphore, ~OpenShared, ~OpenSharedUnmapped,
             ~GradedOpenShared, ~Fork
      PROVE  ppc' \notin {"mq", "sem", "shm", "fork"}
  BY <1>5, ParentSteps
     DEF OpenQueueFails, OpenSemaphoreFails, OpenSharedFails, ForkFails, ForkEnd, SendCandidate,
         SendEnd, SendSentinel, QuitEnd, WaitForWorkers, ReportFails, Deinit, Report, GradedReport,
         GradedReporterReturns, parent, Go
<1>6. CASE Interrupt
  BY <1>6 DEF Interrupt, CleanStart
<1>7. CASE UNCHANGED vars
  BY <1>7 DEF vars, parent, shared, CleanStart
<1> QED
  BY <1>1, <1>2, <1>3, <1>4, <1>5, <1>6, <1>7 DEF Next, CleanStart

-----------------------------------------------------------------------------
(* The divisors in hand and in the shared memory. *)

(* All that Working speaks of. *)
LEMMA WorkingSame ==
  ASSUME Working, Mine,
         UNCHANGED <<version, target, runs, wpc, goal, candidate, seen, count, slots>>
  PROVE  Working'
BY DEF Working, Finding, Own, Running

LEMMA WorkingOpens ==
  ASSUME Base, Alone, CleanStart, OpenShared \/ OpenSharedUnmapped, version = "sc"
  PROVE  Working'
<1> SUFFICES ASSUME Mine' PROVE Working'
  BY DEF Working
<1>1. clean \/ failures = 0
  BY BoundsTyped DEF OpenShared, OpenSharedUnmapped, Mine, Fail, used, Base, Typed, UsedTypes
<1>2. Running = {}
  <2>1. Running \subseteq Own /\ \A w \in Own : wpc[w] = "unborn"
    BY <1>1 DEF Alone, OpenShared, OpenSharedUnmapped, Go, Base, Typed, Born
  <2> QED
    BY <2>1 DEF Running
<1>3. count' = 0
  <2>1. CASE OpenShared
    BY <2>1 DEF OpenShared, CounterAtStart
  <2>2. CASE OpenSharedUnmapped
    <3>1. failures' # 0
      BY <2>2, BoundsTyped DEF OpenSharedUnmapped, Fail, Base, Typed, UsedTypes
    <3>2. clean
      BY <2>2, <3>1 DEF Mine, OpenSharedUnmapped
    <3> QED
      BY <2>2, <3>2 DEF OpenSharedUnmapped, CleanStart, Go
  <2> QED
    BY <2>1, <2>2
<1>4. Running' = {}
  BY <1>2 DEF OpenShared, OpenSharedUnmapped, workers, Running
<1>5. Finding' = {} /\ \A w \in Worker : wpc'[w] \notin {"store", "count"}
  BY <1>4 DEF Finding, Running, Own
<1> QED
  BY <1>3, <1>4, <1>5 DEF Working

LEMMA WorkingFork ==
  ASSUME Base, Working, Mine, Fork
  PROVE  Working'
<1> DEFINE new == <<runs, i + 1>>
<1>1. /\ new \in Worker /\ wpc' = [wpc EXCEPT ![new] = "open"] /\ goal' = [goal EXCEPT ![new] = target]
      /\ wpc \in [Worker -> WorkerPc] /\ goal \in [Worker -> Nat]
  BY NewWorker DEF Fork, Base, Typed, WorkerTypes
<1>2. UNCHANGED <<version, runs, target, candidate, seen, count, slots>>
  BY DEF Fork, shared
<1> HIDE DEF new
<1>3. \A w \in Worker : w # new => wpc'[w] = wpc[w] /\ goal'[w] = goal[w]
  BY <1>1
<1>4. wpc'[new] = "open" /\ goal'[new] = target
  BY <1>1
<1>5. Finding' \subseteq Finding /\ Running' \subseteq Running \cup {new}
  BY <1>1, <1>2, <1>3, <1>4 DEF Finding, Running, Own
<1>6. \A w \in Running' : goal'[w] = target'
  BY <1>1, <1>2, <1>3, <1>4, <1>5 DEF Working, Running
<1>7. \A w \in Worker : wpc'[w] \in {"store", "count"} => wpc'[w] = wpc[w]
  BY <1>3, <1>4
<1> QED
  BY <1>2, <1>5, <1>6, <1>7 DEF Working

LEMMA WorkingParent ==
  ASSUME Base, Alone, CleanStart, Working, ParentStep, version = "sc"
  PROVE  Working'
<1> SUFFICES ASSUME Mine' PROVE Working'
  BY DEF Working
<1>1. CASE OpenShared \/ OpenSharedUnmapped
  BY <1>1, WorkingOpens
<1>2. ASSUME ~OpenShared, ~OpenSharedUnmapped
      PROVE  Mine
  <2>1. clean \/ failures = 0
    BY <1>2, Counted, ParentSteps
       DEF Mine, OpenQueue, OpenQueueFails, OpenSemaphore, OpenSemaphoreFails, OpenSharedFails,
           Fork, ForkFails, ForkEnd, SendCandidate, SendEnd, SendSentinel, QuitEnd, WaitForWorkers,
           ReportFails, Deinit, Report, Next
  <2>2. InRun
    BY <1>2, ParentSteps
       DEF Mine, InRun, OpenQueue, OpenQueueFails, OpenSemaphore, OpenSemaphoreFails,
           OpenSharedFails, Fork, ForkFails, ForkEnd, SendCandidate, SendEnd, SendSentinel, QuitEnd,
           WaitForWorkers, ReportFails, Deinit, Report, Go
  <2> QED
    BY <2>1, <2>2 DEF Mine
<1>3. CASE Fork
  BY <1>2, <1>3, WorkingFork DEF Fork, OpenShared, OpenSharedUnmapped, Go
<1>4. CASE \/ ForkEnd \/ SendCandidate \/ SendEnd \/ SendSentinel \/ QuitEnd \/ WaitForWorkers
           \/ Report \/ ReportFails
  <2>1. UNCHANGED <<version, target, runs, wpc, goal, candidate, seen, count, slots>>
    BY <1>4 DEF ForkEnd, SendCandidate, SendEnd, SendSentinel, QuitEnd, WaitForWorkers, Report,
                ReportFails, shared, workers
  <2> QED
    BY <1>1, <1>2, <2>1, WorkingSame
<1>5. ASSUME \/ OpenQueue \/ OpenQueueFails \/ OpenSemaphore \/ OpenSemaphoreFails
             \/ OpenSharedFails \/ ForkFails \/ Deinit
      PROVE  FALSE
  BY <1>5 DEF Mine, InRun, OpenQueue, OpenQueueFails, OpenSemaphore, OpenSemaphoreFails,
              OpenSharedFails, ForkFails, Deinit, Go
<1> QED
  BY <1>1, <1>3, <1>4, <1>5, ParentSteps

LEMMA WorkingWorker ==
  ASSUME Base, Alone, Queued, Working, NEW w \in Worker, WorkerStep(w), version = "sc"
  PROVE  Working'
<1> SUFFICES ASSUME Mine' PROVE Working'
  BY DEF Working
<1>1. /\ UNCHANGED <<runs, ppc, target, clean, goal>> /\ Running' \subseteq Running
      /\ Own' = Own /\ Own \subseteq Worker
  BY WorkerAlone DEF Own
<1>2. Mine
  BY <1>1, Counted DEF Mine, InRun, Next
<1>3. w \in Own /\ w \in Running /\ goal[w] = target
  BY <1>2, WorkerAlone DEF Alone, Working, Mine, InRun
<1>4. \A v \in Worker :
        v # w => wpc'[v] = wpc[v] /\ seen'[v] = seen[v] /\ candidate'[v] = candidate[v]
  BY WorkerAlone
<1>5. \A v \in Running' : goal'[v] = target'
  BY <1>1, <1>2 DEF Working
<1>6. /\ wpc \in [Worker -> WorkerPc] /\ seen \in [Worker -> Nat] /\ candidate \in [Worker -> Nat]
      /\ count \in Nat /\ slots \in [1..Words -> Nat] /\ mq \in Seq(Nat) /\ Words \in Nat
  BY BoundsTyped DEF Base, Typed, WorkerTypes, SharedTypes
<1>7. \A v \in Worker \ {w} : w \in Holding => wpc[v] \notin {"store", "count"}
  BY DEF Base, Exclusive, Holding
<1>8. CASE Opens(w) \/ Post(w) \/ Lock(w)
  <2>1. UNCHANGED <<candidate, seen, count, slots>>
    BY <1>8 DEF Opens, OpenAll, OpenAllFails, OpenMissing, OpenRemoved, Opening, Post, Lock, shared
  <2>2. wpc'[w] \notin {"store", "count"}
    BY <1>6, <1>8 DEF Opens, OpenAll, OpenAllFails, OpenMissing, OpenRemoved, Opening, Post, Lock, GoWorker
  <2>3. Finding' \subseteq Finding
    BY <1>1, <1>4, <1>6, <1>8 DEF Finding, Opens, OpenAll, OpenAllFails, OpenMissing, OpenRemoved, Opening, Post, Lock, GoWorker
  <2> QED
    BY <1>1, <1>2, <1>4, <1>5, <2>1, <2>2, <2>3 DEF Working
<1>9. CASE Receive(w)
  <2>1. UNCHANGED <<seen, count, slots>> /\ mq # <<>> /\ candidate'[w] = Head(mq)
    BY <1>6, <1>9 DEF Receive
  <2>2. wpc'[w] \in {"exited", "lock", "receive"}
    BY <1>6, <1>9 DEF Receive, GoWorker
  <2>3. wpc'[w] = "lock" => Head(mq) # 0 /\ Divides(Head(mq), target)
    BY <1>3, <1>6, <1>9 DEF Receive, GoWorker
  <2>4. Head(mq) = 0 \/ Head(mq) >= 2
    BY <1>6, <2>1 DEF Queued
  <2>5. \A v \in Finding' : candidate'[v] >= 2 /\ Divides(candidate'[v], target')
    BY <1>1, <1>2, <1>4, <2>1, <2>2, <2>3, <2>4 DEF Working, Finding
  <2> QED
    BY <1>1, <1>2, <1>4, <1>5, <2>1, <2>2, <2>5 DEF Working
<1>10. CASE LoadCount(w)
  <2>1. UNCHANGED <<candidate, count, slots>> /\ seen'[w] = count /\ wpc'[w] = "store"
    BY <1>6, <1>10 DEF LoadCount, GoWorker, shared
  <2>2. Finding' = Finding
    BY <1>1, <1>4, <1>6, <1>10, <2>1 DEF LoadCount, GoWorker, Finding
  <2> QED
    BY <1>1, <1>2, <1>4, <1>5, <2>1, <2>2 DEF Working
<1>11. CASE StoreFactor(w)
  <2>1. /\ UNCHANGED <<candidate, count, seen>> /\ wpc'[w] = "count" /\ seen[w] = count
        /\ count + 1 \in 1..Words /\ slots' = [slots EXCEPT ![count + 1] = candidate[w]]
        /\ w \in Holding /\ wpc[w] = "store"
    <3>1. wpc[w] = "store" /\ wpc'[w] = "count" /\ UNCHANGED <<candidate, count, seen>>
      BY <1>6, <1>11 DEF StoreFactor, GoWorker
    <3>2. seen[w] = count /\ w \in Holding
      BY <1>2, <3>1 DEF Working, Holding
    <3> QED
      BY <1>6, <1>11, <3>1, <3>2 DEF StoreFactor
  <2>2. slots'[count + 1] = candidate[w] /\ \A k \in 1..count : slots'[k] = slots[k]
    BY <1>6, <2>1
  <2>3. Finding' = Finding
    BY <1>1, <1>4, <2>1 DEF Finding
  <2>4. \A v \in Worker \ {w} : wpc'[v] \notin {"store", "count"}
    BY <1>4, <1>7, <2>1
  <2> QED
    BY <1>1, <1>2, <1>5, <2>1, <2>2, <2>3, <2>4 DEF Working
<1>12. CASE StoreCount(w)
  <2>1. /\ UNCHANGED <<candidate, slots, seen>> /\ wpc'[w] = "unlock" /\ count' = count + 1
        /\ w \in Holding /\ wpc[w] = "count" /\ slots[count + 1] = candidate[w]
    BY <1>2, <1>6, <1>12 DEF StoreCount, GoWorker, Working, Holding
  <2>2. w \in Finding /\ Finding' \subseteq Finding
    BY <1>1, <1>3, <1>4, <2>1 DEF Finding
  <2>3. \A v \in Worker : wpc'[v] \notin {"store", "count"}
    BY <1>4, <1>7, <2>1
  <2>4. \A k \in 1..count' : k \in 1..count \/ k = count + 1
    BY <1>6, <2>1
  <2>5. \A k \in 1..count' : slots'[k] >= 2 /\ Divides(slots'[k], target')
    BY <1>1, <1>2, <2>1, <2>2, <2>4 DEF Working
  <2> QED
    BY <1>1, <1>2, <1>5, <2>1, <2>2, <2>3, <2>5 DEF Working
<1> QED
  BY <1>8, <1>9, <1>10, <1>11, <1>12, WorkerSteps

LEMMA WorkingNext ==
  ASSUME Base, Alone, Queued, CleanStart, Working, [Next]_vars
  PROVE  Working'
<1> SUFFICES ASSUME version = "sc" PROVE Working'
  BY Counted DEF Working, Mine
<1>1. ASSUME NEW t \in Targets, NEW n \in WorkerCounts, Start(t, n)
      PROVE  Working'
  BY <1>1 DEF Start, Go, Working, Mine, InRun
<1>2. CASE Interrupt
  BY <1>2 DEF Interrupt, Working, Mine, InRun
<1>3. CASE UNCHANGED vars
  <2>1. Mine' => Mine
    BY <1>3 DEF vars, parent, used, Mine, InRun
  <2> QED
    BY <1>3, <2>1, WorkingSame DEF vars, parent, shared, workers, Working
<1> QED
  BY <1>1, <1>2, <1>3, WorkingParent, WorkingWorker DEF Next

Inv == Base /\ Alone /\ Queued /\ CleanStart /\ Working

LEMMA InvInit == Init => Inv
<1>1. Init => Running = {} /\ DOMAIN mq = {}
  BY DEF Init, Running
<1> QED
  BY <1>1, TypedInit, BaseInit
     DEF Inv, Base, Init, Alone, Queued, CleanStart, Working, Mine, InRun

LEMMA InvNext == Inv /\ [Next]_vars => Inv'
BY BaseNext, AloneNext, QueuedNext, CleanStartNext, WorkingNext DEF Inv

LEMMA InvAlways == Spec => []Inv
BY InvInit, InvNext, PTL DEF Spec

(* Whatever a run takes over from those that were interrupted before it,    *)
(* leftover candidates and zeros in the queue, a semaphore that stays taken *)
(* and old factors in the memory, it records divisors of its own target:    *)
(* the counter is reset, and no worker of another run is left.             *)
THEOREM NeverForeign == Spec => []NoForeignFactor
<1>1. Inv => NoForeignFactor
  BY DEF Inv, Working, Mine, InRun, NoForeignFactor, Recorded
<1> QED
  BY InvAlways, <1>1, PTL

-----------------------------------------------------------------------------
(* Runs that found no names. *)

Values(q) == { q[k] : k \in DOMAIN q }

LEMMA WaitingIs ==
  /\ Waiting = { d \in Values(mq) \ {0} : Divides(d, target) }
  /\ Waiting' = { d \in Values(mq') \ {0} : Divides(d, target') }
BY DEF Waiting, Values, DivisorsIn

LEMMA ValuesAppend ==
  ASSUME NEW q \in Seq(Nat), NEW m \in Nat
  PROVE  Values(Append(q, m)) = Values(q) \cup {m}
<1>1. DOMAIN Append(q, m) = 1..Len(q) + 1 /\ DOMAIN q = 1..Len(q) /\ Len(q) \in Nat
  OBVIOUS
<1>2. Append(q, m)[Len(q) + 1] = m /\ \A k \in 1..Len(q) : Append(q, m)[k] = q[k]
  OBVIOUS
<1>3. 1..Len(q) + 1 = 1..Len(q) \cup {Len(q) + 1}
  BY <1>1
<1> QED
  BY <1>1, <1>2, <1>3, Zenon DEF Values

LEMMA ValuesTail ==
  ASSUME NEW q \in Seq(Nat), q # <<>>
  PROVE  Values(q) = Values(Tail(q)) \cup {Head(q)}
<1>1. /\ DOMAIN q = 1..Len(q) /\ Len(q) \in Nat \ {0} /\ DOMAIN Tail(q) = 1..Len(q) - 1
      /\ Head(q) = q[1] /\ \A k \in 1..Len(q) - 1 : Tail(q)[k] = q[k + 1]
  OBVIOUS
<1>2. \A k \in 1..Len(q) : k = 1 \/ k - 1 \in 1..Len(q) - 1
  BY <1>1
<1>3. \A k \in 1..Len(q) - 1 : k + 1 \in 1..Len(q) /\ (k + 1) - 1 = k
  BY <1>1
<1>4. 1 \in 1..Len(q) /\ \A k \in 1..Len(q) : (k - 1) + 1 = k
  BY <1>1
<1>5. \A k \in 1..Len(q) : q[k] \in Values(Tail(q)) \cup {Head(q)}
  <2> TAKE k \in 1..Len(q)
  <2>1. CASE k = 1
    BY <1>1, <2>1
  <2>2. CASE k # 1
    <3>1. k - 1 \in DOMAIN Tail(q) /\ Tail(q)[k - 1] = q[k]
      BY <1>1, <1>2, <1>4, <2>2
    <3> QED
      BY <3>1, Zenon DEF Values
  <2> QED
    BY <2>1, <2>2
<1>6. \A k \in DOMAIN Tail(q) : Tail(q)[k] \in Values(q)
  BY <1>1, <1>3, Zenon DEF Values
<1>7. Head(q) \in Values(q)
  BY <1>1, <1>4, Zenon DEF Values
<1>8. \A x \in Values(q) : x \in Values(Tail(q)) \cup {Head(q)}
  <2> TAKE x \in Values(q)
  <2>1. PICK k \in 1..Len(q) : x = q[k]
    BY <1>1 DEF Values
  <2> QED
    BY <1>5, <2>1
<1>9. \A x \in Values(Tail(q)) : x \in Values(q)
  BY <1>6 DEF Values
<1> HIDE DEF Values
<1> QED
  BY <1>7, <1>8, <1>9

(* The only way into a run's part with the objects, and out of it.          *)
LEMMA FreshSteps ==
  ASSUME Inv, [Next]_vars, Fresh'
  PROVE  \/ Fresh /\ ~OpenShared /\ ~OpenSharedUnmapped
         \/ OpenShared \/ OpenSharedUnmapped
<1>1. version = "sc"
  BY Counted DEF Inv, Fresh, Mine
<1> SUFFICES ASSUME ~OpenShared, ~OpenSharedUnmapped PROVE Fresh
  OBVIOUS
<1>2. ASSUME ParentStep
      PROVE  clean /\ InRun
  BY <1>1, <1>2, ParentSteps
     DEF Fresh, Mine, InRun, OpenQueue, OpenQueueFails, OpenSemaphore, OpenSemaphoreFails,
         OpenSharedFails, Fork, ForkFails, ForkEnd, SendCandidate, SendEnd, SendSentinel, QuitEnd,
         WaitForWorkers, ReportFails, Deinit, Report, Go
<1>3. ASSUME NEW w \in Worker, WorkerStep(w)
      PROVE  clean /\ InRun
  BY <1>3, WorkerAlone DEF Inv, Fresh, Mine, InRun
<1>4. ~Interrupt /\ \A t \in Targets, n \in WorkerCounts : ~Start(t, n)
  BY DEF Interrupt, Start, Go, Fresh, Mine, InRun
<1>5. UNCHANGED vars => clean /\ InRun
  BY DEF vars, parent, Fresh, Mine, InRun
<1> QED
  BY <1>1, <1>2, <1>3, <1>4, <1>5 DEF Next, Fresh, Mine

(* It begins with nothing in the queue, in hand or in the memory.           *)
LEMMA FreshBegins ==
  ASSUME Inv, OpenShared \/ OpenSharedUnmapped, Fresh'
  PROVE  /\ ppc' = "fork" /\ mq' = <<>> /\ count' = 0 /\ report' = <<>>
         /\ Running' = {} /\ \A w \in Own' : wpc'[w] = "unborn"
<1>1. clean /\ ppc = "shm" /\ ppc' = "fork" /\ UNCHANGED <<mq, report, wpc, runs>>
  BY DEF OpenShared, OpenSharedUnmapped, Fresh, Go, workers
<1>2. mq = <<>> /\ report = <<>> /\ linked = {"mq", "sem"}
  BY <1>1 DEF Inv, CleanStart
<1>3. count' = 0
  BY <1>2 DEF OpenShared, OpenSharedUnmapped, CounterAtStart
<1>4. \A w \in Own' : wpc'[w] = "unborn"
  BY <1>1 DEF Inv, Base, Typed, Born, Own
<1>5. version = "sc"
  BY DEF OpenShared, OpenSharedUnmapped, Fresh, Mine
<1>6. Running \subseteq Own
  BY <1>1, <1>5 DEF Inv, Alone
<1>7. Running' = {}
  BY <1>1, <1>4, <1>6 DEF Running, Own
<1> QED
  BY <1>1, <1>2, <1>3, <1>4, <1>7

LEMMA OrderedWorker ==
  ASSUME Inv, Ordered, NEW w \in Worker, WorkerStep(w), Fresh
  PROVE  Ordered'
<1>1. UNCHANGED <<ppc, target, i>> /\ Own' = Own /\ SentSoFar' = SentSoFar
  BY WorkerAlone DEF Inv, SentSoFar, Sent
<1>2. CASE Receive(w)
  <2>1. /\ mq \in Seq(Nat) /\ mq # <<>> /\ mq' = Tail(mq) /\ wpc \in [Worker -> WorkerPc]
        /\ wpc'[w] = "exited" => mq[1] = 0
    BY <1>2 DEF Inv, Base, Typed, SharedTypes, WorkerTypes, Receive, GoWorker
  <2>2. /\ \A k \in DOMAIN mq' : k + 1 \in DOMAIN mq /\ mq'[k] = mq[k + 1] /\ k \in Nat /\ k + 1 > 1
        /\ 1 \in DOMAIN mq
    BY <2>1
  <2>3. \A j, k \in DOMAIN mq' : j < k => j + 1 < k + 1
    BY <2>2
  <2>4. mq[1] = 0 => \A k \in DOMAIN mq' : mq'[k] = 0
    BY <2>2 DEF Ordered
  <2>5. mq[1] = 0 => ppc \notin {"fork", "send"}
    BY <2>2 DEF Ordered
  <2>6. \A v \in Own : v # w => wpc'[v] = wpc[v]
    BY WorkerAlone DEF Inv, Own
  <2>7. \A v \in Own' : wpc'[v] = "exited" =>
          ppc' \notin {"fork", "send"} /\ \A k \in DOMAIN mq' : mq'[k] = 0
    BY <1>1, <2>1, <2>2, <2>4, <2>5, <2>6 DEF Ordered
  <2>8. \A k \in DOMAIN mq' : mq'[k] = 0 \/ mq'[k] \in SentSoFar'
    BY <1>1, <2>2 DEF Ordered
  <2>9. ppc' \in {"fork", "send"} => \A k \in DOMAIN mq' : mq'[k] # 0
    BY <1>1, <2>2 DEF Ordered
  <2>10. \A j, k \in DOMAIN mq' : j < k => mq'[k] = 0 \/ (mq'[j] # 0 /\ mq'[j] < mq'[k])
    BY <2>2, <2>3 DEF Ordered
  <2> QED
    BY <2>7, <2>8, <2>9, <2>10 DEF Ordered
<1>3. CASE ~Receive(w)
  <2>1. mq' = mq
    BY <1>3, WorkerSteps DEF Opens, OpenAll, OpenAllFails, OpenMissing, OpenRemoved, Opening, Lock, LoadCount, Post, StoreFactor, StoreCount,
       GradedStore, GradedFault, shared
  <2>2. wpc'[w] # "exited"
    BY <1>3, WorkerSteps DEF Opens, OpenAll, OpenAllFails, OpenMissing, OpenRemoved, Opening, Lock, LoadCount, Post, StoreFactor, StoreCount,
       GradedStore, GradedFault, GoWorker, Inv, Base, Typed, WorkerTypes
  <2>3. \A v \in Own : v # w => wpc'[v] = wpc[v]
    BY WorkerAlone DEF Inv, Own
  <2> QED
    BY <1>1, <2>1, <2>2, <2>3 DEF Ordered
<1> QED
  BY <1>2, <1>3

(* A message that is greater than what is in the queue, or the zero.        *)
LEMMA OrderedSend ==
  ASSUME NEW q \in Seq(Nat), NEW m \in Nat,
         \A j, k \in DOMAIN q : j < k => q[k] = 0 \/ (q[j] # 0 /\ q[j] < q[k]),
         m = 0 \/ \A k \in DOMAIN q : q[k] # 0 /\ q[k] < m
  PROVE  LET a == Append(q, m)
         IN \A j, k \in DOMAIN a : j < k => a[k] = 0 \/ (a[j] # 0 /\ a[j] < a[k])
<1> DEFINE a == Append(q, m)
<1>1. DOMAIN a = 1..Len(q) + 1 /\ Len(q) \in Nat /\ a[Len(q) + 1] = m /\ DOMAIN q = 1..Len(q)
  OBVIOUS
<1>2. \A k \in 1..Len(q) : a[k] = q[k]
  OBVIOUS
<1> HIDE DEF a
<1>3. ASSUME NEW j \in DOMAIN a, NEW k \in DOMAIN a, j < k
      PROVE  a[k] = 0 \/ (a[j] # 0 /\ a[j] < a[k])
  <2>1. j \in 1..Len(q)
    BY <1>1, <1>3
  <2>2. CASE k = Len(q) + 1
    BY <1>1, <1>2, <2>1, <2>2
  <2>3. CASE k \in 1..Len(q)
    BY <1>1, <1>2, <1>3, <2>1, <2>3
  <2> QED
    BY <1>1, <2>2, <2>3
<1> QED
  BY <1>3 DEF a

(* The candidates that were sent, when the last one was.                    *)
LEMMA AllSent ==
  ASSUME Inv, SendEnd
  PROVE  SentSoFar' = SentSoFar
<1>1. /\ i \in Nat /\ target \div 2 \in Nat /\ i > target \div 2 /\ i >= 2
      /\ i = 2 \/ i <= (target \div 2) + 1
  BY HalfTyped DEF Inv, Base, Typed, ParentTypes, Queued, SendEnd, Go
<1>2. 2..i - 1 = 2..target \div 2
  BY <1>1
<1> QED
  BY <1>2 DEF SendEnd, Go, SentSoFar, Sent

(* What a step that goes on with a fresh run is.                            *)
LEMMA FreshParent ==
  ASSUME Inv, ParentStep, Fresh, Fresh', ~OpenShared, ~OpenSharedUnmapped
  PROVE  \/ Fork \/ ForkEnd \/ SendCandidate \/ SendEnd \/ SendSentinel
         \/ QuitEnd \/ WaitForWorkers \/ Report \/ ReportFails
BY ParentSteps
   DEF Fresh, Mine, InRun, OpenQueue, OpenQueueFails, OpenSemaphore, OpenSemaphoreFails,
       OpenSharedFails, ForkFails, Deinit, Go

LEMMA OrderedParent ==
  ASSUME Inv, Ordered, ParentStep, Fresh, Fresh', ~OpenShared, ~OpenSharedUnmapped
  PROVE  Ordered'
<1>1. /\ mq \in Seq(Nat) /\ i \in Nat /\ target \in Nat /\ target \div 2 \in Nat
      /\ DOMAIN mq = 1..Len(mq) /\ Len(mq) \in Nat
  BY HalfTyped DEF Inv, Base, Typed, SharedTypes, ParentTypes
<1>2. CASE Fork
  <2>1. /\ UNCHANGED <<ppc, target, runs, mq>> /\ SentSoFar' = SentSoFar /\ ppc = "fork"
        /\ mq = <<>>
    BY <1>2 DEF Fork, shared, SentSoFar, Inv, CleanStart, Fresh
  <2>2. wpc' = [wpc EXCEPT ![<<runs, i + 1>>] = "open"] /\ wpc \in [Worker -> WorkerPc]
    BY <1>2 DEF Fork, Inv, Base, Typed, WorkerTypes
  <2>3. \A w \in Own' : wpc'[w] = "exited" => w \in Own /\ wpc[w] = "exited"
    BY <2>1, <2>2 DEF Own
  <2>4. DOMAIN mq' = {}
    BY <2>1
  <2> QED
    BY <2>1, <2>3, <2>4 DEF Ordered
<1>3. CASE ForkEnd
  <2>1. mq = <<>> /\ ppc = "fork" /\ ppc' = "send" /\ UNCHANGED <<mq, wpc, runs>>
    BY <1>3 DEF ForkEnd, Go, shared, workers, Inv, CleanStart, Fresh
  <2>2. \A w \in Own' : wpc'[w] # "exited"
    BY <2>1 DEF Ordered, Own
  <2> QED
    BY <2>1, <2>2 DEF Ordered
<1>4. CASE SendCandidate
  <2>1. /\ ppc = "send" /\ ppc' = "send" /\ mq' = Append(mq, i) /\ i' = i + 1 /\ i >= 2
        /\ UNCHANGED <<wpc, runs, target>>
    BY <1>4 DEF SendCandidate, Send, workers, Inv, Queued
  <2>2. SentSoFar = 2..i - 1 /\ SentSoFar' = 2..i
    BY <1>1, <2>1 DEF SentSoFar, Sent
  <2>3. \A k \in DOMAIN mq : mq[k] # 0 /\ mq[k] \in 2..i - 1
    BY <2>1, <2>2 DEF Ordered
  <2>4. \A k \in DOMAIN mq : mq[k] # 0 /\ mq[k] < i
    BY <1>1, <2>3
  <2>5. \A j, k \in DOMAIN mq' : j < k => mq'[k] = 0 \/ (mq'[j] # 0 /\ mq'[j] < mq'[k])
    BY <1>1, <2>1, <2>4, OrderedSend DEF Ordered
  <2>6. \A k \in DOMAIN mq' : mq'[k] # 0 /\ mq'[k] \in 2..i
    BY <1>1, <2>1, <2>3
  <2>7. \A w \in Own' : wpc'[w] # "exited"
    BY <2>1 DEF Ordered, Own
  <2> QED
    BY <2>2, <2>5, <2>6, <2>7 DEF Ordered
<1>5. CASE SendEnd
  <2>1. ppc = "send" /\ ppc' = "quit" /\ UNCHANGED <<mq, wpc, runs>> /\ SentSoFar' = SentSoFar
    BY <1>5, AllSent DEF SendEnd, Go, shared, workers
  <2>2. \A w \in Own' : wpc'[w] # "exited"
    BY <2>1 DEF Ordered, Own
  <2> QED
    BY <2>1, <2>2 DEF Ordered
<1>6. CASE SendSentinel
  <2>1. /\ ppc = "quit" /\ ppc' = "quit" /\ mq' = Append(mq, 0) /\ UNCHANGED <<wpc, runs, target>>
        /\ SentSoFar' = SentSoFar
    BY <1>6 DEF SendSentinel, Send, workers, SentSoFar, Sent
  <2>2. \A j, k \in DOMAIN mq' : j < k => mq'[k] = 0 \/ (mq'[j] # 0 /\ mq'[j] < mq'[k])
    BY <1>1, <2>1, OrderedSend DEF Ordered
  <2>3. \A k \in DOMAIN mq' : mq'[k] = 0 \/ (k \in DOMAIN mq /\ mq'[k] = mq[k])
    BY <1>1, <2>1
  <2>4. Own' = Own
    BY <2>1 DEF Own
  <2> QED
    BY <2>1, <2>2, <2>3, <2>4 DEF Ordered
<1>7. CASE QuitEnd \/ WaitForWorkers \/ Report \/ ReportFails
  <2>1. UNCHANGED <<mq, wpc, runs, target>> /\ ppc \notin {"fork", "send"} /\ ppc' \notin {"fork", "send"}
    BY <1>7 DEF QuitEnd, WaitForWorkers, Report, ReportFails, shared, workers, Go
  <2>2. SentSoFar' = SentSoFar /\ Own' = Own
    BY <2>1 DEF SentSoFar, Sent, Own
  <2> QED
    BY <2>1, <2>2 DEF Ordered
<1> QED
  BY <1>2, <1>3, <1>4, <1>5, <1>6, <1>7, FreshParent

LEMMA OrderedNext ==
  ASSUME Inv, Ordered, [Next]_vars
  PROVE  Ordered'
<1> SUFFICES ASSUME Fresh' PROVE Ordered'
  BY DEF Ordered
<1>1. CASE OpenShared \/ OpenSharedUnmapped
  <2>1. mq' = <<>> /\ \A w \in Own' : wpc'[w] # "exited"
    BY <1>1, FreshBegins
  <2> QED
    BY <2>1 DEF Ordered
<1>2. CASE Fresh /\ ~OpenShared /\ ~OpenSharedUnmapped
  <2>1. CASE UNCHANGED vars
    BY <1>2, <2>1 DEF vars, parent, shared, workers, Ordered, SentSoFar, Sent, Own
  <2>2. ~Interrupt /\ \A t \in Targets, n \in WorkerCounts : ~Start(t, n)
    BY DEF Interrupt, Start, Go, Fresh, Mine, InRun
  <2> QED
    BY <1>2, <2>1, <2>2, OrderedParent, OrderedWorker DEF Next
<1> QED
  BY <1>1, <1>2, FreshSteps

LEMMA SettledNext ==
  ASSUME Inv, Settled, [Next]_vars
  PROVE  Settled'
<1> SUFFICES ASSUME Fresh' PROVE Settled'
  BY DEF Settled
<1>1. CASE OpenShared \/ OpenSharedUnmapped
  BY <1>1, FreshBegins DEF Settled
<1>2. CASE Fresh /\ ~OpenShared /\ ~OpenSharedUnmapped
  <2>1. CASE UNCHANGED vars
    BY <1>2, <2>1 DEF vars, parent, shared, workers, Settled, Own, Running
  <2>2. ~Interrupt /\ \A t \in Targets, n \in WorkerCounts : ~Start(t, n)
    BY DEF Interrupt, Start, Go, Fresh, Mine, InRun
  <2>3. ASSUME NEW w \in Worker, WorkerStep(w)
        PROVE  Settled'
    <3>1. Running \subseteq Own /\ w \in Running
      BY <1>2, <2>3, WorkerAlone DEF Inv, Fresh, Mine, InRun, Alone
    <3>2. ppc \notin {"report", "deinit"}
      BY <1>2, <3>1 DEF Settled
    <3> QED
      BY <1>2, <2>3, <3>2, WorkerAlone DEF Inv, Settled
  <2>4. ASSUME ParentStep
        PROVE  Settled'
    <3>1. CASE Fork \/ ForkEnd \/ SendCandidate \/ SendEnd \/ SendSentinel \/ QuitEnd
      BY <1>2, <3>1 DEF Fork, ForkEnd, SendCandidate, SendEnd, SendSentinel, QuitEnd, Go, Settled
    <3>2. CASE WaitForWorkers
      <4>1. Own \cap Running = {}
        BY <3>2 DEF WaitForWorkers, AllCollected, Running
      <4>2. UNCHANGED <<wpc, runs, report>> /\ ppc' = "report" /\ ppc = "wait"
        BY <3>2 DEF WaitForWorkers, workers, Go
      <4> QED
        BY <1>2, <4>1, <4>2 DEF Settled, Own, Running
    <3>3. CASE Report \/ ReportFails
      <4>1. UNCHANGED <<wpc, runs, count, slots>> /\ ppc' = "deinit" /\ ppc = "report"
        BY <3>3 DEF Report, ReportFails, workers, shared, Go
      <4>2. report' = report \/ report' = <<count>> \o [k \in 1..count |-> slots[k]]
        BY <3>3 DEF Report, ReportFails
      <4> QED
        BY <1>2, <4>1, <4>2 DEF Settled, Own, Running
    <3> QED
      BY <1>2, <2>4, <3>1, <3>2, <3>3, FreshParent
  <2> QED
    BY <2>1, <2>2, <2>3, <2>4 DEF Next
<1> QED
  BY <1>1, <1>2, FreshSteps

-----------------------------------------------------------------------------
(* No factor is lost or doubled. *)

LEMMA FindingFinite == IsFiniteSet(Finding)
<1>1. IsFiniteSet(1..MaxRuns) /\ IsFiniteSet(1..MaxWorkers)
  BY FS_Interval, BoundsTyped
<1>2. IsFiniteSet(Worker)
  BY <1>1, FS_Product DEF Worker
<1> QED
  BY <1>2, FS_Subset DEF Finding, Own

LEMMA SentFinite ==
  ASSUME Inv
  PROVE  IsFiniteSet(DivisorsIn(SentSoFar)) /\ SentSoFar \subseteq Nat /\ 0 \notin SentSoFar
<1>1. i \in Nat /\ target \div 2 \in Nat
  BY HalfTyped DEF Inv, Base, Typed, ParentTypes
<1>2. IsFiniteSet(2..i - 1) /\ IsFiniteSet(2..target \div 2) /\ IsFiniteSet({})
  BY <1>1, FS_Interval, FS_EmptySet
<1>3. IsFiniteSet(SentSoFar)
  BY <1>2 DEF SentSoFar, Sent
<1>4. SentSoFar \subseteq Nat /\ 0 \notin SentSoFar
  BY <1>1 DEF SentSoFar, Sent
<1> QED
  BY <1>3, <1>4, FS_Subset DEF DivisorsIn

(* Everything Conserved speaks of. *)
LEMMA ConservedSame ==
  ASSUME Conserved, Fresh, SentSoFar' = SentSoFar,
         UNCHANGED <<target, mq, runs, wpc, candidate, count, slots>>
  PROVE  Conserved'
BY DEF Conserved, Waiting, Finding, Recorded, DivisorsIn, Own

LEMMA ConservedReceive ==
  ASSUME Inv, Ordered, Conserved, Fresh, NEW w \in Worker, Receive(w)
  PROVE  Conserved'
<1> DEFINE h == Head(mq)
           InHand == { candidate[v] : v \in Finding }
<1>1. /\ mq \in Seq(Nat) /\ mq # <<>> /\ mq' = Tail(mq) /\ h = mq[1] /\ h \in Nat
      /\ wpc \in [Worker -> WorkerPc] /\ candidate \in [Worker -> Nat]
      /\ 1 \in DOMAIN mq /\ w \in Running /\ w \in Own /\ wpc[w] = "receive"
  <2>1. wpc[w] = "receive" /\ w \in Running
    BY DEF Receive, GoWorker, Running
  <2>2. w \in Own
    BY <2>1 DEF Inv, Fresh, Mine, InRun, Alone
  <2> QED
    BY <2>1, <2>2 DEF Inv, Base, Typed, SharedTypes, WorkerTypes, Receive
<1>2. goal[w] = target /\ UNCHANGED <<target, runs, count, slots, ppc, i>>
  BY <1>1 DEF Inv, Working, Fresh, Receive, parent
<1>3. Values(mq) = Values(mq') \cup {h}
  BY <1>1, ValuesTail
<1>4. h # 0 => h \notin Values(mq')
  <2>1. \A k \in DOMAIN mq' : k + 1 \in DOMAIN mq /\ mq'[k] = mq[k + 1] /\ 1 < k + 1
    BY <1>1
  <2>2. \A k \in DOMAIN mq' : mq'[k] = 0 \/ h < mq'[k]
    BY <1>1, <2>1 DEF Ordered
  <2>3. \A k \in DOMAIN mq' : mq'[k] \in Nat
    BY <1>1, <2>1
  <2>4. h # 0 => \A k \in DOMAIN mq' : mq'[k] # h
    BY <1>1, <2>2, <2>3
  <2> QED
    BY <2>4 DEF Values
<1>5. /\ wpc' = [wpc EXCEPT ![w] = IF h = 0 THEN "exited"
                                   ELSE IF Divides(h, target) THEN "lock" ELSE "receive"]
      /\ candidate' = [candidate EXCEPT ![w] = h]
  BY <1>2 DEF Receive, GoWorker
<1>6. Own' = Own /\ SentSoFar' = SentSoFar /\ Recorded' = Recorded /\ Own \subseteq Worker
  BY <1>2 DEF Own, SentSoFar, Sent, Recorded
<1>7. DivisorsIn(SentSoFar)' = DivisorsIn(SentSoFar)
  BY <1>2, <1>6 DEF DivisorsIn
<1>8. w \notin Finding
  BY <1>1 DEF Finding
<1> HIDE DEF h
<1>9. CASE h # 0 /\ Divides(h, target)
  <2>1. Waiting = Waiting' \cup {h} /\ h \notin Waiting'
    BY <1>2, <1>3, <1>4, <1>9, WaitingIs
  <2>2. Finding' = Finding \cup {w}
    BY <1>1, <1>5, <1>6, <1>9 DEF Finding
  <2>3. \A v \in Finding : candidate'[v] = candidate[v]
    BY <1>1, <1>5, <1>8, <1>6 DEF Finding
  <2>4. { candidate'[v] : v \in Finding' } = InHand \cup {h}
    BY <1>1, <1>5, <2>2, <2>3
  <2>5. Cardinality(Waiting) = Cardinality(Waiting') + 1
    <3>1. IsFiniteSet(Waiting)
      BY SentFinite, FS_Subset DEF Conserved
    <3>2. IsFiniteSet(Waiting')
      BY <2>1, <3>1, FS_Subset
    <3> QED
      BY <2>1, <3>2, FS_AddElement
  <2>6. Cardinality(Finding') = Cardinality(Finding) + 1
    BY <1>8, <2>2, FindingFinite, FS_AddElement
  <2>7. Cardinality(Finding) \in Nat /\ Cardinality(Waiting') \in Nat /\ count \in Nat
    <3>1. IsFiniteSet(Waiting')
      BY <2>1, SentFinite, FS_Subset DEF Conserved
    <3> QED
      BY <3>1, FindingFinite, FS_CardinalityType DEF Inv, Base, Typed, SharedTypes
  <2>8. Waiting' \cup { candidate'[v] : v \in Finding' } \cup Recorded' = DivisorsIn(SentSoFar)'
    BY <1>6, <1>7, <2>1, <2>4 DEF Conserved
  <2>9. Cardinality(Waiting') + Cardinality(Finding') + count' = Cardinality(DivisorsIn(SentSoFar)')
    BY <1>2, <1>7, <2>5, <2>6, <2>7 DEF Conserved
  <2> QED
    BY <2>8, <2>9 DEF Conserved
<1>10. CASE h = 0 \/ ~Divides(h, target)
  <2>1. Waiting' = Waiting
    BY <1>2, <1>3, <1>10, WaitingIs
  <2>2. Finding' = Finding
    BY <1>1, <1>5, <1>6, <1>10 DEF Finding
  <2>3. \A v \in Finding : candidate'[v] = candidate[v]
    BY <1>1, <1>5, <1>8, <1>6 DEF Finding
  <2>4. { candidate'[v] : v \in Finding' } = InHand
    BY <2>2, <2>3
  <2> QED
    BY <1>2, <1>6, <1>7, <2>1, <2>2, <2>4 DEF Conserved
<1> QED
  BY <1>9, <1>10

LEMMA ConservedWorker ==
  ASSUME Inv, Ordered, Conserved, Fresh, NEW w \in Worker, WorkerStep(w)
  PROVE  Conserved'
<1> DEFINE InHand == { candidate[v] : v \in Finding }
<1>1. /\ UNCHANGED <<runs, ppc, target, i, version>> /\ Own' = Own /\ Own \subseteq Worker
      /\ w \in Own /\ \A v \in Worker : v # w => wpc'[v] = wpc[v]
  BY WorkerAlone DEF Inv, Fresh, Mine, InRun, Alone, Own
<1>2. /\ wpc \in [Worker -> WorkerPc] /\ count \in Nat /\ slots \in [1..Words -> Nat]
      /\ Words \in Nat
  BY BoundsTyped DEF Inv, Base, Typed, WorkerTypes, SharedTypes
<1>3. SentSoFar' = SentSoFar /\ DivisorsIn(SentSoFar)' = DivisorsIn(SentSoFar)
  BY <1>1 DEF SentSoFar, Sent, DivisorsIn
<1>4. ASSUME UNCHANGED <<mq, candidate, count>>, Finding' = Finding, Recorded' = Recorded
      PROVE  Conserved'
  <2>1. Waiting' = Waiting
    BY <1>1, <1>4 DEF Waiting, DivisorsIn
  <2> QED
    BY <1>3, <1>4, <2>1 DEF Conserved
<1>5. CASE Opens(w) \/ Post(w) \/ Lock(w) \/ LoadCount(w)
  <2>1. UNCHANGED <<mq, candidate, count, slots>>
    BY <1>5 DEF Opens, OpenAll, OpenAllFails, OpenMissing, OpenRemoved, Opening, Post, Lock, LoadCount, shared
  <2>2. Finding' = Finding
    BY <1>1, <1>2, <1>5 DEF Finding, Opens, OpenAll, OpenAllFails, OpenMissing, OpenRemoved, Opening, Post, Lock, LoadCount, GoWorker
  <2>3. Recorded' = Recorded
    BY <2>1 DEF Recorded
  <2> QED
    BY <1>4, <2>1, <2>2, <2>3
<1>6. CASE StoreFactor(w)
  <2>1. UNCHANGED <<mq, candidate, count>> /\ wpc[w] = "store" /\ wpc'[w] = "count"
    BY <1>2, <1>6 DEF StoreFactor, GoWorker
  <2>2. Finding' = Finding
    BY <1>1, <2>1 DEF Finding
  <2>3. \A k \in 1..count : slots'[k] = slots[k]
    <3>1. seen[w] = count
      BY <2>1 DEF Inv, Working, Fresh
    <3> QED
      BY <1>2, <1>6, <3>1 DEF StoreFactor
  <2>4. Recorded' = Recorded
    BY <2>1, <2>3 DEF Recorded
  <2> QED
    BY <1>4, <2>1, <2>2, <2>4
<1>7. CASE StoreCount(w)
  <2>1. /\ UNCHANGED <<mq, candidate, slots>> /\ wpc[w] = "count" /\ wpc'[w] = "unlock"
        /\ count' = count + 1 /\ slots[count + 1] = candidate[w]
    BY <1>2, <1>7 DEF StoreCount, GoWorker, Inv, Working, Fresh
  <2>2. w \in Finding /\ Finding' = Finding \ {w}
    BY <1>1, <2>1 DEF Finding
  <2>3. Recorded' = Recorded \cup {candidate[w]}
    <3>1. 1..count' = 1..count \cup {count + 1}
      BY <1>2, <2>1
    <3> QED
      BY <2>1, <3>1 DEF Recorded
  <2>4. InHand = { candidate'[v] : v \in Finding' } \cup {candidate[w]}
    BY <2>1, <2>2
  <2>5. Waiting' = Waiting
    BY <1>1, <2>1 DEF Waiting, DivisorsIn
  <2>6. Cardinality(Finding') = Cardinality(Finding) - 1
    BY <2>2, FindingFinite, FS_RemoveElement
  <2>7. Cardinality(Finding) \in Nat /\ Cardinality(Waiting) \in Nat
    <3>1. IsFiniteSet(Waiting)
      BY SentFinite, FS_Subset DEF Conserved
    <3> QED
      BY <3>1, FindingFinite, FS_CardinalityType
  <2>8. Waiting' \cup { candidate'[v] : v \in Finding' } \cup Recorded' = DivisorsIn(SentSoFar)'
    BY <1>3, <2>3, <2>4, <2>5 DEF Conserved
  <2>9. Cardinality(Waiting') + Cardinality(Finding') + count' = Cardinality(DivisorsIn(SentSoFar)')
    BY <1>2, <1>3, <2>1, <2>5, <2>6, <2>7 DEF Conserved
  <2> QED
    BY <2>8, <2>9 DEF Conserved
<1> QED
  BY <1>5, <1>6, <1>7, ConservedReceive, WorkerSteps DEF Fresh, Mine

LEMMA ConservedParent ==
  ASSUME Inv, Ordered, Conserved, ParentStep, Fresh, Fresh', ~OpenShared, ~OpenSharedUnmapped
  PROVE  Conserved'
<1>1. mq \in Seq(Nat) /\ i \in Nat /\ target \div 2 \in Nat /\ count \in Nat
  BY HalfTyped DEF Inv, Base, Typed, SharedTypes, ParentTypes
<1>2. CASE Fork
  <2>1. UNCHANGED <<ppc, target, runs, mq, candidate, count, slots>> /\ ppc = "fork"
    BY <1>2 DEF Fork, shared
  <2>2. /\ <<runs, i + 1>> \in Worker /\ wpc[<<runs, i + 1>>] = "unborn"
        /\ wpc' = [wpc EXCEPT ![<<runs, i + 1>>] = "open"] /\ wpc \in [Worker -> WorkerPc]
    BY <1>2, NewWorker DEF Fork, Inv, Base, Typed, WorkerTypes
  <2>3. Finding' = Finding
    BY <2>1, <2>2 DEF Finding, Own
  <2>4. Waiting' = Waiting /\ Recorded' = Recorded /\ SentSoFar = {} /\ SentSoFar' = {}
    BY <2>1 DEF Waiting, DivisorsIn, Recorded, SentSoFar
  <2> QED
    BY <2>1, <2>3, <2>4 DEF Conserved, DivisorsIn
<1>3. CASE ForkEnd
  <2>1. /\ UNCHANGED <<target, mq, runs, wpc, candidate, count, slots>>
        /\ ppc = "fork" /\ ppc' = "send" /\ i' = 2
    BY <1>3 DEF ForkEnd, Go, shared, workers
  <2>2. SentSoFar' = SentSoFar
    BY <2>1 DEF SentSoFar, Sent
  <2> QED
    BY <2>1, <2>2, ConservedSame
<1>4. CASE SendCandidate
  <2>1. /\ ppc = "send" /\ ppc' = "send" /\ mq' = Append(mq, i) /\ i' = i + 1 /\ i >= 2
        /\ UNCHANGED <<target, runs, wpc, candidate, count, slots>>
    BY <1>4 DEF SendCandidate, Send, workers, Inv, Queued
  <2>2. SentSoFar = 2..i - 1 /\ SentSoFar' = 2..i - 1 \cup {i}
    BY <1>1, <2>1 DEF SentSoFar, Sent
  <2>3. Finding' = Finding /\ Recorded' = Recorded
    BY <2>1 DEF Finding, Own, Recorded
  <2>4. Values(mq') = Values(mq) \cup {i}
    BY <1>1, <2>1, ValuesAppend
  <2>5. { candidate'[v] : v \in Finding' } = { candidate[v] : v \in Finding }
    BY <2>1, <2>3
  <2>6. CASE Divides(i, target)
    <3>1. DivisorsIn(SentSoFar)' = DivisorsIn(SentSoFar) \cup {i} /\ i \notin DivisorsIn(SentSoFar)
      BY <1>1, <2>1, <2>2, <2>6 DEF DivisorsIn
    <3>2. Waiting' = Waiting \cup {i}
      BY <1>1, <2>1, <2>4, <2>6, WaitingIs
    <3>3. i \notin Waiting
      BY <3>1 DEF Conserved
    <3>4. IsFiniteSet(Waiting) /\ IsFiniteSet(DivisorsIn(SentSoFar))
      BY SentFinite, FS_Subset DEF Conserved
    <3>5. /\ Cardinality(Waiting') = Cardinality(Waiting) + 1
          /\ Cardinality(DivisorsIn(SentSoFar)') = Cardinality(DivisorsIn(SentSoFar)) + 1
      BY <3>1, <3>2, <3>3, <3>4, FS_AddElement
    <3>6. /\ Cardinality(Waiting) \in Nat /\ Cardinality(DivisorsIn(SentSoFar)) \in Nat
          /\ Cardinality(Finding) \in Nat
      BY <3>4, FindingFinite, FS_CardinalityType
    <3>7. Waiting' \cup { candidate'[v] : v \in Finding' } \cup Recorded' = DivisorsIn(SentSoFar)'
      BY <2>3, <2>5, <3>1, <3>2 DEF Conserved
    <3>8. Cardinality(Waiting') + Cardinality(Finding') + count' = Cardinality(DivisorsIn(SentSoFar)')
      BY <1>1, <2>1, <2>3, <3>5, <3>6 DEF Conserved
    <3> QED
      BY <3>7, <3>8 DEF Conserved
  <2>7. CASE ~Divides(i, target)
    <3>1. DivisorsIn(SentSoFar)' = DivisorsIn(SentSoFar) /\ Waiting' = Waiting
      BY <2>1, <2>2, <2>4, <2>7, WaitingIs DEF DivisorsIn
    <3> QED
      BY <2>1, <2>3, <2>5, <3>1 DEF Conserved
  <2> QED
    BY <2>6, <2>7
<1>5. CASE SendEnd
  BY <1>5, AllSent, ConservedSame DEF SendEnd, shared, workers
<1>6. CASE SendSentinel
  <2>1. /\ UNCHANGED <<ppc, target, runs, wpc, candidate, count, slots>> /\ ppc = "quit"
        /\ mq' = Append(mq, 0)
    BY <1>6 DEF SendSentinel, Send, workers
  <2>2. Values(mq') = Values(mq) \cup {0}
    BY <1>1, <2>1, ValuesAppend
  <2>3. Waiting' = Waiting
    BY <2>1, <2>2, WaitingIs
  <2>4. Finding' = Finding /\ Recorded' = Recorded
    BY <2>1 DEF Finding, Own, Recorded
  <2>5. SentSoFar' = SentSoFar /\ DivisorsIn(SentSoFar)' = DivisorsIn(SentSoFar)
    BY <2>1 DEF SentSoFar, Sent, DivisorsIn
  <2> QED
    BY <2>1, <2>3, <2>4, <2>5 DEF Conserved
<1>7. CASE QuitEnd \/ WaitForWorkers \/ Report \/ ReportFails
  <2>1. /\ UNCHANGED <<target, mq, runs, wpc, candidate, count, slots>>
        /\ ppc \notin {"fork", "send"} /\ ppc' \notin {"fork", "send"}
    BY <1>7 DEF QuitEnd, WaitForWorkers, Report, ReportFails, shared, workers, Go
  <2>2. SentSoFar' = SentSoFar
    BY <2>1 DEF SentSoFar, Sent
  <2> QED
    BY <2>1, <2>2, ConservedSame
<1> QED
  BY <1>2, <1>3, <1>4, <1>5, <1>6, <1>7, FreshParent

LEMMA ConservedNext ==
  ASSUME Inv, Ordered, Conserved, [Next]_vars
  PROVE  Conserved'
<1> SUFFICES ASSUME Fresh' PROVE Conserved'
  BY DEF Conserved
<1>1. CASE OpenShared \/ OpenSharedUnmapped
  <2>1. /\ ppc' = "fork" /\ mq' = <<>> /\ count' = 0 /\ Running' = {}
    BY <1>1, FreshBegins
  <2>2. Finding' = {} /\ Recorded' = {} /\ SentSoFar' = {}
    BY <2>1 DEF Finding, Own, Running, Recorded, SentSoFar
  <2>3. Values(mq') = {}
    BY <2>1 DEF Values
  <2>4. Waiting' = {} /\ DivisorsIn(SentSoFar)' = {}
    BY <2>2, <2>3, WaitingIs DEF DivisorsIn
  <2> QED
    BY <2>1, <2>2, <2>4, FS_EmptySet DEF Conserved
<1>2. CASE Fresh /\ ~OpenShared /\ ~OpenSharedUnmapped
  <2>1. CASE UNCHANGED vars
    <3>1. SentSoFar' = SentSoFar
      BY <2>1 DEF vars, parent, SentSoFar, Sent
    <3> QED
      BY <1>2, <2>1, <3>1, ConservedSame DEF vars, parent, shared, workers
  <2>2. ~Interrupt /\ \A t \in Targets, n \in WorkerCounts : ~Start(t, n)
    BY DEF Interrupt, Start, Go, Fresh, Mine, InRun
  <2> QED
    BY <1>2, <2>1, <2>2, ConservedParent, ConservedWorker DEF Next
<1> QED
  BY <1>1, <1>2, FreshSteps

FreshInv == Inv /\ Ordered /\ Settled /\ Conserved

LEMMA FreshInvAlways == Spec => []FreshInv
<1>1. Init => FreshInv
  <2>1. Init => ~Fresh
    BY DEF Init, Fresh, Mine, InRun
  <2> QED
    BY <2>1, InvInit DEF FreshInv, Ordered, Settled, Conserved
<1>2. FreshInv /\ [Next]_vars => FreshInv'
  BY InvNext, OrderedNext, SettledNext, ConservedNext DEF FreshInv
<1> QED
  BY <1>1, <1>2, PTL DEF Spec

(* No factor is lost or recorded twice between the queue, the workers and   *)
(* the shared memory, for every target and number of workers.              *)
THEOREM FactorsAlwaysConserved == Spec => []FactorsConserved
<1>1. FreshInv => FactorsConserved
  BY DEF FreshInv, Conserved, Fresh, Mine, InRun, SentSoFar, FactorsConserved
<1> QED
  BY FreshInvAlways, <1>1, PTL

(* What the reporter is sent is complete when one worker at least has ended *)
(* the way it should: the zero it got was behind all candidates.           *)
LEMMA CompleteReport ==
  ASSUME FreshInv
  PROVE  ReportComplete
<1> SUFFICES ASSUME version = "sc", clean, ppc = "deinit", report # <<>>,
                    NEW w \in Own, wpc[w] = "exited"
             PROVE  /\ Head(report) = Cardinality(Factors)
                    /\ Len(report) = 1 + Cardinality(Factors)
                    /\ { report[k] : k \in 2..Len(report) } = Factors
  BY DEF ReportComplete
<1>1. Fresh
  BY DEF Fresh, Mine, InRun
<1>2. DivisorsIn(SentSoFar) = Factors
  BY DEF SentSoFar, Sent, Factors
<1>3. Waiting = {}
  <2>1. \A k \in DOMAIN mq : mq[k] = 0
    BY <1>1 DEF FreshInv, Ordered
  <2> QED
    BY <2>1 DEF Waiting, DivisorsIn
<1>4. Finding = {}
  BY <1>1 DEF FreshInv, Settled, Finding, Running, Own
<1>5. Recorded = Factors /\ count = Cardinality(Factors) /\ count \in Nat
  <2>1. count \in Nat /\ Cardinality({}) = 0
    BY FS_EmptySet DEF FreshInv, Inv, Base, Typed, SharedTypes
  <2>2. { candidate[v] : v \in Finding } = {}
    BY <1>4
  <2>3. Recorded = DivisorsIn(SentSoFar)
    BY <1>1, <1>3, <2>2 DEF FreshInv, Conserved
  <2>4. 0 + 0 + count = Cardinality(DivisorsIn(SentSoFar))
    BY <1>1, <1>3, <1>4, <2>1 DEF FreshInv, Conserved
  <2> QED
    BY <1>2, <2>1, <2>3, <2>4
<1>6. report = <<count>> \o [k \in 1..count |-> slots[k]]
  BY <1>1 DEF FreshInv, Settled
<1>7. Len(report) = 1 + count /\ report[1] = count /\ \A k \in 1..count : report[k + 1] = slots[k]
  BY <1>5, <1>6
<1>8. Head(report) = count
  <2>1. report \in Seq(Nat)
    BY DEF FreshInv, Inv, Base, Typed, ParentTypes
  <2> QED
    BY <1>7, <2>1
<1>9. { report[k] : k \in 2..Len(report) } = Recorded
  <2>1. \A k \in 2..1 + count : k - 1 \in 1..count /\ report[k] = slots[k - 1]
    BY <1>5, <1>7
  <2>2. \A k \in 1..count : k + 1 \in 2..1 + count /\ slots[k] = report[k + 1]
    BY <1>5, <1>7
  <2> QED
    BY <1>7, <2>1, <2>2 DEF Recorded
<1> QED
  BY <1>5, <1>7, <1>8, <1>9

(* When sc.c reports, every factor of the target is in the shared memory    *)
(* once: the last zero is sent behind all candidates, and the parent waits *)
(* for every worker.                                                       *)
THEOREM ReportsComplete == Spec => []ReportComplete
BY FreshInvAlways, CompleteReport, PTL

=============================================================================
