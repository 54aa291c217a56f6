----------------------------- MODULE HashFactor -----------------------------
(***************************************************************************)
(* The hash factor lab, ps/hash_factor/sc.c, and its hfactor.c as version  *)
(* "graded" where it differs (line numbers without a file are sc.c's).     *)
(* hfactor_calculate creates a message queue, a semaphore and shared       *)
(* memory under one name, forks the workers, sends them the candidates     *)
(* 2..target/2 and one 0 each, waits for them, hands the factors they have *)
(* written into the shared memory to a reporter process and unlinks the    *)
(* three names.                                                            *)
(*                                                                         *)
(* The three objects outlive the processes: a run that is interrupted, or  *)
(* that gives up when fork fails, leaves them and even its workers behind, *)
(* and as no O_EXCL is given the next run takes over what it finds.  That  *)
(* is why several runs are modelled, one after the other.  Every access to *)
(* the shared memory is a step of its own; the three opens of a worker are *)
(* one, which may fall before, between or after a removal of the names.    *)
(***************************************************************************)
EXTENDS Integers, Sequences, FiniteSets

CONSTANTS
  Versions,     (* a subset of {"sc", "graded"}                            *)
  Targets,      (* the numbers to factor                                   *)
  GradedTargets, (* those for hfactor.c                                    *)
  WorkerCounts, (* the values of num_workers                               *)
  MaxWorkers,   (* bound: the largest of them                              *)
  MaxMsg,       (* mq_maxmsg (10 in the code)                              *)
  Words,        (* how many factors fit into the mapping (511 in the code) *)
  GradedWords,  (* the same for hfactor.c, smaller so that it runs out     *)
  MaxRuns,      (* bound: calls of hfactor_calculate, one after the other  *)
  MaxFailures,  (* bound: system calls that fail                           *)
  MaxInterrupts (* bound: runs that are interrupted from the terminal      *)

ASSUME BoundsAssumption ==
  /\ Targets \subseteq Nat /\ GradedTargets \subseteq Targets
  /\ WorkerCounts \subseteq 0..MaxWorkers
  /\ MaxMsg \in Nat \ {0}
  /\ \A bound \in {MaxWorkers, Words, GradedWords, MaxRuns, MaxFailures, MaxInterrupts} :
       bound \in Nat

(* The i-th worker of the r-th run. *)
Worker == (1..MaxRuns) \X (1..MaxWorkers)

VARIABLES
  version,
  runs,                    (* how many runs were started                   *)
  ppc, target, nworkers, i, (* the parent of the current run               *)
  linked,                  (* the names that exist                         *)
  mq, sem, count, slots,   (* the queue, the semaphore, the shared memory  *)
  report,                  (* what the reporter of the current run was sent *)
  wpc, candidate, seen,    (* per worker; seen is its local count          *)
  goal,                    (* per worker: the target it was forked with    *)
  clean,                   (* the run found no name and no late worker     *)
  failures, interrupts     (* how much of the bounds is used               *)

parent == <<version, runs, ppc, target, nworkers, i, report, clean>>
shared == <<linked, mq, sem, count, slots>>
workers == <<wpc, candidate, seen, goal>>
used == <<failures, interrupts>>
vars == <<parent, shared, workers, used>>

Names == {"mq", "sem", "shm"}
ParentPc == {"idle", "mq", "sem", "shm", "fork", "send", "quit", "wait",
             "report", "deinit"}
WorkerPc == {"unborn", "open", "late", "receive", "lock", "load", "store", "count",
             "unlock", "exited", "failed", "killed", "detached"}

Init ==
  /\ version \in Versions
  /\ runs = 0
  /\ ppc = "idle" /\ target = 0 /\ nworkers = 0 /\ i = 0
  /\ linked = {}
  /\ mq = <<>> /\ sem = 0 /\ count = 0 /\ slots = [k \in 1..Words |-> 0]
  /\ report = <<>>
  /\ wpc = [w \in Worker |-> "unborn"]
  /\ candidate = [w \in Worker |-> 0]
  /\ seen = [w \in Worker |-> 0]
  /\ goal = [w \in Worker |-> 0]
  /\ clean = TRUE
  /\ failures = 0 /\ interrupts = 0

Go(from, to) == ppc = from /\ ppc' = to
GoWorker(w, from, to) == wpc[w] = from /\ wpc' = [wpc EXCEPT ![w] = to]
Fail == failures < MaxFailures /\ failures' = failures + 1 /\ UNCHANGED interrupts

(* The workers of the current run, and those that still run at all. *)
Own == { w \in Worker : w[1] = runs }
Running == { w \in Worker :
  wpc[w] \notin {"unborn", "exited", "failed", "killed", "detached"} }

(* A worker that is still at its opens, and one that was when a name was   *)
(* removed: it has the old objects, or it will open what has the names then. *)
Opening == { w \in Worker : wpc[w] \in {"open", "late"} }

(* The name of the queue is removed, with others or alone.  A worker that  *)
(* has opened the objects keeps them and is not followed any more: nobody  *)
(* can send to its queue, and it can only work off what that still holds.  *)
QueueRemoved ==
  wpc' = [w \in Worker |-> IF w \in Opening THEN "late"
                           ELSE IF w \in Running THEN "detached" ELSE wpc[w]]

Unlink == linked' = {} /\ QueueRemoved

-----------------------------------------------------------------------------
(* hfactor_init.                                                           *)

(* Lines 193-199: a call of hfactor_calculate. *)
Start(t, n) ==
  /\ Go("idle", "mq")
  /\ runs < MaxRuns /\ runs' = runs + 1
  /\ version = "graded" => t \in GradedTargets
  /\ target' = t /\ nworkers' = n /\ i' = 0
  /\ report' = <<>>
  /\ clean' = (linked = {} /\ \A w \in Worker : wpc[w] # "late")
  /\ UNCHANGED <<version, shared, workers, used>>

Open(name) == linked' = linked \cup {name}

(* Lines 72-76. *)
OpenQueue ==
  /\ Go("mq", "sem")
  /\ Open("mq")
  /\ mq' = IF "mq" \in linked THEN mq ELSE <<>>
  /\ UNCHANGED <<version, runs, target, nworkers, i, report, clean, sem, count, slots,
                 workers, used>>

(* Lines 77-80 and 199-202. *)
OpenQueueFails ==
  /\ Go("mq", "idle")
  /\ Fail
  /\ UNCHANGED <<version, runs, target, nworkers, i, report, clean, shared, workers>>

(* Line 82. *)
OpenSemaphore ==
  /\ Go("sem", "shm")
  /\ Open("sem")
  /\ sem' = IF "sem" \in linked THEN sem ELSE 1
  /\ UNCHANGED <<version, runs, target, nworkers, i, report, clean, mq, count, slots,
                 workers, used>>

(* Lines 83-87: only the queue is unlinked. *)
OpenSemaphoreFails ==
  /\ Go("sem", "idle")
  /\ Fail
  /\ linked' = linked \ {"mq"} /\ QueueRemoved
  /\ UNCHANGED <<version, runs, target, nworkers, i, report, clean, mq, sem, count,
                 slots, candidate, seen, goal>>

(* Mutant: the counter is left as it is, which is what hfactor.c does. *)
CounterKept == count
(* Lines 108-113. *)
CounterAtStart == 0

(* Lines 89 and 98-116. *)
OpenShared ==
  /\ Go("shm", "fork")
  /\ Open("shm")
  /\ count' = CounterAtStart
  /\ slots' = IF "shm" \in linked THEN slots ELSE [k \in 1..Words |-> 0]
  /\ UNCHANGED <<version, runs, target, nworkers, i, report, clean, mq, sem, workers,
                 used>>

(* Lines 109-110: mmap fails, which nobody is told, and the counter is kept. *)
OpenSharedUnmapped ==
  /\ Go("shm", "fork")
  /\ Fail
  /\ Open("shm")
  /\ IF "shm" \in linked
     THEN UNCHANGED <<count, slots>>
     ELSE count' = 0 /\ slots' = [k \in 1..Words |-> 0]
  /\ UNCHANGED <<version, runs, target, nworkers, i, report, clean, mq, sem, workers>>

(* hfactor.c:106-128: only a new object begins with zeros. *)
GradedOpenShared ==
  /\ Go("shm", "fork")
  /\ Open("shm")
  /\ IF "shm" \in linked
     THEN UNCHANGED <<count, slots>>
     ELSE count' = 0 /\ slots' = [k \in 1..Words |-> 0]
  /\ UNCHANGED <<version, runs, target, nworkers, i, report, clean, mq, sem,
                 workers, used>>

(* Lines 90-106: shm_open or ftruncate fails. *)
OpenSharedFails ==
  /\ Go("shm", "idle")
  /\ Fail
  /\ linked' \in {{}, linked \ {"mq", "sem"}} /\ QueueRemoved
  /\ UNCHANGED <<version, runs, target, nworkers, i, report, clean, mq, sem, count,
                 slots, candidate, seen, goal>>

-----------------------------------------------------------------------------
(* hfactor_calculate.                                                      *)

(* Lines 204-205 and 210: fork the next worker. *)
Fork ==
  /\ ppc = "fork"
  /\ i < nworkers /\ i' = i + 1
  /\ wpc' = [wpc EXCEPT ![<<runs, i'>>] = "open"]
  /\ goal' = [goal EXCEPT ![<<runs, i'>>] = target]
  /\ UNCHANGED <<version, runs, ppc, target, nworkers, report, clean, shared, candidate,
                 seen, used>>

(* Lines 206-208: fork fails, and the function just returns. *)
ForkFails ==
  /\ Go("fork", "idle")
  /\ i < nworkers
  /\ Fail
  /\ UNCHANGED <<version, runs, target, nworkers, i, report, clean, shared, workers>>

(* Lines 204 and 218. *)
ForkEnd ==
  /\ Go("fork", "send")
  /\ i >= nworkers /\ i' = 2
  /\ UNCHANGED <<version, runs, target, nworkers, report, clean, shared, workers, used>>

(* Mutant: the queue takes one message more than its limit. *)
SendOverfull(message) == Len(mq) <= MaxMsg /\ mq' = Append(mq, message)
(* mq_send blocks while the queue is full. *)
Send(message) == Len(mq) < MaxMsg /\ mq' = Append(mq, message)

(* Lines 218-219. *)
SendCandidate ==
  /\ ppc = "send"
  /\ i <= target \div 2 /\ i' = i + 1
  /\ Send(i)
  /\ UNCHANGED <<version, runs, ppc, target, nworkers, report, clean, linked, sem, count,
                 slots, workers, used>>

(* hfactor.c:260 leaves the index of the loop uninitialised. *)
QuitStart == IF version = "sc" THEN {0} ELSE 0..nworkers

(* Lines 218 and 222-223. *)
SendEnd ==
  /\ Go("send", "quit")
  /\ i > target \div 2 /\ i' \in QuitStart
  /\ UNCHANGED <<version, runs, target, nworkers, report, clean, shared, workers, used>>

(* Mutant: one worker is not told to quit. *)
SentinelsLeftOne == i + 1 < nworkers
(* Line 223. *)
SentinelsLeft == i < nworkers

(* Lines 223-224. *)
SendSentinel ==
  /\ ppc = "quit"
  /\ SentinelsLeft /\ i' = i + 1
  /\ Send(0)
  /\ UNCHANGED <<version, runs, ppc, target, nworkers, report, clean, linked, sem, count,
                 slots, workers, used>>

(* Line 223. *)
QuitEnd ==
  /\ Go("quit", "wait")
  /\ ~SentinelsLeft
  /\ UNCHANGED <<version, runs, target, nworkers, i, report, clean, shared, workers, used>>

(* Mutant: one child is waited for. *)
SomeCollected == \E w \in Own : wpc[w] \in {"exited", "failed"}
(* Lines 227-228: no child is left. *)
AllCollected == \A w \in Own : wpc[w] \in {"unborn", "exited", "failed", "killed"}

WaitForWorkers ==
  /\ Go("wait", "report")
  /\ AllCollected
  /\ UNCHANGED <<version, runs, target, nworkers, i, report, clean, shared, workers, used>>

(* hfactor_report, lines 131-191: the reporter is sent the number of       *)
(* factors and the factors.                                                *)
Report ==
  /\ Go("report", "deinit")
  /\ report' = <<count>> \o [k \in 1..count |-> slots[k]]
  /\ UNCHANGED <<version, runs, target, nworkers, i, clean, shared, workers, used>>

(* Lines 136-147, 169-176 and 231: pipe, fork or mmap fails. *)
ReportFails ==
  /\ Go("report", "deinit")
  /\ Fail
  /\ UNCHANGED <<version, runs, target, nworkers, i, report, clean, shared, workers>>

(* hfactor.c:151-219: the reporter is forked before the pipes are made, so *)
(* that parent and child write to and read from pipes of their own: with a *)
(* factor to report the parent dies of SIGPIPE and the names stay.         *)
GradedReport ==
  /\ ppc = "report"
  /\ ppc' = IF count = 0 THEN "deinit" ELSE "idle"
  /\ UNCHANGED <<version, runs, target, nworkers, i, report, clean, shared, workers,
                 used>>

(* hfactor.c:156-159: pipe fails in the child, which returns from          *)
(* hfactor_report and removes the names while its parent goes on.          *)
GradedReporterReturns ==
  /\ ppc = "report"
  /\ Fail /\ Unlink
  /\ UNCHANGED <<parent, mq, sem, count, slots, candidate, seen, goal>>

(* hfactor_deinit, lines 119-129 and 234-235. *)
Deinit ==
  /\ Go("deinit", "idle")
  /\ Unlink
  /\ UNCHANGED <<version, runs, target, nworkers, i, report, clean, mq, sem, count, slots,
                 candidate, seen, goal, used>>

-----------------------------------------------------------------------------
(* hfactor_process, one step of one worker.                                *)

(* Lines 21-37.  The objects are opened by name: a late worker joins the   *)
(* run that has the names now, with the target it was forked with.         *)
OpenAll(w) ==
  /\ w \in Opening /\ linked = Names
  /\ wpc' = [wpc EXCEPT ![w] = "receive"]
  /\ UNCHANGED <<parent, shared, candidate, seen, goal, used>>

(* Lines 25-28, 31-36 and 211-212. *)
OpenAllFails(w) ==
  /\ w \in Opening
  /\ wpc' = [wpc EXCEPT ![w] = "failed"]
  /\ Fail
  /\ UNCHANGED <<parent, shared, candidate, seen, goal>>

(* The same: a late worker finds a name missing. *)
OpenMissing(w) ==
  /\ linked # Names
  /\ GoWorker(w, "late", "failed")
  /\ UNCHANGED <<parent, shared, candidate, seen, goal, used>>

(* Lines 21-37: the queue of a late worker was opened before its name was  *)
(* removed.                                                                *)
OpenRemoved(w) ==
  /\ GoWorker(w, "late", "detached")
  /\ UNCHANGED <<parent, shared, candidate, seen, goal, used>>

Opens(w) == OpenAll(w) \/ OpenAllFails(w) \/ OpenMissing(w) \/ OpenRemoved(w)

Divides(d, n) == n % d = 0

(* Lines 43, 49-52 and 63-67: mq_receive blocks while the queue is empty.  *)
Receive(w) ==
  /\ mq # <<>>
  /\ mq' = Tail(mq)
  /\ candidate' = [candidate EXCEPT ![w] = Head(mq)]
  /\ GoWorker(w, "receive", IF Head(mq) = 0 THEN "exited"
                            ELSE IF Divides(Head(mq), goal[w]) THEN "lock"
                            ELSE "receive")
  /\ UNCHANGED <<parent, linked, sem, count, slots, seen, goal, used>>

(* Mutant: the semaphore does not keep anybody out. *)
WaitNever == sem' = IF sem > 0 THEN sem - 1 ELSE 0
(* Line 53: sem_wait. *)
Wait == sem > 0 /\ sem' = sem - 1

Lock(w) ==
  /\ GoWorker(w, "lock", "load")
  /\ Wait
  /\ UNCHANGED <<parent, linked, mq, count, slots, candidate, seen, goal, used>>

(* Line 55. *)
LoadCount(w) ==
  /\ GoWorker(w, "load", "store")
  /\ seen' = [seen EXCEPT ![w] = count]
  /\ UNCHANGED <<parent, shared, candidate, goal, used>>

(* Line 56.  Bound: a store behind the mapping is not followed. *)
StoreFactor(w) ==
  /\ seen[w] < Words
  /\ GoWorker(w, "store", "count")
  /\ slots' = [slots EXCEPT ![seen[w] + 1] = candidate[w]]
  /\ UNCHANGED <<parent, linked, mq, sem, count, candidate, seen, goal, used>>

(* Line 57. *)
StoreCount(w) ==
  /\ GoWorker(w, "count", "unlock")
  /\ count' = seen[w] + 1
  /\ UNCHANGED <<parent, linked, mq, sem, slots, candidate, seen, goal, used>>

(* hfactor.c:67: the factor is stored at the count itself, so the first one *)
(* becomes the count and the others overwrite each other.                   *)
GradedStore(w) ==
  /\ GoWorker(w, "store", "unlock")
  /\ CASE seen[w] = 0 -> count' = candidate[w] /\ UNCHANGED slots
       [] seen[w] \in 1..GradedWords ->
            slots' = [slots EXCEPT ![seen[w]] = candidate[w]] /\ UNCHANGED count
       [] seen[w] > GradedWords -> UNCHANGED <<count, slots>>
  /\ UNCHANGED <<parent, linked, mq, sem, candidate, seen, goal, used>>

(* A store behind the mapping may as well end the worker, semaphore taken.  *)
GradedFault(w) ==
  /\ seen[w] > GradedWords
  /\ GoWorker(w, "store", "killed")
  /\ UNCHANGED <<parent, shared, candidate, seen, goal, used>>

(* Line 59. *)
Post(w) ==
  /\ GoWorker(w, "unlock", "receive")
  /\ sem' = sem + 1
  /\ UNCHANGED <<parent, linked, mq, count, slots, candidate, seen, goal, used>>

-----------------------------------------------------------------------------

(* SIGINT from the terminal ends the parent and its workers wherever they  *)
(* are; the names stay.                                                    *)
Interrupt ==
  /\ ppc # "idle" /\ ppc' = "idle"
  /\ interrupts < MaxInterrupts /\ interrupts' = interrupts + 1
  /\ wpc' = [w \in Worker |-> IF w \in Own \cap Running THEN "killed" ELSE wpc[w]]
  /\ UNCHANGED <<version, runs, target, nworkers, i, report, clean, shared, candidate,
                 seen, goal, failures>>

(* What sc.c and hfactor.c have in common, and the two programs.            *)
CommonParentStep ==
  \/ OpenQueue \/ OpenQueueFails \/ OpenSemaphore \/ OpenSemaphoreFails
  \/ OpenSharedFails \/ Fork \/ ForkFails \/ ForkEnd
  \/ SendCandidate \/ SendEnd \/ SendSentinel \/ QuitEnd
  \/ WaitForWorkers \/ ReportFails \/ Deinit

ScParentStep == CommonParentStep \/ OpenShared \/ OpenSharedUnmapped \/ Report

GradedParentStep ==
  CommonParentStep \/ GradedOpenShared \/ GradedReport \/ GradedReporterReturns

ParentStep ==
  \/ version = "sc" /\ ScParentStep
  \/ version = "graded" /\ GradedParentStep

CommonWorkerStep(w) ==
  Opens(w) \/ Receive(w) \/ Lock(w) \/ LoadCount(w) \/ Post(w)

ScWorkerStep(w) == CommonWorkerStep(w) \/ StoreFactor(w) \/ StoreCount(w)

GradedWorkerStep(w) == CommonWorkerStep(w) \/ GradedStore(w) \/ GradedFault(w)

WorkerStep(w) ==
  \/ version = "sc" /\ ScWorkerStep(w)
  \/ version = "graded" /\ GradedWorkerStep(w)

Next ==
  \/ \E t \in Targets, n \in WorkerCounts : Start(t, n)
  \/ ParentStep
  \/ \E w \in Worker : WorkerStep(w)
  \/ Interrupt

(* The system runs every process that can run. *)
Spec ==
  /\ Init /\ [][Next]_vars
  /\ WF_vars(ParentStep) /\ \A w \in Worker : WF_vars(WorkerStep(w))

-----------------------------------------------------------------------------
(* Properties.                                                             *)

TypeOK ==
  /\ version \in Versions
  /\ runs \in 0..MaxRuns
  /\ ppc \in ParentPc /\ target \in Nat /\ nworkers \in 0..MaxWorkers /\ i \in Nat
  /\ linked \subseteq Names
  /\ mq \in Seq(Nat) /\ Len(mq) <= MaxMsg
  /\ sem \in Nat
  /\ count \in Nat /\ (version = "sc" => count <= Words) /\ slots \in [1..Words -> Nat]
  /\ report \in Seq(Nat)
  /\ wpc \in [Worker -> WorkerPc]
  /\ candidate \in [Worker -> Nat]
  /\ seen \in [Worker -> Nat]
  /\ goal \in [Worker -> Nat]
  /\ clean \in BOOLEAN
  /\ failures \in 0..MaxFailures /\ interrupts \in 0..MaxInterrupts

Recorded == { slots[k] : k \in 1..count }
DivisorsIn(range) == { d \in range : Divides(d, target) }
Factors == DivisorsIn(2..target \div 2)

(* The factors a worker of this run has found and not counted yet. *)
Finding == { w \in Own : wpc[w] \in {"lock", "load", "store", "count"} }
Waiting == DivisorsIn({ mq[k] : k \in DOMAIN mq } \ {0})
Sent == IF ppc = "send" THEN 2..i - 1 ELSE 2..target \div 2

(* No factor is lost or recorded twice: in a run that found no leftovers,  *)
(* objects or workers that would join it (clean), every factor that was    *)
(* sent is in the queue, in the hands of one worker                        *)
(* or in the shared memory, once; load, store and count of two workers     *)
(* never mix.                                                              *)
FactorsConserved ==
  version = "sc" /\ clean /\ ppc \in {"send", "quit", "wait", "report", "deinit"} =>
    /\ Waiting \cup { candidate[w] : w \in Finding } \cup Recorded
         = DivisorsIn(Sent)
    /\ Cardinality(Waiting) + Cardinality(Finding) + count
         = Cardinality(DivisorsIn(Sent))

(* What the reporter of such a run is sent is the number of factors and    *)
(* every factor once, provided one worker at least could open the objects: the *)
(* zeros come last in the queue, and the parent reads the shared memory    *)
(* without the semaphore only when nobody can write it any more.           *)
ReportComplete ==
  /\ version = "sc" /\ clean /\ ppc = "deinit" /\ report # <<>>
  /\ \E w \in Own : wpc[w] = "exited"
  => /\ Head(report) = Cardinality(Factors)
     /\ Len(report) = 1 + Cardinality(Factors)
     /\ { report[k] : k \in 2..Len(report) } = Factors

(* Even a run that takes over the objects of one that was interrupted, its *)
(* candidates, zeros and factors included, reports nothing that is not a   *)
(* divisor of its own target, provided no system call fails.               *)
NoForeignFactor ==
  version = "sc" /\ failures = 0 /\ ppc \in {"fork", "send", "quit", "wait", "report"}
    => \A d \in Recorded : d >= 2 /\ Divides(d, target)

(* hfactor.c may stop: in waitpid with an empty queue and workers that were *)
(* never told to quit, or behind a worker that died with the semaphore.     *)
GradedStuck ==
  /\ version = "graded"
  /\ \/ \E w \in Own : wpc[w] = "killed"
     \/ ppc = "wait" /\ mq = <<>> /\ \E w \in Own : wpc[w] = "receive"

(* The parent of either program may block in mq_send for ever: the queue   *)
(* is full and nobody reads it any more.  That takes workers that could    *)
(* not open the objects, all of them or more than the queue holds          *)
(* messages: each leaves its zero in the queue.                            *)
Deserted ==
  LET Failed == { w \in Own : wpc[w] = "failed" } IN
  /\ (ppc = "send" /\ i <= target \div 2) \/ (ppc = "quit" /\ i < nworkers)
  /\ Len(mq) = MaxMsg
  /\ \A w \in Own : wpc[w] \in {"unborn", "exited", "failed"}
  /\ Cardinality(Failed) = nworkers \/ Cardinality(Failed) > MaxMsg

(* A run that found no leftovers comes to its end, unless the queue is     *)
(* deserted (Deserted); hfactor.c can also stop in the two ways of         *)
(* GradedStuck, and neither in any other.                                  *)
Finishes == clean /\ ppc = "send" ~> ppc = "idle" \/ Deserted \/ GradedStuck

(* In hfactor.c the first factor a worker stores stays in the word of the   *)
(* count for as long as the object exists, from run to run, and every later *)
(* one goes to the word with its number: load and store of two workers      *)
(* never mix, so that two factors survive however many there are.  This is  *)
(* so as long as no worker is left with a queue that was removed: it may    *)
(* use the memory under another semaphore.                                  *)
FirstFactorStays ==
  [][version = "graded" /\ "shm" \in linked /\ count # 0
     /\ (\A w \in Worker : wpc[w] # "detached") =>
       count' = count /\ \A k \in 1..Words : slots'[k] # slots[k] => k = count]_vars

(* "Make sure you clean up all message queues, shared memory, semaphores,  *)
(* and so forth" (Hash Factor Lab (Multiprocessing).html:575): a call that *)
(* has returned leaves no name behind.                                     *)
NamesUnlinked == ppc = "idle" /\ interrupts = 0 => linked = {}

=============================================================================
