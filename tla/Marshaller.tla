----------------------------- MODULE Marshaller -----------------------------
(***************************************************************************)
(* The marshallers of the IPC exercises: create a semaphore and a shared   *)
(* counter that must not exist, fork and exec num workers, wait for them.  *)
(* midterm2/zybook_ex/marshaller.c ("zybook") and its twin under           *)
(* Mqueues/shared_memory ("shared") leave the two names behind,            *)
(* midterm2/practice/marshaller_skele.c ("skele") unlinks them.  The       *)
(* worker is any program: all that is known of it is that it ends.         *)
(***************************************************************************)
EXTENDS Naturals, Sequences, FiniteSets

CONSTANTS MarshalVersions,  \* subset of {"zybook", "shared", "skele"}
          MaxNum,           \* bound: workers
          MaxMarshalRuns    \* bound: runs of the program

ASSUME MarshalAssumption == MaxNum \in Nat /\ MaxMarshalRuns \in Nat

NoWorker == 0   \* what pids[i] holds when the fork failed, -1

VARIABLES
  mVersion,
  mpc,       \* "idle", "sem", "shm", "fork", "wait", "close"
  names,     \* the names that exist
  num, pids, \* pids[k] is k, or NoWorker
  waits,     \* how many waits are done
  worker,    \* per worker: "none", "running", "zombie", "reaped"
  marshalRuns

mVars == <<mVersion, mpc, names, num, pids, waits, worker, marshalRuns>>

MarshalInit ==
  /\ mVersion \in MarshalVersions
  /\ mpc = "idle" /\ names = {} /\ num = 0 /\ pids = <<>> /\ waits = 0
  /\ worker = [k \in 1..MaxNum |-> "none"]
  /\ marshalRuns = 0

MStep(from, to) == mpc = from /\ mpc' = to

MarshalStart(k) ==
  /\ MStep("idle", "sem")
  /\ marshalRuns < MaxMarshalRuns /\ marshalRuns' = marshalRuns + 1
  /\ num' = k /\ pids' = <<>> /\ waits' = 0
  /\ worker' = [w \in 1..MaxNum |-> "none"]
  /\ UNCHANGED <<mVersion, names>>

\* O_EXCL: an object that exists ends the run; the semaphore stays when it is
\* the shared memory.
Creates(name, from, to) ==
  /\ mpc = from
  /\ IF name \in names
     THEN mpc' = "idle" /\ UNCHANGED names
     ELSE mpc' = to /\ names' = names \cup {name}
  /\ UNCHANGED <<mVersion, num, pids, waits, worker, marshalRuns>>

CreateSemaphore == Creates("sem", "sem", "shm")
CreateShared    == Creates("shm", "shm", "fork")

\* No memory or no room: shm_open fails by itself.
CreateSharedFails ==
  /\ MStep("shm", "idle")
  /\ UNCHANGED <<mVersion, names, num, pids, waits, worker, marshalRuns>>

\* A fork that fails is taken for a worker.
ForkWorker ==
  /\ mpc = "fork" /\ Len(pids) < num
  /\ LET k == Len(pids) + 1
     IN \/ pids' = Append(pids, k) /\ worker' = [worker EXCEPT ![k] = "running"]
        \/ pids' = Append(pids, NoWorker) /\ UNCHANGED worker
  /\ UNCHANGED <<mVersion, mpc, names, num, waits, marshalRuns>>

ForkedAll ==
  /\ MStep("fork", "wait") /\ Len(pids) = num
  /\ UNCHANGED <<mVersion, names, num, pids, waits, worker, marshalRuns>>

Zombies == {k \in 1..MaxNum : worker[k] = "zombie"}
Left    == {k \in 1..MaxNum : worker[k] \in {"running", "zombie"}}

\* waitpid: a worker that has been reaped, and a missing one when no worker is
\* left, return at once; a missing one takes any worker that has ended.
Waitpid(k) ==
  \/ /\ pids[k] # NoWorker /\ worker[k] \in {"zombie", "reaped"}
     /\ worker' = [worker EXCEPT ![k] = "reaped"]
  \/ /\ pids[k] = NoWorker
     /\ \E z \in Zombies : worker' = [worker EXCEPT ![z] = "reaped"]
  \/ pids[k] = NoWorker /\ Left = {} /\ UNCHANGED worker

WaitWorker ==
  /\ mpc = "wait" /\ waits < num
  /\ Waitpid(waits + 1)
  /\ waits' = waits + 1
  /\ UNCHANGED <<mVersion, mpc, names, num, pids, marshalRuns>>

\* A slip to catch: the loop waits once less.
WaitedButOne == waits + 1 >= num

\* The loop has waits once for every entry of pids.
WaitedAll == waits = num

WaitEnd ==
  /\ MStep("wait", "close") /\ WaitedAll
  /\ UNCHANGED <<mVersion, names, num, pids, waits, worker, marshalRuns>>

KeepNames ==
  /\ MStep("close", "idle")
  /\ UNCHANGED <<mVersion, names, num, pids, waits, worker, marshalRuns>>

SkeleClose ==
  /\ MStep("close", "idle") /\ names' = {}
  /\ UNCHANGED <<mVersion, num, pids, waits, worker, marshalRuns>>

WorkerEnds(k) ==
  /\ worker[k] = "running"
  /\ worker' = [worker EXCEPT ![k] = "zombie"]
  /\ UNCHANGED <<mVersion, mpc, names, num, pids, waits, marshalRuns>>

\* SIGINT ends the marshaller and its workers; the names stay.
MarshalInterrupt ==
  /\ mpc # "idle" /\ mpc' = "idle"
  /\ worker' = [k \in 1..MaxNum |-> "none"]
  /\ UNCHANGED <<mVersion, names, num, pids, waits, marshalRuns>>

MarshalCommon ==
  \/ CreateSemaphore \/ CreateShared \/ CreateSharedFails
  \/ ForkWorker \/ ForkedAll \/ WaitWorker \/ WaitEnd
  \/ \E k \in 1..MaxNum : MarshalStart(k)

ZybookRun == mVersion = "zybook" /\ (MarshalCommon \/ KeepNames)
SharedRun == mVersion = "shared" /\ (MarshalCommon \/ KeepNames)
SkeleRun  == mVersion = "skele" /\ (MarshalCommon \/ SkeleClose)

MarshalNext ==
  \/ ZybookRun \/ SharedRun \/ SkeleRun \/ MarshalInterrupt
  \/ \E k \in 1..MaxNum : WorkerEnds(k)

MarshalSpec == MarshalInit /\ [][MarshalNext]_mVars

-----------------------------------------------------------------------------
(* Properties. *)

\* The marshaller comes to its end with every worker waited for, also when a
\* failed fork has made it wait for -1 and take another worker's status.
WorkersCollected ==
  /\ mpc = "close" => Left = {}
  /\ mpc \in {"sem", "shm"} => Left = {}

=============================================================================
