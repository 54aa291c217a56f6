------------------------------ MODULE TaskQueue ------------------------------
(***************************************************************************)
(* src/cs360/cc/ic/midterm2/practice/prompts/p4.c: a parent creates a      *)
(* message queue, a semaphore and shared memory, forks a producer that     *)
(* sends 1..Items and a 0, and a consumer that adds up what it receives,   *)
(* and waits for both.  The three objects are opened without O_EXCL and    *)
(* outlive a run that is interrupted: the next one takes over what it      *)
(* finds.  Runs follow each other.                                         *)
(***************************************************************************)
EXTENDS Naturals, Sequences

CONSTANTS Items,         \* 10 in the code
          QueueLimit,    \* mq_maxmsg, 10
          MaxTaskRuns    \* bound: runs of the program

ASSUME TaskAssumption == Items \in Nat /\ QueueLimit \in Nat \ {0} /\ MaxTaskRuns \in Nat

NoTotal == Items * Items + 1
Kids == {"producer", "consumer"}

VARIABLES
  kept,               \* there are objects
  taskq, lock, total, \* the queue, the semaphore, the shared memory
  main,               \* the parent: "idle", "open", "produce", "consume", "wait1", "wait2", "clean"
  kid,                \* per child: "none", "running", "zombie", "reaped"
  next,               \* what the producer sends next; Items + 1 stands for the 0
  cpc, got,             \* the consumer: "receive", "lock", "add", "post"; what it holds
  printed,            \* the total of this run, when it has been printed
  clean,              \* the run found no objects
  cut,                \* it was interrupted, or a fork failed
  taskRuns

objects  == <<kept, taskq, lock, total>>
consumer == <<cpc, got>>
history  == <<printed, clean, cut, taskRuns>>
taskVars == <<objects, main, kid, next, consumer, history>>

TaskInit ==
  /\ kept = FALSE /\ taskq = <<>> /\ lock = 0 /\ total = 0
  /\ main = "idle" /\ kid = [k \in Kids |-> "none"]
  /\ next = 1 /\ cpc = "receive" /\ got = 0
  /\ printed = NoTotal /\ clean = TRUE /\ cut = FALSE /\ taskRuns = 0

Step(from, to) == main = from /\ main' = to

TaskStart ==
  /\ Step("idle", "open")
  /\ taskRuns < MaxTaskRuns /\ taskRuns' = taskRuns + 1
  /\ kid' = [k \in Kids |-> "none"]
  /\ clean' = ~kept /\ cut' = FALSE /\ printed' = NoTotal
  /\ UNCHANGED <<objects, next, consumer>>

\* mq_open, sem_open and shm_open take over what is there; only the total is
\* set.
TaskOpen ==
  /\ Step("open", "produce")
  /\ kept' = TRUE
  /\ taskq' = IF kept THEN taskq ELSE <<>>
  /\ lock' = IF kept THEN lock ELSE 1
  /\ total' = 0
  /\ UNCHANGED <<kid, next, consumer, history>>

\* mmap fails: the objects stay.
TaskOpenFails ==
  /\ Step("open", "idle")
  /\ kept' = TRUE
  /\ taskq' = IF kept THEN taskq ELSE <<>>
  /\ lock' = IF kept THEN lock ELSE 1
  /\ total' = IF kept THEN total ELSE 0
  /\ cut' = TRUE
  /\ UNCHANGED <<kid, next, consumer, printed, clean, taskRuns>>

\* A fork that fails is not noticed.
ForkProducer ==
  /\ Step("produce", "consume")
  /\ \/ kid' = [kid EXCEPT !["producer"] = "running"] /\ UNCHANGED cut
     \/ cut' = TRUE /\ UNCHANGED kid
  /\ next' = 1
  /\ UNCHANGED <<objects, consumer, printed, clean, taskRuns>>

ForkConsumer ==
  /\ Step("consume", "wait1")
  /\ \/ kid' = [kid EXCEPT !["consumer"] = "running"] /\ UNCHANGED cut
     \/ cut' = TRUE /\ UNCHANGED kid
  /\ cpc' = "receive" /\ got' = 0
  /\ UNCHANGED <<objects, next, printed, clean, taskRuns>>

\* waitpid(-1), which a failed fork leads to, takes any child.
Reaps(k) ==
  \/ kid[k] \in {"zombie", "reaped"} /\ kid' = [kid EXCEPT ![k] = "reaped"]
  \/ /\ kid[k] = "none"
     /\ \/ \E j \in Kids : kid[j] = "zombie" /\ kid' = [kid EXCEPT ![j] = "reaped"]
        \/ (\A j \in Kids : kid[j] \in {"none", "reaped"}) /\ UNCHANGED kid

WaitProducer ==
  /\ Step("wait1", "wait2") /\ Reaps("producer")
  /\ UNCHANGED <<objects, next, consumer, history>>

WaitConsumer ==
  /\ Step("wait2", "clean") /\ Reaps("consumer")
  /\ UNCHANGED <<objects, next, consumer, history>>

TaskCleanup ==
  /\ Step("clean", "idle")
  /\ printed' = total
  /\ kept' = FALSE /\ taskq' = <<>> /\ lock' = 0 /\ total' = 0
  /\ UNCHANGED <<kid, next, consumer, clean, cut, taskRuns>>

\* mq_send blocks while the queue is full.
Produce ==
  /\ kid["producer"] = "running"
  /\ Len(taskq) < QueueLimit
  /\ taskq' = Append(taskq, IF next <= Items THEN next ELSE 0)
  /\ IF next <= Items
     THEN next' = next + 1 /\ UNCHANGED kid
     ELSE kid' = [kid EXCEPT !["producer"] = "zombie"] /\ UNCHANGED next
  /\ UNCHANGED <<kept, lock, total, main, consumer, history>>

Takes(from, to) == kid["consumer"] = "running" /\ cpc = from /\ cpc' = to

Consume ==
  /\ taskq # <<>>
  /\ Takes("receive", IF Head(taskq) = 0 THEN "receive" ELSE "lock")
  /\ taskq' = Tail(taskq)
  /\ got' = Head(taskq)
  /\ kid' = IF Head(taskq) = 0 THEN [kid EXCEPT !["consumer"] = "zombie"] ELSE kid
  /\ UNCHANGED <<kept, lock, total, main, next, history>>

TaskLock ==
  /\ Takes("lock", "add")
  /\ lock > 0 /\ lock' = lock - 1
  /\ UNCHANGED <<kept, taskq, total, main, kid, got, next, history>>

Add ==
  /\ Takes("add", "post")
  /\ total' = total + got
  /\ UNCHANGED <<kept, taskq, lock, main, kid, got, next, history>>

\* A slip to catch: the semaphore is not released.
UnlockNever ==
  /\ Takes("post", "receive")
  /\ UNCHANGED <<objects, main, kid, got, next, history>>

Unlock ==
  /\ Takes("post", "receive")
  /\ lock' = lock + 1
  /\ UNCHANGED <<kept, taskq, total, main, kid, got, next, history>>

\* SIGINT ends the parent and its children wherever they are.
TaskInterrupt ==
  /\ main # "idle" /\ main' = "idle"
  /\ kid' = [k \in Kids |-> "none"]
  /\ cut' = TRUE
  /\ UNCHANGED <<objects, next, consumer, printed, clean, taskRuns>>

ParentSteps == TaskOpen \/ TaskOpenFails \/ ForkProducer \/ ForkConsumer \/ WaitProducer \/ WaitConsumer \/ TaskCleanup
ConsumerSteps == Consume \/ TaskLock \/ Add \/ Unlock

TaskNext == TaskStart \/ ParentSteps \/ Produce \/ ConsumerSteps \/ TaskInterrupt

\* Every process that can run does.
TaskSpec ==
  /\ TaskInit /\ [][TaskNext]_taskVars
  /\ WF_taskVars(ParentSteps) /\ WF_taskVars(Produce) /\ WF_taskVars(ConsumerSteps)

-----------------------------------------------------------------------------
(* Properties. *)

SumOfItems == (Items * (Items + 1)) \div 2

\* A run that found nothing of an earlier one, and is neither interrupted nor
\* short of a process, prints the sum of all items: the queue hands every one
\* on once, the 0 comes last, and nobody waits for ever.
TaskTotal == (clean /\ main # "idle") ~> (cut \/ printed = SumOfItems)

=============================================================================
