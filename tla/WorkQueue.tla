------------------------------ MODULE WorkQueue ------------------------------
(***************************************************************************)
(* The prime work queue of ic/pthreads/workqueue/pthread_wq.c, whose code  *)
(* is kept a second time, with comments, in                                *)
(* ic/final/zybook_probs/pthread_wq/PTWQ.c.  The main thread (the          *)
(* marshaller) pushes start..end into a bounded circular buffer, the       *)
(* workers pop the values, test them and push the results on a list.  The  *)
(* marshaller waits until the queue is empty by polling, sets every        *)
(* worker's die flag, broadcasts, joins and prints.  The polling, the die  *)
(* flags and that broadcast happen without the mutex.                      *)
(*                                                                         *)
(* A while loop around pthread_cond_wait is two steps here, the test of    *)
(* its condition and the blocking call: what runs without the mutex can    *)
(* come between them.  Line numbers of main are those of PTWQ.c, those of  *)
(* the worker and of the queue are those of pthread_wq.c.                  *)
(***************************************************************************)
EXTENDS Integers, FiniteSets

CONSTANTS
  MaxWorkers,  (* bound: the largest number of workers                     *)
  WorkerArgs,  (* the four command line arguments that are tried           *)
  CapacityArgs,
  StartArgs,
  EndArgs,
  MaxSpurious  (* bound: spurious wake-ups                                 *)

ASSUME ArgsAssumption ==
  /\ MaxWorkers \in 1..10000
  /\ WorkerArgs \subseteq Int /\ WorkerArgs \cap (1..10000) \subseteq 1..MaxWorkers
  /\ CapacityArgs \subseteq Int
  /\ StartArgs \subseteq Int /\ EndArgs \subseteq Int
  /\ MaxSpurious \in Nat

Worker == 1..MaxWorkers
Main == 0
Free == -1

VARIABLES
  arg,                      (* num_workers, and start as clamped           *)
  start, end,               (* the marshaller's loop                       *)
  data, at, size, capacity, (* struct WorkQueue                            *)
  results,                  (* the set of the nodes on the result list     *)
  die,                      (* the die flag of every worker                *)
  lock,                     (* holder of the mutex, or Free                *)
  not_empty,                (* the workers blocked on this condition       *)
  not_full,                 (* whether the marshaller is blocked on this   *)
  mpc,                      (* where the marshaller is                     *)
  wpc, v,                   (* per worker: where it is, and its local v    *)
  spurious                  (* how much of MaxSpurious is used             *)

queue == <<data, at, size, capacity>>
sync == <<lock, not_empty, not_full>>
vars == <<arg, start, end, queue, results, die, sync, mpc, wpc, v, spurious>>

MainPc == {"parse", "usage", "spawn", "lock", "test", "block", "wait", "fill",
           "signal", "drain", "die", "broadcast", "join", "done"}
WorkerPc == {"unborn", "lock", "check", "block", "wait", "decide", "signal",
             "store", "exited"}

Init ==
  /\ arg = [workers |-> 0, first |-> 0]
  /\ start = 0 /\ end = 0
  /\ data = <<>> /\ at = 0 /\ size = 0 /\ capacity = 0
  /\ results = {}
  /\ die = [w \in Worker |-> FALSE]
  /\ lock = Free /\ not_empty = {} /\ not_full = FALSE
  /\ mpc = "parse"
  /\ wpc = [w \in Worker |-> "unborn"]
  /\ v = [w \in Worker |-> 0]
  /\ spurious = 0

GoMain(from, to) == mpc = from /\ mpc' = to
GoWorker(w, from, to) == wpc[w] = from /\ wpc' = [wpc EXCEPT ![w] = to]

Acquire(t) == lock = Free /\ lock' = t
Unlock(t) == lock = t /\ lock' = Free

-----------------------------------------------------------------------------
(* The queue and the test of a value.                                      *)

(* Lines 201-204. *)
wq_full == size >= capacity

(* Lines 205-208. *)
wq_empty == size = 0

(* Mutant: the index of the oldest value is left out. *)
PushSlotFromZero == size % capacity
(* Line 197. *)
PushSlot == (at + size) % capacity

(* Lines 192-200. *)
wq_push(value) ==
  /\ data' = [data EXCEPT ![PushSlot] = value]
  /\ size' = size + 1
  /\ UNCHANGED <<at, capacity>>

(* Lines 181-191, of a queue that is not empty. *)
wq_pop(w) ==
  /\ v' = [v EXCEPT ![w] = data[at]]
  /\ at' = (at + 1) % capacity
  /\ size' = size - 1
  /\ UNCHANGED <<data, capacity>>

(* Lines 210-227. *)
awful_is_prime(value) == value >= 2 /\ \A i \in 2..value-1 : value % i # 0

-----------------------------------------------------------------------------
(* main, the marshaller.                                                   *)

(* Mutant: the lower bound is forgotten. *)
WorkerCountAtMost(n) == n <= 10000
(* Line 76. *)
WorkerCount(n) == n \in 1..10000

(* Lines 76-79: a number of workers that is refused. *)
Usage(n) ==
  /\ GoMain("parse", "usage")
  /\ ~WorkerCount(n)
  /\ UNCHANGED <<arg, start, end, queue, results, die, sync, wpc, v, spurious>>

(* Lines 76-137: start is clamped from below, end from above; the size of  *)
(* the queue is not checked.                                               *)
Parse(n, c, s, e) ==
  /\ GoMain("parse", "spawn")
  /\ WorkerCount(n)
  /\ start' = (IF s < 2 THEN 2 ELSE s)
  /\ end' = (IF e > 10000000 THEN 10000000 ELSE e)
  /\ arg' = [workers |-> n, first |-> start']
  /\ capacity' = c
  /\ data' = [i \in 0..c-1 |-> 0]
  /\ UNCHANGED <<at, size, results, die, sync, wpc, v, spurious>>

(* Line 167: the head of the marshaller's loop. *)
LoopHead == IF start <= end THEN "lock" ELSE "drain"

(* Lines 147-156: create the next worker. *)
Spawn(w) ==
  /\ mpc = "spawn"
  /\ w <= arg.workers
  /\ { u \in Worker : wpc[u] # "unborn" } = 1..w-1
  /\ wpc' = [wpc EXCEPT ![w] = "lock"]
  /\ mpc' = IF w = arg.workers THEN LoopHead ELSE "spawn"
  /\ UNCHANGED <<arg, start, end, queue, results, die, sync, v, spurious>>

(* Line 168, and the return from pthread_cond_wait of line 170. *)
MainLock ==
  /\ \/ GoMain("lock", "test")
     \/ GoMain("wait", "test") /\ ~not_full
  /\ Acquire(Main)
  /\ UNCHANGED <<arg, start, end, queue, results, die, not_empty, not_full, wpc,
                 v, spurious>>

(* Line 169. *)
MainTest ==
  /\ mpc = "test"
  /\ mpc' = IF wq_full THEN "block" ELSE "fill"
  /\ UNCHANGED <<arg, start, end, queue, results, die, sync, wpc, v, spurious>>

(* Line 170. *)
MainBlock ==
  /\ GoMain("block", "wait")
  /\ not_full' = TRUE
  /\ Unlock(Main)
  /\ UNCHANGED <<arg, start, end, queue, results, die, not_empty, wpc, v, spurious>>

(* Lines 172-174: one round of the filling loop. *)
Fill ==
  /\ mpc = "fill"
  /\ ~wq_full /\ start <= end
  /\ wq_push(start)
  /\ start' = start + 1
  /\ UNCHANGED <<arg, end, results, die, sync, mpc, wpc, v, spurious>>

(* Lines 172 and 175: nothing more fits, or nothing is left. *)
FillEnd ==
  /\ GoMain("fill", "signal")
  /\ wq_full \/ start > end
  /\ Unlock(Main)
  /\ UNCHANGED <<arg, start, end, queue, results, die, not_empty, not_full, wpc,
                 v, spurious>>

(* Mutant: the signal is forgotten. *)
NoSignal == UNCHANGED not_empty
(* Line 176: pthread_cond_signal(&not_empty) wakes one worker, if one is   *)
(* blocked.                                                                *)
SignalNotEmpty ==
  IF not_empty = {}
  THEN UNCHANGED not_empty
  ELSE \E w \in not_empty : not_empty' = not_empty \ {w}

(* Line 176, and the head of the loop. *)
MainSignal ==
  /\ GoMain("signal", LoopHead)
  /\ SignalNotEmpty
  /\ UNCHANGED <<arg, start, end, queue, results, die, lock, not_full, wpc, v,
                 spurious>>

(* Mutant: the marshaller only waits until it has pushed everything. *)
DrainedEarly == start > end
(* Line 179, without the mutex. *)
Drained == wq_empty

(* Lines 179-181: the poll that finds the queue empty. *)
Drain ==
  /\ GoMain("drain", "die")
  /\ Drained
  /\ UNCHANGED <<arg, start, end, queue, results, die, sync, wpc, v, spurious>>

(* Lines 183-185, without the mutex: one round of the loop, and its end. *)
SetDie(w) ==
  /\ mpc = "die"
  /\ w \in 1..arg.workers
  /\ { u \in Worker : die[u] } = 1..w-1
  /\ die' = [die EXCEPT ![w] = TRUE]
  /\ mpc' = IF w = arg.workers THEN "broadcast" ELSE "die"
  /\ UNCHANGED <<arg, start, end, queue, results, sync, wpc, v, spurious>>

(* Line 186, without the mutex. *)
BroadcastDie ==
  /\ GoMain("broadcast", "join")
  /\ not_empty' = {}
  /\ UNCHANGED <<arg, start, end, queue, results, die, lock, not_full, wpc, v,
                 spurious>>

(* Lines 187-201: join every worker, print the list, free. *)
JoinAndPrint ==
  /\ GoMain("join", "done")
  /\ \A w \in 1..arg.workers : wpc[w] = "exited"
  /\ UNCHANGED <<arg, start, end, queue, results, die, sync, wpc, v, spurious>>

-----------------------------------------------------------------------------
(* worker.                                                                 *)

(* Line 151, and the return from pthread_cond_wait of line 156. *)
WorkerLock(w) ==
  /\ \/ GoWorker(w, "lock", "check")
     \/ GoWorker(w, "wait", "check") /\ w \notin not_empty
  /\ Acquire(w)
  /\ UNCHANGED <<arg, start, end, queue, results, die, not_empty, not_full, mpc,
                 v, spurious>>

(* Line 154. *)
WorkerCheck(w) ==
  /\ GoWorker(w, "check", IF ~die[w] /\ wq_empty THEN "block" ELSE "decide")
  /\ UNCHANGED <<arg, start, end, queue, results, die, sync, mpc, v, spurious>>

(* Line 156: from here on a signal is seen. *)
WorkerBlock(w) ==
  /\ GoWorker(w, "block", "wait")
  /\ not_empty' = not_empty \cup {w}
  /\ Unlock(w)
  /\ UNCHANGED <<arg, start, end, queue, results, die, not_full, mpc, v, spurious>>

(* Lines 159-162 and 178. *)
WorkerExit(w) ==
  /\ GoWorker(w, "decide", "exited")
  /\ die[w]
  /\ Unlock(w)
  /\ UNCHANGED <<arg, start, end, queue, results, die, not_empty, not_full, mpc,
                 v, spurious>>

(* Lines 159 and 164-165. *)
WorkerPop(w) ==
  /\ GoWorker(w, "decide", "signal")
  /\ ~die[w]
  /\ wq_pop(w)
  /\ Unlock(w)
  /\ UNCHANGED <<arg, start, end, results, die, not_empty, not_full, mpc, spurious>>

(* Lines 167-172, without the mutex: wake the marshaller, test the value. *)
WorkerSignal(w) ==
  /\ GoWorker(w, "signal", "store")
  /\ not_full' = FALSE
  /\ UNCHANGED <<arg, start, end, queue, results, die, lock, not_empty, mpc, v,
                 spurious>>

(* Mutant: the worker leaves out a value it finds not to be prime. *)
PrimesOnly(w) ==
  { r \in {[value |-> v[w], is_prime |-> awful_is_prime(v[w])]} : r.is_prime }
(* Lines 169-172: the node a worker adds. *)
NewResult(w) == {[value |-> v[w], is_prime |-> awful_is_prime(v[w])]}

(* Lines 174-176: take the mutex, push the result, back to the loop. *)
WorkerStore(w) ==
  /\ GoWorker(w, "store", "check")
  /\ Acquire(w)
  /\ results' = results \cup NewResult(w)
  /\ UNCHANGED <<arg, start, end, queue, die, not_empty, not_full, mpc, v, spurious>>

(* pthread_cond_wait may return without a signal. *)
SpuriousWakeup ==
  /\ spurious < MaxSpurious
  /\ spurious' = spurious + 1
  /\ \/ /\ \E w \in not_empty : not_empty' = not_empty \ {w}
        /\ UNCHANGED not_full
     \/ not_full /\ not_full' = FALSE /\ UNCHANGED not_empty
  /\ UNCHANGED <<arg, start, end, queue, results, die, lock, mpc, wpc, v>>

-----------------------------------------------------------------------------

MainStep ==
  \/ \E n \in WorkerArgs, c \in CapacityArgs, s \in StartArgs, e \in EndArgs :
       Parse(n, c, s, e)
  \/ \E n \in WorkerArgs : Usage(n)
  \/ \E w \in Worker : Spawn(w) \/ SetDie(w)
  \/ MainLock \/ MainTest \/ MainBlock \/ Fill \/ FillEnd \/ MainSignal
  \/ Drain \/ BroadcastDie \/ JoinAndPrint

WorkerStep(w) ==
  \/ WorkerLock(w) \/ WorkerCheck(w) \/ WorkerBlock(w) \/ WorkerExit(w)
  \/ WorkerPop(w) \/ WorkerSignal(w) \/ WorkerStore(w)

Next == MainStep \/ (\E w \in Worker : WorkerStep(w)) \/ SpuriousWakeup

(* The operating system runs every thread that can run. *)
Spec ==
  /\ Init /\ [][Next]_vars
  /\ WF_vars(MainStep) /\ \A w \in Worker : WF_vars(WorkerStep(w))

-----------------------------------------------------------------------------
(* Properties.                                                             *)

Records == [value : Int, is_prime : BOOLEAN]

TypeOK ==
  /\ arg \in [workers : 0..MaxWorkers, first : Int]
  /\ start \in Int /\ end \in Int
  /\ capacity \in Int /\ size \in Nat /\ at \in Nat
  /\ data \in [0..capacity-1 -> Int]
  /\ results \subseteq Records
  /\ die \in [Worker -> BOOLEAN]
  /\ lock \in Worker \cup {Main, Free}
  /\ not_empty \subseteq Worker /\ not_full \in BOOLEAN
  /\ mpc \in MainPc
  /\ wpc \in [Worker -> WorkerPc]
  /\ v \in [Worker -> Int]
  /\ spurious \in 0..MaxSpurious

(* The circular buffer is a bounded FIFO queue: from the oldest to the     *)
(* newest slot it holds, without gap or repetition, the last size values   *)
(* that were pushed, and never more than its capacity.                     *)
QueueInOrder ==
  size > 0 =>
    /\ size <= capacity /\ at < capacity
    /\ \A k \in 0..size-1 : data[(at + k) % capacity] = start - size + k

(* The workers that have popped a value and not stored its result yet. *)
InHand == { w \in Worker : wpc[w] \in {"signal", "store"} }

(* Every value that left the queue is in the hands of one worker or on the *)
(* list, exactly once, with the right verdict: none is lost, duplicated or *)
(* tested twice.                                                           *)
ValuesConserved ==
  /\ { r.value : r \in results } \cup { v[w] : w \in InHand }
       = arg.first..(start - size - 1)
  /\ Cardinality(results) + Cardinality(InHand) = start - size - arg.first
  /\ \A r \in results : r.is_prime = awful_is_prime(r.value)

(* What is printed is complete: although main reads the queue's size and   *)
(* sets the flags without the mutex, no worker leaves with work undone.    *)
PrintedComplete ==
  /\ (\E w \in Worker : die[w]) => wq_empty /\ start > end
  /\ mpc = "done" =>
       { r.value : r \in results } = arg.first..end

(* While there is work the program does not stall: with values in the      *)
(* queue not every worker is blocked unless main is about to signal, and   *)
(* main is blocked only while the queue is full or a worker that made room *)
(* is about to signal.                                                     *)
NoStall ==
  /\ size > 0 /\ mpc \notin {"fill", "signal"}
       => \E w \in 1..arg.workers : w \notin not_empty
  /\ not_full => wq_full \/ \E w \in Worker : wpc[w] = "signal"

(* Every value is tested, when the queue has room for one at all. *)
WorkFinishes ==
  mpc = "spawn" /\ capacity > 0
    ~> { r.value : r \in results } = arg.first..end

(* "queue is empty -> send a die signal" (PTWQ.c:182), on which "not       *)
(* die" is what "keeps the workers running" (PTWQ.c:144): the signal sent, *)
(* every worker stops.                                                     *)
DieStopsWorkers ==
  mpc = "join" ~> \A w \in 1..arg.workers : wpc[w] = "exited"

=============================================================================
