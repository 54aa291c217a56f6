--------------------------- MODULE WorkQueueProofs ---------------------------
(***************************************************************************)
(* Safety of the prime work queue for every number of workers, every       *)
(* capacity of the queue, every range of values and any number of spurious *)
(* wake-ups.                                                               *)
(***************************************************************************)
EXTENDS WorkQueue, FiniteSetTheorems, TLAPS

(* Mutual exclusion: a thread holds the mutex exactly in its critical      *)
(* sections.                                                               *)
LockHeld ==
  /\ \A w \in Worker : wpc[w] \in {"check", "block", "decide"} <=> lock = w
  /\ mpc \in {"test", "block", "fill"} <=> lock = Main

(* What each point of main knows: nothing has happened before the workers  *)
(* are spawned; main blocks on a full queue only; when it leaves the       *)
(* filling loop everything is pushed, and when it sets the flags the queue *)
(* is empty and stays so.                                                  *)
MainPhase ==
  /\ mpc \in {"parse", "usage"}
       => /\ start = 0 /\ arg = [workers |-> 0, first |-> 0]
          /\ size = 0 /\ at = 0 /\ results = {}
          /\ \A w \in Worker : wpc[w] = "unborn"
  /\ mpc \notin {"parse", "usage"} => arg.workers \in 1..MaxWorkers
  /\ mpc = "block" => wq_full
  /\ not_full => mpc = "wait"
  /\ mpc \in {"drain", "die", "broadcast", "join", "done"} => start > end
  /\ mpc \in {"die", "broadcast", "join", "done"} => size = 0
  /\ mpc = "done" => \A w \in 1..arg.workers : wpc[w] = "exited"

(* What each point of a worker knows: only spawned workers run; a flag is  *)
(* set on the way out only; a worker goes to sleep on an empty queue and   *)
(* pops from one that is not.                                              *)
WorkerPhase ==
  /\ \A w \in Worker : wpc[w] # "unborn" => w <= arg.workers
  /\ \A w \in Worker : die[w] => mpc \in {"die", "broadcast", "join", "done"}
  /\ \A w \in not_empty : wpc[w] = "wait"
  /\ \A w \in Worker : wpc[w] = "block" => size = 0
  /\ \A w \in Worker : wpc[w] = "decide" => die[w] \/ size > 0

(* The buffer is never overfull, and at names a slot if there is one; the  *)
(* next value to push is the first one or not beyond the last.             *)
Bounds ==
  /\ size > 0 => size <= capacity
  /\ capacity > 0 => at < capacity
  /\ arg.first <= start /\ (start <= end + 1 \/ start = arg.first)

(* No value is at two places. *)
ValuesDistinct ==
  /\ IsFiniteSet(results)
  /\ \A w \in InHand : \A r \in results : r.value # v[w]
  /\ \A w, u \in InHand : v[w] = v[u] => w = u

(* The two inductive invariants: control first, then the data, of which    *)
(* each step preserves what it does because of the control.                *)
Control == TypeOK /\ LockHeld /\ MainPhase /\ WorkerPhase /\ Bounds
Data == QueueInOrder /\ ValuesConserved /\ ValuesDistinct

-----------------------------------------------------------------------------

(* Threads are numbers of their own. *)
LEMMA Threads ==
  /\ MaxWorkers \in Nat /\ MaxWorkers >= 1
  /\ \A w \in Worker : w \in Nat /\ w >= 1 /\ w # Main /\ w # Free
  /\ Main # Free
BY ArgsAssumption, SMT DEF Worker, Main, Free

(* Each step preserves Control. *)

(* The arguments are accepted: everything is still as at the start. *)
LEMMA ParseControl ==
  ASSUME Control,
         NEW n \in WorkerArgs, NEW c \in CapacityArgs, NEW s \in StartArgs,
         NEW e \in EndArgs, Parse(n, c, s, e)
  PROVE  Control'
<1>0. /\ n \in 1..MaxWorkers /\ c \in Int /\ s \in Int /\ e \in Int
      /\ start' \in Int /\ end' \in Int
      /\ arg' = [workers |-> n, first |-> start']
  BY ArgsAssumption, SMT DEF Parse, WorkerCount
<1>1. TypeOK'
  BY <1>0, SMT DEF Control, TypeOK, Parse, GoMain, sync, MainPc
<1>2. LockHeld'
  BY SMT DEF Control, LockHeld, Parse, GoMain, sync
<1>3. MainPhase'
  BY <1>0, SMT DEF Control, MainPhase, Parse, GoMain, sync
<1>4. WorkerPhase'
  BY SMT DEF Control, MainPhase, WorkerPhase, Parse, GoMain, sync
<1>5. Bounds'
  BY SMT DEF Control, MainPhase, Bounds, Parse, GoMain
<1> QED
  BY <1>1, <1>2, <1>3, <1>4, <1>5 DEF Control

(* The arguments are refused. *)
LEMMA UsageControl ==
  ASSUME Control, NEW n \in WorkerArgs, Usage(n)
  PROVE  Control'
<1>1. TypeOK'
  BY SMT DEF Control, TypeOK, Usage, GoMain, queue, sync, MainPc
<1>2. LockHeld'
  BY SMT DEF Control, LockHeld, Usage, GoMain, sync
<1>3. MainPhase'
  BY SMT DEF Control, MainPhase, Usage, GoMain, queue, sync
<1>4. WorkerPhase'
  BY SMT DEF Control, MainPhase, WorkerPhase, Usage, GoMain, sync
<1>5. Bounds'
  BY SMT DEF Control, Bounds, Usage, queue
<1> QED
  BY <1>1, <1>2, <1>3, <1>4, <1>5 DEF Control

(* The worker created is the next one of those that were asked for. *)
LEMMA SpawnControl ==
  ASSUME Control, NEW u \in Worker, Spawn(u)
  PROVE  Control'
<1>1. TypeOK'
  BY DEF Control, TypeOK, Spawn, queue, sync, MainPc, WorkerPc, LoopHead
<1>2. LockHeld'
  BY DEF Control, LockHeld, Spawn, sync, LoopHead
<1>3. MainPhase'
  BY DEF Control, TypeOK, MainPhase, Spawn, sync, LoopHead
<1>4. WorkerPhase'
  BY DEF Control, MainPhase, WorkerPhase, Spawn, queue, sync, WorkerPc
<1>5. Bounds'
  BY DEF Control, Bounds, Spawn, queue
<1> QED
  BY <1>1, <1>2, <1>3, <1>4, <1>5 DEF Control

(* The queue is empty and stays so. *)
LEMMA SetDieControl ==
  ASSUME Control, NEW u \in Worker, SetDie(u)
  PROVE  Control'
<1>1. TypeOK'
  BY DEF Control, TypeOK, SetDie, queue, sync, MainPc
<1>2. LockHeld'
  BY DEF Control, LockHeld, SetDie, sync
<1>3. MainPhase'
  BY DEF Control, MainPhase, SetDie, queue, sync
<1>4. WorkerPhase'
  BY DEF Control, WorkerPhase, SetDie, queue, sync
<1>5. Bounds'
  BY DEF Control, Bounds, SetDie, queue
<1> QED
  BY <1>1, <1>2, <1>3, <1>4, <1>5 DEF Control

(* The mutex was free, so no worker is in its critical section. *)
LEMMA MainLockControl ==
  ASSUME Control, MainLock
  PROVE  Control'
<1>1. TypeOK'
  BY DEF Control, TypeOK, MainLock, GoMain, Acquire, queue, MainPc
<1>2. LockHeld'
  BY Threads DEF Control, LockHeld, MainLock, GoMain, Acquire
<1>3. MainPhase'
  BY DEF Control, MainPhase, MainLock, GoMain
<1>4. WorkerPhase'
  BY Threads
     DEF Control, LockHeld, MainPhase, WorkerPhase, MainLock, GoMain, Acquire
<1>5. Bounds'
  BY DEF Control, Bounds, MainLock, queue
<1> QED
  BY <1>1, <1>2, <1>3, <1>4, <1>5 DEF Control

(* Main blocks on a full queue only. *)
LEMMA MainTestControl ==
  ASSUME Control, MainTest
  PROVE  Control'
<1>1. TypeOK'
  BY DEF Control, TypeOK, MainTest, queue, sync, MainPc
<1>2. LockHeld'
  BY DEF Control, LockHeld, MainTest, sync
<1>3. MainPhase'
  BY DEF Control, MainPhase, MainTest, queue, sync, wq_full
<1>4. WorkerPhase'
  BY Threads DEF Control, LockHeld, WorkerPhase, MainTest, sync
<1>5. Bounds'
  BY DEF Control, Bounds, MainTest, queue
<1> QED
  BY <1>1, <1>2, <1>3, <1>4, <1>5 DEF Control

LEMMA MainBlockControl ==
  ASSUME Control, MainBlock
  PROVE  Control'
<1>1. TypeOK'
  BY DEF Control, TypeOK, MainBlock, GoMain, Unlock, queue, MainPc
<1>2. LockHeld'
  BY Threads DEF Control, LockHeld, MainBlock, GoMain, Unlock
<1>3. MainPhase'
  BY DEF Control, MainPhase, MainBlock, GoMain
<1>4. WorkerPhase'
  BY Threads DEF Control, LockHeld, WorkerPhase, MainBlock, GoMain
<1>5. Bounds'
  BY DEF Control, Bounds, MainBlock, queue
<1> QED
  BY <1>1, <1>2, <1>3, <1>4, <1>5 DEF Control

(* There is room for one more value. *)
LEMMA FillControl ==
  ASSUME Control, Fill
  PROVE  Control'
<1>0. /\ size' = size + 1 /\ size + 1 <= capacity /\ UNCHANGED <<at, capacity>>
      /\ data' \in [0..capacity-1 -> Int]
  <2>1. /\ size \in Nat /\ capacity \in Int /\ ~(size >= capacity)
        /\ start \in Int /\ data \in [0..capacity-1 -> Int]
        /\ data' = [data EXCEPT ![PushSlot] = start]
        /\ size' = size + 1 /\ UNCHANGED <<at, capacity>>
    BY DEF Control, TypeOK, Fill, wq_push, wq_full
  <2>2. data' \in [0..capacity-1 -> Int]
    <3> HIDE DEF PushSlot
    <3> DEFINE p == PushSlot
    <3>1. data' = [data EXCEPT ![p] = start]
      BY <2>1
    <3> HIDE DEF p
    <3> QED
      BY <2>1, <3>1
  <2> QED
    BY <2>1, <2>2
<1>1. TypeOK'
  BY <1>0 DEF Control, TypeOK, Fill, sync
<1>2. LockHeld'
  BY DEF Control, LockHeld, Fill, sync
<1>3. MainPhase'
  BY DEF Control, MainPhase, Fill, sync
<1>4. WorkerPhase'
  BY Threads DEF Control, LockHeld, WorkerPhase, Fill, sync
<1>5. Bounds'
  BY <1>0 DEF Control, TypeOK, Bounds, Fill
<1> QED
  BY <1>1, <1>2, <1>3, <1>4, <1>5 DEF Control

LEMMA FillEndControl ==
  ASSUME Control, FillEnd
  PROVE  Control'
<1>1. TypeOK'
  BY DEF Control, TypeOK, FillEnd, GoMain, Unlock, queue, MainPc
<1>2. LockHeld'
  BY Threads DEF Control, LockHeld, FillEnd, GoMain, Unlock
<1>3. MainPhase'
  BY DEF Control, MainPhase, FillEnd, GoMain
<1>4. WorkerPhase'
  BY Threads DEF Control, LockHeld, WorkerPhase, FillEnd, GoMain
<1>5. Bounds'
  BY DEF Control, Bounds, FillEnd, queue
<1> QED
  BY <1>1, <1>2, <1>3, <1>4, <1>5 DEF Control

(* The filling loop is left when start has passed end. *)
LEMMA MainSignalControl ==
  ASSUME Control, MainSignal
  PROVE  Control'
<1>0. not_empty' \subseteq not_empty
  BY DEF MainSignal, SignalNotEmpty
<1>1. TypeOK'
  BY <1>0 DEF Control, TypeOK, MainSignal, GoMain, queue, MainPc, LoopHead
<1>2. LockHeld'
  BY DEF Control, LockHeld, MainSignal, GoMain, LoopHead
<1>3. MainPhase'
  BY DEF Control, TypeOK, MainPhase, MainSignal, GoMain, LoopHead
<1>4. WorkerPhase'
  BY <1>0 DEF Control, WorkerPhase, MainSignal, GoMain, queue
<1>5. Bounds'
  BY DEF Control, Bounds, MainSignal, queue
<1> QED
  BY <1>1, <1>2, <1>3, <1>4, <1>5 DEF Control

(* The poll: start has passed end, so an empty queue stays empty. *)
LEMMA DrainControl ==
  ASSUME Control, Drain
  PROVE  Control'
<1>1. TypeOK'
  BY DEF Control, TypeOK, Drain, GoMain, queue, sync, MainPc
<1>2. LockHeld'
  BY DEF Control, LockHeld, Drain, GoMain, sync
<1>3. MainPhase'
  BY DEF Control, MainPhase, Drain, GoMain, queue, sync, wq_empty, Drained
<1>4. WorkerPhase'
  BY DEF Control, WorkerPhase, Drain, GoMain, queue, sync
<1>5. Bounds'
  BY DEF Control, Bounds, Drain, queue
<1> QED
  BY <1>1, <1>2, <1>3, <1>4, <1>5 DEF Control

LEMMA BroadcastDieControl ==
  ASSUME Control, BroadcastDie
  PROVE  Control'
<1>1. TypeOK'
  BY DEF Control, TypeOK, BroadcastDie, GoMain, queue, MainPc
<1>2. LockHeld'
  BY DEF Control, LockHeld, BroadcastDie, GoMain
<1>3. MainPhase'
  BY DEF Control, MainPhase, BroadcastDie, GoMain, queue
<1>4. WorkerPhase'
  BY DEF Control, WorkerPhase, BroadcastDie, GoMain, queue
<1>5. Bounds'
  BY DEF Control, Bounds, BroadcastDie, queue
<1> QED
  BY <1>1, <1>2, <1>3, <1>4, <1>5 DEF Control

LEMMA JoinAndPrintControl ==
  ASSUME Control, JoinAndPrint
  PROVE  Control'
<1>1. TypeOK'
  BY DEF Control, TypeOK, JoinAndPrint, GoMain, queue, sync, MainPc
<1>2. LockHeld'
  BY DEF Control, LockHeld, JoinAndPrint, GoMain, sync
<1>3. MainPhase'
  BY DEF Control, MainPhase, JoinAndPrint, GoMain, queue, sync
<1>4. WorkerPhase'
  BY DEF Control, WorkerPhase, JoinAndPrint, GoMain, queue, sync
<1>5. Bounds'
  BY DEF Control, Bounds, JoinAndPrint, queue
<1> QED
  BY <1>1, <1>2, <1>3, <1>4, <1>5 DEF Control

LEMMA WorkerLockControl ==
  ASSUME Control, NEW u \in Worker, WorkerLock(u)
  PROVE  Control'
<1>0. wpc' \in [Worker -> WorkerPc] /\ lock' \in Worker \cup {Main, Free}
  BY DEF Control, TypeOK, WorkerLock, GoWorker, Acquire, WorkerPc
<1>1. TypeOK'
  BY Threads, <1>0 DEF Control, TypeOK, WorkerLock, queue
<1>2. LockHeld'
  BY Threads DEF Control, TypeOK, LockHeld, WorkerLock, GoWorker, Acquire
<1>3. MainPhase'
  BY Threads
     DEF Control, LockHeld, MainPhase, WorkerPhase, WorkerLock, GoWorker,
         Acquire, queue
<1>4. WorkerPhase'
  BY Threads
     DEF Control, TypeOK, LockHeld, WorkerPhase, WorkerLock, GoWorker, Acquire
<1>5. Bounds'
  BY DEF Control, Bounds, WorkerLock, queue
<1> QED
  BY <1>1, <1>2, <1>3, <1>4, <1>5 DEF Control

(* A worker blocks on an empty queue, unless it is told to leave. *)
LEMMA WorkerCheckControl ==
  ASSUME Control, NEW u \in Worker, WorkerCheck(u)
  PROVE  Control'
<1>1. TypeOK'
  BY DEF Control, TypeOK, WorkerCheck, GoWorker, queue, sync, WorkerPc
<1>2. LockHeld'
  BY DEF Control, LockHeld, WorkerCheck, GoWorker, sync
<1>3. MainPhase'
  BY Threads
     DEF Control, LockHeld, MainPhase, WorkerCheck, GoWorker, queue, sync
<1>4. WorkerPhase'
  BY DEF Control, TypeOK, WorkerPhase, WorkerCheck, GoWorker, queue, sync,
     wq_empty
<1>5. Bounds'
  BY DEF Control, Bounds, WorkerCheck, queue
<1> QED
  BY <1>1, <1>2, <1>3, <1>4, <1>5 DEF Control

LEMMA WorkerBlockControl ==
  ASSUME Control, NEW u \in Worker, WorkerBlock(u)
  PROVE  Control'
<1>1. TypeOK'
  BY DEF Control, TypeOK, WorkerBlock, GoWorker, Unlock, queue, WorkerPc
<1>2. LockHeld'
  BY Threads DEF Control, TypeOK, LockHeld, WorkerBlock, GoWorker, Unlock
<1>3. MainPhase'
  BY Threads DEF Control, LockHeld, MainPhase, WorkerBlock, GoWorker, queue
<1>4. WorkerPhase'
  BY DEF Control, TypeOK, LockHeld, WorkerPhase, WorkerBlock, GoWorker
<1>5. Bounds'
  BY DEF Control, Bounds, WorkerBlock, queue
<1> QED
  BY <1>1, <1>2, <1>3, <1>4, <1>5 DEF Control

LEMMA WorkerExitControl ==
  ASSUME Control, NEW u \in Worker, WorkerExit(u)
  PROVE  Control'
<1>1. TypeOK'
  BY DEF Control, TypeOK, WorkerExit, GoWorker, Unlock, queue, WorkerPc
<1>2. LockHeld'
  BY Threads DEF Control, TypeOK, LockHeld, WorkerExit, GoWorker, Unlock
<1>3. MainPhase'
  BY Threads DEF Control, LockHeld, MainPhase, WorkerExit, GoWorker, queue
<1>4. WorkerPhase'
  BY DEF Control, LockHeld, WorkerPhase, WorkerExit, GoWorker
<1>5. Bounds'
  BY DEF Control, Bounds, WorkerExit, queue
<1> QED
  BY <1>1, <1>2, <1>3, <1>4, <1>5 DEF Control

(* The queue is not empty, as its flag is not set. *)
LEMMA WorkerPopControl ==
  ASSUME Control, NEW u \in Worker, WorkerPop(u)
  PROVE  Control'
<1>0. /\ size > 0 /\ size \in Nat /\ capacity \in Nat /\ capacity > 0
      /\ at \in 0..capacity-1 /\ data[at] \in Int
      /\ v' = [v EXCEPT ![u] = data[at]]
      /\ at' = (at + 1) % capacity /\ size' = size - 1
      /\ UNCHANGED <<data, capacity>>
  BY DEF Control, TypeOK, WorkerPhase, Bounds, WorkerPop, GoWorker, wq_pop
<1>a. /\ size > 0 /\ size' = size - 1 /\ UNCHANGED capacity
  BY <1>0
<1>1. TypeOK'
  BY <1>0 DEF Control, TypeOK, WorkerPop, GoWorker, Unlock, WorkerPc
<1>2. LockHeld'
  BY Threads DEF Control, TypeOK, LockHeld, WorkerPop, GoWorker, Unlock
<1>3. MainPhase'
  BY Threads, <1>a DEF Control, LockHeld, MainPhase, WorkerPop, GoWorker
<1>4. WorkerPhase'
  BY DEF Control, TypeOK, LockHeld, WorkerPhase, WorkerPop, GoWorker
<1>5. Bounds'
  BY <1>0 DEF Control, Bounds, WorkerPop
<1> QED
  BY <1>1, <1>2, <1>3, <1>4, <1>5 DEF Control

LEMMA WorkerSignalControl ==
  ASSUME Control, NEW u \in Worker, WorkerSignal(u)
  PROVE  Control'
<1>0. not_full' \in BOOLEAN
  BY Zenon DEF WorkerSignal
<1>1. TypeOK'
  BY DEF Control, TypeOK, WorkerSignal, GoWorker, queue, WorkerPc
<1>2. LockHeld'
  BY DEF Control, LockHeld, WorkerSignal, GoWorker
<1>3. MainPhase'
  BY DEF Control, MainPhase, WorkerSignal, GoWorker, queue, wq_full
<1>4. WorkerPhase'
  BY DEF Control, WorkerPhase, WorkerSignal, GoWorker, queue
<1>5. Bounds'
  BY DEF Control, Bounds, WorkerSignal, queue
<1> QED
  BY <1>1, <1>2, <1>3, <1>4, <1>5 DEF Control

LEMMA WorkerStoreControl ==
  ASSUME Control, NEW u \in Worker, WorkerStore(u)
  PROVE  Control'
<1>0. results' \subseteq Records
  <2>1. awful_is_prime(v[u]) \in BOOLEAN
    BY DEF awful_is_prime
  <2> QED
    BY <2>1 DEF Control, TypeOK, WorkerStore, NewResult, Records
<1>1. TypeOK'
  BY <1>0 DEF Control, TypeOK, WorkerStore, GoWorker, Acquire, queue, WorkerPc
<1>2. LockHeld'
  BY Threads DEF Control, TypeOK, LockHeld, WorkerStore, GoWorker, Acquire
<1>3. MainPhase'
  BY Threads
     DEF Control, LockHeld, MainPhase, WorkerStore, GoWorker, Acquire, queue
<1>4. WorkerPhase'
  BY Threads DEF Control, LockHeld, WorkerPhase, WorkerStore, GoWorker, Acquire
<1>5. Bounds'
  BY DEF Control, Bounds, WorkerStore, queue
<1> QED
  BY <1>1, <1>2, <1>3, <1>4, <1>5 DEF Control

(* Whoever wakes up does not hold the mutex yet. *)
LEMMA SpuriousWakeupControl ==
  ASSUME Control, SpuriousWakeup
  PROVE  Control'
<1>0. /\ not_full' \in BOOLEAN /\ not_empty' \subseteq not_empty
      /\ spurious' \in 0..MaxSpurious
  <2>1. not_full' = FALSE \/ UNCHANGED not_full
    BY Zenon DEF SpuriousWakeup
  <2>2. not_empty' \subseteq not_empty
    BY DEF SpuriousWakeup
  <2>3. spurious' \in 0..MaxSpurious
    BY ArgsAssumption DEF SpuriousWakeup, Control, TypeOK
  <2> QED
    BY <2>1, <2>2, <2>3 DEF Control, TypeOK
<1>1. TypeOK'
  BY Threads, <1>0 DEF Control, TypeOK, SpuriousWakeup, queue
<1>2. LockHeld'
  BY DEF Control, LockHeld, SpuriousWakeup
<1>3. MainPhase'
  BY DEF Control, MainPhase, SpuriousWakeup, queue, wq_full
<1>4. WorkerPhase'
  BY DEF Control, WorkerPhase, SpuriousWakeup, queue
<1>5. Bounds'
  BY DEF Control, Bounds, SpuriousWakeup, queue
<1> QED
  BY <1>1, <1>2, <1>3, <1>4, <1>5 DEF Control

(* Initially. *)
LEMMA InitControl == Init => Control
<1> SUFFICES ASSUME Init PROVE Control
  OBVIOUS
<1>1. TypeOK
  <2>1. data \in [0..capacity-1 -> Int]
    BY DEF Init
  <2>2. wpc \in [Worker -> WorkerPc] /\ v \in [Worker -> Int]
    BY DEF Init, WorkerPc
  <2>3. die \in [Worker -> BOOLEAN] /\ not_full \in BOOLEAN
    BY Zenon DEF Init
  <2>4. arg \in [workers : 0..MaxWorkers, first : Int]
    BY Threads DEF Init
  <2>5. spurious \in 0..MaxSpurious
    BY ArgsAssumption DEF Init
  <2>6. /\ start \in Int /\ end \in Int /\ capacity \in Int
        /\ size \in Nat /\ at \in Nat
        /\ results \subseteq Records /\ not_empty \subseteq Worker
        /\ lock \in Worker \cup {Main, Free} /\ mpc \in MainPc
    BY DEF Init, MainPc
  <2> QED
    BY <2>1, <2>2, <2>3, <2>4, <2>5, <2>6 DEF TypeOK
<1>2. LockHeld
  BY Threads DEF Init, LockHeld
<1>3. MainPhase
  BY DEF Init, MainPhase
<1>4. WorkerPhase
  BY DEF Init, WorkerPhase
<1>5. Bounds
  BY DEF Init, Bounds
<1> QED
  BY <1>1, <1>2, <1>3, <1>4, <1>5 DEF Control

LEMMA NextControl == Control /\ [Next]_vars => Control'
<1> SUFFICES ASSUME Control, [Next]_vars PROVE Control'
  OBVIOUS
<1>1. CASE MainStep
  BY <1>1, ParseControl, UsageControl, SpawnControl, SetDieControl,
     MainLockControl, MainTestControl, MainBlockControl, FillControl,
     FillEndControl, MainSignalControl, DrainControl, BroadcastDieControl,
     JoinAndPrintControl DEF MainStep
<1>2. ASSUME NEW w \in Worker, WorkerStep(w) PROVE Control'
  BY <1>2, WorkerLockControl, WorkerCheckControl, WorkerBlockControl,
     WorkerExitControl, WorkerPopControl, WorkerSignalControl,
     WorkerStoreControl DEF WorkerStep
<1>3. CASE SpuriousWakeup
  BY <1>3, SpuriousWakeupControl
<1>4. CASE UNCHANGED vars
  BY <1>4
     DEF vars, queue, sync, Control, TypeOK, LockHeld, MainPhase, WorkerPhase,
              Bounds, wq_full
<1> QED
  BY <1>1, <1>2, <1>3, <1>4 DEF Next

-----------------------------------------------------------------------------

(* The values on the list are those of the nodes. *)
Stored == { r.value : r \in results }
Held == { v[w] : w \in InHand }

LEMMA HandsFinite ==
  /\ IsFiniteSet(InHand) /\ Cardinality(InHand) \in Nat
  /\ \A w \in InHand : w \in Worker
<1>1. IsFiniteSet(1..MaxWorkers)
  BY FS_Interval, Threads
<1>2. InHand \in SUBSET (1..MaxWorkers)
  BY DEF InHand, Worker
<1> QED
  BY <1>1, <1>2, FS_Subset, FS_CardinalityType DEF Worker

(* Steps that touch neither the queue, nor the list, nor what is in hand.  *)
LEMMA SameData ==
  ASSUME Data, UNCHANGED <<queue, start, arg, results, v>>, InHand' = InHand
  PROVE  Data'
<1>1. QueueInOrder'
  BY DEF Data, QueueInOrder, queue
<1>2. ValuesConserved'
  BY DEF Data, ValuesConserved, queue
<1>3. ValuesDistinct'
  BY DEF Data, ValuesDistinct
<1> QED
  BY <1>1, <1>2, <1>3 DEF Data

(* Main's steps that leave the queue alone. *)
LEMMA MainQuiet ==
  ASSUME Control, Data,
         \/ \E n \in WorkerArgs : Usage(n)
         \/ \E w \in Worker : Spawn(w) \/ SetDie(w)
         \/ MainLock \/ MainTest \/ MainBlock \/ FillEnd \/ MainSignal
         \/ Drain \/ BroadcastDie \/ JoinAndPrint
  PROVE  Data'
<1>1. CASE \E w \in Worker : Spawn(w)
  <2>1. PICK w \in Worker : Spawn(w)
    BY <1>1
  <2>2. wpc[w] = "unborn"
    BY <2>1, Threads DEF Spawn
  <2>3. InHand' = InHand
    BY <2>1, <2>2 DEF Spawn, InHand, Control, TypeOK
  <2> QED
    BY <2>1, <2>3, SameData DEF Spawn
<1>2. CASE ~ \E w \in Worker : Spawn(w)
  <2>1. UNCHANGED <<queue, start, arg, results, v, wpc>>
    BY <1>2
       DEF Usage, SetDie, MainLock, MainTest, MainBlock, FillEnd, MainSignal,
                Drain, BroadcastDie, JoinAndPrint
  <2>2. InHand' = InHand
    BY <2>1 DEF InHand
  <2> QED
    BY <2>1, <2>2, SameData
<1> QED
  BY <1>1, <1>2

(* The workers' steps that leave the queue and the list alone. *)
LEMMA WorkerQuiet ==
  ASSUME Control, Data, NEW u \in Worker,
         \/ WorkerLock(u) \/ WorkerCheck(u) \/ WorkerBlock(u) \/ WorkerExit(u)
         \/ WorkerSignal(u)
  PROVE  Data'
<1>1. UNCHANGED <<queue, start, arg, results, v>>
  BY DEF WorkerLock, WorkerCheck, WorkerBlock, WorkerExit, WorkerSignal
<1>2. InHand' = InHand
  BY DEF WorkerLock, WorkerCheck, WorkerBlock, WorkerExit, WorkerSignal,
     GoWorker,
         InHand, Control, TypeOK
<1> QED
  BY <1>1, <1>2, SameData

(* The start: nothing is queued, stored or in hand. *)
LEMMA ParseData ==
  ASSUME Control, Data,
         NEW n \in WorkerArgs, NEW c \in CapacityArgs, NEW s \in StartArgs,
         NEW e \in EndArgs, Parse(n, c, s, e)
  PROVE  Data'
<1>1. /\ size' = 0 /\ results' = {} /\ InHand' = {}
      /\ arg'.first = start' /\ start' \in Int
  <2>1. /\ size = 0 /\ results = {} /\ \A w \in Worker : wpc[w] = "unborn"
        /\ UNCHANGED <<size, results, wpc>>
    BY DEF Control, MainPhase, Parse, GoMain
  <2>2. arg'.first = start' /\ start' \in Int
    BY ArgsAssumption, SMT DEF Parse
  <2> QED
    BY <2>1, <2>2 DEF InHand
<1>2. QueueInOrder'
  BY <1>1 DEF QueueInOrder
<1>3. ValuesConserved'
  <2>1. Cardinality(results') = 0 /\ Cardinality(InHand') = 0
    BY <1>1, FS_EmptySet
  <2>2. { r.value : r \in results' } = {} /\ { v'[w] : w \in InHand' } = {}
    BY <1>1
  <2>3. arg'.first..(start' - size' - 1) = {}
    <3>1. \A b \in Int : b..(b - 0 - 1) = {}
      OBVIOUS
    <3> QED
      BY <1>1, <3>1
  <2>4. start' - size' - arg'.first = 0
    <3>1. \A b \in Int : b - 0 - b = 0
      OBVIOUS
    <3> QED
      BY <1>1, <3>1
  <2> QED
    BY <1>1, <2>1, <2>2, <2>3, <2>4 DEF ValuesConserved
<1>4. ValuesDistinct'
  BY <1>1, FS_EmptySet DEF ValuesDistinct
<1> QED
  BY <1>2, <1>3, <1>4 DEF Data

(* Fewer than the capacity apart, two positions are two slots. *)
LEMMA SlotsDiffer ==
  ASSUME NEW c \in Nat, c > 0, NEW a \in 0..c-1, NEW k \in 0..c-1, NEW m \in 0..c-1,
         k # m
  PROVE  (a + k) % c # (a + m) % c
<1>1. (a + k) % c = IF a + k < c THEN a + k ELSE a + k - c
  OBVIOUS
<1>2. (a + m) % c = IF a + m < c THEN a + m ELSE a + m - c
  OBVIOUS
<1> QED
  BY <1>1, <1>2

(* The position after the next one of the oldest. *)
LEMMA SlotsShift ==
  ASSUME NEW c \in Nat, c > 0, NEW a \in 0..c-1, NEW k \in 0..c-1, k + 1 < c
  PROVE  (((a + 1) % c) + k) % c = (a + (k + 1)) % c
<1> DEFINE h == (a + 1) % c
<1>1. h = IF a + 1 < c THEN a + 1 ELSE 0
  OBVIOUS
<1>2. h \in 0..c-1
  BY <1>1
<1>3. (a + (k + 1)) % c = IF a + (k + 1) < c THEN a + (k + 1) ELSE a + (k + 1) - c
  OBVIOUS
<1> HIDE DEF h
<1>4. (h + k) % c = IF h + k < c THEN h + k ELSE h + k - c
  BY <1>2
<1>5. (h + k) % c = (a + (k + 1)) % c
  BY <1>1, <1>3, <1>4
<1> QED
  BY <1>5 DEF h

(* A push fills the slot behind the newest value and no other. *)
LEMMA FillData ==
  ASSUME Control, Data, Fill
  PROVE  Data'
<1>1. /\ size \in Nat /\ capacity \in Nat /\ size < capacity /\ capacity > 0
      /\ at \in 0..capacity-1 /\ start \in Int
      /\ data \in [0..capacity-1 -> Int]
  BY DEF Control, TypeOK, Bounds, Fill, wq_full
<1>2. /\ data' = [data EXCEPT ![(at + size) % capacity] = start]
      /\ size' = size + 1 /\ start' = start + 1
      /\ UNCHANGED <<at, capacity, arg, results, v, wpc>>
  BY DEF Fill, wq_push, PushSlot
<1>3. QueueInOrder'
  <2>1. ASSUME NEW k \in 0..size
        PROVE  data'[(at + k) % capacity] = start - size + k
    <3>1. /\ (at + k) % capacity \in 0..capacity-1
          /\ (at + size) % capacity \in 0..capacity-1
      BY <1>1
    <3>2. CASE k = size
      <4>1. data'[(at + size) % capacity] = start
        BY <1>1, <1>2, <3>1
      <4> QED
        BY <1>1, <3>2, <4>1
    <3>3. CASE k # size
      <4>1. k \in 0..size-1 /\ k \in 0..capacity-1 /\ size \in 0..capacity-1
        BY <1>1, <3>3
      <4>2. (at + k) % capacity # (at + size) % capacity
        BY <1>1, <3>3, <4>1, SlotsDiffer
      <4>3. data'[(at + k) % capacity] = data[(at + k) % capacity]
        BY <1>1, <1>2, <3>1, <4>2
      <4> QED
        BY <1>1, <4>1, <4>3 DEF Data, QueueInOrder
    <3> QED
      BY <3>2, <3>3
  <2>2. ASSUME NEW k \in 0..size'-1
        PROVE  data'[(at' + k) % capacity'] = start' - size' + k
    <3>1. k \in 0..size
      BY <1>1, <1>2
    <3>2. start' - size' + k = start - size + k /\ at' = at /\ capacity' = capacity
      BY <1>1, <1>2
    <3> QED
      BY <2>1, <3>1, <3>2
  <2>3. size' <= capacity' /\ at' < capacity'
    BY <1>1, <1>2
  <2> QED
    BY <2>2, <2>3 DEF QueueInOrder
<1>4. InHand' = InHand /\ start' - size' = start - size
  BY <1>1, <1>2 DEF InHand
<1>5. ValuesConserved'
  BY <1>2, <1>4 DEF Data, ValuesConserved
<1>6. ValuesDistinct'
  BY <1>2, <1>4 DEF Data, ValuesDistinct
<1> QED
  BY <1>3, <1>5, <1>6 DEF Data

(* A pop takes the oldest value in hand: it is larger than every value that *)
(* left the queue before.                                                   *)
LEMMA PopData ==
  ASSUME Control, Data, NEW u \in Worker, WorkerPop(u)
  PROVE  Data'
<1> DEFINE x == start - size
<1>1. /\ size \in Nat /\ size > 0 /\ capacity \in Nat /\ size <= capacity
      /\ at \in 0..capacity-1 /\ start \in Int /\ arg.first \in Int
      /\ v \in [Worker -> Int] /\ wpc \in [Worker -> WorkerPc]
      /\ wpc[u] = "decide"
  BY DEF Control, TypeOK, WorkerPhase, Bounds, WorkerPop, GoWorker
<1>2. /\ v' = [v EXCEPT ![u] = data[at]]
      /\ wpc' = [wpc EXCEPT ![u] = "signal"]
      /\ at' = (at + 1) % capacity /\ size' = size - 1
      /\ UNCHANGED <<data, capacity, start, arg, results>>
  BY DEF WorkerPop, GoWorker, wq_pop
<1>3. data[at] = x
  <2>1. (at + 0) % capacity = at
    BY <1>1
  <2>2. data[(at + 0) % capacity] = start - size + 0
    BY <1>1 DEF Data, QueueInOrder
  <2> QED
    BY <1>1, <2>1, <2>2
<1>4. u \notin InHand /\ InHand' = InHand \cup {u}
  BY <1>1, <1>2 DEF InHand
<1>5. QueueInOrder'
  <2>1. ASSUME NEW k \in 0..size'-1
        PROVE  data'[(at' + k) % capacity'] = start' - size' + k
    <3>1. k \in 0..capacity-1 /\ k + 1 < capacity /\ k + 1 \in 0..size-1
      BY <1>1, <1>2
    <3>2. (at' + k) % capacity' = (at + (k + 1)) % capacity
      BY <1>1, <1>2, <3>1, SlotsShift
    <3>3. data[(at + (k + 1)) % capacity] = start - size + (k + 1)
      BY <1>1, <3>1 DEF Data, QueueInOrder
    <3>4. start' - size' + k = start - size + (k + 1)
      BY <1>1, <1>2, <3>1
    <3> QED
      BY <1>2, <3>2, <3>3, <3>4
  <2>2. (at + 1) % capacity \in 0..capacity-1
    BY <1>1
  <2>3. size' <= capacity' /\ at' < capacity'
    BY <1>1, <1>2, <2>2
  <2> QED
    BY <2>1, <2>3 DEF QueueInOrder
<1>6. /\ arg.first <= x
      /\ Stored \cup Held = arg.first..(x - 1)
  <2>1. Cardinality(results) \in Nat
    BY FS_CardinalityType DEF Data, ValuesDistinct
  <2>2. Cardinality(results) + Cardinality(InHand) = x - arg.first
    BY DEF Data, ValuesConserved
  <2> QED
    BY <1>1, <2>1, <2>2, HandsFinite DEF Data, ValuesConserved, Stored, Held
<1>7. /\ v'[u] = x
      /\ \A w \in InHand : v'[w] = v[w] /\ v[w] # x
      /\ \A r \in results : r.value # x
  <2>1. v'[u] = x
    BY <1>1, <1>2, <1>3
  <2>2. \A w \in InHand : v'[w] = v[w]
    BY <1>1, <1>2, <1>4, HandsFinite
  <2>3. x \notin Stored \cup Held
    BY <1>1, <1>6
  <2> QED
    BY <2>1, <2>2, <2>3 DEF Stored, Held
<1> HIDE DEF x
<1>8. ValuesConserved'
  <2>1. { v'[w] : w \in InHand' } = Held \cup {x}
    BY <1>4, <1>7 DEF Held
  <2>2. arg'.first..(start' - size' - 1) = (arg.first..(x - 1)) \cup {x}
    BY <1>1, <1>2, <1>6 DEF x
  <2>3. { r.value : r \in results' } = Stored
    BY <1>2 DEF Stored
  <2>4. { r.value : r \in results' } \cup { v'[w] : w \in InHand' }
          = arg'.first..(start' - size' - 1)
    BY <1>6, <2>1, <2>2, <2>3
  <2>5. Cardinality(InHand') = Cardinality(InHand) + 1
    BY <1>4, HandsFinite, FS_AddElement
  <2>6. Cardinality(results') + Cardinality(InHand') = start' - size' - arg'.first
    <3>1. Cardinality(results) + Cardinality(InHand) = start - size - arg.first
      BY DEF Data, ValuesConserved
    <3>2. Cardinality(results) \in Nat
      BY FS_CardinalityType DEF Data, ValuesDistinct
    <3> QED
      BY <1>1, <1>2, <2>5, <3>1, <3>2, HandsFinite
  <2> QED
    BY <1>2, <2>4, <2>6 DEF Data, ValuesConserved
<1>9. ValuesDistinct'
  BY <1>2, <1>4, <1>7 DEF Data, ValuesDistinct
<1> QED
  BY <1>5, <1>8, <1>9 DEF Data

(* A result is stored: the value goes from the hand to the list.           *)
LEMMA StoreData ==
  ASSUME Control, Data, NEW u \in Worker, WorkerStore(u)
  PROVE  Data'
<1> DEFINE new == [value |-> v[u], is_prime |-> awful_is_prime(v[u])]
<1>1. /\ wpc \in [Worker -> WorkerPc] /\ wpc[u] = "store"
      /\ wpc' = [wpc EXCEPT ![u] = "check"]
      /\ results' = results \cup {new}
      /\ UNCHANGED <<queue, start, arg, v>>
  BY DEF WorkerStore, GoWorker, NewResult, Control, TypeOK
<1>2. u \in InHand /\ InHand' = InHand \ {u}
  BY <1>1 DEF InHand
<1>3. new.value = v[u] /\ new.is_prime = awful_is_prime(v[u])
  OBVIOUS
<1> HIDE DEF new
<1>4. new \notin results
  BY <1>2, <1>3 DEF Data, ValuesDistinct
<1>5. QueueInOrder'
  BY <1>1 DEF Data, QueueInOrder, queue
<1>6. ValuesConserved'
  <2>1. { r.value : r \in results' } = Stored \cup {v[u]}
    BY <1>1, <1>3 DEF Stored
  <2>2. { v'[w] : w \in InHand' } \cup {v[u]} = Held
    BY <1>1, <1>2 DEF Held
  <2>3. { r.value : r \in results' } \cup { v'[w] : w \in InHand' } = Stored \cup Held
    BY <2>1, <2>2
  <2>4. Cardinality(results') = Cardinality(results) + 1
    BY <1>1, <1>4, FS_AddElement DEF Data, ValuesDistinct
  <2>5. Cardinality(InHand') = Cardinality(InHand) - 1
    BY <1>2, HandsFinite, FS_RemoveElement
  <2>6. Cardinality(results') + Cardinality(InHand')
          = Cardinality(results) + Cardinality(InHand)
    <3>1. Cardinality(results) \in Nat
      BY FS_CardinalityType DEF Data, ValuesDistinct
    <3> QED
      BY <2>4, <2>5, <3>1, HandsFinite
  <2>7. \A r \in results' : r.is_prime = awful_is_prime(r.value)
    BY <1>1, <1>3 DEF Data, ValuesConserved
  <2>8. start' = start /\ size' = size /\ arg' = arg
    BY <1>1 DEF queue
  <2> QED
    BY <2>3, <2>6, <2>7, <2>8 DEF Data, ValuesConserved, Stored, Held
<1>7. ValuesDistinct'
  <2>1. IsFiniteSet(results')
    BY <1>1, FS_AddElement DEF Data, ValuesDistinct
  <2> QED
    BY <1>1, <1>2, <1>3, <2>1 DEF Data, ValuesDistinct
<1> QED
  BY <1>5, <1>6, <1>7 DEF Data

(* Initially. *)
LEMMA InitData == Init => Data
<1> SUFFICES ASSUME Init PROVE Data
  OBVIOUS
<1>1. /\ size = 0 /\ results = {} /\ InHand = {} /\ start = 0 /\ arg.first = 0
  BY DEF Init, InHand
<1>2. QueueInOrder
  BY <1>1 DEF QueueInOrder
<1>3. ValuesConserved
  <2>1. Cardinality(results) = 0 /\ Cardinality(InHand) = 0
    BY <1>1, FS_EmptySet
  <2>2. { r.value : r \in results } = {} /\ { v[w] : w \in InHand } = {}
    BY <1>1
  <2>3. arg.first..(start - size - 1) = {}
    BY <1>1
  <2> QED
    BY <1>1, <2>1, <2>2, <2>3 DEF ValuesConserved
<1>4. ValuesDistinct
  BY <1>1, FS_EmptySet DEF ValuesDistinct
<1> QED
  BY <1>2, <1>3, <1>4 DEF Data

LEMMA NextData == Control /\ Data /\ [Next]_vars => Data'
<1> SUFFICES ASSUME Control, Data, [Next]_vars PROVE Data'
  OBVIOUS
<1>1. CASE MainStep
  BY <1>1, ParseData, FillData, MainQuiet DEF MainStep
<1>2. ASSUME NEW w \in Worker, WorkerStep(w) PROVE Data'
  BY <1>2, WorkerQuiet, PopData, StoreData DEF WorkerStep
<1>3. CASE SpuriousWakeup \/ UNCHANGED vars
  <2>1. UNCHANGED <<queue, start, arg, results, v, wpc>>
    BY <1>3 DEF SpuriousWakeup, vars
  <2>2. InHand' = InHand
    BY <2>1 DEF InHand
  <2> QED
    BY <2>1, <2>2, SameData
<1> QED
  BY <1>1, <1>2, <1>3 DEF Next

(* The flags are set when everything is pushed and popped, and main prints *)
(* when every worker has left, so with nothing in hand.                    *)
LEMMA PrintedFromInvariants == Control /\ Data => PrintedComplete
<1> SUFFICES ASSUME Control, Data PROVE PrintedComplete
  OBVIOUS
<1>1. (\E w \in Worker : die[w]) => wq_empty /\ start > end
  BY DEF Control, WorkerPhase, MainPhase, wq_empty
<1>2. ASSUME mpc = "done"
      PROVE  { r.value : r \in results } = arg.first..end
  <2>1. InHand = {}
    <3>1. ASSUME NEW w \in Worker PROVE wpc[w] \in {"unborn", "exited"}
      <4>1. CASE wpc[w] = "unborn"
        BY <4>1
      <4>2. CASE wpc[w] # "unborn"
        <5>1. w \in 1..arg.workers
          BY <1>2, <4>2, Threads DEF Control, MainPhase, WorkerPhase
        <5> QED
          BY <1>2, <5>1 DEF Control, MainPhase
      <4> QED
        BY <4>1, <4>2
    <3> QED
      BY <3>1 DEF InHand
  <2>2. { v[w] : w \in InHand } = {}
    BY <2>1
  <2>3. size = 0 /\ start > end
    BY <1>2 DEF Control, MainPhase
  <2>4. { r.value : r \in results } = arg.first..(start - size - 1)
    BY <2>2 DEF Data, ValuesConserved
  <2>5. /\ start \in Int /\ end \in Int /\ arg.first \in Int
        /\ start <= end + 1 \/ start = arg.first
    BY DEF Control, TypeOK, Bounds
  <2>6. arg.first..(start - size - 1) = arg.first..end
    <3>1. start - size - 1 = start - 1
      BY <2>3, <2>5
    <3>2. CASE start <= end + 1
      <4>1. start - 1 = end
        BY <2>3, <2>5, <3>2
      <4> QED
        BY <3>1, <4>1
    <3>3. CASE start = arg.first
      <4>1. arg.first..(start - 1) = {} /\ arg.first..end = {}
        BY <2>3, <2>5, <3>3
      <4> QED
        BY <3>1, <4>1
    <3> QED
      BY <2>5, <3>2, <3>3
  <2> QED
    BY <2>4, <2>6
<1> QED
  BY <1>1, <1>2 DEF PrintedComplete

-----------------------------------------------------------------------------

(* NoStall's two parts, each preserved because of the control.             *)
AwakeForWork ==
  size > 0 /\ mpc \notin {"fill", "signal"}
    => \E w \in 1..arg.workers : w \notin not_empty
RoomIsTold == not_full => wq_full \/ \E w \in Worker : wpc[w] = "signal"

(* Workers fall asleep on an empty queue only, and main's signal wakes one *)
(* if all sleep.                                                           *)
LEMMA AwakeStep ==
  ASSUME Control, AwakeForWork, [Next]_vars
  PROVE  AwakeForWork'
<1> SUFFICES ASSUME size' > 0, mpc' \notin {"fill", "signal"}
             PROVE  \E w \in 1..arg'.workers : w \notin not_empty'
  BY DEF AwakeForWork
<1>1. CASE MainSignal
  <2>1. /\ arg' = arg /\ arg.workers \in 1..MaxWorkers
        /\ \A w \in not_empty : w \in 1..arg.workers
    BY <1>1, Threads
       DEF MainSignal, GoMain, Control, TypeOK, MainPhase, WorkerPhase
  <2>2. CASE not_empty = {}
    <3>1. 1 \in 1..arg.workers /\ 1 \notin not_empty'
      BY <1>1, <2>1, <2>2, Threads DEF MainSignal, SignalNotEmpty
    <3> QED
      BY <2>1, <3>1
  <2>3. CASE not_empty # {}
    BY <1>1, <2>1, <2>3 DEF MainSignal, SignalNotEmpty
  <2> QED
    BY <2>2, <2>3
<1>2. ASSUME NEW u \in Worker, Spawn(u)
      PROVE  \E w \in 1..arg'.workers : w \notin not_empty'
  <2>1. arg' = arg /\ not_empty' = not_empty /\ u \in 1..arg.workers
    BY <1>2, Threads DEF Spawn, sync, Control, TypeOK
  <2>2. wpc[u] = "unborn"
    BY <1>2, Threads DEF Spawn
  <2> QED
    BY <2>1, <2>2 DEF Control, WorkerPhase
<1>3. ASSUME NEW n \in WorkerArgs, NEW c \in CapacityArgs, NEW s \in StartArgs,
             NEW e \in EndArgs, Parse(n, c, s, e)
      PROVE  FALSE
  BY <1>3, SMT DEF Parse, GoMain, Control, MainPhase
<1>4. ASSUME NEW u \in Worker, WorkerPop(u)
      PROVE  \E w \in 1..arg'.workers : w \notin not_empty'
  <2>1. size > 0 /\ UNCHANGED <<arg, mpc, not_empty>>
    BY <1>4 DEF WorkerPop, wq_pop, Control, TypeOK
  <2> QED
    BY <2>1 DEF AwakeForWork
<1>5. ASSUME NEW u \in Worker, WorkerBlock(u)
      PROVE  FALSE
  BY <1>5 DEF WorkerBlock, GoWorker, queue, Control, WorkerPhase
<1>6. CASE Fill \/ FillEnd
  BY <1>6 DEF Fill, FillEnd, GoMain, Control, LockHeld
<1>7. CASE UNCHANGED vars
  BY <1>7 DEF vars, queue, sync, AwakeForWork
<1>8. ASSUME \/ \E n \in WorkerArgs : Usage(n)
             \/ \E w \in Worker : SetDie(w)
             \/ MainLock \/ MainTest \/ MainBlock
             \/ Drain \/ BroadcastDie \/ JoinAndPrint
             \/ SpuriousWakeup
             \/ \E u \in Worker : \/ WorkerLock(u) \/ WorkerCheck(u) \/ WorkerExit(u)
                                  \/ WorkerSignal(u) \/ WorkerStore(u)
      PROVE  \E w \in 1..arg'.workers : w \notin not_empty'
  <2>1. /\ UNCHANGED <<arg, size>> /\ not_empty' \subseteq not_empty
        /\ mpc \notin {"fill", "signal"}
    BY <1>8
       DEF Usage, SetDie, MainLock, MainTest, MainBlock, Drain, BroadcastDie,
                JoinAndPrint, SpuriousWakeup, WorkerLock, WorkerCheck, WorkerExit,
                WorkerSignal, WorkerStore, GoMain, queue, sync
  <2> QED
    BY <2>1 DEF AwakeForWork
<1> QED
  BY <1>1, <1>2, <1>3, <1>4, <1>5, <1>6, <1>7, <1>8
     DEF Next, MainStep, WorkerStep

(* Main goes to sleep on a full queue only, and who makes room is about to *)
(* wake it.                                                                *)
LEMMA RoomStep ==
  ASSUME Control, RoomIsTold, [Next]_vars
  PROVE  RoomIsTold'
<1> SUFFICES ASSUME not_full'
             PROVE  wq_full' \/ \E w \in Worker : wpc'[w] = "signal"
  BY DEF RoomIsTold
<1>0. not_full => mpc = "wait" /\ (wq_full \/ \E w \in Worker : wpc[w] = "signal")
  BY DEF Control, MainPhase, RoomIsTold
<1>1. CASE MainBlock
  BY <1>1 DEF MainBlock, GoMain, Control, MainPhase, wq_full, queue
<1>2. ASSUME NEW n \in WorkerArgs, NEW c \in CapacityArgs, NEW s \in StartArgs,
             NEW e \in EndArgs, Parse(n, c, s, e)
      PROVE  FALSE
  BY <1>0, <1>2, SMT DEF Parse, GoMain, sync
<1>3. ASSUME \/ \E n \in WorkerArgs : Usage(n)
             \/ \E w \in Worker : Spawn(w) \/ SetDie(w)
             \/ MainLock \/ MainTest \/ Fill \/ FillEnd \/ MainSignal
             \/ Drain \/ BroadcastDie \/ JoinAndPrint
      PROVE  FALSE
  BY <1>0, <1>3 DEF Usage, Spawn, SetDie, MainLock, MainTest, Fill, FillEnd,
     MainSignal, Drain, BroadcastDie, JoinAndPrint, GoMain, sync
<1>4. ASSUME NEW u \in Worker, WorkerPop(u)
      PROVE  wpc'[u] = "signal"
  BY <1>4 DEF WorkerPop, GoWorker, Control, TypeOK
<1>5. ASSUME NEW u \in Worker, WorkerSignal(u)
      PROVE  FALSE
  BY <1>5, Zenon DEF WorkerSignal
<1>6. ASSUME NEW u \in Worker,
             \/ WorkerLock(u) \/ WorkerCheck(u) \/ WorkerBlock(u) \/ WorkerExit(u)
             \/ WorkerStore(u)
      PROVE  wq_full' \/ \E w \in Worker : wpc'[w] = "signal"
  <2>1. not_full /\ UNCHANGED <<size, capacity>>
    BY <1>6
       DEF WorkerLock, WorkerCheck, WorkerBlock, WorkerExit, WorkerStore, queue,
                sync
  <2>2. \A w \in Worker : wpc[w] = "signal" => wpc'[w] = "signal"
    BY <1>6 DEF WorkerLock, WorkerCheck, WorkerBlock, WorkerExit, WorkerStore,
                GoWorker, Control, TypeOK
  <2> QED
    BY <1>0, <2>1, <2>2 DEF wq_full
<1>7. CASE SpuriousWakeup \/ UNCHANGED vars
  <2>1. not_full' = FALSE \/ not_full' = not_full
    BY <1>7, Zenon DEF SpuriousWakeup, vars, sync
  <2>2. UNCHANGED <<size, capacity, wpc>>
    BY <1>7 DEF SpuriousWakeup, vars, queue
  <2> QED
    BY <1>0, <2>1, <2>2 DEF wq_full
<1> QED
  BY <1>1, <1>2, <1>3, <1>4, <1>5, <1>6, <1>7 DEF Next, MainStep, WorkerStep

LEMMA NoStallParts == NoStall <=> AwakeForWork /\ RoomIsTold
BY DEF NoStall, AwakeForWork, RoomIsTold

-----------------------------------------------------------------------------

(* The inductive invariant. *)
IInv == Control /\ Data /\ NoStall

LEMMA InitIInv == Init => IInv
<1> SUFFICES ASSUME Init PROVE NoStall
  BY InitControl, InitData DEF IInv
<1> QED
  BY DEF Init, NoStall

LEMMA NextIInv == IInv /\ [Next]_vars => IInv'
<1> SUFFICES ASSUME IInv, [Next]_vars PROVE IInv'
  OBVIOUS
<1>1. Control' /\ Data'
  BY NextControl, NextData DEF IInv
<1>2. AwakeForWork' /\ RoomIsTold'
  BY NoStallParts, AwakeStep, RoomStep DEF IInv
<1>3. NoStall'
  BY <1>2 DEF NoStall, AwakeForWork, RoomIsTold
<1> QED
  BY <1>1, <1>3 DEF IInv

LEMMA AlwaysIInv == Spec => []IInv
BY InitIInv, NextIInv, PTL DEF Spec

(* Every variable keeps its type: at is the index of a slot, and size is   *)
(* never negative.                                                         *)
THEOREM TypeCorrect == Spec => []TypeOK
<1>1. IInv => TypeOK
  BY DEF IInv, Control
<1> QED
  BY <1>1, AlwaysIInv, PTL

(* The circular buffer (wq_push, wq_pop, the loops around them) is a       *)
(* bounded FIFO queue.                                                     *)
THEOREM FifoQueue == Spec => []QueueInOrder
<1>1. IInv => QueueInOrder
  BY DEF IInv, Data
<1> QED
  BY <1>1, AlwaysIInv, PTL

(* No value that left the queue is lost, duplicated or tested twice, and   *)
(* every verdict on the list is right.                                     *)
THEOREM NothingLost == Spec => []ValuesConserved
<1>1. IInv => ValuesConserved
  BY DEF IInv, Data
<1> QED
  BY <1>1, AlwaysIInv, PTL

(* main polls the size and sets the flags without the mutex, and the list  *)
(* it prints is complete all the same.                                     *)
THEOREM PrintsEverything == Spec => []PrintedComplete
<1>1. IInv => PrintedComplete
  BY PrintedFromInvariants DEF IInv
<1> QED
  BY <1>1, AlwaysIInv, PTL

(* With work in the queue somebody is awake, and main sleeps only while    *)
(* the queue is full or its signal is on the way.                          *)
THEOREM NeverStalls == Spec => []NoStall
<1>1. IInv => NoStall
  BY DEF IInv
<1> QED
  BY <1>1, AlwaysIInv, PTL

=============================================================================
