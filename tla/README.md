# Verification of the COSC 360 programs

The repository holds the C programs of a systems-programming course: labs under
`src/cs360/cc/ps/`, class exercises under `src/cs360/cc/ic/`, three more labs
under `src/unfiled/`. They are small programs that do hard things: threads
around a mutex and condition variables, processes around a message queue, a
semaphore and shared memory, a page allocator, circular buffers, a socket
server, a shell. The lab pages (`*.html`) say what each of them is to do.

This directory holds TLA+ models of these programs, the TLC configurations that
check them on small instances, and TLAPS proofs for instances of every size.
`PROJECT.json` maps every definition to the lines it translates.

    tlc -config ThreadPool.cfg MCThreadPool.tla     # one of the runs below
    tlapm ThreadPoolProofs.tla                      # the proofs

## 1. Inventory

| Component | Source | State | Operations | Models |
|---|---|---|---|---|
| Thread pool | `ps/thread_pools/tpool.c`, `ws.c` | indices next/done/total, batch, result array, die, mutex, two condition variables | open, execute, close, worker_thread | `ThreadPool`, `BatchService` |
| Prime work queue | `ic/final/zybook_probs/pthread_wq/PTWQ.c`, `ic/pthreads/workqueue/pthread_wq.c` | circular queue, result list, die flags, mutex, two condition variables | main, worker, push, pop | `WorkQueue` |
| Hash factor | `ps/hash_factor/sc.c`, `hfactor.c` | named message queue, semaphore, shared memory; processes | init, calculate, process, report, deinit | `HashFactor` |
| Ring buffer | `ps/ring_lab/ring.c` | at, size, capacity, array | new, free, push, pop, peek, ignore, read, write, clear | `RingBuffer`, `ByteQueue` |
| Vector | `ps/vector_lab/vector.c`, `vector_correct.c`, `main.c` | size, capacity, array | new, free, push, insert, remove, get, set, sort, find, bsearch, resize, reserve, shrink, clear | `VectorStore`, `ListStore` |
| C++-style strings | `ps/cpp_strings/stringer.c`, `ic/cpp_strings/cpp_strings.c` | text, length, capacity | new, realloc, free, push, append, prepend, clear, exactly | `CppString`, `ListStore` |
| Disk usage | `ps/disk_usage/burner.c`, `inconsistent.c`, `friend_help.c`, `du.c` | linked tree of directory entries | build_tree, free_tree, disk_usage, file_size | `DiskUsage` |
| Page allocator | `unfiled/lab5/pagealloc_another.c` | two bookkeeping bits per page, page count | init, deinit, alloc, free | `PageAlloc` |
| Unix-socket name server | `ps/sockets/server.c`, `scratch.c`, `helper.c` | listening socket, watched and ready descriptors, clients, stop flag | start, accept and greet, serve, disconnect, interrupt | `NameServer` |
| Shell | `ps/shelllab/helper.c` | job table, children, the parsed line, working directory | parse, run, redirect, background, reap, jobs, cd, exit, expand_variables | `ShellJobs`, `VariableExpansion` |
| Task queue | `ic/midterm2/practice/prompts/p4.c` | named message queue, semaphore, shared total; two children | open, produce, consume, wait, unlink | `TaskQueue` |
| Marshallers | `ic/midterm2/zybook_ex/marshaller.c`, `ic/Mqueues/shared_memory/marshaller.c`, `ic/midterm2/practice/marshaller_skele.c` | two names, children and their pids | create, fork and exec, collect | `Marshaller` |
| Other message-queue programs | `ic/Mqueues/ps/*.c`, `ic/IPC`, `p5.c` | - | most do not compile | not modelled |
| HTTP client, plugin lab, pthread, process, signal and file exercises | `ps/sockets/client.c`, `ps/plugin`, `ic/...` | none that several steps share | one-shot programs | not modelled |

Interactions. The components are separate programs; inside each, the parts meet
as follows.

* *Thread pool*: one user thread calls; the workers share one struct with it
  under one mutex. `job_available` goes from the user to the workers, `all_done`
  back. The jobs run, and the shutdown after a failed `pthread_create` happens,
  outside the mutex.
* *Work queue*: the marshaller fills the queue and workers empty it under one
  mutex; results go into a list under the same mutex. The emptiness poll, the
  die flags, the broadcast and both signals happen outside it.
* *Hash factor*: the parent talks to its workers through a bounded message
  queue; they talk back through shared memory under a semaphore; the parent reads
  it without the semaphore after `waitpid`. All three objects have names that
  outlive a run.
* *Ring buffer, page allocator, vector, strings, disk usage*: sequential
  libraries; the difficulty is in long mixes of calls, and for disk usage in what
  a directory may hold and the order in which `readdir` gives it out.
* *Name server*: one `select` loop over all clients, in which the handshake with a
  new client blocks everybody and descriptor numbers are used again. *Shell*:
  background children end at any time and are reaped at the next prompt; pids are
  used again. *Task queue*: producer, queue, consumer, semaphore and shared total,
  taken over by the next run. *Marshallers*: `waitpid` for a fork that failed takes
  some other child.

What is hard, and what makes each component correct:

| Component | Hard behaviours | Correct when |
|---|---|---|
| Thread pool | lost and spurious wake-ups, stale locals used after the unlock, a straggler of an earlier batch, shutdown | no job lost or doubled; results in order; execute and close return, and nobody touches the pool or the array afterwards |
| Work queue | work outside the mutex, one signal for a batch of pushes, capacity 0 | buffer is a FIFO; every value tested once; nothing printed too early; workers stop |
| Hash factor | load/store/count by several processes, blocked `mq_send`, leftovers of an interrupted run, failing calls | every factor reported once, none that is not one; a run ends; names are removed |
| Ring buffer | chunks that wrap | it is a bounded queue |
| Page allocator | search with skips, stale last bits, free | blocks are disjoint runs; free gives back exactly one block |
| Vector, strings | size, length and capacity changed by different rules; memory nobody has written | no access outside the block; every call is that of a list |
| Disk usage | unreadable entries, depth limit, links of the list | the tree has every path of the walk once, the sums are exact, free frees all |
| Name server | descriptor reuse inside a round, split and joined requests, silent clients, signals | no descriptor lost or used after close; answers match requests; all are served |
| Shell | full job table, reused pid, children ending at any time, tokens in any order | the table agrees with the kernel; no zombie stays; a command runs as typed |
| Task queue, marshallers | leftovers of an interrupted run, failing forks | the total is exact; no child is left behind |

`PROJECT.json` lists every hazard at its line with the properties that cover it.

## 2. Plan

Order: threads first (they are what a test cannot reach), then the processes,
then the sequential libraries, then the programs around sockets and children.

| # | Module | Abstract specification | Runs | Theorems | State |
|---|---|---|---|---|---|
| 1 | `ThreadPool` | `BatchService` | `pool`, `pool_open_hang` | type, job accounting, wake-ups, ownership, order, refinement | done |
| 2 | `WorkQueue` | - | `work_queue`, `work_queue_die_lost` | type, FIFO order, conservation, completeness of the printed list, no stall | done |
| 3 | `HashFactor` | - | `hash_factor`, `hash_factor_cleanup` | type, conservation of factors, complete report, no foreign factor, the first factor of hfactor.c | done |
| 4 | `RingBuffer` | `ByteQueue` | `containers` | index bounds; every step is a step of the queue | done |
| 5 | `PageAlloc` | - | `containers`, `page_free_too_much` | type, no leak, exact search, end marks | done |
| 6 | `VectorStore`, `CppString` | `ListStore` | `containers`, `vector_v` | vector and strings stay in bounds; vectors and strings refine the list | done |
| 7 | `NameServer` | - | `services` | type, descriptors, answers, no disconnection without cause | done |
| 8 | `ShellJobs`, `VariableExpansion` | - | `shell` | type, job table, the command typed; the expansion is in bounds and exact | done |
| 9 | `TaskQueue`, `Marshaller` | - | `shell` | `WorkersCollected` | done |
| 10 | `DiskUsage` | - | `containers`, `du_file_size` | the trees and the sums are exact | done |

`MCContainers`, `MCShell` and `MCServices` bring components that do not interact
into one run each: a variable `part` says which of them moves. In `MCContainers` the
constant `Parts` says which may, so that a run can be about one of them. In `MCHashFactor` a
variable `plan` says which calls are made and how many failures and interrupts there may be.

## 3. Modules, state and actions

Common conventions. One process, thread or caller is one program counter; an
action is what happens between two points at which another thread can interfere.
Code under a mutex is one action where it makes no blocking call. A condition
variable is the set of the threads blocked on it; `pthread_cond_wait` puts the
thread into the set and drops the mutex in one step, `signal` and `broadcast`
take threads out, and a thread outside the set competes for the mutex again. An
operator whose comment says "Mutant" or "A slip to catch" is not part of a model: it is a plausible
error used to show that a property can fail.

### `ThreadPool` (tpool.c, ws.c) and `BatchService`

The variables are the fields of `struct threadpool`, the mutex (`lock`), the
condition variables, and per thread its program counter and locals (`job[w]` is
`jid`, `val`, `exec`, `res`). Open is `OpenRejected`, `OpenStart`, `OpenCreate`
for each thread, `OpenCreateFails` and `OpenAbort`; execute is `Execute`,
`CallerLock`, `Publish` (lines 133-142 under the mutex), `Recheck` after a
wake-up; close is `Close`, `CallerLock`, `CloseDie`, `CloseFree`. The worker's
loop is `WorkerLock/Wait/Exit/Take/Run/Store`. `WorkerRunLate` is the one
difference of ws.c: it reads the value and the executor after the unlock. ws.c
also ignores the result of `pthread_create`, which is not modelled.

Abstracted: `hash32` and `hash64` are two executors of which only their identity
matters, values are model values. External: `pthread_mutex_*` and
`pthread_cond_wait`. One caller uses the handle, as the lab page says.

`BatchService` is what the user sees: opened, called, answered in full and in
order, closed. `ImplementsService` is the refinement, with its liveness.

### `WorkQueue` (PTWQ.c for main, pthread_wq.c for worker and queue)

`data`, `at`, `size`, `capacity` are the queue, `results` the list as a set of
nodes (its order is that of arrival and nothing depends on it), `die` the flags,
`mpc` the marshaller. The test of a waiting loop and the blocking call are two
steps, because flags and signals come without the mutex. The poll of line 179
sleeps between two reads, so it reads memory each time.

### `HashFactor` (sc.c, hfactor.c)

The three named objects are `linked` (which names exist), `mq`, `sem`, `count`
and `slots`; the processes are `ppc` and `wpc`. Each access to the shared memory
is a step (`LoadCount`, `StoreFactor`, `StoreCount`). Several runs follow one
another, each a process of its own, because what a run leaves is what the next
one opens: `OpenQueue`, `OpenSemaphore` and `OpenShared` take over what exists.
`...Fails` actions are the error returns with exactly the clean-up each of them
does; a bound limits them. `OpenSharedUnmapped` is the `mmap` whose failure
nobody is told. `Interrupt` is SIGINT: parent and workers end, names stay. When
the name of the queue is removed (`QueueRemoved`) under workers of an earlier run, those
that have opened the objects become `detached`. They keep the old objects and are not
followed any more: nobody can send to their queue, and what it still holds can reach only
a run that takes the memory over, not one that found no names. Those that are still at
their opens become `late`. sc.c opens by name, so a late worker joins the run that has the
names now, with the target it was forked with (`OpenAll`), fails when a name is missing
(`OpenMissing`), or has the old queue already (`OpenRemoved`). The three opens of a worker
are one step otherwise. `clean` says that a run found neither names nor late workers:
only of such a run can completeness be claimed.

`hfactor.c`, the version that was handed in, is `version = "graded"`. It has the
same steps but for six: `GradedOpenShared` does not zero the counter;
`GradedStore` stores a factor at the counter instead of behind it and never
counts; `GradedFault` is a store behind the mapping that ends the worker, the
semaphore taken (the other outcome, that nothing is seen of it, is in
`GradedStore`); `QuitStart` is the uninitialised index of the loop that sends the
zeros; `GradedReport` is the parent that writes into a pipe without a reader and
dies of SIGPIPE, `GradedReporterReturns` its child when `pipe` fails there.
`GradedWords` is smaller than `Words` so that the mapping is too small for a
factor. Bound: a store of sc.c behind its mapping is not followed (the guard of
`StoreFactor`).

Abstracted: the reporter process is what it is sent. Left out: `mq_receive` and
`mq_send` errors other than blocking, and the reporter's output, which sc.c sends
into a pipe that nobody reads (line 155), and the death of a single worker.

### `RingBuffer` (ring.c) and `ByteQueue`

One action per function with the two chunks of `rb_read` and `rb_write` computed
as in the code. `call` and `reply` keep the last call and its answer, in both
modules, so that a right answer to another call does not count; the answer of `rb_pop`
has the byte it delivers through its pointer, unless that is NULL. `ByteQueue` says what
the lab page says of each function. The code keeps to it but for `rb_peek` of an empty
buffer, which answers -1 and not 0: `ImplementsQueue` names it (`EmptyPeekDiffers`). Out of the model:
a failed allocation, which leaves no buffer and no state, and `rb_new(0)`, which
the code accepts although the block functions then compute `% 0`.

### `PageAlloc` (pagealloc_another.c)

`bookkeep` is the set of the bits that are 1, addressed as byte and bit the way
lines 42-58 compute them. `Search` follows the loop with its skips. `page_free`
does what line 197 does: it tests the bit that line 196 has cleared. `blocks` is
the user's side, the only variable the code does not have. `page_init_fails` is a
failed `mmap`, after which `num_page` is set and `bookkeep` is null;
`pages_taken` and `pages_free` then read through the null pointer, which is not
modelled. They change nothing otherwise and have no action.

### `VectorStore` (vector.c, vector_correct.c, main.c) and `ListStore`

`values` is the block as it was allocated, `vsize` and `vcapacity` the fields. Each
function is an action per version (`VectorPush`, `CorrectPush`, ...); arguments and
results go into `vecCall` and `vecAnswer`. A write outside the block sets `overrun`,
behind which nothing is modelled. `Shifted`, `Closed`, `Sorted`, `Halving` are the
block moves, the sort and the binary search. `VectorCommand` and `CorrectCommand` are the
commands of main.c. `ListStore` says what a list answers to the same calls, as the lab
page and the comments have it: an insert past the end appends, a `string_realloc` to a size
the text does not fit into cuts it. The code does neither. `VectorIsList` and `StringIsList`
name these two deviations (`InsertIgnored`, `NothingCut`) and hold every other call to the
list.

### `CppString` (stringer.c, cpp_strings.c)

`text` is the block, zero included; `capa` the field, which `string_prepend` does not
keep and `string_exactly` of stringer.c sets without freeing (`lost`). `outside` is an
access outside the block. `damaged` says that a call has relied on a capacity the
string had outgrown; up to there the string is a list, and nothing is claimed of
what comes then. `StringPrependFails` is the failed `realloc` that `string_prepend` of
stringer.c handles; nobody else checks one.

### `DiskUsage` (burner.c, inconsistent.c, friend_help.c, du.c)

`kind` and `up` are the file system: a file, a directory, one that cannot be opened
("closed"), something else such as a symbolic link ("other"), or an entry that
vanishes between `readdir` and `lstat` ("gone"; a failed `malloc` ends the same way).
The recursion of `build_tree` is the stack `frames`; `heap` holds the nodes that are
allocated, named by path, so a leak is a node that no link reaches. `BurnerCall`,
`InconsistentCall`, `FriendCall` and `DuCall` are what a call does at once; `ReadDir`,
`LinkChild`, `SkipChild`, `GiveUp`, `CloseDir` (and the `Friend...` actions for the
version that allocates a directory's node before it descends) are the loop.
`FreeTree` frees. `disk_usage` and `file_size` only read and are operators: recursive
functions on the nodes. `DiskUsageExact` leaves out one sum, that of `file_size` of
friend_help.c when the first entry is empty (`EmptyFirst`): see the run `du_file_size`.
What `free_tree` reaches, `Chain` and `Under`, is the least set
closed under the pointers it follows.
Abstracted: `st_blocks * 512` and `st_size` are both `FileSize`, given so that every set of
files has its own sum. An uninitialised size is 0 or 1. Left out: paths longer than
the buffer.

### `NameServer` (server.c, scratch.c, helper.c)

One server process and its clients. `Loop` is what the versions share: `Poll` (select),
`Accept`, `Serve`; they differ in the start, in the greeting (`GreetFive` waits a second
and reads five bytes, `GreetAll` reads what there is) and in the end. `owner` is the
kernel's descriptor table (the lowest free number is given out), `fds` and `temp` the
set watched and the set found ready. A client connects, sends (a greeting, a whole
request, half of one, BYE) and hangs up at any time. `Interrupt` and `Killed` are
SIGINT with and without the handler. `hasty` are clients that do not wait for the answer
of a request or send halves, `rude` those that send no greeting: history for the properties.

### `ShellJobs` and `VariableExpansion` (shelllab/helper.c)

`at` is where main is, `jobs` the table, `child` the kernel's view of every pid, which is
free again as soon as its process was waited for. The parser handles one token per
step; a child opens its input, its output, and execs, or ends when one fails.
`VariableExpansion` is `expand_variables`, one iteration per step, with the length of the
buffer. Abstracted: words are names, `$` handling is the other module's.

### `TaskQueue` (p4.c) and `Marshaller`

As `HashFactor`: objects with names, children as program counters, runs one after the
other, `TaskInterrupt` and failing forks. In `Marshaller` a failed fork leaves -1 in
`pids`, and `waitpid(-1)` then takes any child. The worker program is unknown, it only ends.

## 4. Runs

| Run | Bounds | Shows |
|---|---|---|
| `pool` | 3 threads, 2 batches of up to 3 values, 2 values, 2 executors, 1 spurious wake-up, a creation that fails at 0 | `JobsAccounted`, `NoUseAfterReturn`, `NoLostWakeup`, `ResultsOrdered`, `ImplementsService`; no deadlock |
| `pool_open_hang` | 2 threads, creation fails at 1 | open may never return (see section 7) |
| `work_queue` | up to 3 workers, capacity 0..2, 3 or 4 values, clamped arguments, 1 spurious wake-up | `QueueInOrder`, `ValuesConserved`, `PrintedComplete`, `NoStall`, `WorkFinishes` |
| `work_queue_die_lost` | 2 workers, 2 values | a worker may sleep through `die` |
| `hash_factor` | queue of 1, and either 2 runs, targets 6 and 8 (hfactor.c: 6), 1 or 2 workers, 1 failure, 1 interrupt, or 3 runs, targets 4 or 6, then 8, up to 3 workers, 2 failures | `FactorsConserved`, `ReportComplete`, `NoForeignFactor`, `Finishes`, `FirstFactorStays` |
| `hash_factor_cleanup` | the same, sc.c without interrupts | names stay linked when fork fails |
| `containers` | rings of 1..4 bytes, calls of up to 5; vectors of up to 3 elements of 2 values, strings of up to 4 characters, 4 texts, both versions of each; trees of up to 4 paths of 5 kinds, depths 0..3, 4 versions; pools of 2 and 6 pages (1 and 262145 are refused), 4 pointers, requests of 0..7 pages | index bounds, `ImplementsQueue`, `VectorInBounds`, `VectorIsList`, `StaysInside`, `StringIsList`, `DiskUsageExact`, `NoLeak`, `SearchExact`, `LastMarked` |
| `vector_v` | vector_correct.c | a push writes past the block |
| `du_file_size` | friend_help.c as in `containers` | `file_size` depends on what `readdir` lists first |
| `services` | 3 versions, 2 clients that send up to 3 times, 1 or 2 descriptors, a signal | `DescriptorsHeld`, `AnswersMatchRequests`, `ClosedForCause`, `ClientsServed` |
| `shell` | 2 pids, a table of 2, argv of 3, so commands of up to two arguments, lines of up to 4 tokens; words of up to 4 characters; p4.c twice with 3 items; 2 runs of 3 marshallers with up to 3 workers | `JobsMatchChildren`, `CommandIsLine`, `ZombiesReaped`, `ExpansionInBounds`, `ExpansionExact`, `TaskTotal`, `WorkersCollected` |
| `page_free_too_much` | the same pools, 3 pointers | a free takes pages of other blocks |

Why the bounds are enough for the cases that matter. *pool*: three workers are
the least for which one stores, one runs and one waits at once; two batches are
the least for a straggler of an earlier one; three values exceed two workers and
equal three; the indices are proved for every size anyway. *work_queue*: the
values exceed the capacity, so the marshaller blocks and the buffer wraps; the
capacity 0 is the case in which it waits for ever, excluded from `WorkFinishes`
only. *hash_factor*: the candidates exceed the queue, so `mq_send` blocks; 6 has
the factor 3, which 8 has not, so a leftover shows; two workers are the least for
a race; in hfactor.c 3 can be the first factor and is then beyond `GradedWords`. Three
runs are the least in which a late worker meets a run that is not its own and whose names
are not those it was forked under; three workers and a queue of one
message the least for a survivor that takes its zero and leaves two that fill the queue
(in the code that takes eleven failed workers).
*containers*: for the ring, calls longer than every capacity and every position of the data in
arrays of up to four slots, with -1 as a byte, which is also what `rb_peek` answers
for an empty buffer; vectors and strings grow from 0 through two reallocations; a
directory of three entries is the least with a middle one, and two below the root
the least in which the depth limit cuts. *services*: one descriptor makes two clients compete, two make
one be greeted while the other is ready; three messages are a greeting and two
halves. *shell*: with as many pids as slots a pid comes back while its old entry is
still there; four tokens are a command and a redirection whose name is an operator;
`NameMax` 2 cuts a name of three. In *containers* `SearchExact` covers every set of taken pages
of the pool, whether it can arise or not; six pages span two bookkeeping bytes.

Deadlock is checked in `pool`. The other programs end, or block for
good in a case that is listed (capacity 0; no worker started; hfactor.c without a
zero), and liveness properties say where they must not.

Fairness is weak fairness of each thread's or process's own steps and of nothing
else: the operating system runs whatever can run. The user's calls, failures,
interrupts and spurious wake-ups are never forced, so no property relies on
them, except that the bounded choice of hash factor's parent between success and
failure of a call is one step, which it takes. A signal wakes any one waiter,
and a mutex goes to any thread that wants it; where several compete, weak
fairness of each suffices because every critical section ends and every program
runs out of work.

The shell's fairness is that of its main loop (a prompt that gets no line stays a
prompt: `ZombiesReaped` assumes that it comes round), the name server's that of
the server alone: no client has to send anything, and silence ends with the one-second
timeout of select.

Every property of a passing run has a mutant in `PROJECT.json`, a small change of
the modelled code with which TLC finds the property violated.

## 5. Proofs

`ThreadPoolProofs` proves, from `BoundsAssumption` alone (1 to 32 threads, any
sets of values and executors, batches of any size, any number of batches and
spurious wake-ups):

* `TypeCorrect`, `JobsSafe`, `WakeupsSafe`, `OwnershipSafe`, `OrderSafe`: the
  five invariants of the run `pool`;
* `PoolRefinesService`: initial states and steps of the pool are those of
  `BatchService` under the mapping of `ThreadPool` (the safety part of
  `ImplementsService`).

The argument. None of these is inductive alone. `IInv` adds to `TypeOK`,
`JobsAccounted` and `NoLostWakeup`:

* `LockHeld`: a thread holds the mutex exactly at the program points inside a
  critical section. Without it two workers could take the same index.
* `CallerPhase`: outside the waiting loop of execute `done = total`, so no job is
  in flight when the next batch is published; inside it the published batch is
  the caller's; `die` is only set on the way out.
* `WorkerPhase`: a result in hand is the executor's for the value of that index;
  only created threads run; a thread in the set of a condition variable waits.

`JobsAccounted` carries the count: `next = done + |in flight|`. With `done = total`
and `next <= total` nothing is in flight (`BatchComplete`): that is why the array
is the user's again when execute returns (`OwnershipSafe`), why every slot holds
its result then (`OrderSafe`), and why `Return` of `BatchService` is matched by the
last pass of the waiting loop (`PoolRefinesService`). There is one lemma per
action; `NextIInv` puts them together.

`ContainerProofs` proves the ring, the vectors and the strings. The ring is proved for
every capacity and every set of bytes (`CapacityAssumption`: capacity > 0; `ByteAssumption`). `TypeOK` is itself
inductive: that `head` and `tail` stay slot numbers and `size` stays at most the
capacity needs nothing else (`TypeCorrect`). For the refinement
(`RingRefinesQueue`) the unread bytes are the sequence `Ring(b, a, s, c)`: the
`s` slots from `a` on, modulo `c`. The proof rests on facts about indices modulo
the capacity (`IndexWraps`, `IndexTwice`, `IndexDiffers`: fewer than `c` apart,
two indices name two slots), on what dropping from the front and appending at the
back do to `Ring` (`RingDrop`, `RingAppend`), and on `SlotsRight`: the one or two
chunks `rb_write` copies leave the new bytes in the slots behind the old ones and
the old ones where they were. Each operation of `RingBuffer` is then the
operation of `ByteQueue` with the same call and the same reply, the byte of `rb_pop`
included (`UnreadHead`: the slot `at` holds the oldest unread byte), but for the one
`EmptyPeekDiffers` names.

`WorkQueueProofs` proves the five invariants of the run `work_queue` from
`ArgsAssumption` (at least one worker may be asked for; any integers as the other
arguments): `TypeCorrect`, `FifoQueue`, `NothingLost`, `PrintsEverything`,
`NeverStalls`. The invariant is built in two storeys. `Control` (types, who holds
the mutex, what each program point of main and of a worker knows, bounds) is
inductive by itself, one lemma per action; its core is that a worker goes to sleep
on an empty queue only, and that behind the poll `start > end` and `size = 0` hold
for good although main reads both without the mutex. `Data` (queue order,
conservation, and that no value is at two places) is inductive given `Control`: a
popped value exceeds everything that left the queue before, so what is in hand and
on the list stays distinct and the counts add up. `NoStall` needs `Control` only:
the signal after filling wakes a worker if all sleep (`AwakeStep`), and main sleeps
on a full queue until a worker that made room signals (`RoomStep`).

`HashFactorProofs` proves the five safety properties of `HashFactor` that its runs check, for any
number of runs, workers and targets, any queue length and any size of the shared
memory. `Typed` (types, and at which program points which object is open) is
inductive by itself. `Base` and `Inv` add what an interrupted run may leave: workers
of another run are gone, `detached` or `late`, those that have the objects have the ones
with the names (`Linked`), the semaphore is at most 1, and the counter is
reset before the first worker is forked (`NeverForeign`). `Alone`: in a run that found
neither names nor late workers, nobody runs but its own workers. `FreshInv` describes such
a run: the queue is a final piece of what was sent, zeros behind
candidates; the candidates sent are those in the queue, those with a worker and those
done; and of the divisors done the memory has each once, except the one whose store is
under way (`FactorsAlwaysConserved`). `ReportsComplete` follows because a worker ends on
a zero only, which is behind all candidates. `FirstFactorAlwaysStays` is the graded
version's lost update, for as long as no worker is `detached`: what one does with an old
semaphore and a memory that was taken over is not modelled.

`PageAllocProofs` proves the four invariants of `PageAlloc` (its type is `PagesTypeOK`) for every size of the
pool, every number of pointers and every request. What `Search` computes is
proved by the least counterexample: the recursive function exists, never skips the
start of a run that is long enough, and stops at the first (`SearchAlwaysExact`). `Inv`
says that each block is a run of pages and that a taken page is in a block, which
survives the `page_free` that frees too much.

`ShellProofs` proves of the shell, for every set of pids, size of the table and of argv
and set of lines, that main's arrays stay in bounds (`ShellTypeCorrect`) and that the
table agrees with the kernel (`JobsAlwaysMatch`, itself inductive with the types: a pid
has one active entry at most, so `reap_zombies` marks the right one). `CommandAlwaysLine`
is about parseline: `Parsed` says that what was parsed so far means what the tokens read so far
mean, and `NameAfter`, that a token is a file name exactly when the one before is a
bare redirection and no name itself, is what carries it past each token. Of
`expand_variables`, for every word and environment: `ExpansionStaysInBounds` and
`ExpansionAlwaysExact`; its invariant `ExpandInv` says that the output so far is the
specified expansion of the part that was read. Of the marshallers:
`WorkersAlwaysCollected`; the point of `MarshalInv` is that each wait for -1 takes a worker whose own
wait then returns at once.

`NameServerProofs` proves the types, `DescriptorsHeld`, `AnswersMatchRequests` and
`ClosedForCause` for every set of connections and descriptors and anything
clients may say. `NSInv` has three parts. `Held`: the descriptors open are those
watched and the one being greeted, and each belongs to one connection. `Found`: what
select has found ready is still open, and what is there to be read does not go away.
`Books`: for each client, how what it said, what it has been answered and what waits in
its socket are related (`Told`), and for a client that waits for its answers that at most one
request is under way (`Asking`).

Of the vectors and strings `ContainerProofs` proves that vector.c never leaves its block (`VectorStaysInBounds`), that the
vectors of both versions refine `ListStore` up to a write outside the block
(`VectorsAreLists`) and, for both string libraries, `StaysInside` and the same refinement
(`StringsAreLists`), each but for its named deviation: initial state and every step, through
the instances `L` and `C`. `VectorInv`
says that the elements in use are in the block, whose length is the capacity, until
vector_correct.c has written outside it; each call then leaves the list that the list's call
leaves (`VecKept`). For sort the proof counts ranks: an element that comes before another has
the smaller rank, so ranks are a permutation (`Ranks`). For bsearch it shows that the
recursive function exists (`HalvingSolved`) and that what it misses in a window of a
sorted vector is not there (`HalvedFinds`), by the smallest window. `StrInv` says that a string whose calls never relied on a
capacity it had outgrown holds its characters, none of them zero, and the zero behind
them; each call is then the list's call of the same name (`Kept`). `StrLenIs` is why
`string_push` finds the end.

`DiskUsageProofs` proves `DiskUsageExact` of the four versions (`TreesAreExact`) for every
number of paths, every directory tree over them, every `max_depth`, every size of the
files and every order of `readdir`. The property itself speaks of a finished walk and is
far from inductive; `TreeInv` describes a walk under way. `FramesOK`: the open
directories are a path of the tree, and `depth` plus the level of each is `max_depth`.
`NodeHeap`: a node is wanted, its directory has one, type and size are right; those not
yet linked have no `next`. `NodeComplete`: of a directory with a node nothing is missing
but what is still to be read and the entry `build_tree` is called for; in inconsistent.c
that holds for every entry, wanted or not, until a call fails (`Failed`), which is why it
returns all or nothing. `NodePrev`: `prev` is NULL or the last node of the list. `Lists`: each
linked node is the first of its directory or the `next` of another one in it, and there are
positions that grow along `next`, so that no list runs into itself. The positions are a
witness chosen anew in each step, not a variable. For friend_help.c the same parts
(`FriendHeap`, ..., `FriendFirst`) say where a list starts while its directory is open: in
`head`, then in `ret`, then in `contents`. There is a lemma for each way a call goes on
(`NodeReturnsNull`, `NodeOpens`, `FriendAppended`, ...); `DuKept` puts them together.
What is built is then read off: `ChainOfList` (the chain of a directory is what it holds),
`ReachSplits` and `ListUsageIs` (each node is counted once, so the recursive sum is the
size of the set), `WholeTree` (a set of paths that misses no first path misses none).

Assumptions. All are the named `ASSUME`s of the modules and TLC evaluates them in the
runs: constants are sets of numbers or of the words a client may say, sizes are
natural numbers, characters are not zero. Three sets are named only so that
sequences have a type (`Chars` and `Texts` in the shell's modules, `Tokens` in
`NameServer`).

Induction over data. The induction theorems of the library take an operator as a
parameter and cannot be used; where a proof needs induction it takes the least
counterexample instead (`WFMin` with the order of the natural numbers), which also shows
that a recursive function exists.

Only model-checked: liveness (the fairness part of `ImplementsService`,
`WorkFinishes`, `Finishes`, `ClientsServed`, `ZombiesReaped`, `TaskTotal`) and deadlock freedom, which
need fairness and ENABLED. Every other property of a passing run is a theorem.

## 6. Not modelled

* Memory exhaustion: unchecked `malloc`/`calloc` results (`tpool.c:128`) end in a
  null access; a failed allocation that the code handles is an action.
* `pthread_create` failing in ws.c and in the work queue, which both ignore it and
  join an identifier that was never set.
* The error exits of `mq_receive` and `mq_send` (`p4.c:75-78`, sc.c:44-47): no state of the
  models makes these calls fail.
* Two user threads in `thread_pool_execute` at once: the handle is documented for
  one.
* Programs that no compiler accepts, so that there is no behaviour to follow:
  `thread_pools/attempt.c`, `shelllab/shell.c`, `shell/shell.c`, `Mqueues/ps/sender.c`,
  `correct_sender.c`, `receiver.c`, `prompts/p5.c`, `pthreads/ic2.c`, `plugin/main.c`. Unfinished copies
  (`pagealloc_attempt_1.c`, `unfiled/lab6/hfactor.c`, `PT1.c`).
* `IPC/ipc_cont/IPC/working.c`: a consumer whose producer is not in the repository.
* The HTTP client (`sockets/client.c`, `C1.c`), the plugin filters, the exercises
  around one system call each: I/O of one process, no state that several steps share.
* After an access outside a block (`overrun`, `outside`) nothing: what the program does
  then is undefined.

## 7. Disagreements between code and documents

Shown by a run:

* `pool_open_hang` (tpool.c:109): when a later `pthread_create` fails, `die` is set
  without a broadcast and open joins workers that sleep.
* `work_queue_die_lost` (PTWQ.c:184): the flags and the broadcast come without the
  mutex, between a worker's test and its wait.
* `page_free_too_much` (pagealloc_another.c:197): the end of a block is never
  recognised; `page_free` goes on through the blocks behind it.
* `hash_factor_cleanup` (sc.c:208): a failed fork returns without `hfactor_deinit`.
* `vector_v` (vector_correct.c:50): a push into a full vector sets the size to the new
  capacity and stores one past the block.
* `du_file_size` (friend_help.c:112): `file_size` is 0 when the first entry is an empty file or
  an empty directory, whatever files follow it; `Disk Usage (POSIX Files_Directories).html:940` says
  it is the sum of the files of the level.

Without a run. The first four are named in a property of `containers`, as the one exception
to what the abstract specification promises:

* `rb_peek` answers -1 for an empty buffer (ring.c:98), where `ps/ring_lab/Ring Buffers.html:1106`
  says 0 (`EmptyPeekDiffers` in `ImplementsQueue`).
* An insert past the end of vector.c is ignored (68), where `Vectors in C.html:1121` appends
  (`InsertIgnored` in `VectorIsList`).
* A text that does not fit into the size `string_realloc` is asked for stays as it is
  (stringer.c:47), against the comment of lines 38-39 (`NothingCut` in `StringIsList`).
* `string_prepend` leaves `capacity` as it was (stringer.c:114): a push or a `string_realloc`
  behind it may leave the block (`damaged` in `StaysInside` and `StringIsList`).
* The offset basis of `hash64` lacks a digit (tpool.c:195 and Thread Pools.html:1639).
* `hfactor.c`, a second version of the hash factor program, does not increment
  the counter (73-75), does not zero it (127), forks the reporter before it makes
  the pipes (151-156) and starts the sentinel loop at an uninitialised index (260).
* `du.c:27` inverts the test of `lstat`, against the comment of line 26: nothing that
  exists has a tree. `inconsistent.c:55-58` loses the node of a directory that cannot be
  opened, and returns NULL for every tree deeper than `max_depth`. `friend_help.c:57-66` crashes
  on a symbolic link between two other entries. `DiskUsageExact` names all three.
* `vector.c:213` doubles in `vector_resize`, where the page (1272-1275) sets the capacity
  asked for; `vector_correct.c:82` underflows when an empty vector is asked to remove (page: 1132).
* `string_exactly` (stringer.c:128-133) drops the old text.
* `server.c` never registers its handler of SIGINT, so an interrupt leaves the socket file,
  which keeps the next run from listening (`SocketRemoved` in `NameServer` states the
  contrary and is not part of a run). `helper.c` (sockets) goes back to `select` after every
  accept, so without free descriptors its clients are not served any more.
* The marshallers leave their two names behind (the unlinks are commented out, 108-119), so that
  the second run of the same names fails.
