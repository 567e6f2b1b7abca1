# Formal models of Linux_programing

The repository is a collection of independent Linux programming exercises in C++: processes that share
memory, semaphores, pipes, FIFOs, queues and sockets, threads, and programs on files. There are no tests;
the specification of an exercise is the Vietnamese comment above it. This directory holds TLA+ models of
the exercises, TLC configurations that check small instances of them, and machine-checked proofs about
those where every size of the instance matters.

Lines are cited as `file:line` relative to `src/`. The relation between definitions and source lines is in
`PROJECT.json` ("map").

## 1. Inventory

The parts do not call each other: every exercise is a program of its own (or one `ecN` function that its
`main` calls). What they share is the kernel, and names in it: `/tmp/myfifo` is used by several exercises of
`pipe_fifo`, one POSIX queue name and one System V key by both queue exercises, one socket path by every
server and client.

| Component | State it keeps | Operations | What is hard | What makes it correct | Modelled in |
|---|---|---|---|---|---|
| `semaphore/producer_consumer`: ring and semaphores | ring in shared memory (`buffer`, two indices), `sem_mutex`, `sem_full`, `sem_empty`, loop counter of each process | `push`, `pop`, the two loops | three producers and a consumer in any order; ring holds one value less than the semaphore admits; loop bounds that do not match | mutual exclusion, no unit lost, FIFO order, the loops end | `RingBuffer`, `ProducerConsumer`, `FlowControl` |
| the same: life of the program | `CHILD_PROCESES` (one copy per process), `shm_fd`, pointers to the semaphores, names in the kernel | set-up, `create_producer`, `create_consumer`, wait loop, clean-up, `handle_sigint` | SIGINT at any line and to any process, failing calls, names that outlive a killed run, an iterator used after `erase` | nothing runs on after Ctrl+C, nothing is left for the next run to trip over, the program ends | `ProducerConsumerApp` |
| `semaphore/reader_writer` | reader count, message buffer, `sem_mutex`, `sem_write` | `create_reader`, `create_writer`, `handle_siginit` | first and last reader act for the group | read-write exclusion, whole messages, no deadlock | `ReadersWriters`, `ReadWriteLock` |
| `exercise/ov_ec` ec6 | descriptors and pids in `Resource_guard`, epoll's ready list, `handle` | `pipe2`/`fork` loop, epoll loop, destructor | which process holds which pipe end decides who sees end of file; early returns | each message counted once, everything released, the loop ends | `EpollCollector` |
| `exercise/ov_ec` ec1, ec2, ec4, ec5 | two files, a directory | copy loops, comparison, listing with `lstat` and `readlink` | failing reads and short writes, ends at a chunk's boundary, a directory others change | the copy is the file, the verdict is true, the listing has what stays | `Files` |
| `pipe_fifo` ec4, ec5 (`read.cpp`, `write.cpp`) | FIFO, two pipes, select set | fork/exec of two programs, relay loop | FIFO open order, inherited pipe ends, end of the loop at the first pipe that ends | the parent returns if the programs met | `PipeRelay`, `Fifo`, `FifoRelay` |
| `pipe_fifo` ec6 | FIFO | three non-blocking writers, a reader that reads once | ENXIO, SIGPIPE, lost messages | prints a prefix, returns | `Fifo`, `FifoGather` |
| `pipe_fifo` ec1-ec3, `exercise/pipe` | one to three pipes, children | ping, ping-pong, `ls` into `grep`, a pipeline of four programs | each end closed in the right processes | all output arrives, nobody waits for ever or dies of SIGPIPE | `Processes`, `Pipes`, `PipeExercises` |
| `process`, `exercise/shell_mini` | fork trees; the prompt loop | fork, exec, wait, getline | a failing fork in the middle, a line without a word, the end of the input | children reported and waited for | `Processes`, `ProcessExercises` |
| `share_memory` (`main`, `write.cpp`, `read.cpp`) | semaphore and memory by name, two pipes | create, fork/exec, relay, unlink | unlink before the programs are waited for, Ctrl+C with the semaphore taken, re-run | no half message, names there while needed | `PipeRelay`, `SharedMessage` |
| `message_queue` | kernel queues by name or key | send, receive, unlink, `IPC_RMID` | two programs on one queue, a queue pulled away from a receiver | each run gets a message, nothing is left behind | `Processes`, `Queues` |
| `socket` | a name, a backlog, one connection | server and client | several clients of a server that serves one, two servers on one name | a client is answered by the server it reached, or another came first | `Pipes`, `Sockets` |
| `thread` | shared counter, mutex, condition variable | threads with and without lock; wait and notify | data race, spurious wakeup, early notification | exact count with lock, the consumer goes on only when ready | `Threads` |
| `Hello_world_kernel` | none | load, unload message | - | - | no |

`exercise/ov_ec/test.txt` describes a monitoring daemon that is not in the repository.

The hazards of this code, each at its line and with the properties that cover it, are listed in
`PROJECT.json` ("hazards").

## 2. Modules

```
RingBuffer  <-EXTENDS-  ProducerConsumer  <-EXTENDS-  ProducerConsumerApp  <-  MCProducerConsumerApp
                          |  ^                                   ^-----------  ProducerConsumerProofs
                          |  '---------- EXTENDS ----  MCProducerConsumer
                          '-INSTANCE-> FlowControl        (abstract: a bounded channel)

ReadersWriters -INSTANCE-> ReadWriteLock                  (abstract: read-write lock)
EpollCollector        Threads        Files
PipeRelay + Fifo -> FifoRelay        PipeRelay -> SharedMessage        Fifo + Gathered -> FifoGather
                        '------------ FifoProofs -------------INSTANCE------------'

Processes <- Pipes <- PipeExercises <-.
    ^          ^----- Sockets       <-+- Exercises <- MCExercises
    +---------------- Queues        <-+
    '---------------- ProcessExercises'

<Module>Proofs holds the theorems about <Module>; FifoProofs those about FifoRelay and FifoGather.
ExercisesInvariants holds the invariants that ExercisesProofs proves.
```

**RingBuffer** is `RingBuffer.cpp`. `push` and `pop` are two steps each (the slot, then the index), since the
class does not protect itself; `is_full` keeps one slot free, and `pop` looks at nothing, as in the code.
`Contents` is the abstract value: the sequence between the indices.

**ProducerConsumer** is what the children run (`main.cpp:55-66`, `:77-89`). `pc` names the next step of a
process; each `sem_wait`, each `sem_post` and each half of `push`/`pop` is one step. A refused push
(`PushRefused`) logs and posts exactly as a stored one does, because the code cannot tell. `queue` (values
logged as added and not yet popped) and `dropped` (refused pushes) are history: no guard reads them. Each
process prints its line inside the critical section, so the log's order is that of `queue`.

**FlowControl** is what the ring and the two counting semaphores promise together, a bounded channel: a value
is added only while fewer than `Capacity` are outstanding; whoever takes one finds one that was added and not
taken; and it is the oldest, until the first value is lost, which is exactly the first to be added while
`Capacity - 1` are outstanding. `ProducerConsumer` maps a finished push to `Put`, stored or refused, a finished pop
to `Get`, with the value that was read from the slot, and the end of the consumer's turn to `Finish`. The channel
keeps its own record of what is outstanding, so a pop with nothing added is a step it does not have.

**ProducerConsumerApp** adds `main()` and the signal handler.
- `ShmOpen`, `Keep`, `MapRing`, `OpenSems`, `CheckSems` are lines 97-118. A call that creates a name and the
  store of its result are two steps, since `handle_sigint` removes what `main` has *stored* (`held`), not what
  exists (`linked`). A failing `shm_open` or `mmap` returns with the names left as they are; a failing
  `sem_open` goes on and ends in `CheckSems`. `sem_open(O_CREAT)` of an existing name keeps its value
  (`Opened`).
- `Fork` and `Register` are the two halves of `create_producer`/`create_consumer` in the parent; a failing
  fork is ignored, as `main` does. A pending signal makes the kernel restart `fork`, so the window of the
  handler is between fork and `push_back`.
- `WaitChild`, `Erase`, `PastEnd`, `LeaveLoop` are the wait loop. `erase(it)` followed by `++it` skips a
  child. With an odd number of entries the iterator passes `end()`, which is undefined behaviour; `PastEnd`
  stands for its outcomes (a crash or an endless loop that somebody kills) as an abandoned run.
- `MainHandlesSigint` and `ChildHandlesSigint` are the handler, in a child on the list inherited at its fork.
- `Interrupt` (SIGINT to the group, to main alone or to one child alone), `KillGroup` (SIGKILL) and `RunAgain`
  (a further run on what is left in the kernel) are the environment.

**ReadersWriters** is `semaphore/reader_writer/main.cpp`. The buffer is written and read in two halves, so
that overlapping accesses show. `readers++`, the test and the wait on `sem_write` are separate steps.
`Interrupt` is `handle_siginit`. **ReadWriteLock** is the requirement of lines 22-28.

**EpollCollector** is ec6 of `exercise/ov_ec/main.cpp` with `Resource_guard`. `rd[j]` and `wr[j]` are the
processes that hold an end of pipe j: they follow from `pipe2`, `fork`, `remove_fd`, the destructor and exit.
epoll is level triggered: a ready pipe returns to the ready list until its end was read. A failing
`epoll_ctl` is only logged, a failing `pipe2` or `fork` returns through the destructor.

**PipeRelay** is the parent of ec4, ec5 and of `share_memory` ec1: fork two programs, close the write ends,
`select`, one `read` per selected pipe, leave at the first end of file. `leaky` says whether each child keeps
the ends of the other child's pipe it inherited: they decide when a pipe ends (`CanBeWritten`) and whether a
program dies of SIGPIPE (`CanBeRead`). **Fifo** is the kernel's FIFO. A program whose `execvp` fails exits (`ExecFails`). **FifoRelay** adds `read.cpp` and
`write.cpp`; ec4 and ec5 are the two initial states. `Setup` is `mkfifo` and the two pipes; when a pipe fails, ec5
prints and goes on with descriptors that nobody set (`main.cpp:290-292`), and the behaviour ends there, in `unset`.
The sleeps are no synchronisation: either program may open first, and a writer that does is `missed`. **FifoGather** is ec6; what was written and printed there,
and `PrintsPrefix` about it, are in **Gathered**. **SharedMessage** adds the named
semaphore and memory to the relay; the message is copied in two halves.

**Processes** is the part of the kernel that the remaining programs use: a process is the sequence of calls
it has still to make (`todo`), so that each program is a *script*, a constant that reads like its source, call
by call, and each call is an action (`Fork`, `Exec`, `Exit`, `Close`, `Waitpid`, `Unlink`). A call that may fail
carries what the program does then; nothing there means that the code does not look. A fork hands down the
open descriptors. **Pipes** adds bounded pipes with inherited ends, SIGPIPE and end of file, **Queues** POSIX
and System V queues, in which a send waits for room: `MaxMsg` stands for `mq_maxmsg`, `MaxKeyed` for what the
kernel allows a System V queue, **Sockets** listening sockets with a backlog and connections made of two pipes. The
scripts are in **PipeExercises** (`pipe_fifo` ec1-ec3, `exercise/pipe`), **ProcessExercises** (`process`,
`shell_mini`, whose loop is the action `Getline`), **Queues** and **Sockets**. **Exercises** starts them alone
or several at once on the same names (`Companies`), and states their properties.

**Threads** is `thread/main.cpp` ec2 and ec3. `counter++` is a load and a store (`Load`, `Store`), the data race
their interleaving: the repository's makefiles do not optimise. `wait` with a predicate is `Test`, `Block`,
`WakeUp`, `Relock`, with spurious wakeups.

**Files** is `ov_ec` ec1, ec2, ec4 and ec5. A round of a loop on files nobody else touches is one step. A read
may return -1 in any round, a write may be short. ec1 keeps the result of `read` in an `unsigned long`
(`Kept`), so that -1 is a large length. In ec4 `Change` is somebody else at work in the directory between
`readdir`, `lstat` and `readlink`; an owner or a group without a name, or a failing lookup, is a null pointer that
ends the program in the middle of the listing (`NullOwner`, `crashed`).

Data are abstract: a message is its sender (and a number modulo `Kinds` in `ReadersWriters`), the 128- and
256-byte buffers are read and written whole or in two halves, and output is what was said, not its wording.

## 3. Runs

All properties below hold unless the run is marked as a violation. Where a run has no separate type invariant,
`TypeOK` is a conjunct of the property named.

| Run | Instance | What it asks |
|---|---|---|
| `producer_consumer` | 3 producers, 1 consumer, `BUF_SIZE` 3, `LOOP_VALUE` 2 | `MutualExclusion`, `Accounting`, `FifoUntilFirstDrop`: the discipline of the semaphores. `RingDrift`: what a refused push does for good. `LeftoverAtExit`: two items always remain. `Termination` under weak fairness. `ImplementsFlowControl`: refinement. |
| `app` | 1 producer, 1 consumer, `BUF_SIZE` 2, `LOOP_VALUE` 0, 3 disturbances, 3 runs | `CoreHolds` (with the types): every run that follows only completed and interrupted ones satisfies the core's invariants. `EscapedOnlyUnregistered`: the exact window of the orphan. `InterruptEndsAll`, `AppCompletes`. |
| `app_awaited` (violation) | 3 producers, 1 consumer | line 127 says that main waits for its children; it waits for two of four. |
| `readers_writers` | 3 readers, 2 writers, `Kinds` 2, SIGINT | `NoTornRead`, `CountAndOwner`, `ImplementsLock` (refinement), `ReadersServed`. |
| `epoll_collector` | 3 children, 1 failing call, 1 killed child | `CountsMessages` (with the types), `Released`, `OrderedOnceWatched`, `Returns`. |
| `fifo_gather` | 3 writers, 1 failing fork | `PrintsPrefix`, `ReturnsIfMet`. |
| `fifo_relay` | ec4 and ec5, either program first, 2 failing calls (`mkfifo`, `pipe`, fork, exec) | `StopsAtEof` (with the types), `ReturnsIfMet`. `EndsUnlessStranded`: the relay ends, or its reader waits in `open` for a writer that came too early or never. |
| `shared_message` | 1 failing call, Ctrl+C anywhere, 2 runs | `CopiesWhole`, `NamesAwaitPrograms` (with the types), `Completes`. |
| `shared_stale` (violation) | 2 runs | line 27: the last run prints. Not after a Ctrl+C between `sem_wait` and `sem_post`. |
| `exercises` | 14 programs alone, pairs and triples on one name; queues with room for one message; 4 inputs of the shell; 2 failing calls, 2 kills | `PipesDeliver`: all that was written is read, in order, and no SIGPIPE without a cause. `ChildrenAwaited`: each exit code is reported as long as no call fails, and whatever fails no child is left behind except in the cases named. `QueuesServe` (with the types): nothing is left behind, a failed receive is the end of another program that has received and removed the queue, and no send waits for room unless more programs meet than the queue has room for. `ClientsServed`: a waiting server can be found, whoever answers has read the request, an unanswered client came second. `Completes`: nobody waits for ever except in the cases named. |
| `threads` | 3 threads, 3 additions each, 2 spurious wakeups | `RacyBounds`: between 2 and 9 without the lock, and the bounds are stated for all sizes. `LockedExact`, `GoesOnWhenReady`, `Ends`. |
| `files` | all pairs of files of up to 5 bytes in chunks of 2, all directories of 3 names (absent, file, link, owner without a name), 1 failure, 2 changes | `CopiesWhole`, `VerdictTrue` (with the types), `ListsWhatStays`, `CopyStops`. |

**Bounds, and why they are enough.**
- `BUF_SIZE` 3 (10 in the code) gives a ring of two values, so an empty ring, a full one, wrap-around and a
  push refused because `sem_empty` admits a third all occur; with `LOOP_VALUE` 2 (10000 in the code) nine
  values are pushed into a ring of three slots, so both indices wrap more than once. The safety properties are
  proved for every value of both.
- `app` uses one child of each kind because its questions are about signals: two entries in the list show
  `erase`/`++`, one entry after a failed fork shows the iterator past the end. `MaxDisturbances` 3 allows a
  kill, then an interrupt, then a failing call, in any order over `MaxRuns` 3 runs; three are needed for a
  run after two that ended differently. The violation run uses the four children of `main()`.
- `readers_writers` has the three readers and two writers of lines 40-41; two kinds of message per writer
  tell a message from the one before.
- `epoll_collector` has three children where the code has two, for an order among two watched messages and a
  third pipe; `MaxFailures` and `MaxDeaths` bound what only the environment does.
- In `exercises` a pipe holds one message (`Capacity` 1) and the first program of a pipeline prints two lines
  (`Lines` 2), so that writers block on a full pipe. Every program runs alone; queues and sockets also in
  the companies that can disturb each other: two runs of one program, two programs on one key, one server with
  two clients, two servers with one client. Two failing calls and two kills hit any two points. At most three
  queues are created (`MaxQueues`), one for each time the name can be found free. `MaxMsg` and `MaxKeyed` are 1, so
that two programs on one name fill a queue and a child waits in its send, as eleven do with `mq_maxmsg` 10.
- `fifo_relay` has two failing calls, so that a fork and an exec, or both execs, can fail in one run.
- `threads` has three threads, because two cannot overwrite a third's additions; `Rounds` 3 makes the first,
  a middle and the last addition differ. 100 and 1000 in the code; what the lock gives is proved for all.
- `files` has two full chunks and one byte (`MaxSize` 5, `Chunk` 2), so files end inside, at and after a chunk's
  boundary. `ULong` 8 is any number above the chunk's size and one: -1 modulo it must be larger than a chunk.
- The others have the numbers of processes that the code has. A pipe's content is bounded by what its program
  prints.

`CHECK_DEADLOCK FALSE` is used where the program may really stop for ever or has ended: in `app` (ended, or
waiting after a failed fork), in the FIFO, epoll and shared-memory runs (a reader that waits in `open`,
a collector that waits for a message which will not come), in `exercises`, `threads` and `files`, whose
programs end. `producer_consumer` checks deadlock, with the end of all processes as an explicit stutter. So does
`readers_writers`, but there the check decides nothing, as SIGINT is possible in every state; that nobody is stuck
is what `ReadersServed` says there.

**Fairness.** Each process or thread has weak fairness on its own next step: the scheduler does not stop a
process that can run. Failures, signals, kills and further runs are never forced. In `app` main and its
children each have one fair action which includes the delivery of a pending signal. `readers_writers` alone
has strong fairness, on the three waits of a reader and the wait of a writer: the waiters of a
semaphore are served in the end if it is posted again and again, since the poster sleeps for seconds while
the kernel wakes a waiter. No other model takes a sleep for an order. Only readers are promised service under it: overlapping readers can keep
`sem_write` taken for ever, so writers may starve, and no property says otherwise. In `producer_consumer`,
`exercises` and `threads` weak fairness suffices, because the number of steps is bounded, or the waits are.

## 4. Proofs

All proofs are about the safety part of a specification (`SafeSpec`, or `Spec` without its fairness) and use the
named assumptions on the constants only.

| Module | Theorem | States |
|---|---|---|
| `ProducerConsumerProofs` | `TypeCorrect` | `[]TypeOK`: in particular both counting semaphores stay within `BUF_SIZE` |
| | `MutualExclusionHolds`, `AccountingHolds` | `[]MutualExclusion`, `[]Accounting` |
| | `FifoHolds` | `[]FifoUntilFirstDrop`, the ring's contents and the consumer's order |
| | `RingDriftHolds` | `[]RingDrift` |
| | `Refinement` | `ImplementsFlowControl` |
| | `LeftoverHolds` | `[]LeftoverAtExit`, for three producers and one consumer |
| | `CoreHoldsInApp`, `EscapedOnlyUnregisteredHolds` | `[]CoreHolds`, `[]EscapedOnlyUnregistered` |
| `ReadersWritersProofs` | `TypeCorrect`, `NoTornReadHolds`, `CountAndOwnerHolds` | `[]TypeOK`, `[]NoTornRead`, `[]CountAndOwner` |
| | `Refinement` | `ImplementsLock` |
| `ThreadsProofs` | `TypeCorrect`, `NoneLostHolds`, `LockedExactHolds`, `GoesOnWhenReadyHolds` | `[]TypeOK`, `[]NoneLost`, `[]LockedExact`, `[]GoesOnWhenReady` |
| | `RacyBoundsHold` | `[]RacyBounds` |
| `FifoProofs` | `PrintsPrefixHolds` | `[]PrintsPrefix` and the types, of `FifoGather` |
| | `StopsAtEofHolds` | `[]StopsAtEof`, of `FifoRelay` |
| `FilesProofs` | `CopiesWholeHolds`, `VerdictTrueHolds`, `ListsWhatStaysHolds` | `[]CopiesWhole`, `[]VerdictTrue`, `[]ListsWhatStays` |
| `SharedMessageProofs` | `CopiesWholeHolds`, `NamesAwaitProgramsHolds` | `[]CopiesWhole`, `[]NamesAwaitPrograms` |
| `EpollCollectorProofs` | `ReleasedHolds` | `[]Released` |
| | `CountsMessagesHolds`, `OrderedHolds` | `[]CountsMessages`, `[]OrderedOnceWatched` |
| `ExercisesProofs` | `ClientsServedHolds`, `ChildrenAwaitedHolds` | `[]ClientsServed`, `[]ChildrenAwaited` |
| | `QueuesServeHolds` | `[]QueuesServe`, with the types of all the exercises |

**ProducerConsumerProofs**, for every finite set of producers and of consumers, every `BUF_SIZE >= 1` and every
`LOOP_VALUE`, rests on `IInv == Types /\ MutualExclusion /\ Accounting /\ RingInv`:

- `TypeOK` is not inductive. That `sem_full` does not pass `BUF_SIZE` is a consequence of `Accounting`, so
  `Types` only says that the semaphores are natural numbers, and the bounds are derived.
- `Accounting` speaks of the cardinality of the sets of processes that carry a unit. Each step moves one
  process into or out of one of these sets (`HolderMoves`), so the sums stay equal. Its consequence
  (`Outstanding`) is that a process inside `push` finds `Len(queue) < BUF_SIZE` and one inside `pop`
  `queue # <<>>`: the guards of `Put` and `Get` in the refinement.
- `RingInv` says that, as long as no push was refused, the indices delimit `queue` and the slots hold it, and
  that what a process has stored or read but not yet published is still in its slot: this needs mutual
  exclusion. `Distances` and `FullCircle` are its arithmetic: two different offsets below `BUF_SIZE` are two
  different slots.
- `RingDrift` needs one more invariant, `Drift`: the distance of the indices and the length of `queue` less
  the refused pushes differ by whole turns of the ring (`WholeTurns`).
- `Refinement` maps a consumer that has popped to a taker that holds the value (`Held`). That a consumer's value is
  one that was added follows from `FifoUntilFirstDrop` until the first loss, and from `PushedValues` after it: the
  ring holds loop counters only (`CountersInRange`). That a value is lost exactly when `BUF_SIZE - 1` are outstanding
  is `FullWhen`.
- `LeftoverAtExit` needs a count of a whole execution. `Moved(P)` is the set of pairs of a process of P and a turn
  in which it has added or popped; a step that does adds one pair (`OneMore`), so `Len(queue)` is a difference of
  two cardinalities (`Outflow`). At the end both sets are products, of known size (`TurnsTaken`, `AllMoved`).
  `LeftAtExit` gives the number for any processes; it is 2 for those that main creates, which are the theorem's
  only hypothesis.

Its second part is about **ProducerConsumerApp**, for any children in any order of creation, and any number of disturbances and of
runs. The invariant of the processes alone (`IInv` above) is carried over to the program around them; what is
added says why each run can rely on it:
- `Fresh`: during the set-up there is no child, and main holds only semaphores that it has opened.
- `Untouched`: while children work main holds all three semaphores, so each regular end and the handler unlink
  what a child may have changed; a semaphore that an interrupted set-up leaves behind has its initial value,
  which `sem_open` then finds. A run cut off before its clean-up (`abandoned`) breaks this, in the code as in the model.
- `CoreInv`: hence `IInv` holds from the first fork until the last child has ended, in every run. `SemRanges`
  and `CoreTypes` are what is left when no child runs, and after an abandoned run.
- `Listed`: a running child is in `CHILD_PROCESES`, but the one whose `push_back` is still to come. `erase`
  drops only the entry that was just reaped (`ElementsErase`), so this survives the skipping iterator.

**ReadersWritersProofs**, for all finite sets of readers and writers:
`IInv == Types /\ Mutex /\ Counting /\ Owner /\ Whole`. `Mutex`: `sem_mutex` is 0 exactly while one thread is
between its wait and its post. `Counting`: `readers` is a cardinality. `Owner`: `sem_write` is 0 exactly while
one writer is inside or the group owns it, where the group owns it from the first reader's wait to the last
one's post (`Group`); `NoTornRead` alone says nothing of who waits. `Whole` is what the buffer holds between a
writer's two halves.

**ThreadsProofs**, for any number of threads and additions: `IInv` has types, who can be where, that the mutex's
holder is the one inside, and that under the lock what a thread loaded is still the counter (`Fresh`).
`LockedExact` needs a count: each thread's additions made, `Rounds - left[t]`, are pairs of a set `Done`, and the
counter is its cardinality (`CInv`); when all have ended that is the whole product. Without the lock (`Overwritten`)
nobody writes more than the number of additions made; whoever has made one of its own stores a value it loaded
when the counter was positive, so a store that writes 1 is some thread's first, and with two rounds or more the
last store of all is nobody's first.

**FifoProofs**. Of `FifoGather`, for every list of writers: until the parent reads, nobody opens before it and all that was
written is in the FIFO; from then on what was printed stays a prefix of what was written.
Of `FifoRelay`, for any number of failing forks and execs: as in `SharedMessage` below, a pipe that `select` found readable
has a line or has ended (`SelectedForAReason`), and no write end comes back once the parent has closed its own; so
the read that returns nothing is the end of a program, in ec4 of both (`Silent`).

**FilesProofs**, for files, buffers and directories of any size:
- `Copied`: what was written is the file up to the offset, and the loop ends only where the file does, unless a
  read failed in ec5; ec1 takes -1 for a length, so it stops at the end only.
- `Agree`: the two files are equal as far as they were read, which is to a chunk's end, or to the end of
  both. `NextMultiple` and `MinOfSet` are its arithmetic. From it follows for which files each verdict is given,
  with `WholeChunks` as the border: before it a difference is found at its byte, in a short last chunk behind it
  only the lengths are compared.
- `Listing`: of an entry nobody touched the line is still to come, at hand, or made, unless the listing was cut
  short at an entry without an owner's name, which has no line.

**SharedMessageProofs**, for any number of failures and runs: the types, that at most one program is between
`sem_wait` and `sem_post` and the semaphore is 0 then (`Exclusive`), and `HalfOnlyTaken`: half a message in the
memory is one that the writer is at, or one behind a semaphore nobody will post, or in a memory that has no
name any more and that no program will map. `NamesAwaitPrograms` rests on `SelectedForAReason`: a pipe that
`select` found readable has a line, or has ended; that the children are leaky means it ends with both programs.

**EpollCollectorProofs**, for any number of children, failures and kills: only a running child holds an end,
whoever made it inherit the end; after the destructor closed the parent's, the parent makes no further pipe; and
a child that is not reaped is in `pid_list` or was forked this moment (`Known`). When the destructor has emptied
the list, nobody is left to hold anything. The counts and the order rest on `MInv`: a message sent is in its pipe or
printed, never both (`SentOK`); a watched pipe that holds one is in the ready list (`ReadyOK`), where it is at most
once; an event not yet looked at still has its message (`EventsOK`); and while a message sent under watch is
unprinted, the later ones come behind it, in the ready list and among the events (`Order`). What `epoll_wait` takes
from the list is a choice of positions in their order (`Live`), which keeps the proof free of recursion.

**ExercisesProofs**, for every company of the fourteen programs, of any size, every input of the shell, and any
number of failing calls and of kills. The assumptions are `CompanyAssumption` (companies consist of these programs,
the POSIX name, the key and the socket's path differ, and `Nobody`, what a failed receive gives, is no message) and
that the bounds are natural numbers. Two things keep the proof from being an
enumeration of the control states of fourteen programs:
- Of a process that runs neither `Server` nor `Client` it is only said that its calls are none on sockets
  (`ForeignScript`). That each program's script is of this kind is shown from the script alone
  (`ProgramsAreForeign`), what a fork, a failed call or a line of the shell makes of it remains of this kind, and a
  step of it leaves the connections alone (`StrangerKeeps`).
- A server and a client are followed from place to place in their scripts (`ToBind`, ..., `ToFail`). What each call
  does at its place is a lemma of its own (`Binds`, `Accepts`, `Sends`, ...).

The invariant then has four parts. `ServerOK` and `ClientOK`: which place goes with which descriptors, backlog and
received messages; a server holds the ends of all clients in its backlog until it hangs up. `Connections`: a client
that waits does so at one server, which has not answered it. `Reachable`: the name leads to the server that
listens, or another one has removed or bound it. `Patience` is the hard one, about undisturbed runs only: a client
reads an end of file or dies of SIGPIPE only when its server has closed all, and a server gets there only after
serving some client; if this was the client itself, its answer is in the pipe already. `ClientsServed` needs it for
every place of a client, also those where it still waits.

`ChildrenAwaited` rests on a second invariant, `KidsInv`, about parents and children. What a process has `Forked` and
what of it is `Alive` is related to the rest of its script (`ScriptOK`), never to a list of places:
- A careful script (`CarefulScript`) waits for each child that it has forked or will fork (`WaitsFor`, `WaitsLater`),
  whatever fork, pipe or open fails on the way; that each program's script is careful is shown of the script alone
  (`PingOK`, ..., `Ec4OK`). Ec5 waits for any child, so its waits are counted against its children (`Ec5Waits`).
  Ec5 and ListGrep (`Hasty`) return when a later fork fails, and are followed only while nothing has.
- `Printed`: what a parent has reported are the codes of the children it has waited for, and no others.
- A child's own step changes nothing that its parent's clause speaks of but the child's state (`KidStep`), and a
  program without children is a stranger to all this (`ForksKids`).

`QueuesServe` rests on a third invariant, `QInv`, which uses the first. `TypeOK`, `NothingLeft`,
`MessageOrRemoval` and `SendsHaveRoom` are not inductive, and none of them says where anybody is:
- `QueueMainOK` and `QueueKidOK` relate the place of a main process and of its child in their scripts to what they
  have open and have received: between its open and its close or removal a main process holds exactly one queue,
  and past its receive it has received something, if only the failure.
- `MessagesOK`: a queue holds a child's message only if that child has sent it (`HasSent`), and once, so messages are
  distinct and number at most the programs that run (`DistinctIsShort`, by the pigeonhole principle), and fewer
  while a child has still to send. So a send waits only when more programs meet at one name than the queue has room
  for (`RoomIsThere`), eleven for `mq_maxmsg` 10.
- `Parted`: queues found by the key and queues found by the POSIX name are never the same, though both are numbers of
  one counter; only the former are removed. `RemovedAtEnd`: once a queue is removed, some program with the key has received and has
  nothing left to do but exit (`HasLeft`). `PulledAway`: whoever received nothing in `SysV` holds a removed queue while
  it runs, and the program that has left is another one, since it was itself still at its receive
  (`FetchedWorld`).
- `QueueNamesHeld`: in an undisturbed run a name in use has a main process that is still to take it away, of the same
  queue for the key; a program that finds the name free makes a new queue and takes that on. With `SocketNameHeld`
  for servers this gives `NothingLeft` when everybody has ended.
- Who uses neither queues nor sockets (`Apart`) has only calls left that leave both alone, exits with known codes and
  writes messages (`BasicScript`), as is shown of each script (`ProgramsAreBasic`).
TLC checked `QInv` on the companies of `MCExercises` before it was proved.

The definitions of the three invariants and of their parts are in `ExercisesInvariants`; `ExercisesProofs` holds
only lemmas and theorems.

## 5. What is model-checked only

- Liveness (`Termination`, `AppCompletes`, `InterruptEndsAll`, `ReadersServed`, `Returns`, `ReturnsIfMet`,
  `EndsUnlessStranded`, both `Completes`, `Ends`, `CopyStops`): fairness and `ENABLED` are out of the prover's
  reach.
- `PipesDeliver` of `Exercises`: what is in each pipe at each place of four fixed scripts, which TLC enumerates.

## 6. Where the code differs from its comments

Two differences are shown by violation runs (section 3). The following were met while modelling. Where a
property is named, it states what does hold.

Producer and consumer (`semaphore/producer_consumer/main.cpp`)
- Line 61 logs a value as added that was not stored, since the semaphore admits `BUF_SIZE` values (114) into a
  ring that holds one less (`RingDrift`).
- Line 30 says that the handler closes the children; one forked and not yet listed (67) is not
  (`EscapedOnlyUnregistered`).
- After SIGKILL the names remain, and the next run opens semaphores with stale values, possibly with the mutex
  taken (112; line 111 says "create"). `CoreHolds` therefore exempts runs after an abandoned one.
- `handle_sigint` signals pids that were already waited for (32), between lines 129 and 130 in main, and in
  every child for children that ended before.
- After a failed fork the children wait for ever, and main with them (121).

Readers and writers (`semaphore/reader_writer/main.cpp`): readers that overlap starve a writer (78); the handler
destroys semaphores that threads wait on (98), which POSIX leaves undefined.

`exercise/ov_ec/main.cpp`
- ec6 prints messages sent before their pipes are registered in the order of registration; line 195 asks for the
  order in which they were sent (`OrderedOnceWatched`).
- Line 44 asks ec2 for the first position that differs. When one file ends inside a chunk and the other goes on,
  60-68 print which is longer, even if an earlier byte of that chunk differs; when it ends with a chunk, the two are
  called the same (58-86). `VerdictTrue` says for which files each answer is given.
- ec1 loops for ever on a file whose reads keep failing, a directory say (33; `CopyStops`).
- ec4 prints a target that was never read when a link is replaced between `lstat` and `readlink` (142;
  `ListsWhatStays`). An owner or group without a name, or whose lookup fails, is a null pointer that ends the program
  (135-136): the entries behind it are not listed, which `ListsWhatStays` states too.

`pipe_fifo`
- ec4 hangs when its writer opens first (`main.cpp:183`, `write.cpp:9`; line 183 says that the reader prints), and
  so does ec5, whose `sleep(10)` only makes that unlikely. Both hang when the exec of `write` fails (232, 326) while the
  reader is in its `open` (`Stranded`, `EndsUnlessStranded`).
- ec5 goes on when a pipe fails (290-292), with descriptors that were never set.
- ec6 reads once, so later messages are lost and their writers die of SIGPIPE; if all writers open before the
  reader, it waits in `open` for ever (392, 428, 430; line 377 says that all data are printed).
- Buffers are printed as strings without a zero after what was read (36, 432).
- When the second fork of ec3 or ec4 fails, the first child is not waited for (156, 219; `ChildrenAwaited`).
- ec5's children close each other's pipe ends (351), so the loop may end while the other still writes.

`share_memory`: line 29 says that only the reader unlinks the memory; the parent does (`main.cpp:119-121`), and not
the reader. Only `sleep(1)` puts the writer before the reader (`main.cpp:72`): the reader may copy the empty
memory; a reader whose `mmap` failed faults with the semaphore taken (`read.cpp:54`).

`message_queue`: every System V program has the same key, since nobody makes the file for `ftok`
(`sys_v.cpp:14`), so that two programs meet on one queue, and the one that removes it leaves the other with a message that was never
set; `Hello_MQ` goes on to receive after a failed fork
(`main.cpp:66`).

`exercise/shell_mini/main.cpp`: a line of blanks faults the child (34); at the end of the input the shell spins, or
runs an unfinished last line again and again (12).

`socket`: a server that dies of SIGPIPE, because its client went away, leaves its name behind (`server.cpp:38`).

## 7. Not modelled

- `Hello_world_kernel`: a kernel module that prints on load and unload has no state.
- `thread` ec1: two threads that print and share nothing.
- `exercise/pipe`: `kill_process` is never called; after a failing `pipe2` (88) `main` goes on with descriptors
  that were never set, whatever they are.
- `pipe_fifo` ec5: what it does with the descriptors that a failing pipe left unset.
- `ov_ec`: a read that returns fewer bytes than it was asked for before the end of the file, as reads of regular files
  do not.
- `message_queue`: a failing `msgget`, whose -1 every later call would be given.
- `share_memory`: the parts under `SYS_V`, which are not compiled.
- What the calls into the C++ library from a signal handler do (`producer_consumer/main.cpp:31`) when they
  interrupt the same library: undefined, and not expressible as steps of this code.
- What the kernel does inside a call, beyond what the programs can see of it, and the wording of output.

## 8. Plan

Done: all components of section 1, the abstract specifications, and the proofs of section 4.
