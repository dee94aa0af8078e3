# A verification of sysprogram

`sysprogram` is a collection of small Linux system programs in C, with some
Python: there is no central application.  The modules here model the programs
that have state which several processes or threads share, one module per
program (or per pair of programs that talk to each other), check them with TLC
on small instances, and prove the most important of their properties with TLAPS
for every value of the constants.

* [The system](#the-system)
* [The modules and the code](#the-modules-and-the-code)
* [The runs](#the-runs)
* [Fairness](#fairness)
* [The proofs](#the-proofs)
* [Where code and documentation disagree](#where-code-and-documentation-disagree)
* [What is not modelled](#what-is-not-modelled)
* [Plan](#plan)

## The system

| part | files | state it keeps | operations | what is hard | what makes it correct |
|---|---|---|---|---|---|
| parking lot | `os/osprj/parking.c` | two named semaphores that outlive a run; parent and child processes | start (unlink, open, fork), enter, leave, SIGINT, clean-up | two-step operations, killed runs, orphans, names left over, failed forks | spaces are conserved; a run has semaphores of its own; neither end blocks for good |
| crossing | `os/osprj/cross_criticalsection.c` | the light, one mutex and condition variable, one mutex per direction | rotate the light, wait for green, pass | wake-ups, light read before and used after an unlock | no lost wake-up, every group turns green, one group passes at a time |
| shared-memory buffer | `ipc/shm/producer.c`, `consumer.c` | three named semaphores, a ring with two indices | start, produce, consume, unlink | two programs started in any order and any number of times, kills in the critical section | a bounded queue; slots are conserved |
| dining philosophers | `os/assignment/philosophier.c` | five named semaphores | pick up, put down | deadlock, runs that share the names | a chopstick has one holder; no circular wait |
| buffer with condition variables | `thread/producerconsumer_cond.c` | a count, a mutex, two condition variables | produce, consume | signals sent at the edges only, spurious wake-ups | the three requirements in its header; no lost wake-up |
| ticket servers | `ipc/fifo` and `ipc/fifo/example`: a multi-threaded and a sequential server each, with a client | a counter, a mutex, named FIFOs | request, serve (in a thread), answer | blocking opens, SIGPIPE, deaths, several servers under one name | tickets are sold once; a client gets its own answer, and gets one |
| average and text servers | `practice/practice5a`, `practice/practice6/fina2s.c`, `fina2c.c` | one request variable read by all threads | request, compute, answer | the variable changes under a thread | a client gets the answer to its own request |
| message-queue servers | `practice/practice5b` | queues under names that come and go, one request variable | request, compute, answer | a shared reply queue, a shared variable, replies left by the dead | a client gets the answer to its own request, and gets one |
| task pipes | `practice/practice4` | one pipe per task and two tables; two FIFOs | write a message, read and parse; request and reply | several messages in one read; opens that wait for each other | the parent finds out; a line gets its own reply |
| buffers with a count | `practice/practice3b`, `thread/produconsu*.c`, `producerconsumer1.c` | a count, a mutex, conditions | produce, consume by many threads | one signal at a time, a minimum above 0, polling | count within bounds, never back below the minimum; no lost wake-up |
| counters | `thread/thread1.c`, `thread_teacher.c`, `practice/practice3a` | a count | increment, join, print | a load and a store that interleave | the sum where there is a mutex |
| message-queue semaphore | `os/assignment/semaphore.c`, `test.c` | tokens in a message queue that nobody removes | open, wait, signal | a second open adds tokens | one token per run |
| message batches | `ipc/mq`, `practice/practice5b/mqname_*.c` | a queue, its name | write, count, read | a count that is read before it is used, a full queue, a name removed in use | counted messages are there; a writer gets through |
| shared counter | `practice/practice6/pr62*.c` | a number in shared memory between three semaphores | produce, consume | restarts over what a kill left, opens that straddle a restart | the number stays in its range |
| shared records | `practice/practice6/pr61*.c` | an array in shared memory, a semaphore | fill, copy, remove the names | names removed between two opens | all records or none |
| single-lane bridge | `os/osprj/single_lane_*.c` | a FIFO that is made by each bridge | enter, pass | opens that wait, SIGPIPE, a name of a dead bridge | the end of the bridge reaches the entrances |
| ping-pong | `ipc/pipe/pipe_pingpong.c` | two pipes with four ends in each process | read, write, close | ends that are not closed | the end of one process reaches the other |
| file locks | `ipc/filelock` | a lock, a pid file | lock, truncate, write | steps between lock and pid, death of the holder | one instance, named by the file |
| timestamp ordering | `ddbprj/tso.py` | two timestamps per item | read, write | a read timestamp that goes back | accepted in timestamp order |
| algorithms | `algorithm` | local data | queue, sorting, matrix chains, graphs | a queue that is full, boundaries, loops that must end | sorted, shortest, spanning; agrees with a reference |
| files, processes, strings | `filepath`, `process`, `practice/*.c` | none shared | copy, list, fork and wait | - | - |

The programs do not call each other.  What interacts is processes and threads
of one program, a program with its peer (producer and consumer, server and
client), and a run of a program with what earlier or concurrent runs have left
in the kernel: named semaphores, shared memory and FIFOs outlive the process
that made them.  The models take this kernel state as global and let several
runs of a program work on it.

## The modules and the code

All modules use the names of the code for variables and handlers.  One action is
one step that other processes can observe: a semaphore call, a lock, a write, a
`fork`.  A program counter per process or thread (`pc`, `main`, `kid`, `client`
...) says which line it is at.  `PROJECT.json` maps every definition to lines.

**Parking** (`os/osprj/parking.c`).  Semaphores are objects named by the run
that created them (`parking[r]`, `vehicle[r]`); `link` says which object a name
stands for and `mysem[r]` which objects run `r` has open.  `UnlinkParking` and
`UnlinkVehicle` are the two halves of `mysem_unlink`, with the `||` that skips
the second; `OpenParking` and `OpenVehicle` those of `mysem_open`; `EnterWait`
and `EnterPost` those of `mysem_wait`; `LeaveWait` and `LeavePost` those of
`mysem_post`.  `Fork`, `ForkFails`, `Interrupt`, `cleanup`, `Kill` and `KidDies`
are the rest of the processes' lives.  Run `r + 1` starts when the main process
of run `r` is gone; children of `r` may go on as orphans.
**BoundedSemaphore** is the promise of `mysem_t` (comment, lines 24-26): a
semaphore that blocks at both ends.

**Crossing** (`os/osprj/cross_criticalsection.c`).  `Rotate` is the change of
the light and the broadcast, both under `schedule_mutex`; `Red` is
`pthread_cond_wait` (release and wait in one step, as POSIX says), `SpuriousWake`
its return without a broadcast.  `Enter` and `Leave` are the passing under the
direction's own mutex.

**ShmBuffer** (`ipc/shm/producer.c`, `ipc/shm/consumer.c`).  `OpenSem`,
`OpenShm`, `Truncate`, `ResetIn` and `ResetOut` are the start-up of both
programs, which differ in `O_CREAT` and `ftruncate`; `producer` and `consumer`
the six steps of a child's turn.  `disturbed` is a history variable: some
execution has set an index to 0 that was not 0.  **BoundedFifo** is the promise:
a queue of at most `BUF_SIZE` values, as long as it is not disturbed.

**Philosophers** (`os/assignment/philosophier.c`).  `First` and `Second` are the
chopsticks in the order of lines 29-40.  All runs share the chopsticks, because
they are named and only unlinked after threads end that never do.

**CondBuffer** (`thread/producerconsumer_cond.c`).  `Increase` and `Decrease`
change the count and decide about the signal; `Signal`, `Lock`, `CondWait` and
`Unlock` are the pthread calls.

**TicketServer** (`ipc/fifo`, `ipc/fifo/example`).  The two directories hold the
same pair of servers and differ in names and in what they check; `example` says
which one runs and `Threaded` which servers start a thread per request.
`pipe[s]` is the FIFO that server `s` made, `link` the server whose FIFO has the
name; `fifo` and `reply` are the clients' FIFOs.  An open waits for the other
end (`OpenFifo`, `ClientOpened`, `OpenClientFifo`, `ClientOpenOwn`), a write
without reader kills (`BrokenPipe`, `ClientBrokenPipe`), a read without writer
returns nothing (second disjunct of `ClientRead`).  `Exit` is `exit` with its
handler, which unlinks the name whoever made the FIFO.

**AverageServer** (`practice/practice5a`, `fina2s.c`, `fina2c.c`).  As above for
three servers that read every request into one variable `msgs`, two of them with
a thread per request; a number is named by the client that chose it, an answer
by the sequence of its numbers.  `together` records that two clients have run at
the same time.

**TaskPipes** (`practice/practice4/p4b1.c`).  A message is named by the child
that wrote it; `ReadMessages` is one `read` with the parse loop behind it.

**TwoFifos** (`practice4b4p1.c`, `practice4b4p2.c`).  A FIFO is named by the run
of `p1` that made it.  `P1OpenFIFO1`, `P1Opened`, `P2Opened1` and `P2Opened2`
are the opens that wait for each other; `P1Exits` and `P2Exits` the two exit
handlers, of which each removes one name.

**SignalBuffer** (`practice/practice3b`, `thread/produconsu.c`, `produconsu2.c`,
`producerconsumer1.c`).  Five programs described by records: the bounds, the
number of threads, when to signal, and whether a thread waits or polls.

**Counter** (`thread/thread1.c`, `thread_teacher.c`, `practice/practice3a`).
`count++` is a load and a store, with or without a mutex around them.

**MqSemaphore** (`os/assignment/semaphore.c`, `test.c`).  `mq_send` and
`mq_receive` on one queue; a run is `stage[p]`, `toSend` the initial tokens it
still has to send.

**MqServer** (`practice/practice5b`).  `named` says which queue a name means, a
`generation` tells a queue from the one that had the name before.  The three
servers are records: shared or own reply queue, threads or none.

**MqBatch** (`ipc/mq`, `ipc/mq/example`, `mqname_send.c`, `mqnamereceive.c`).
Three pairs of writer and reader, described by records; `Count` is
`mq_getattr`, `Exits` the handler that removes the name, whatever queue it means.

**MessageCounter** (`pr62producer.c`, `pr62consumer.c`) and **SharedRecords**
(`pr61w.c`, `pr61r.c`).  The kernel objects are named by who made them
(`generation`, `Writers`), since a name may be removed and made again.

**SingleLane** (`single_lane_bridge.c`, `single_lane_ent.c`).  A FIFO is named by
the bridge that made it; both opens of a bridge go by the name and may find the
FIFO of another one or nothing.  An open that waits is ended by the open of the
other end (`ReaderFound`, `WriterFound`), in one step with it, as in the kernel.

**PingPong**, **FileLock** and **Tso** follow their one or two
files step by step; `Tso` chooses the table entry by entry as the script reads
it.

**Queue** (`algorithm/queue.c`) is the bounded ring as operators on a record.
**Bfs** (`bfs_dfs.c`), **Topsort** (`topsort.c`), **Prim** (`prim.c`) and
**MergeSort** (`merge_sort.c`) are built on it (Prim has no queue).  One step is
one turn of a loop, for MergeSort also a call or a return, with the calls that
have not returned as a stack.  A graph is the list of neighbours of each vertex;
`p` is the place in the list that the code's pointer `p` stands at.

**Algorithms** (the rest of `algorithm`).  Each function is an operator with the
function's name; a behaviour chooses an algorithm and an input and runs it in
one step.

The `MC*` modules and `.cfg` files give the constants small values.
**Programs** instantiates the programs that have no run of their own, from
TwoFifos to MergeSort, and AverageServer, and names what is expected of each;
**MCPrograms** adds SignalBuffer and Algorithms and composes them: they share
nothing, all are in an initial state, and `running` says which of them takes the
steps of a behaviour.  The `*Proofs` modules hold the theorems about the module
they name; those about SignalBuffer are in **ProgramsProofs**, and
**AlgorithmsProofs**, which extends it, is about the four algorithms that run
loop by loop and about the types of all the small programs.

## The runs

| run | question | bounds, and why they are enough |
|---|---|---|
| `parking` | conservation, fresh pairs, blocking at both ends, refinement of `BoundedSemaphore` | 2 runs: what a run leaves is only seen by the next. 2 entrances and 1 exit on 1 space: entrances compete, both ends are reached |
| `parking_stale` | does a run always create its pair? (no) | 2 runs, 1 entrance, 1 exit |
| `crossing` | stable light, no lost wake-up, rotation | directions 0, 1 (one group) and 2 (another) under the 4 groups of the code: competition within and between groups, and groups nobody waits for |
| `crossing_light` | does one group pass at a time? (no) | directions 0 and 2 |
| `shm_buffer` | slots, mutex, refinement of `BoundedFifo`, progress | 2 executions of the producer, 1 of the consumer with a child each, 2 slots, 2 values, at most 1 kill (`MaxKills`): a second execution over a buffer in use, a ring that wraps, a death at any step |
| `shm_reset` | do the indices match the count of items? (no) | 1 producer, 1 consumer, no kill |
| `philosophers` | one holder, no circle, somebody eats | the 5 philosophers of the code (an odd table, the difficult case) in 2 runs |
| `cond_buffer` | the requirements, lost wake-ups, progress | the code's own size, 5 |
| `tickets` | tickets sold once, own answers, every request answered | a multi-threaded and a sequential server of either directory, 2 clients, requests for 0, 1 or 2 tickets, counters modulo 4: threads interleave, a second server takes or removes the name, the counter wraps |
| `average` | does a client get its own average? (no) | 2 clients, 2 numbers a request |
| `task_pipes` | does the parent find out? (no) | 2 children, 2 tasks |
| `programs` | the small programs, each with properties of its own | see below |

In `programs`: 2 producers and 2 consumers, minimum 1 and maximum 3 (a second
thread of a kind can sleep while units are there); 3 counter threads with -1, 1
or 3 increments; 2 processes and 3 runs on the message-queue semaphore; 2
clients, 2 starts of a server and 2 of the clients (a reply can be left to a
later run); 2 messages and 2 starts of each side of the shared counter; 2
writers, 2 readers and 2 shared records; 3 processes at a lock; 2 items, 2
stamps and 3 rows of a schedule; 2 entrances, 3 bridges (the name that one has
made and another removed may be made anew by a third) and a pipe of 2; 2
clients and 2 numbers for the average and text servers; 3 starts of `p1`, 2 of
`p2` and 2 lines each; 2 writers and 2 readers of batches, with queues of 10 and
5 messages as in the code and of 2 for `mqname` (bound `NAMES`, 10 in the code;
`OneWriter` lets one writer run where each sends several); queues of 4 places,
so that an array of 9 numbers does not fit into two of them any more and a graph
of 4 vertices just fits; all arrays of up to 4 numbers and some of 8 and 9; all
graphs of 4 vertices and up to 3 edges, so that there are cycles and vertices out
of reach.

`CHECK_DEADLOCK FALSE` is set in each: every program may end or may be killed
with others waiting for it for ever, and what must not block is stated as a
property of its own.

What the passing runs show:

* `Conservation` (Parking): free spaces, parked vehicles and units in the hands
  of children, dead ones included, add up to the capacity at every point between
  the two semaphore operations.  It is stated of a run that is alone on its
  pair; `FreshUnlessTorn` says when that is so.  `ImplementsBoundedSemaphore`:
  a vehicle enters when `sem_wait` takes its space, has left when `sem_post`
  returns it, and seen so the pair is one semaphore with two ends.
  `LotGoesOn`: neither end blocks for good.
* `GreenWhileHeld`, `NoSleeperAtGreen`, `LightGoesOn` (Crossing): what the mutex
  and the broadcast do achieve.  What they do not is the subject of
  `crossing_light`.
* `Conservation` (ShmBuffer), of the slots and of the mutex, holds through kills
  and restarts, also of executions whose child died in the critical section:
  then nobody enters it again.  `ImplementsBoundedFifo`: no value is lost,
  duplicated, overwritten before or read after its turn as long as no index is
  set back.
  `RingGoesOn`: without kills every value is read and every slot filled again.
* `OneHolder`, `NoCircularWait`, `SomebodyEats` (Philosophers), also for two
  runs at the same table and for an odd number of philosophers, where the last
  one and the first one both start on the chopstick the order does not separate.
* `Requirements`, `NoLostWakeUp`, `BlockedGoOn` (CondBuffer).
* `TicketsSoldOnce`, `PrintsOwnTickets`, `RequestIsAnswered` (TicketServer),
  through deaths of clients and servers and a server that removes the name of
  another.  One exception is stated: a sequential server that opens the FIFO of a
  client killed after its request waits there for good, and so does everybody
  behind it.

In `programs`:

* `Requirements` (SignalBuffer): in all five programs whoever looks at the count
  holds the mutex, the count stays between 0 and the maximum, and once it has
  reached the minimum it never falls below it again; `practice3b.c` starts below
  its minimum (see the weaker promises).
  `NoLostWakeUp`: in those that signal after each change, no more threads sleep
  than the units there are require (`SleepersMatchUnits`); in all, the threads of
  a kind do not all sleep while one of them could go on (`NotAllAsleep`).
* `PrintedCountIsSum` (Counter): with a mutex the printed count is the sum;
  without one it is at least 2, or 1 for single increments.
* `OneTokenPerRun` (MqSemaphore): `test.c` excludes in its first run, and
  nothing but the start of a further run adds a token.
* `PrintsOwnReply` (MqServer, AverageServer, TwoFifos): `mqserver2`
  answers each client from its own request through stops, kills and restarts,
  and the one execution of the sequential FIFO server does through the deaths of
  clients; the servers that share a variable or a queue do so just as
  long as no two clients run at the same time.  `p2` prints the upper case of its
  own line unless an earlier `p2` was killed.
* `ClientIsAnswered` (MqServer, TwoFifos, MqBatch): an undisturbed client gets its
  answer, two programs that meet get through their opens in the order of line 88
  ("to avoid deadlock"), and a writer at a full queue gets its messages in.
* `NumMessagesInRange` (MessageCounter), `ReadsAllOrNothing` (SharedRecords):
  what the semaphores keep through kills, as long as nobody holds objects of two
  generations and no producer resets the number of a killed one.
* `OneInstance` (FileLock): one process is past the lock, and the file names it.
* `AcceptedInTimestampOrder` (Tso): nothing is accepted after a younger write of
  its item; a write after a younger read only when reads came out of order.
* `EndIsReached` (PingPong, SingleLane, and the algorithms that run loop by loop):
  a dead peer is noticed wherever the open pipe ends allow it, and the property
  says where they do not; the loops and calls of the algorithms end.
* `CountedMessagesRemain` (MqBatch): a reader finds what it has counted unless
  another reader takes from its queue meanwhile, also when the name is removed.
* `ReachesFromStart`: at the end of the loops the search has found what can be
  reached, along shortest paths (`FindsShortestPaths` of Bfs), and the tree spans it
  (`SpansFromStart` of Prim).  `Sorts`: the vertices that no cycle leads to, and no
  others, are sorted (`SortsVertices` of Topsort), and so is an array of at most
  twice `QUEUESIZE` numbers (`SortsArray` of MergeSort).
* `AgreesWithReference` (Algorithms): heap sort, matrix chains, depth-first search
  and Kruskal's trees on all sequences, dimensions and graphs within the bounds.
* `TypesOK`: the types of the modules, with the ranges of their counts, queues and
  indices.

## Fairness

Liveness is only stated under fairness the programs have.  Weak fairness of a
process or thread says that the kernel schedules it when it can run; semaphores
whose waiters compete (Parking, ShmBuffer, Philosophers) get weak fairness only,
and the properties speak of the lot, the ring or the table, not of one process.
Strong fairness is assumed of `ControllerLock` (Crossing) and of `Lock`
(CondBuffer): there the competitors sleep between their turns (lines 96 and 152
of the crossing, 77 and 128 of the buffer) with the mutex free, so that a waiter
finds it free again and again.  No action that kills, fails, interrupts, wakes
spuriously or starts a program is fair.

In `programs`, weak fairness is assumed of a message-queue server's receive, of
each of its threads and clients, of both processes of the ping-pong, of each
entrance that writes, of `p1` and of `p2` where they do not wait for somebody to type, and of
the writers and the readers of a batch, as a group each.  An algorithm is one
sequential process; weak fairness of its next step says that it is scheduled.

## The proofs

`tlapm` checks every leaf; the proofs assume only the named assumptions on the
constants, which the code's argument checks or definitions justify and TLC
evaluates in the runs.  Those of `TicketServer`, `SignalBuffer` and `Programs`
say besides that the string that stands for "nobody" is not the name of a
process, that sets of processes are finite, that a program is not its own peer,
that the bounds are natural numbers (a queue has one place at least) and that two
threads at least count, as in all the counter programs.  `GraphAssumption` says
that the vertices of a graph fit into a queue, as 100 (`MAXV`, `graph.h:31`) do into
1000 (`QUEUESIZE`), and that an edge leads to a vertex.  All theorems hold for any
number of processes, runs and kills, any graphs and any arrays.

Each module states an inductive invariant (`IInv`), shows that it holds at first
and that every action keeps it, and concludes the theorems from it.

* **ParkingProofs** - `TypeCorrect`, `SpacesConserved`, `FreshStart`,
  `PairImplementsSemaphore`, for any number of runs, children and spaces.
  `Conservation` alone is not inductive: whether two runs share an object
  depends on the names, on what each run has opened, and on how far each main
  process has got.  The invariant adds which object a name can stand for at each
  program point and that an object nobody has opened has its initial value; it
  also is what a step needs to be mapped to a step of `BoundedSemaphore`.
* **CrossingProofs** - `TypeCorrect`, `LightHeld`, `NobodySleepsAtGreen`, for any
  number of groups.  The invariant says who holds the schedule mutex at each
  place, so that the light turns only when no direction is between its test and
  its sleep.
* **ShmBufferProofs** - `TypeCorrect`, `SlotsConserved`, `RefinesBoundedFifo`,
  for any executions, children, size and kills.  The slots are counted twice: by
  the places of the children and by the producers that have written and the
  consumers that have claimed (`Kept`).  From the second count follows how far
  `in` is ahead of `out` (`InAtTail`), until an index is set back, and from that
  which slots hold the queue of `BoundedFifo`.
* **PhilosophersProofs** - `TypeCorrect`, `ChopsticksExclusive`,
  `DeadlockFree`, for a table of any size from two and any finite set of runs.
  The invariant `IInv` replaces the set of holders by "held" and "not held
  twice", and adds what main has opened and created.  Deadlock freedom is a
  parity argument: who holds one chopstick waits for an even one, and an even
  one is taken first only by the last philosopher of an odd table, whose second
  chopstick nobody takes first.
* **CondBufferProofs** - `TypeCorrect`, `MeetsRequirements`, `WakesUp`, for any
  buffer size.  The strengthening says which thread can be at which place when
  the other has not been created; the wake-up argument is that a count leaves
  its bound only in the step that also decides to signal.
* **TicketServerProofs** - `TypeCorrect`, `SoldOnce`, `OwnTickets`, for any
  servers, clients and width of the counter.  Besides mutual exclusion the
  invariant says that the first ticket of an answer under way equals the counter
  (`Computed`), that the drawn ranges end where it stands (`Sales`), and what can
  be in the FIFO of a client (`Answered`), of which a killed server leaves nothing.
* **ProgramsProofs** - theorems about SignalBuffer and ten of the small programs,
  each a specification of its own in `Programs`, which composes them:
  `BufferTypes`, `MeetsRequirements`, `NoWakeUpLost` (SignalBuffer, for any
  numbers of threads and any bounds), `OnlyOneInstance` (FileLock),
  `TimestampOrder` (Tso), `AllOrNothing` (SharedRecords), `NumMessagesBounded`
  (MessageCounter), `OneTokenEachRun` (MqSemaphore), `CountedStay` (MqBatch).
  Their invariants are about objects that outlive their names: who can have which
  object open, and that an object nobody has opened is as it was made.
  - In SignalBuffer the count of sleepers against units is inductive by itself;
    what takes the work is how each of its cardinalities changes when one thread
    moves (`CountAfterMove`).  `NotAllAsleep` needs more than its statement: who
    is about to signal, and that a thread that tests the count is awake.
  - `SumIsPrinted` (Counter): the sum is not added up.  The stores made so far
    are a set of pairs of a thread and a number (`Made`); with a mutex the count
    is the cardinality of that set (`Locked`), without one it is at most that,
    and whoever has stored once loads 1 at least (`Unlocked`).
  - `OwnReply` joins three lemmas.  `MqPrintsOwn` (MqServer): a request is in one
    place only (queue, variable, worker or reply), and a client's own queue holds
    replies to nobody else, also when its name is removed and made again; where a
    variable or a queue is shared, the same as long as one client runs at a time.
    `AvgPrintsOwn` (AverageServer): a client's request is in the FIFO, in `msgs`
    or with one thread (`Once`), and the sequential server's sum is its own
    client's.  `TwoPrintsOwn` (TwoFifos): unless an earlier `p2` was killed, at
    most one line is under way between `p1` and `p2`, and it is `p2`'s present
    one, wherever their opens have got to.

* **AlgorithmsProofs** - what four algorithms compute, for every input, and the
  types of all the small programs.  Where an argument is by induction over a
  number (a length of a path, a step of a walk), the proof takes a least
  counterexample: the order on `Nat` is well-founded, so a non-empty set of
  numbers has a least one (`Least`), and no operator is a parameter.
  The ring is seen through `Contents(q)`, the sequence of what is queued, and the
  lemmas on `enqueue` and `dequeue` say how it changes.
  - `ShortestPaths` (Bfs): there are levels (`Levels`), one more from a parent to a
    child, along which the queue is ordered and spans two at most; a path of `n`
    vertices leads to a vertex of level at most `n`, by induction over `n`.  No vertex
    is queued twice, so the queue never overflows.
  - `TopologicalOrder` (Topsort): the degree of a vertex counts the edges to it that
    are not removed yet (`EdgesCounted`); a vertex is in the queue or sorted exactly
    when it is free (`FreeWait`).  A vertex that is left over at the end has a
    predecessor that is left over too, so walks of any length lead to it; a walk to a
    sorted vertex goes up in the order and ends.
  - `TreeSpans` (Prim): a vertex outside the tree that an edge leads to from inside is
    at distance 0, and its parent is in the tree (`TreeGrows`); at the end all
    vertices outside are at `MAXINT`, so no path leaves the tree.
  - `ArraySorted` (MergeSort): the calls on the stack are nested (`CallsNested`), the
    halves that have returned are sorted (`HalvesSorted`), and what is in the array
    and in both buffers is always a rearrangement of the array at first
    (`Rearranged`, a bijection of the places, from which the numbers of occurrences
    are equal).
  - `WhatCanBeReached` and `BothSort` join these as the properties that the run checks.
  - `TypesCorrect`: `TypesOK` for all sixteen programs of `Programs` at once.  Some
    types are inductive only with more: that there is one number under way
    in the ping-pong (`OneNumber`), that a thread of the average server finds a
    request in the shared variable (`AskedOnce`), that no queue of MqServer is of a
    generation to come (`MqPlaces`).

Only model-checked:

* the liveness properties, which are beyond the prover;
* `AgreesWithReference`: heap sort, matrix chains, depth-first search and Kruskal's
  `find` call themselves, and the prover does not handle recursive operators.

## Where code and documentation disagree

Five runs look for what the repository's own text says and find it violated.

* `parking_stale`: comments at `os/osprj/parking.c:193` and `:200` say that an
  existing pair is removed and a new one created; after a death between the two
  unlinks the second name is skipped (line 82) and a stale semaphore is used.
* `crossing_light`: line 13 of `os/osprj/cross_criticalsection.c` lets
  "mutually independent directions" pass simultaneously; the light is read
  under a mutex that is released before the vehicle passes (131), so that two
  groups pass at once.
* `shm_reset`: `ipc/shm/examples/pseudocode.c:11` starts from no items;
  `ipc/shm/consumer.c:158` sets the indices to 0 in a buffer that has some.
* `average`: a client is to get the average of its own numbers
  (`practice/practice5a/fifoserver_multithreads.c:2`); all threads read the one
  variable that the next request overwrites (187).
* `task_pipes`: the parent is to find out which tasks are complete
  (`practice/practice4/p4b1.c:8`); messages that arrive together are parsed as
  the first one (230).

Weaker promises.  Where a modelled program breaks a promise in the same way as
one of these, or in a way its own comments admit, or before its first step, the
property of the run leaves the case out and says so:

* `practice/practice3b/practice3b.c:12` asks for a minimum number of units "that
  must be in the buffer at any time".  The count starts at 0 (34), which is below
  any minimum that main accepts (149), and is below it until the producers have
  filled the buffer so far; nothing guarantees that they ever do, since a maximum
  below the minimum is accepted.  `Requirements` says what the consumers' test
  (101) achieves: once the minimum is reached, the count never falls below it.
  `exercise3b.c:10-11` asks for both bounds as arguments; the program takes
  neither (149-157) and keeps 0 and 10.
* `practice/practice3b/exercise3b.c:61` and `:121` speak of signals at the edges,
  which with several threads of a kind leave one asleep beside units it could
  take: the first part of `NoLostWakeUp` is about the other programs.
* `ddbprj/tso.py:111` moves a read timestamp back; a write between two reads is
  then reported as "no conflict" (148).
* `pr62producer.c:164` resets the number of a killed producer and not its
  semaphores; a consumer's four opens may straddle a restart; `pr61r.c:45`
  removes a semaphore while another process is about to open the memory.
* `mqserver1.c` and its clients share one reply queue; `mqserver_multithread.c`
  and `fina2s.c` share the request variable of the run `average`.
* `pipe_pingpong.c` keeps a write end of the pipe that the parent reads.
* `os/assignment/semaphore.c:115` sends initial tokens into a queue that exists.
* `ipc/fifo/fifoserver.c:120` waits for ever at the FIFO of a dead client.

## What is not modelled

Within the modelled programs: calls that fail only when misused (`sem_wait`,
`pthread_mutex_lock`), texts, priorities and sleeps, `sem_getvalue`, vehicle
numbers, and partial reads and writes of pipes.  Parking does not interleave two
main processes; in Philosophers no creation of a thread fails (to the others that
is a philosopher who never takes a step); MessageCounter's producer opens its four names in one step and
removes them in one step; ShmBuffer stops following names after the first unlink; in
TicketServer clients have different ids and an id is used once.  AverageServer
has one execution of the server and leaves out what `fina2s.c` sends behind the
last character, which it never sets.  TaskPipes has no kills and no failed fork.
In MqServer the request queue is never full.  In MqSemaphore `sem_close` and
`semaphore_destroy` are never reached, because the threads do not end.

Programs that stay out, because nothing in them depends on an order or survives
a step: `thread/thread11.c` (calls a function that is declared nowhere),
`thread.c` and `thread_array.c` (threads that share nothing),
`ipc/filelock/fcntllock.c` (passes what the user types to `fcntl`), the small
FIFO examples and the other pipe programs (texts in one direction), so also
`p4a1.c`, `practice4a1.c` and `practice4b3.c` of `practice/practice4`, where
`practice4b.c` holds the text of the exercise only, the one-shot shared-memory
readers and writers, the files, strings and process demonstrations.  In
`algorithm`: `delete_edge`, which nobody calls; `process_edge` and the vertex hooks, which `graph.h` leaves to the user;
`kmp.c`, `common_ancestor.c`, `find_circle.c` and `two_color.c`, fragments that
do not compile; the programs that draw a fixed graph.  `graph.c` itself defines
`read_graph` twice with one body, of which the model has one.
`ipc/process_synchronization_pipe.c` does not compile.  `PROJECT.json` lists each
part with its status and reason.

## Plan

Done: all modules above, and the proofs of all safety invariants and action
properties of the runs but `AgreesWithReference`.

What could be done next: heap sort, depth-first search and Kruskal as machines of
their own with a stack, as MergeSort is, and proved like it; and that every step of
the composition in MCPrograms is a step of one of its programs, so that each
theorem also speaks of `ProgramsSpec`.
