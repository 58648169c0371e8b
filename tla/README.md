# Yedis in TLA+

Specifications of the Yedis server: a small Redis-like server in C++11 built from
a muduo-style network library (`src/net`), a utility layer (`src/base`) and the
data structures, commands and task queue (`src/src`). Paths are written with
`src/` for the root of the repository. Modules keep the names of the code.

## The system

A client's bytes reach a worker I/O thread, which parses one request and puts it
into a bounded queue; one executor thread takes requests from the queue, executes
them on the keyspace and hands the reply to the connection's loop, whose thread
writes it to the socket.

    main loop --accept--> worker loop --onRead/parse--> task queue --> executor --> keyspace
        ^                   |      ^                                      |
        +--removeConnection-+      +------- queueInLoop(sendInLoop) ------+

| component | state | operations | what makes it correct |
|---|---|---|---|
| Task queue (`src/src/TaskManager.cpp`) | deque, two mutexes, two condition variables | `producerTask` (workers), `consumerTask` (executor) | one thread at a time, bound kept, FIFO, every request served once, no lost wakeup, no deadlock |
| Event loop (`src/net/EventLoop.cpp`) | pending functors, eventfd, calling flag | `loop`, `queueInLoop`, `doPendingFunctors` | a functor runs once, in order, and soon: it never waits for unrelated activity |
| Connections and server (`src/net/TcpConnection.cpp`, `Server.cpp`, `AcceptNew.cpp`, `Channel.cpp`, `EpollPoller.cpp`, `EventLoopThreadPool.cpp`, `src/src/YedisSession.cpp`, `YedisServer.cpp`) | connection states, connection map, sessions, channel map, epoll set, round-robin index | accept, establish, read, close, remove, send | replies reach the right client in order; nothing refers to a connection that is gone; a client that stays is answered |
| Request parser (`src/src/YedisParser.cpp`) | position, counts, parameters | `parseRequest` | reads back what a client wrote, asks for more when a request is cut |
| Keyspace (`src/src/YedisStore.cpp`, `YedisCommon.cpp`) | key -> object (type, encoding, value) | lookup by type, set, delete | an object is what its type says; a command of another type changes nothing |
| Commands (`YString`, `YList`, `YSet`, `YHash`, `YSortedSet`, `YedisCommand`, `YedisRegisterCmd`) | the command table | 19 commands | each does what Redis does, but for departures that are known, and answers once; an emptied collection disappears; the two maps of a sorted set agree |
| Replies (`src/src/YedisFormate.cpp`) | - | format | a reply is one complete protocol value |
| Asynchronous log (`src/base/AsyncLog.cpp`) | line list, mutex, condition variable, exit flag, rolling files | `output`, writer thread, `uninit` | no line lost or reordered, shutdown ends, a file that has reached its size gets no further line |
| Input buffer (`src/base/Buffer.h`, `Buffer.cpp`) | a vector, reader and writer index | append, prepend, retrieve, unwrite, grow, shrink, `readFd` | bytes come out as they went in; the indices stay in order; the asserts hold |
| Reply buffer (`src/base/ReplyBuffer.cpp`) | a vector, read and write position | `pushData`, `peekData`, grow, clear, shrink | the same |
| Worker threads (`src/net/EventLoopThread.cpp`, `EventLoopThreadPool.cpp`) | loop pointer, mutex, condition variable | `StartLoop`, `ThreadFunc` | the pool never holds a null loop, and the server comes to listen |

Components call each other directly inside one thread; between threads there are
three channels only: the task queue, the functor queue of a loop, and the log's
line list. Shared without a lock is `TcpConnection::m_State`, which the executor
reads and the connection's loop writes.

Hard behaviours: interleavings of workers, executor and main loop around the
mutexes, condition variables and the eventfd; a close that races the executor's
reply; resets of the peer at any moment; partial and joined reads of the byte
stream; the queue at its limit; errors in the middle of a command; sequences of
commands on one key. There is no persistence, so no recovery. `PROJECT.json`
lists each hazard at its line with the properties aimed at it.

## Modules

There are three abstract specifications. `RequestQueue` is a bounded FIFO with
one element in service: `TaskManager` and `EventLoop` are both shown to implement
it, and `YedisServer` then uses each of them as the FIFO it is. `ByteQueue` is a
sequence of bytes with two ends, which both buffers implement. `RedisKeyspace` is
Redis itself, as far as the commands of this server go, with a parameter
`Departures` that names what an implementation does otherwise: with none it is
Redis, and with the four it knows of it is what this code promises.

| module | models | how it corresponds |
|---|---|---|
| `RequestQueue` | what a queue with one server promises | `Accept`, `Serve`, `Answer` |
| `TaskManager` | the task queue at the level of locks | a variable per member; one action per stretch of code between two points where another thread may run: `LockCounter`, `LockQueue`, `TestFull`, `Push`, `UnlockQueue`, `UnlockCounter` (worker), `TestEmpty`, `Execute`, `Send`, `PopFront` (executor), and `SpuriousWake`. A notification empties the wait set; a woken thread takes the mutex again and tests again, as `wait(lock, predicate)` does |
| `TaskManagerProofs` | theorems about it | |
| `EventLoop` | a loop, the threads that queue into it, its eventfd | `PushPending` and `WakeUp` are the two halves of `queueInLoop`, between which others run; `Poll`, `handleRead`, `StartFunctors`, `CallFunctor`, `FunctorReturns`, `EndFunctors` are one round of `loop` |
| `EventLoopProofs` | theorems about it | |
| `LoopThreads` | the start of the worker threads, up to listening | `CreateThread`, `TestLoop`, `ReturnLoop` are `StartLoop` in the main thread, `PublishLoop` and `EnterLoop` are `ThreadFunc` in a new one; `SpuriousWake`; the pool is filled in order |
| `YedisServer` | clients, main loop, workers, queue and executor together, from the start of the threads | extends `LoopThreads`; one action per handler: `newConnection`, `AcceptWithoutDescriptor`, `HandleRead`, `HandleError`, `producerTask`, `RunConnectionFunctor` (`connectEstablished`, `connectDestroyed`), `SendInLoop`, `RemoveConnectionInLoop`, `execCommand`/`queueReply`/`pop_front`; the clients connect, send a request whole or in two pieces, receive, close and reset |
| `YedisServerProofs` | theorems about the two | |
| `YedisParser` | one parse of one read's bytes | an action per parsing function, over bytes; `DigitsEnd` and `Number` are the loop of `getIntUntilCRLF`. `Encode` is how a client writes a request |
| `YedisParserProofs` | theorems about it | |
| `YStore` | keyspace, objects, reply values | operators on `store`, `reply`, `process`; texts are elements of a small set, and what `strtol`, `atof` and `%ld` make of them are constant functions. A double is its rank, which is all that comparing two of them uses, or `NaN` |
| `YString`, `YList`, `YSet`, `YHash`, `YSortedSet` | the command handlers | one operator per handler, with every early return; `Added` is the loop of `zadd`, and `keyOf` the key that `operator[]` of a `std::map` of doubles finds or makes, also where a NaN breaks its order |
| `YCommand` | the command table | `execCommand` chooses a request and runs its handler. `Yedis` and `Redis` are the two instances of `RedisKeyspace` |
| `YCommandProofs` | theorems about the commands | |
| `RedisKeyspace` | what Redis promises of the commands | `Command`: a value set, what an applicable command does (`Perform`), or nothing; typed values, one answer per command; nothing of encodings, iterators or reply bytes. The departures: "C literals are numbers", "any text is a score", "members keep their scores", "HSET answers 1" |
| `ByteQueue` | what a byte buffer promises | a call puts bytes at an end or takes them from one |
| `Buffer` | the input buffer | a buffer is a record, a method an operator on it (`append`, `makeSpace`, `readFd`, `shrink` ...), so that `shrink` can build a second one as the code does; one action per method. The integers of `appendInt32` and its kin are two's complement in a number system of `ByteBase` |
| `ReplyBuffer` | the reply buffer | the same, with the loop of `assureSpace` (`GrownOnce` until `Enough`) and what `std::vector` reserves |
| `BufferProofs` | theorems about both buffers | |
| `NatRecursion` | induction and recursion over numbers, as lemmas | what the proofs about loops rest on |
| `AsyncLog` | the log | `output`; the writer's steps, with the test of a file, its closing and the opening of the next apart, and lines that have lengths; the steps of `uninit`; `output` of a FATAL line, which writes and crashes without the mutex; `UseOfClosedFile`; a clock, spurious wakeups |
| `AsyncLogProofs` | theorems about it | |
| `MCYCommand`, `MCYedisParser`, `MCBuffers`, `MCAsyncLog` | small instances for TLC | sets of texts, requests and cuts, lengths of lines; the two buffers side by side, one of them at rest. The other modules get their constants from a configuration alone |

Operators whose comment starts with "Mutant of" are variants with one plausible
mistake each; no specification uses them. Replacing the definition they name by
them makes the property `PROJECT.json` pairs them with fail.

Choices worth knowing:

- In `YedisServer` a connection is identified with its client and a descriptor is
  never reused, because nothing in the server closes one. `m_name` is empty in
  the code, so `removeConnectionInLoop` erases nothing; the branch behind it is
  there, and becomes reachable if `name` is given its key.
- `YedisServer` handles an event in the step in which epoll would report it. A
  reset that arrives between the two changes nothing: bytes that have arrived are
  read first, and the error is reported by the next poll.
- Errors of a broken peer follow Linux: a write returns the pending error once,
  the next raises SIGPIPE; nothing in `src/src/main.cpp` ignores it, so
  the process ends (`killed`).
- A reply that does not fit the kernel's buffer is dropped whole; in the code a
  part of it may be sent. `SendBuffer` counts replies.
- A request of `YedisServer` arrives whole or as a head and a tail; what the bytes
  are is the subject of `YedisParser`. A read that finds the head and more gets the
  whole request (`parseRequest`); otherwise `onRead` submits what the parser has:
  for a head perhaps some parameters, so that it is answered, or not, or the
  process ends; for a tail none, and `params[0]` of an empty vector ends it.
- `idleFd_`, which `AcceptNew` closes to make room when descriptors run out, is
  never initialized: the first use either makes room or does not, and a failing
  one leaves it at -1 for good. `descriptorsLeft` counts down only.
- In `AsyncLog`, what a FATAL line or `uninit` may do to a file another thread has
  in hand is undefined in C++: `UseOfClosedFile` ends the process, and the other
  outcome is that the write fails or is lost.
- `AsyncLog`'s `init` is called by no program of the repository (only `LOGD` is
  used), so the model starts where a caller has called it.

## Runs

| run | module, configuration | bounds | what it shows |
|---|---|---|---|
| `task_manager` | `TaskManager`, `TaskManager.cfg` | 3 workers, 2 commands, queue of 2, no bound on requests | `TypeOK`, `QueueExclusion`, `QueueBounded`, `FrontIsServed`, `NoLostWakeup`, `OneSleepingProducer`, `QueueFrozenWhileServing`, `ImplementsRequestQueue` with its fairness, `HolderPushes`, `SubmissionsProgress` |
| `event_loop` | `EventLoop`, `EventLoop.cfg` | 2 posting threads and the loop itself, 3 functors, 3 queued | `Inv`, `PendingIsSignalled`, `RunsInOrder` |
| `server` | `YedisServer`, `YedisServer.cfg` | 2 clients, one of which may split its first request; 2 workers, 2 requests each, both ahead; queue of 1, send buffer of 1; 1 or 2 descriptors | `TypeOK`, `InOrder`, `NoDanglingConnection`, `PoolHoldsLoops`, `Answered`, `StartupEnds` |
| `parser` | `MCYedisParser`, `MCYedisParser.cfg` | every cut of 31 requests, with empty, long, CRLF and `$1` parameters; followed and malformed bytes | `TypeOK`, `WholeRequestRead`, `CutRequestWaits` |
| `commands` | `MCYCommand`, `MCYCommand.cfg` | 1 key, texts `nan`, `01` and `-2`, up to 2 values or pairs a command, lists up to 3 | `TypeOK`, `NoEmptyCollections`, `PopAssertHolds`, `ScoresAgree`, `ImplementsRedisButFor` |
| `async_log` | `MCAsyncLog`, `AsyncLog.cfg` | 2 loggers of 2 lines, of lengths 1 and 2, one of which may output a FATAL line; roll size 2, 2 seconds, failing disk | `TypeOK`, `NothingLostOrReordered`, `SleepsOnlyWhenIdle`, `FilesBounded`, `ExitDrains`, `EveryLineWritten` |
| `buffers` | `MCBuffers`, `MCBuffers.cfg` | 2 values of a byte, integers of 1 and 2 bytes, calls of up to 2 bytes, made when at most 2 are held; 2 bytes of `kCheapPrepend`, initial size 2, `extrabuf` of 2; `MAX_BUFFER_SIZE` 9 | `TypeOK`, `AssertsHold`, `IntsRoundTrip`, `BytesKept` of `Buffer`; `ReplyTypeOK`, `ReplyAssertsHold`, `ReplyBytesKept` of `ReplyBuffer` |

Why the bounds are enough: the task queue needs three workers to have one sleep
with `m_itemCounterMtx`, one behind it and one elsewhere, and a queue of two to
tell front from back; the code's 30 is only compared with the size. A loop needs
two posters so that one can be between push and wakeup while another wakes it. In
the server two clients already meet a full queue, race close against reply, and
show the gap a dropped request leaves; one descriptor for two clients runs out,
and one split request each way (read together, read apart) is enough, because
whatever follows a tail is the end of the process. A buffer's calls are compared
only with the room before and behind the contents, so areas of two bytes meet
every comparison from both sides: moving, growing once and twice, a `readv` that
fits, spills and is full. In the log one FATAL line meets the writer at each of
its steps, and with lines of half the roll size and of all of it a file ends at that
size or beyond it. Of the texts of the commands, `nan` is
a word to `strtol` and NaN to `atof`, `01` a number that does not keep its spelling
and `-2` one that does, and an index from the end; a word of which `atof` makes zero
would be one more score, and the runs that end in a violation have it. A handler touches one key, so one key meets every type change; lists of
three cover every relation of a range to both ends, with an index from either
end. No symmetry is used, since the runs check liveness or refinement.
`CHECK_DEADLOCK FALSE` stands where the system may stop: clients that have
sent everything, a parse that is over, a log that has been shut down, a process
that was killed.

## Findings

Runs that end in a violation show what the code does where its documentation or
its own assertions say otherwise:

| run | property | what happens |
|---|---|---|
| `server_pipelining` | `EveryRequestAnswered` | two requests read together: the second is dropped, and the next reply answers the wrong request (`src/src/YedisSession.cpp:32`) |
| `list_empty_push` | `PopAssertHolds` | `LPUSH k` stores an empty list; `LPOP k` fails an assertion |
| `replies` | `OneReplyPerCommand` | some commands are answered with nothing, others twice, and ZADD on a key of another type with the end of the process: it uses a null pointer (`src/src/YSortedSet.cpp:76`) |
| `redis` | `ImplementsRedis` | the keyspace without its departures, against the code |
| `async_log_exit` | `ExitFlagEndsWriter` | `uninit` notifies between the writer's test and its wait, and joins for ever |

Their configurations are `YedisServerPipelining.cfg`, `YListEmptyPush.cfg`,
`YCommandReplies.cfg`, `YCommandRedis.cfg` and `AsyncLogExit.cfg`.

TLC stops at the first violation. Each way in which the code departs from Redis refutes
`ImplementsRedis` by itself: with the other three as the `Departures` of `Redis`, the
same run is violated each time.

| departure | what the code does | what Redis does |
|---|---|---|
| "C literals are numbers" | `SET k 01`, `GET k` answers `1`, and `0x10` becomes `16`: `createString` (`src/src/YedisCommon.cpp:58`) keeps a text that `strtol(.., 0)` reads to its end as a long | keeps the text |
| "HSET answers 1" | `HSET k f v` answers 1 for a field that is there (`src/src/YHash.cpp:41`) | answers 0 |
| "members keep their scores" | `ZADD k 2 m` changes nothing after `ZADD k 1 m` (`src/src/YSortedSet.cpp:82`) | gives `m` the score 2 |
| "any text is a score" | `ZADD k a m` files `m` under 0, `ZADD k nan m` under NaN or under a score that is there (`src/src/YSortedSet.cpp:79`) | refuses what is not a number |

`RedisKeyspace` leaves open what Redis answers where a command does not apply, so that
`LRANGE k 01 2`, which the code takes for indices, is not held against it.

Met while modelling, without a run:

- With a score that is NaN the two maps of a sorted set no longer say the same, although
  `src/README.md:6-7` promises the way from scores to names and back: nothing is less
  than NaN, so `std::map` takes it for the first key there is, and a NaN that
  came first is taken for every later score. `ScoresAgree` says what is left: each
  member is filed once, nobody else is, and without NaN under its own score.
- A log file may exceed the "单个日志文件的最大字节数" (most bytes of a single log file)
  of `src/base/AsyncLog.h:84` by all of a line but one byte: the size is tested before a
  line (`AsyncLog.cpp:444`) and raised after it (`:492`), and a FATAL
  line is not counted. `FilesBounded` says what does hold.
- The request text that `src/src/YedisParser.h:10` and `src/README.md:49` give for
  `set name ypd`, `*$3..`, is refused: the parser wants a count behind `*`.
- Of a request that arrives in two pieces, `onRead` (`YedisSession.cpp:35`) ignores
  the parser's wait, drops the bytes and executes the parameters read so far;
  the second piece ends the process. `Answered` promises nothing for it.
- `idleFd_` is never initialized, so the graceful refusal that
  `AcceptNew.cpp:77` describes may not happen.
- Two rolls within a second give both files one name, and opening the second
  empties the first (`AsyncLog.cpp:401`, `:454`). Nothing promises that it is kept.
- A FATAL line writes and opens files without `m_mutexWrite`, and if its
  file cannot be created, `output` returns and nothing crashes.
- `ReplyBuffer::shrink` asserts that capacity and size are equal, which is false
  once libstdc++ has doubled a capacity (64, then 96 in a capacity of 128); nothing
  calls it. What `pushDataAt` puts at an offset lies behind `m_nWritePos`, where
  `assureSpace` does not move it.
- `-ERR error type` goes out without its CRLF wherever it is used: the length is
  taken of the text alone (`YSet.cpp:34`, `YHash.cpp:75`, `YSortedSet.cpp:28`);
  `OneReplyPerCommand` meets it.
- `m_bRunning` is never cleared: every way out of `writeThreadProc` is a return
  before `AsyncLog.cpp:496`.

## Fairness

Weak fairness per thread, nothing stronger: a thread that can go on for ever does
(the scheduler runs every thread, and every lock's owner releases it).
`std::mutex` does not promise more, so that one worker is overtaken at
`m_itemCounterMtx` for ever is not excluded, and `HolderPushes` and
`SubmissionsProgress` do not exclude it; spurious wakeups are finitely many.
A loop's fairness is justified by its 1 ms poll and by `quit()` being empty; that
of `HandleEvent` by epoll being level-triggered and the event array
growing. The threads of the start are fair too (`StartMain`, `StartWorker`), spurious
wakeups are not. Clients read what has arrived, and do nothing else fairly. `Answered`
promises nothing to a request that is read together with an earlier one or whose
reply meets a full send buffer, to a client that left or that epoll refused, to one there
was no descriptor for, or once the process was killed. In `AsyncLog` the writer
and the steps of `uninit` after its first are fair, the calls of `output` and
`uninit` are not.

## Theorems

`TaskManagerProofs`, for any sets of workers and commands and any queue size,
from `ThreadAssumption` (the executor is no worker, `NoThread` no thread) and
`MaxSizeAssumption` (the size is a positive natural):

- `Inv` is inductive (`Invariance`). The properties alone are not: that a sleeping
  worker means a full queue (`NoLostWakeup`) needs to know who owns which mutex
  (`OwnersAgree`: the program points inside a critical section are exactly the
  owner's), where sleepers are (`SleepersRetry`), that a worker about to push has
  room (`RoomWhenPushing`), and that what is in hand is a request
  (`ItemsInHand`).
- From it `TypeCorrect`, `Exclusion`, `Bounded`, `FrontServed`, `WakeupsKept`,
  `OneSleeper`, the action property `Frozen`, and `Refinement`: every step is a
  step of `RequestQueue` or stutters. The request in service leaves the abstract
  queue at `Execute`, although the deque keeps it until `PopFront`.

`EventLoopProofs`, for any threads, functors and bound, from `LoopAssumption`:

- `LoopInvariance`: `Inv` is inductive. `PendingIsSignalled` speaks of the moment
  before a poll; what makes it true is established while functors run, because
  `m_bCallingPendingFunctor` is then set, whatever the constructor left in it, and
  because the loop's own thread queues from callbacks only.
- `NoWakeupLost` and `LoopRefinement`: the functors of a loop are the FIFO
  `vecFunctors \o m_vecPendingFunctor` with `current` in service; `FrontOfTwo`
  is the fact about two sequences in a row it rests on.

`YedisServerProofs`, for any clients, workers, descriptors and bounds, from
`ServerAssumption`:

- `PoolTheorem` (`PoolHoldsLoops`) is about `LoopThreads`. `PoolInv` adds how many
  loops the pool has at each point of the main thread, that `m_loop` of a worker is
  its loop from the moment its thread publishes it, and that a loop is there when
  `StartLoop` returns it, which is what makes the next entry of the pool right
  however often the main thread woke for no reason.
- `ServerInvariance`: `ServerInv` is inductive. It types everything that is queued
  or in hand by the connections accepted so far (`LiveFunctors`, `LiveRequests`
  over `Accepted`) and says that all of these are in `m_mapConnections` still:
  `name` is the key of none, so nothing is erased. `NothingDangles`
  (`NoDanglingConnection`) follows from that. That a connection's loop is a worker's
  needs the pool to be complete once a client can connect (`Listening`).
- `ServerTypeCorrect` follows with it, and with it that `getNextLoop` stays inside
  the pool.
- `OrderTheorem` (`InOrder`): `Line` lists the six
  places of a connection's requests and replies, from what the client has read back
  to what it has just sent, and `OrderInv` says of every line that it is in order,
  that nothing in it was sent later than the client's last request, and that of a
  request half sent only the head is there. Every step is then one of three things to a
  line, each with a lemma of its own: elements are dropped (`Dropped`), one is put
  behind all others (`PutBehind`), or the first of a place moves to the end of the
  place before (`MovedOn`). That the last is what the steps do needs `RouteInv`: a worker
  submits requests of its own connections only, and a reply is queued in no other loop
  than its connection's.

`AsyncLogProofs`, for any loggers, files and bounds, from `LogAssumption`:

- `LogInvariance`: `LinesInv` (what the list and the writer's hand are made
  of), `MutexInv` (`m_mutexWrite` is held exactly between the writer's lock and its
  release, and the list is empty while the writer is about to sleep) and `SleepInv`
  (it is empty while it sleeps). What `NeverSleepsOnALine` (`SleepsOnlyWhenIdle`)
  lacks to be inductive is `MutexInv`: nobody can push between the test and the
  wait. `DiskInv` types the files and the FATAL path, for `LogTypeCorrect`.
- `DrainsBeforeExit`: the action property `ExitDrains`.
- `OrderKept` (`NothingLostOrReordered`): the lines on the
  console, in the writer's hand and in the list, in this order, are all that was
  logged; a step of the writer leaves their concatenation as it is, `output`
  appends a line with the highest number of its logger, and a FATAL line, which
  has no number to keep, may go anywhere (`AppendOrdered`, `FatalOrdered`).
- `FilesRoll` (`FilesBounded`): a line is added only to a file whose bytes are
  below the roll size, for lines of any length, so that a file exceeds it by less than its
  last line, FATAL lines aside. `BoundInv` adds that the open file has no more bytes
  than `m_nCurrentWrittenSize` counts, except while the writer, its size reset, is about
  to close the file, and that the count is below the roll size from the writer's
  test until it writes, although a FATAL line may come between. `Bytes` is a
  recursive function, and `BytesAddUp` and `BytesAppended` rest on `NatRecursion`.

`NatRecursion`: what a recursive function computes, for arguments of any size.
The library's induction theorems take an operator as a parameter, which the provers
cannot instantiate; here they are about sets instead (`NumbersReached`,
`IndicesReached`, `NumbersReachedFromBelow`), from the least element of a set of
numbers (`LeastNumber`), which inclusion of finite sets being well-founded gives. A
recursive function is a CHOOSE among the solutions of its equation, so it satisfies
the equation once a solution is known to exist: `IterationExists` gives one for a
loop, `DescentExists` for a recursion that may go down by more than one. The loops
of `zadd`, `assureSpace`, `getIntUntilCRLF`, of the two's complement and of the client's
encoding are proved about this way, for any number of turns; that is why
they are recursive functions and not RECURSIVE operators.

`BufferProofs`, for any sizes, bytes and lengths of calls, from `BufferAssumption` and
`ReplyBufferAssumption` (what is held and pushed is less than `MAX_BUFFER_SIZE`, half
of the address space):

- `TypeCorrect` and `AssertsNeverFail`: the indices stay in order inside the vector
  under every method, and the asserts inside `append` hold for the next call.
- `BufferIsAByteQueue` (`BytesKept`): every call is one of `ByteQueue` or
  changes nothing. A lemma a method says what becomes of `toStringPiece`; the longest are
  those of `append`, which may move or grow, and of `readFd`, which does two appends'
  work.
- `IntegersRoundTrip` (`IntsRoundTrip`): an integer of any width, in bytes of any base,
  is read back as it was appended or prepended. The bytes of a number below a power of
  the base sum up to it again, and two's complement puts the negative ones above the
  others.
- `ReplyTypeCorrect`, `ReplyAssertsNeverFail` and `ReplyBufferIsAByteQueue`
  (`ReplyBytesKept`) are the same three of `ReplyBuffer`. What they need beyond types
  (`Sound`) is that `assureSpace` ends with room: the vector grows in each turn, so
  `nSize` turns are enough, and where the test against `MAX_BUFFER_SIZE` ends the
  loop, there is room already, since what is held and pushed is less.
- `BothBuffers`: the run explores the buffers side by side, and a behaviour of both is
  one of each, so what is proved of each holds of `MCSpec`.

`YCommandProofs`, for any keys, texts and commands, from `TextAssumption` and
`BoundsAssumption`:

- `KeptInvariance`: every object found by a command is what its type says, and no list,
  set or hash is empty. From it `CollectionsNeverEmpty` (`NoEmptyCollections`) and
  `PopNeverAsserts` (`PopAssertHolds`). Both suppose `MinMembers = 1`, a client that names a
  value when it pushes or adds; without it they are false, as the run
  `list_empty_push` shows.
- `TypeCorrect` and `MapsAgree` (`ScoresAgree`), without that condition: `TypedInv`
  says that the store holds `Objects` only. Those of a sorted set are the ones whose two
  maps fit, which every turn of `zadd`'s loop preserves: a member is filed under one
  score and no other, no score files nobody, and without NaN the score is the member's
  own. `atof` may make NaN of a text here. What makes it inductive is that NaN as a
  key is the only one (`Agree`), because it is taken for every score; `KeyFound` says
  which key `operator[]` finds.
- `AddedScores`: what that loop computes, for any number of pairs.
- `CommandsImplementRedisButFor` (`ImplementsRedisButFor`): from the two invariants together
  (`RefInv`), each command does to the abstract keyspace what `RedisKeyspace` with the four
  departures says, and a
  command that applies is answered with the value it promises. A lemma a command; ranges
  and `zadd` need most: both specifications of `LRANGE` count its bounds from either end,
  and the number `zadd` answers is that of new members, however often the request repeats
  one. Again `MinMembers = 1`.

`YedisParserProofs`, for any bytes and any set of inputs, from `InputsAssumption` (digits,
tags and line ends are bytes, and inputs are sequences of them). Counts and lengths are
taken to be below the width of an `int`, as in the module:

- `ParserTypeCorrect`: whatever arrives, `Typed` is inductive, which adds to the types that
  there is room for a parameter when `parseStrval` is reached.
- `RequestsReadBack` (`WholeRequestRead`) and `CutRequestsWait` (`CutRequestWaits`), for
  requests of any number of parameters of any length. The parser's state is tied to the
  request by `Marked`, the positions at which the parameters stand as far as they have
  arrived, and by `Reading`, which has three parts: the parser is where the request says
  (`InStep`); or it took the digits of a number that is cut for the whole number and stands
  two bytes behind the end (`Beyond`), from where every function can only wait; or it has
  answered (`Answered`). `NumberRead` is the lemma that a number in the buffer is read
  as it was spelled, or ends in one of these ways; `NumberSpelled` that reading digits
  undoes spelling.

Only model-checked: everything under fairness, which is out of the prover's reach
(`HolderPushes`, `SubmissionsProgress`, `Answered`, `StartupEnds`, `EveryLineWritten`, and
the liveness parts of the refinements `ImplementsRequestQueue` and `RunsInOrder`, whose
safety parts are `Refinement` and `LoopRefinement`). Every safety property of every
passing run is a theorem.

## Not modelled

- Write events (never enabled), `shutdown` and `forceClose` (never called), the
  Windows code (`SelectPoller`, the socket pair), `Sockets` and `SocketAddr`
  (system calls, whose outcomes are choices of the modules that use them).
- `YCommand`: `delCommand`, `existCommand`, `selectDB`, iterators and the LRU
  clock, which no command calls; who owns an object while it is moved, since every
  object has one owner in the store; requests with fewer parameters than their
  handler reads, which is undefined behaviour (`YedisServer` has its outcomes).
- `Buffer`: `findCRLF`, `findEOL`, `findString`, which change nothing and have no
  caller. `ReplyBuffer`: `adjustWritePtr`, `adjustReadPtr` and `swap`, with which a
  caller sets the positions by hand.
- `YedisParser`: `reset` and the resumption of a parse that waits, which the server
  never does.
- `AsyncLog`: `setLevel`, the level filter and formatting; a line is one that
  passed, and of its text only the length is left.
- Timers, which `src/README.md` describes: there is no such code.
- Ends of file: `TcpConnection::handleRead` ignores them, so nothing happens in the
  model either; the loop that polls such a connection again and again is
  busy in the code.

## Plan

1. Task queue (`TaskManager`, `TaskManagerProofs`): done, the heart of the server.
2. Keyspace and commands (`YStore` ... `YCommand`, `RedisKeyspace`,
   `YCommandProofs`): done.
3. Event loop (`EventLoop`, `EventLoopProofs`), the start of the threads
   (`LoopThreads`) and the composition (`YedisServer`, `YedisServerProofs`): done.
4. Parser and log (`YedisParserProofs`, `AsyncLogProofs`): done for one parse and
   one shutdown.
5. Buffers (`ByteQueue`, `Buffer`, `ReplyBuffer`, `BufferProofs`): done.
6. Left: `YedisParser` over the contents of a `Buffer` instead of one read's bytes.
