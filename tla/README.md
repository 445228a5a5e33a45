# course-grpc in TLA+

A verification development for the C++ gRPC examples of this repository. TLA+
modules are translated from the sources; TLC checks them on small instances,
each run with its own `.cfg`; TLAPS proves what holds for every number of calls,
threads and objects, every command line, every length of a list. Paths below are
relative to `src/`.

The repository is a course: 23 numbered examples, most a client and a server
program of 50 to 170 lines over one service of `00-proto`. What is worth
verifying is what each example does with *concurrency*: who runs a callback, who
owns an object, what is still under way when something fails. Everything below
the generated stubs (channels, transports, queues, retries, balancing) is the
gRPC library. It is not in the repository and is modelled as an environment from
how the code uses it.

## 1. Inventory

For each component: its state, its operations, what it interacts with, what is
hard about it, and what makes it correct.

| Component | State | Operations | Interaction | Hard behaviour | Correct when |
|---|---|---|---|---|---|
| **05 server** `05-sum-async/src/server.cpp` | `CallData` objects (status, request, response), completion queue, `server` | `Start`, `HandleRpcs`, `CallData::Proceed` in CREATE / PROCESS / FINISH, `Stop` | tags on the queue are object addresses | any number of threads without a lock, a 3 s sleep inside Proceed, failed events, address reuse, shutdown | one owner per object, no use after delete, one waiting object per thread, own answers, everything ends |
| **05 clients** `client.cpp`, `client-thread.cpp` | one completion queue, one heap object per call | `ComputeSum`, `AsyncCompleteRpc`, `Shutdown` | a polling thread deletes what the main thread created | queue shut down with a call outstanding | the call is delivered and deleted once |
| **07 stream** `07-fibonacci-callback` | server: response vector, iterator; client: received vector, done/status under a mutex | `NextWrite`, `OnWriteDone`, `OnDone`; `OnReadDone`, `OnDone`, `Await` | callbacks chained through gRPC | failed writes, lost connections, slow readers | ordered complete stream or an error; Finish once |
| **33 server** `33-reflection/src` | as 07, and the slow list service | as 07 and 24 | two services on one server | as 07 | as 07 |
| **08 average** `08-average-callback` | client: iterator; server: counter, accumulator | client `NextWrite`, `OnWriteDone`; server `OnReadDone` | as 07, other direction | a dead client looks like the end of the stream | the average of all samples or an error |
| **09 evens** `09-evens-callback` | server: queue `buffer`, `incoming`; client: iterator, received vector | server `NextCicle`, `OnReadDone`, `OnWriteDone`; client the same plus `Await` | reads and writes of one call in both directions | the client reads and writes concurrently | no deadlock, the even numbers in order |
| **04 evens** `04-evens` | local to one call | client writes all, then reads; server reads and writes alternately | blocking streams | both sides blocked in a write | the call ends |
| **01, 02, 03** | local to one call | one blocking call or stream | threads of the library | arithmetic widths, ignored `Write` results | the value of the formula, modulo the type |
| **06, 20** `06-sum-callback`, `20-errors` | `done`, `status`, mutex, condition variable | `ComputeSum` / `Calculate`, completion callback | callback thread and caller | flags reused by successive calls | each call returns its own status, no lost wakeup |
| **22** `22-interceptor` | a global map, one interceptor per call | `Intercept` at three hook points | nested call to the same server | failures inside a hijacked call, unlocked map | the cache answers what the server would |
| **23** `23-multiplex` | result vectors, threads | 8 clients per number, join | one channel | exceptions in threads | every slot holds its own product |
| **24, 27** `24-cancel`, `27-deadline` | `reactor` pointer, done/status | `Calculate`, `Cancel`; server loop that tests `IsCancelled` | cancel thread and main thread | cancel before, during and after the call | a cancelled call ends and does no more work |
| **25, 26, 28** | channel configured from `policy.json` | one call | retries, waiting and balancing by gRPC | servers that come and go | at most maxAttempts tries |
| **29** `29-health` | `is_serving`, health service, command thread | `Start`, `Stop`, `Suspend`, `Resume`; client checks, then calls | health service and sum service | check and call are two steps | the status follows the last command |
| **30, 31, 32** | command thread, done/status | `c` and `q` commands, upload | keepalive, compression and TLS by gRPC | exceptions in the thread, end of input | one call per command, termination |
| `00-proto`, `json.hpp` | none | none | generated and vendored | none | not ours |

Not one of the examples keeps anything on disk, so there is no recovery to
verify: a process that ends takes its state with it.

## 2. Plan

In this order, the behaviour that is hardest to test first. All of it is done.

1. `UnaryService`, `AsyncSumServer`, `AsyncSumServer_proofs` (05 server).
2. `ResponseStream`, `FibonacciCallback`, `FibonacciCallback_proofs` (07 and 33).
3. `AsyncSumClient` (05 clients), on `UnaryService`: the two halves of 05 meet
   in the contract that one implements and the other uses.
4. `Transport`, `SyncStreams` (02, 03, 04), `StreamWriter`, `AverageCallback`
   (08), `EvensCallback` (09), and `Streams`, which puts them together;
   `SyncStreams` implements `ResponseStream`, too. Proofs: `Averages_proofs`
   (08), `Streams_proofs` (09), `SyncStreams_proofs` (02 to 04).
5. `SqrtClient`, `SqrtClient_proofs`: the done / status / condition variable
   client that 06 to 09, 20, 22 to 25 and 27 to 32 share.
6. `CachingInterceptor` (22), `CachingInterceptor_proofs`.
7. `SlowFibonacci` (24, 27, 28), `Multiplex` (23), `ServicePolicy` (25, 26),
   `Console` (29 to 32), `SyncSum` (01) and `FibonacciNumbers` (02 to 33):
   numbers that overflow. `Calls` puts these and `AsyncSumClient` together,
   `Calls_proofs` has their proofs.

What is left is out of the prover's reach: the liveness properties (section 5).

## 3. Modules

Three rules hold everywhere. A callback of a reactor is one action, as gRPC
serialises the callbacks of a reactor (`09-evens-callback/src/server.cpp:8-13`
relies on that), and the statements of a thread are actions of their own, as are
those of a callback, where another thread can see the difference. What gRPC and
the network do is external: any order of completion the code can meet. And an
operator `Action_Defect` is its action with a plausible bug: no specification
uses it; put in the place of the action it makes the property of the same topic
fail, which shows that the property depends on the code.

### AsyncSumServer (05-sum-async/src/server.cpp)

One action per C++ statement whose order another thread can see.

| Code | Model |
|---|---|
| a `CallData` and its address | a member of `heap`; `status`, `request`, `response` are indexed by address and survive a delete, so that an address used again would show stale data |
| `request`, `ctx` | `request[d] = c`: the operands of call `c` |
| `response` | `response[d] = c`: the sum of the operands of `c` |
| `this` of the running `Proceed()` | `this[h]`; the object under construction is `fresh[h]` |
| program counter of a thread | `pc[h]`: `"create"` (l. 24), `"request"` (33), `"next"` (123), `"proceed"` (128), `"compute"` (41), `"sleep"` (43), `"finish"` (45), `"left"` (after 126) |
| pending operations and the queue | `requested`, `finishing`; `succeeded`, `aborted` |
| `server` and its life | `server`: none, running, draining (inside `Shutdown()`), gone |

`HandleRpcs` runs in every thread of `Handlers`; `main()` uses one, the comment
of line 113 allows more. `Start` covers the port that cannot be bound. `Stop` is
the destructor, reached when `HandleRpcs` has returned. Clients and runtime are
external: a call may be abandoned while it waits or while it is processed
(`Cancel`); an operation completes in any order; a `Finish` on a call that is
dead completes without ok, or with ok when the server has not noticed;
`Shutdown()` returns every `RequestComputeSum` still pending and blocks while a
matched call is unresolved.

### UnaryService

The contract: a call is executed at most once, after it was started and before
it is answered, is answered from its own request, and ends once. The mapping
(`AbstractRpc`) calls a matched call executed when a live object holds its
result.

### AsyncSumClient (05-sum-async/src/client.cpp, client-thread.cpp)

The other half: its server is `UnaryService`. `Simple` processes run
`client.cpp` (send, `Next`, delete, return), `Threaded` ones
`client-thread.cpp`: `StartThread`, `StartCall`, `Finish`, `FinishReturns`,
`Shutdown` and `Join` in `main()`, `AsyncCompleteRpc` in the polling thread.
`queue[p]` is the tag of `Finish`; a queue that is shut down still reports it,
and returns false only behind it. `Finish` hands the call over, and the polling
thread may print and delete it before `FinishReturns`: `OneOwner` says that
`main()` has no use for it there (`InCall`). That gRPC has none either, inside
the `Finish` it was given, is the library's part.

### FibonacciCallback (07-fibonacci-callback, 33-reflection/src/FibonacciServiceImpl.hpp)

`current` is the iterator, `write` the pending write and its outcome, `finish`
the status given to `Finish`, `wire` and `trailer` what is in transit. A
response is named by its position: the numbers themselves play no role in the
order of events. `Finish` after `Finish` is a misuse of the library, which stops
the process: `process` becomes `"aborted"`. `GetFibonacciSequence`,
`OnReadDone`/`OnReadEnded`, `OnCallDone` and `Await` are the client. `Lose` cuts
a connection and drops any suffix of what is in transit; a server that dies does
that to all its calls.

### ResponseStream

The contract of a server stream: an ordered prefix, success only at the end. 07
implements it for any number of calls; 02, 03 and 04 for one, where a response
is a message of the answer to the client's list. The average of 03 is no message
of a stream: it comes with the status, so that its stream has none, and
`WholeAnswers` speaks of it.

### Transport, SyncStreams, StreamWriter, AverageCallback, EvensCallback

`Transport` is the runtime under one streaming call: two directions that hold
`Window` messages each, half close, trailer, and the faults of the set `Faults`.
`SyncStreams` puts the blocking stub call and handler of 02, 03 or 04
(`example`) on it: `Write`, `WritesDone`, `Read`, `Finish` and the handler's
read, write and return are one action each, and block as the C++ calls do.
`StreamWriter` is the writing half that the clients of 08 and 09 have in common;
`AverageCallback` and `EvensCallback` add their servers and the reading half of
09.

The constructors of the writing reactors are the delicate place
(`08-average-callback/src/client.cpp:16-27`, `57-59`): they run in the main
thread beside the first callbacks. `StartCall`, `FirstWrite` and `Advance` are
therefore three actions, the increment of the iterator behind the first
`StartWrite` is unsynchronised with that of `OnWriteDone` (`Increment`: either
may be lost), and a `StartWrite` on a call whose `OnDone` has already run is a
crash (`StartsTooLate`). The callback is two actions for the same reason: the
increment may come between the test of `OnWriteDone` and the dereference of
`WriteNext`, which then reads behind the list.

### SqrtClient (20-errors, and every client that waits)

`main()` sends each argument through `SqrtClientWithReactor` and
`SqrtClientWithCallback`. `mtx`, `cv`, `done` and `status` are modelled
statement by statement for both sides, with spurious wakeups; `done` is not
initialised in the first and used again by every call in the second, as in the
code. 06's client is the second with one call.

### SlowFibonacci (24-cancel, 27-deadline, 28-load_balance)

`Calculate` (StartCall) and `Assign` (the pointer `reactor`) are two actions,
between which the cancel thread may test the pointer. `link` tells what the
client knows from what the server knows, so that `IsCancelled` is late.
`GetFibonacciList`, `Test`, `Compute`, `FinishCompletes`, `OnDone` are the
server; `late` counts the elements computed for a call known to be dead.

### CachingInterceptor (22-interceptor)

The hook points of `Intercept` (hit, miss with a nested call, its answer, the
receiving batch), the map, and the two calls of `main()` against a server that
stops and starts at any time.

### Multiplex (23-multiplex)

Launching, joining and printing; a thread per slot; a failed call throws in its
thread, which terminates the process. `Int32` wraps the product. A negative
argument makes the vectors' size wrap (`length_error`) or the table empty.

### ServicePolicy (25-retry, 26-wait_for_ready)

Client and server are the code's; the channel (attempts, transparent repetition,
backoff, waiting) is external, and does what the `policy.json` beside the code
asks for. The server may change between up and down at every step.

### Console (29-health to 32-ssl)

Both command threads read a script; behind it the input has ended and `std::cin
>> command` leaves the last command in place. `Start`, `StartFails`, `Stop`
(refuse), `Stopped` (drain), `Exit` (the second `Stop()`, of the destructor),
the health status, the call, and what a failed call does in each example: 30
terminates, 31 and 32 go on, 29 ends. Server and client of 32 return at once
without their certificates (`NoCertificates`, `NoClientCertificates`).

### SyncSum, FibonacciNumbers

The sum of 01 as an int that becomes a float (rounding to even) and an int
again; the three generators with the widths of their types. Widths are
constants.

### Streams, Calls and the modules of the runs

`Streams` and `Calls` check several programs in one run: the example programs
never run together, but the streaming ones share a transport and the others ask
the same question, what a call leaves behind. A behaviour is that of one
program, chosen at the start (`example`, `program`); the variables of the others
rest at a first value, and a weak fairness condition that ranges over two
programs amounts to one condition for each, since one of them is enabled for
ever or never. `MCStreams`, `MCCalls`, `MCAsyncSumServer`, `MCSqrtClient` and
`MCEvensCallback` supply values, symmetry and inputs and define nothing else.

### Invariants

The modules define the inductive invariants that the proofs use, `IInv`, as
conjunctions of named parts, and the runs check them:

| Module | Parts of `IInv` beyond the types |
|---|---|
| `AsyncSumServer` | `Ownership` (`SingleOwner`, `NoUseAfterFree`, `ThreadShape`, `StatusFollowsControl`); `LifeCycle`; `OneCallEach`, `WaitingIsBlank`, `CallFollowsStatus`: which call an object has; `FailedIsAbandoned`: why the loop ends |
| `FibonacciCallback` | `NothingSkipped`: received, on the wire and under way are consecutive; `LossFailsTheCall`; `FinishFollowsWrites`; `SuccessIsWhole`; `NothingBeforeTheFirstRead`: a crash is of a call that was over before its constructor read; `OnlyLostCallsAbort` |
| `SyncStreams` | `StagesInOrder`: how client, handler, half close and trailer follow each other; `EveryMessageAnswered`: read and under way are a prefix of the input, received, under way and owed the answer to what was read; `WholeOrNothing` |
| `StreamWriter`, `AverageCallback` | `CursorFollowsWrites`; `SamplesInOrder`; `EndsBehindTheLast` |
| `EvensCallback` | `CursorFollowsWrites`; `NothingLost`: four places, one list; `OneAtATime`; `EndsBehindTheLast` |
| `AsyncSumClient` | `InStep`: main thread against polling thread; `HandledOnce`: the tag, the event and the line printed |
| `Multiplex` | `LoopInRange`; `ThreadsFollowMain`; `SlotsHoldProducts`; `RowsFollowMain`; `PrintsTheProducts` |
| `ServicePolicy` | `OneAttemptEach`: an execution costs an attempt; `CallFollowsMain`; `PrintedAsItEnded`; `WaitsForTheServer` |
| `Console` | `ServerInStep`, `ClientInStep`: how far the script is; `HealthOfLastCommand`; `QuitsAfterAllCalls` |
| `SlowFibonacci`, `SqrtClient`, `CachingInterceptor` | `Consistent`, and the safety properties themselves |
| `SyncSum` | `ConvertsTheSum` |
| `FibonacciNumbers` | `FibInv` of `Calls_proofs`, which speaks of a function over all numbers: TLC checks `TypeOK` and what follows from it, `FibonacciModuloWidth` |

## 4. Runs

| Run | Question | Instance |
|---|---|---|
| `async_cancel` | does the single-threaded server of 05 keep its objects and the unary contract when every client may give up, and answer everybody while nobody does? `IInv`, `LoopEndsOnCancelOnly`, `ImplementsUnaryService`, `EveryCallAnswered`, `FinishedAreFreed` | 1 thread, 3 calls, 4 addresses; 236 000 states |
| `async_threads` | may `HandleRpcs` run in several threads (l. 113)? `SingleOwner`, `NoUseAfterFree`, `AcceptCapacity`, `LeakPerExit` | 2 threads, 3 calls (2 may be abandoned), 5 addresses, symmetry; 14 500 states |
| `async_leak` | *violated*: does a `CallData` always deallocate itself (l. 37-38)? | 1 thread, 3 calls |
| `async_hang` | *violated*: does every call end? | 1 thread, 3 calls |
| `fib_stream` | are the streams of 07 ordered, complete and contained when a client or the server may die? Does every client get its sequence or an exception, unless it dies, or crashes of a call that was over before its first read (section 5)? `IInv`, `StreamFromTheStart`, `OnlyLostCallsAbort`, `ImplementsResponseStream`, `EveryClientReturns`, `EveryReactorIsDeleted` | 2 calls, lengths 0 to 2, window 1; 358 000 states |
| `fib_finish` | *violated*: is `Finish` the last operation? | 2 calls, length 2 |
| `streams` | 02, 03, 04, 08, 09: is a part of an answer ever taken for a whole one (`WholeAnswers`)? Is a number lost on the way (`NothingLost`)? Which lists block 04 for ever (`LongListsBlock`), and do all others end (`EveryClientReturns`, `EveryReactorIsDeleted`)? `CrashesOfItsConstructor`, `ImplementsResponseStream`. The first and the last but one check the `IInv` of each program, too | window 1, all faults; 02 up to 3 numbers, 03 and 08 up to 3 samples, 04 all lists of odd and even up to 4, 09 up to 3 numbers; 228 000 states |
| `evens_cursor` | *violated*: is every number sent once? | 09, no faults |
| `sqrt_client` | does every call report its own status, after its callback has left? `OwnStatus`, `ReturnsAfterCallback`, `EveryArgumentReported` | all command lines of up to 2 arguments; 3 800 states |
| `cache` | is only what the server said in the cache, and the second call answered from it? `CacheIsTheServers`, `SecondAsFirst` | lengths 0, 1, 3; 150 states |
| `cache_server` | *violated*: is what is shown as the server's response the server's? | the same |
| `calls` | 24 and 27: `ListIsWhole`, `CancelsALiveCall`, `AbandonsSoon`, `EndingFreesTheClient`, `EveryReactorIsDeleted`; 05: `ReportedAndFreed`; 23: `TableIsWhole`; 25 and 26: `PolicyKept`; 29 to 32: `CommandsTakeEffect`, `AcceptedCallsAreAnswered` (each with the `IInv` of its program); numbers: `NearestToTheSum`, `FibonacciModuloWidth`; all others: `EveryProgramEnds` | lists of 0, 1 and 3; one process of each client; up to 3 rows, 2 methods, 5 bits; 5 attempts; scripts of up to 3 commands; ints of 6 bits, floats of 3; 47 000 states |

**Bounds.** The state spaces are finite because calls end once; the only guard
that caps anything is `made` of `Console`, which stops counting at one more than
the length of the script, where the input has ended.

* 05: `|Addresses| = |Handlers| + |Calls|` is the largest number of `CallData`
  objects that can be alive together (one that waits per thread, one per call),
  so `Construct` is never blocked for want of memory; addresses are still
  reused, as an object deleted after its call frees its address for the next.
  Three calls are the least that give one call in service, one matched and
  queued behind it, and one still waiting, which is what both findings and
  address reuse need. The clients of 05 share nothing but the server's
  availability: one process of each program shows it.
* Streams: a window of 1 makes every second message wait, which is the case the
  order of events depends on; 0, 1, 2 and 3 numbers include the empty stream,
  the stream that ends with its first write and the write that waits for the
  transport. `LongListsBlock` quantifies over all 31 lists of odd and even
  numbers of up to 4: with a window of 1 the shortest that block have four
  numbers, the first two of them even, so some of 4 block and the others do not.
* `Multiplex`: 5 bits make 9 * 2 overflow; -3 and 15 (INT_MAX) are the
  `length_error`, -1 the empty table. `SyncSum`: all pairs of 6-bit ints against
  a float of 3 bits have sums that are exact, rounded, and out of range;
  `FibonacciNumbers`: 6 and 8 bits overflow within 16 numbers. The widths of the
  program are 32, 24 and 64.
* `ServicePolicy`: 5 is the `maxAttempts` of 25's `policy.json`. `Console`:
  three commands are the least with a repeated command before a `q`.
  `SqrtClient`: two arguments give successive calls over the same object, after
  a failure and after a success.

Symmetry is used in a run without temporal formulas only, and keeps abandoned
and patient calls apart.

**Deadlock.** A process that ended, or a server in `cq->Next` without calls, has
no next step: the runs say `CHECK_DEADLOCK FALSE`, and the liveness properties
tell the legitimate stops from the others. The deadlock of 04 is the subject of
`LongListsBlock`.

**Fairness.** Threads that are not blocked run, and the runtime delivers what it
owes (matches a waiting call, completes an operation, calls a callback, returns
from a `Shutdown()` that is due, fires a deadline, reports a lost peer). It is
weak, as `cq->Next`, condition variables and gRPC's executors promise no more
and none of these actions is disabled by others while it is due, with one
exception: a thread of `SqrtClient` gets the mutex it waits for (`SF` of `Lock`
and `DoneLocks`), although the other may take it again and again in spurious
wakeups. What clients, users and networks do (start, give up, fail, cut) is
never assumed; a script that has been typed is read.

What the liveness properties assume beyond that is in their formulas:

* `EveryCallAnswered`: the call has reached the server, and nobody gives up.
* `EveryClientReturns`: of 07, 08 and 09 a client may crash, in a constructor
  that races with the end of its call (section 5); the property of 07 allows a
  crash only of a call that failed or had no response.
* `EndingFreesTheClient` does not assume that 24's server is fair: a cancelled
  or late client must return from a server that computes for ever.
  `EveryReactorIsDeleted` carries `ServerFairness` as its premise.
* `EveryProgramEnds`: a client of 05 ends once its call is over. That it is ever
  over is not assumed, as `async_hang` shows a server of 05 that keeps it
  waiting; a client of 05 has no deadline, so it can wait for ever. 25 and 26
  end once the server stays up, or (25) down. Server and client of 29 to 32 end
  once a `q` was typed, the client of 29 in any case; the server of 29 crashes
  instead if its port is taken, and only then.

### What the violated runs show

* `async_leak`: a client gives up while its call sleeps (l. 43). `Finish` then
  completes without ok, the loop breaks (l. 125-126) without `Proceed()`, and
  the `CallData` is never deleted. `LeakPerExit` says that exactly one object
  per thread is lost that way.
* `async_hang`: the same event ends `HandleRpcs`, although the object spawned at
  line 39 may already be matched with another client's call. Nobody takes its
  event, `Shutdown()` (l. 108) waits for that call, and its client waits for
  ever. Reordering plays no part: with events taken strictly in order the call
  need only be matched after the failed event is queued.
* `fib_finish`: after `OnWriteDone(false)` the reactor calls `Finish` and
  `NextWrite` (l. 33-36), so it writes or finishes again on a finished call. By
  `OnlyLostCallsAbort` it takes a client that is gone to get there.
* `evens_cursor`: the constructor's increment of the iterator (09
  client.cpp:74-76) is ordered behind the first `OnWriteDone`, or lost to it: a
  number is sent twice, left out, or memory behind the list is read. 08 has the
  same lines (client.cpp:57-59).
* `cache_server`: a nested call that fails leaves an empty list, which is
  returned with OK and printed as "Response (from server)" (22 client.cpp:123).

## 5. Disagreements the models contain, and proofs

Besides the violated runs the modules keep these to the code, where a comment or
a message says something else:

* 24: "Client sent cancellation request!" is printed also when there was no
  reactor to cancel (client.cpp:87, 135); the call then goes on. At the end of
  the input `c` is compared without having been set (client.cpp:130-132), so the
  call may be cancelled although nobody asked for it.
* 22: the interceptor hijacks every call (client_interceptor.hpp:40), although
  the comment in front (34-36) has it hijack those it answers from the cache.
* 29 to 32: at the end of their input the consoles repeat the last command (30
  client.cpp:94); only a script with a `q` is shown to end. 30 to 32 say "Server
  running on" without a server (30 server.cpp:48); 29 uses the null pointer
  (server.cpp:73). The suspended service of 29 still answers calls
  (server.cpp:17, 43): a client that checked before the `s` gets its sum.
* 01: above 2^24 the printed equation is wrong, as the sum goes through a float
  (server.cpp:34, client.cpp:56); `NearestToTheSum` says how wrong.
* 04: `LongListsBlock` is a limit of the design, of which the code says nothing.
  The ten small numbers of its `main()` (client.cpp:66) never fill a real
  window, which is of bytes: the program as it stands does not block.
* 07, 08 and 09: the constructors start their first read or write behind
  `StartCall` (07 client.cpp:15-16, 08 client.cpp:15-16, 09 likewise), when the
  call may be over and `OnDone` have run: the library has freed the call, and
  the models let the process crash (`StartsTooLate`). It takes a call that fails
  at once, or in 07 a stream without responses. The code says nothing of it;
  `EveryClientReturns`, `CrashesOfItsConstructor` and
  `NothingBeforeTheFirstRead` say that no other call is hit.

### Proofs

Eight modules hold theorems. Every invariant and every action property that a
passing run checks, and the refinements of `UnaryService` and `ResponseStream`,
are theorems, for every value of the constants that satisfies the assumptions.
Model-checked and not proved is liveness, which is out of the prover's reach:
`EveryCallAnswered`, `FinishedAreFreed`, `EveryClientReturns`,
`EveryReactorIsDeleted`, `EveryArgumentReported`, `LongListsBlock`,
`EndingFreesTheClient` and `EveryProgramEnds`.

The argument is the same everywhere: `IInv` holds at the start, each action
preserves it (one lemma or step per action), and it implies the properties.

* `AsyncSumServer_proofs`, from `NoneAssumption` (the null pointer is neither a
  call nor an address). *Ownership*: `SingleOwner` is not inductive alone. That
  `delete this` frees an object nobody else uses needs the deleting thread to be
  its only owner; that a new object has no second owner needs every owned object
  to be in the heap (`NoUseAfterFree`); that a thread moves an object and not a
  null pointer needs `ThreadShape`; and that the object re-entered by a `Finish`
  event is in FINISH needs the status of every pending and queued object
  (`StatusFollowsControl`). Hence `TypeCorrect`, `NoTwoOwners`, `MemorySafe`,
  `CheckNeverFires`. *Calls*: `NoExitWithoutCancel` needs each object tied to
  its own call. *Counts*: `AcceptCapacityKept` and `OneLeakPerExit` compare
  cardinalities of finite sets of objects and of threads. *Refinement*:
  `RefinesUnaryService`, one lemma for each step a client can see.
* `FibonacciCallback_proofs`, from `LimitsAssumption`, for any number of clients
  and any window: `WholePrefix` (`StreamFromTheStart`), `PatientClientsAreSafe`
  (`OnlyLostCallsAbort`) and `RefinesResponseStream`. What keeps them is where
  every number of a stream is: received, on its way, in the `StartWrite` under
  way or not computed yet.
* `Averages_proofs` (08), `Streams_proofs` (09), `SyncStreams_proofs` (02 to
  04), from `SamplesAssumption`, `NumbersAssumption` and `InputsAssumption`
  (lists of numbers), for any window: `NoPartialAverage`, `NoNumberIsLost`,
  `OnlyTheRaceCrashes`, `AnswersAreWhole`, and `ProgramsRefineResponseStream`.
  The invariant of 09 is about the order of lists: what the client has, what is
  on its way back, what the server's queue owes, and the even numbers of what is
  on its way there make up the even numbers of what was written. 02 to 04 do the
  same with `FlattenSeq` over the answers to each message. A lemma about
  `StreamWriter` is there once for 08 and once for 09, since a theorem cannot be
  used through `INSTANCE`.
* `Calls_proofs`: `StepsApart` shows that a step of one program is a stutter of
  the others, so that `CallsInv`, the conjunction of their invariants, needs one
  part for each.
  * 24, 27: `WholeLists`, `CancelIsSafe`, `SoonAbandoned`. An OK has the whole
    list behind it because the loop's last test found it whole; a late element
    is the last because `IsCancelled` cannot become false again.
  * 05: `EveryCallReported` for any number of processes: the event of a call is
    handled once, after `main()` gave the call away, and before the loop ends.
  * 23: `WholeTable`, for any set of methods, number of rows and width, and any
    order in which threads end; the next method of a row, the least of those
    left, exists in every set of numbers.
  * 25, 26: `PolicyIsKept`, for any `maxAttempts` from 1 on.
  * 29 to 32: `EveryCommandCounts` and `StopWaits`, for all scripts over the
    commands (`ScriptsAssumption`).
  * 01: `NearestSum`, for any width of int and of float: the float that is
    printed is at most as far from the sum as any other. `Distance` shows that
    `Ulp` is the first power of two at which the sum fits, `NearestMultiple`
    that the rounding takes a nearest multiple of it. The floats of smaller
    exponents are no nearer than the largest of them, which is such a multiple,
    too.
  * 02 to 33: `NumbersModuloWidth`, for any widths and any length: the remainder
    of a sum is that of the sum of the remainders, which is why generators that
    wrap after each addition have the remainders of the Fibonacci numbers.
* `SqrtClient_proofs`, from `ArgumentsAssumption`: for every set of command
  lines, `StatusIsOwn` (`OwnStatus`) and `CallbackIsOver`
  (`ReturnsAfterCallback`). `Consistent` adds that a callback under way is that
  of the call `main()` waits for, that it holds the mutex while it is inside,
  and that `done` is true only behind the call's own status: what excludes the
  flag left over from the call before.
* `CachingInterceptor_proofs`, from `NumbersAssumption`: `OnlyAnswersAreCached`
  (`CacheIsTheServers`) and `AskedOnce` (`SecondAsFirst`). `Consistent` says
  where a response came from at each hook point.

**Recursion.** What a recursive function computes (`SumOf`, `EvensOf`, the
folds in `FlattenSeq`, `getFibonacci`, `Fib`) is not given: it is a `CHOOSE`
of a function that satisfies its equation. The proofs show that one exists up to
every length, by the least number for which there is none
(`LeastNumber`, from the well-foundedness of `<` on Nat), and that two of them
agree, by the least number at which they do not.

**Assumptions.** Besides the types of the constants there are three about powers
of two, which the provers know nothing of. `TableAssumption` and
`WidthsAssumption` say that those of the widths are what they look like
(positive, larger than one, the wider the larger); `PowersAssumption` says that
`2 ^ 0 = 1` and that each power up to the largest that `SyncSum` uses is twice
the one before. They hold of all positive widths (int is not wider than long
long), and TLC evaluates them.

**What the proofs found.** Arms of a `CASE` that overlap (in `Outcome` and
`Result` of `SyncStreams` and in `TestPointer` of `SlowFibonacci`) leave the
choice of the arm open, where TLC takes the first; they are disjoint now.
`ImplementsResponseStream` held of 08 and 09 only because TLC's lists include an
empty one; its instance now lets a client ask for any number of responses.

## 6. Not modelled

* `json.hpp`, the vendored nlohmann::json that is copied into 25 to 29:
  third-party code, and 123 830 of the 129 800 lines of C++ in the repository.
  The course's own programs have about 6 000 lines, build files, headers,
  argument checks and console output included; the share of the repository that
  a model can cover is bounded by that.
* What the library does of itself: retries, waiting and backoff (25, 26;
  external in `ServicePolicy`), balancing policies (28), pings (30), GZIP and
  SHA-256 (31), TLS (32), the reflection plugin (33). The code switches them on.
  The components are marked `partly` for that reason.
* The float averages of 03 and 08: modelled by the samples, or their sum and
  number; only the division is left out.
* `22-interceptor`'s server interceptor, which only prints.
* Data races on plain C++ fields at the level of the memory model: `SingleOwner`
  shows that no two threads are in one `CallData`, which makes them absent
  there; the iterator of 08 and 09 and the pointer of 24 are nondeterministic
  reads and lost updates.
* Console output and argument parsing, except where a property is about them.
* Memory exhaustion: `new` always succeeds.
* What gRPC does beyond the operations that the code calls.
