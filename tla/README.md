# agrpc: TLA+ models and proofs

agrpc wraps asynchronous gRPC in libunifex senders, so that coroutines can
`co_await` requests, reads, writes and finishes. Its core is `GrpcContext`, an
event loop over a gRPC completion queue that also takes work from other threads.
This directory holds TLA+ models of that core, of the example programs that use
it, and of the concurrent pieces of `agrpc/base` (the coarse clock, the rate
limited log macros, the prefix providers), with TLC runs and TLAPS proofs.

Paths below are relative to `src/agrpc/`. `PROJECT.json` maps every definition
to the lines it models.

## Inventory

| Part | State | Operations | What is hard | What makes it correct |
|---|---|---|---|---|
| `GrpcContext` run loop (`context/grpc_context.{h,cc}`) | `local_queue_`, the list under execution, `event_`, `remote_queue_read_submitted_`, `stop_op` in the frame of `Run` | `Run`, `RunImpl`, `ExecutePendingLocal`, `AcquireCompletionQueueItems`, `TryScheduleRemoteQueuedItems`, `ShutDown` | one `event_` shared by all operations; stop and shutdown at any moment; lifetime of `stop_op` | each operation gets its own result, once; `Run` ends when told to and leaves nothing dangling |
| Remote scheduling and wakeup | `remote_queue_` with its inactive mark, `work_alarm_` | `ScheduleImpl`, `ScheduleRemote`, `SignalRemoteQueue` | producers race with the runner's last look at the queue before it blocks | no lost wakeup, no double use of the alarm, FIFO |
| `AsyncRPCSender::Operation` | `execute_`, the receiver | `start`, `OnScheduleComplete`, `StartAsyncRPC`, `OnRequestComplete` | one intrusive object moves through remote queue, gRPC and local queue with a callback switched on the way | issued once, answered once, delivered once |
| RPC customization points (`context/rpcs.h`, `tag_invoke` overloads) | none; closures over references | `AsyncRequest`, `AsyncRead`, `AsyncWrite`, `AsyncFinish`, ... | legal order of operations of a call; lifetime of what the closures capture | no call is misused |
| Examples (`example/`) | coroutine and call | server and client `main` | the coroutine runs inside the loop it feeds; calls break half way; one call is served at a time | servers keep serving, clients end and never take a part of a stream for the whole |
| Coarse clock (`base/chrono.{h,cc}`) | two timestamps, `exiting_`, the worker | constructor, worker loop, destructor | two writers; destruction at any point of the worker; a loaded machine | monotone time, bounded deviation, clean join |
| `..._EVERY_SECOND` (`base/logging.h`) | `last_occurs`, `logging` per site | the macro | relaxed loads, flag released before the message is written | messages spaced, site never silenced |
| `..._ONCE`, `..._EVERY_N` | flag, plain counter per site | the macros | stale loads; the exchange comes before the message; `EVERY_N` has a data race | at most one message, and it can be relied on; every N-th call; no silence for good |
| Formatting, prefixes, `CHECK` (`base/logging.{h,cc}`) | static vector of prefix providers | `InstallPrefixProvider`, `WritePrefixTo`, `FormatLog`, `CHECK` | static initialization and destruction, with worker threads that log | complete prefixes in order; the vector outlives who logs; a failed check ends the process |

Components interact as follows. A coroutine awaits an `AsyncRPCSender`; its
`start` either hands the rpc to gRPC at once (on the runner) or enqueues the
operation on `remote_queue_` (on another thread, or before `Run`). The thread
that enqueues first on a queue marked inactive sets `work_alarm_`, whose event
(null tag) makes the runner look at the remote queue. Completion events carry
the address of the operation, which goes to `local_queue_`; executing it calls
the receiver, which resumes the coroutine on the runner. The log macros read the
coarse clock; nothing else connects `base` with `context`.

## Modules

* `GrpcContext` - the context, its operations, the threads that use it, and the
  external parts as this code uses them: the completion queue (a set of ready
  tags and a shutdown flag, events taken in any order), `grpc::Alarm`, gRPC's
  completion of an operation, `unifex::atomic_intrusive_queue` (a FIFO list and
  an inactive mark; `enqueue` tells whether it replaced the mark) and the stop
  source. A broken precondition of one of them sets `fault`, after which the
  process may do anything and the model stops:
  `inactive_dequeue` (`try_mark_inactive_or_dequeue_all` on a queue that is
  already inactive), `alarm_reset` (an alarm set while set), `cq_shutdown` (gRPC
  aborts when an alarm or a call uses a queue that is shut down) and
  `dangling_stop` (a queue still links to `stop_op` when `Run` returns).
* `OperationContract`, `FifoSchedule` - what an operation, and the order of
  remote scheduling, look like from outside; `GrpcContextRefinement` gives the
  refinement mappings; `MCGrpcContext` adds the symmetry set.
* `GrpcContextProofs` - theorems about `GrpcContext`, its refinement and its orderly
  shutdown.
* `OrderlyShutDown` - `GrpcContext` under a discipline of the application that
  makes `ShutDown` safe (see below).
* `NestedRuns` - several contexts on several threads: `current_thread_context`
  across calls of `Run` from receivers; theorems in `NestedRunsProofs`.
* `ServerCall` - the RPC operations on a gRPC call shared by several coroutines,
  on top of `OperationContract` (which `GrpcContext` implements) instead of the
  context itself; `ServerCallProofs` its theorems.
* `HelloWorld` - composes the example programs with `GrpcContext`; its theorem is in
  `HelloWorldProofs`.
* `StreamingHello` - the streaming client and server as their users see them,
  with calls that fail; the context is not visible at this level. Its theorem is
  in `StreamingHelloProofs`.
* `CoarseClock` - the clock, and `MonotoneClock`, what its readers rely on.
  `TimedClock` adds the lengths of the steps; `CoarseClockProofs` has theorems
  about both.
* `LogSite` - what the rate limited macros share: one site, its argument, the
  threads in it. `LogOnce`, `LogEveryN`, `LogEverySecond` - one form each, with
  theorems in `LogSiteProofs`.
  `LogSites` puts the three side by side for TLC: a site has one of the forms.
* `LogPrefix` - the providers' vector, lines and checks, from the constructors
  before `main` to the destructors after it; `LogPrefixProofs` its theorems.

Some definitions only name a value (`Told`, `MovedFrom`, `AfterEvent`, ...). The
definitions in front of them, introduced as mutants, are the same value as a
plausible bug would make it; `PROJECT.json` says which property catches it.

### State and atomicity in GrpcContext

Variables carry the names of the members they stand for. `pc` is the runner's
place: `outside` Run, `register` (stop callback constructed, current thread not
yet set), `drain` and `exec` (before and inside `ExecutePendingLocal`), `callback`
(application code in a receiver), `next` (waiting in `CompletionQueue::Next`) and
`leave`. Each access to shared state is a step of its own: `enqueue` and the
following `Alarm::Set` are two steps of the producer (`signal[t]` is the item in
between); marking inactive or dequeuing is one atomic operation of the queue. The
runner's private queues are only touched by the runner. `\E`-quantified inputs
are: who starts which operation, who requests stop or shutdown, which event
`Next` returns, gRPC's `ok` flag, and whether the receiver throws.

`connect` creates an operation per use; the model reuses an element of `Ops` once
its receiver has been called, so `Ops` bounds the operations alive at a time, not
their number. Three constants restrict the environment: `WorkBeforeRun` (the
first `Run` is called after something was scheduled), `RemoteDuringRun` (other
threads use the context while `Run` executes) and `RunAgain`.

### ServerCall

The customization points forward to the `tag_invoke` overloads; each overload
wraps its references in a closure `rpc_`. The model keeps which responder types a
customization point accepts (`AsyncRequestCPO` ...), what the closure asks of
gRPC (`AsyncRequest` ...), and which overloads capture a parameter passed by value
(`ByValue`). Two declarations name the wrong customization point in their result
type, so `AsyncFinishWithError` on a `ServerAsyncReader` (`rpcs.h:286`) and
`AsyncSendInitialMetadata` (`rpcs.h:310`) accept nothing: no program that uses them
compiles, and the model cannot start them. gRPC's view (`call`: at most one
receive, one send, nothing after the status) and the application's (`progress`,
what is awaited) are separate; they meet only when a closure runs and when a
result is delivered. The application is assumed to follow gRPC's rules by its own
view at the moment it starts an operation. The interesting question is whether
they still hold when the closure runs, and when objects die. A closure over a
parameter passed by value may do what it says or anything (`undefined`, after which
the model stops).

### OrderlyShutDown

gRPC aborts when an alarm is set or a call started on a queue that is shut down,
and a runner that leaves through the shut down queue drops its local queue. The
code leaves this to its callers. The module states a discipline that suffices:
call `ShutDown` only when no operation waits to be handed to gRPC and `stop_op` is
in no queue (operations gRPC has taken may be outstanding), and afterwards start
nothing, request no stop and call `Run` with no stopped token. Each clause is
needed: without any one of them TLC finds the fault or the lost work. Work must
also be scheduled before the first `Run` (finding 2).

### NestedRuns

`local_queue_` has no lock; what protects it is that `ScheduleImpl` and `start`
compare `current_thread_context` with the context they were given. A frame holds
the context `Run` was called on, the one it replaced and the items it took. The
application runs a context on one thread at a time; within that it may nest calls
as it likes, also of one context in itself. The wakeup is left out (any loop may
look at its remote queue, get an event or leave, also right after it moved items to
its local queue), so the module says nothing about liveness. `Step(t)` is everything
thread t does; `LocalQueueIsOwned` is about the thread that takes the step: if it
changes `local_queue_` of a context, its own innermost loop is one of that context.
Were `current_thread_context` not `thread_local`, a foreign thread could write to the
queue while its owner is in the loop; that is the mutant.

### The log sites

In `LogEveryN` the counter is a plain `static int`, so `++` and `-=` are a load and a
store each, and each comparison sees the value in the register or the one in
memory. Overlapping calls are counted in `races` and bounded by `MaxRaces`; `silent`
counts calls without a message and is capped at `MaxSilent`. The first message
comes with call N + 1 and then with every N-th call. The `..._IF_...` forms put a
condition before the call, which is a thread that does not call.

`LogOnce` includes what comes after the exchange: formatting may fail, which is
`LOG(FATAL)` inside `FormatLog`, and a FATAL line ends the process.

`LogPrefix` names a provider by its priority. Installers run in the order of their
priorities before any static object is constructed (`[[gnu::constructor]]`). The
vector is constructed by its first use and destroyed in reverse order with the
other static objects, each of which may log in its constructor, its destructor
and from a worker it joins in its destructor. At exit an object is taken off the
list before its destructor runs, so that a vector first used by that destructor is
the next to be destroyed.

### StreamingHello

The client parses its argument, reads until `Read` fails, and returns what it read
only if the status is OK. gRPC may fail a call until the status has reached the
client, also after the server's `Finish`, and then delivers some of the messages under
way. `HandleRequest` runs off its end, which is undefined: the coroutine goes on or
the process is terminated. A request fails only when the server is shut down, which
this program never does; the branch (`RequestFails`) is there, and the calls of the
clients then end with an error.

### Left out of GrpcContext

Two threads in `Run` of the same context at once (the class keeps unsynchronised
state for one runner), destruction of a context in use, and receivers that
complete with `set_done` (the code never calls it).

## Runs

| Run | Instance | Shows |
|---|---|---|
| `ctx_safety` | 3 operations, 2 producers, everything allowed | `WakeupNotLost`, `AlarmExclusive`, `StoppedRunIsClean`; the context implements `OperationContract` (`DeliversOnce`: also, no operation is given the event of another) and `FifoSchedule` (`ExecutesInOrder`) |
| `ctx_live` | 2 operations, 1 producer, fair | `InFlightCompletes`, `ShutDownEndsRun`; `StuckOnlyInNext` and `StopEndsRun`: remotely scheduled work and stop requests take effect, or the runner sits in `Next` with ready items for ever |
| `ctx_stuck` (violation) | 1 operation, 1 producer, fair | `ScheduledRuns` fails, finding 1 |
| `ctx_idle_run` (violation) | 1 operation, 1 producer | `FalseMeansEnqueued` fails, finding 2 |
| `hello` | the three example programs | legal call order, no fault (`NeverMisused`); `ServesForEver`, `ClientTerminates` |
| `server_call` | 3 coroutines, all responder types | `NeverRejected`, `QuietWhenIdle` |
| `orderly` | 2 operations, 2 producers, work before the first `Run`, fair | `InactiveNeverDequeued`, `ShutDownIsSafe`, `NothingLeftBehind`, `OutstandingDelivered` |
| `nested` | 2 contexts, 2 threads, 2 items, 3 deep | `CurrentIsInnermost` (so the `AGRPC_CHECK` of `StartAsyncRPC` holds), `LocalQueueIsOwned`: who touches a local queue is in a loop of its context |
| `streaming` | 2 clients, fair | `AllOrNothing`, `ClientsEnd` |
| `clock` | 17ms, sleeps up to 2ms late and steps 1ms apart, or overloaded, fair | monotone time, nothing stored after the join, the join returns, the clock keeps up; `DeviatesLess`: less than 10ms, as `chrono.h:53` says, unless overloaded |
| `log_sites` | 2 threads, N = 1 and 2, 3 overlaps, 8 instants, fair | ONCE: `OnceOnly`; `PassedMeansWritten`: who gets past the site can rely on the message, or on the end of the process. EVERY_N: `Cadence`, `EveryNth`; `SilencedOnlyIfDrifted`: the site recovers, or N = 1. EVERY_SECOND: `OneInside`, `Spaced`, `CatchesUp` (no lost flag silences the site) |
| `prefix` | 2 providers, 2 static objects with workers, main | `PrefixComplete`, `ProvidersInPlace`, `FailedCheckAborts` |

Bounds. Two producers are needed for two threads to race for the signal, and two
operations for results to be mixed up or reordered; the third operation in
`ctx_safety` allows one in gRPC, one in the local queue and one in the remote
queue. Queues, events and restarts are not bounded: an item is in one place at a
time, so the state space is finite. An `EVERY_SECOND` site
writes its first message after N and a second one after 2N + 1, which eight
instants hold for N = 2 and more often for N = 1. In the clock the time bound
`MaxTime` only stops the clock: the worker cycles on. `clock` takes the largest
`Late` for `Delay` = 1 that the assumption allows, and 17ms hold two rounds of the
worker. Two overlapping calls of `EVERY_N` suffice to lose an increment, three to
leave the counter of a site with N = 1 above 1 for good; `MaxSilent` caps the count
of silent calls. Two threads meet in every pair of steps of a macro; the
theorems cover any number. Three nested calls let a context be entered again under another one. Two
providers show the order of the prefix, two static objects the order of
destruction.

Fairness. The runner thread is scheduled (`WF` of its steps, which are enabled
only while there is something to do); a thread inside `SignalRemoteQueue` leaves
it; an alarm set to "now" expires; gRPC completes every operation it was given
(deadline, failure or shutdown); `Next` does not withhold one ready event for
ever (`SF` per tag, since others may be taken first). In `HelloWorld` a server's
outstanding request need not complete: nobody has to call. Threads that use
`EVERY_SECOND` and `EVERY_N` keep calling, and a relaxed store becomes visible
eventually; a thread inside a macro gets out of it. Time passes and the clock's
worker runs. In `StreamingHello` the programs
run, a call that a server which is gone has not finished fails, and no other call or
request has to.

Deadlock is checked except where the system may stop: programs that end
(`hello`, `streaming`, `prefix`, `log_sites`, `clock`, `server_call`), a context
that is shut down for good (`orderly`), and the stuck runner of `ctx_stuck`.

## Findings

1. **A runner waits with ready work** (`ctx_stuck`). After the alarm's event
   `RunImpl` finds `remote_queue_read_submitted_` false, moves the remote items to
   `local_queue_` (`grpc_context.cc:59`) and then waits in `Next` (`:63`) without
   executing them. `remote_queue_` stays active, so later producers do not signal
   either. An operation or a stop request scheduled from another thread runs only
   when some other event arrives. `StuckOnlyInNext` shows that this is the only way
   in which scheduled work is held up, and the theorem `StuckForGood` that, when gRPC
   has nothing outstanding, it is for good. The first wakeup of a context escapes it
   by accident: the items are taken before the alarm's event, which then wakes
   the runner. That is why the examples work (`hello`).
2. **A first Run with nothing scheduled** (`ctx_idle_run`) dequeues a
   `remote_queue_` that was constructed inactive (`grpc_context.h:130`) because
   `remote_queue_read_submitted_` starts false (`:127`). The queue excludes that
   call, and the function reports work that nobody enqueued.

Also visible in the model, but not contradicted by anything the repository says:
a `Run` that ends through `ShutDown` may leave items, even `stop_op`, in
`local_queue_`; `AsyncWriteAndFinish` (`grpc_context.h:494-517`) and
`AsyncFinishWithError` (`:531-540`) capture by reference a parameter that is dead
when the closure runs (`RunsRpc` allows anything there, and `server_call` says nothing
about what comes after); and the streaming example's `HandleRequest` runs off the end of a
`task<HelloReply>`. An `EVERY_N` site with N = 1 may fall silent for good after calls
that overlapped: with the counter left above 1 every call adds one, takes one away
and finds it not equal to 1. In a program that registers no prefix provider the
vector is constructed by the first line, so a static object older than that line
uses a destroyed, empty vector if it logs in its destructor
(`ProvidersInPlace` has this exception). `AGRPC_DCHECK_NEAR`
(`logging.h:76-77`) does not pass on its margin.

## Proofs

All theorems hold for every value of the constants: any operations, threads,
contexts, clients, providers and objects, and any depth of nesting. The only
assumptions are those on the constants (`ConstantsDistinct`, `ArgumentsAreNat`,
`EveryNAssumption`, `EverySecondAssumption`, `MaxTimeIsNat`, `LoadAssumption`,
`NestingAssumption`, `NobodyAssumption`, `LogAssumption`), evaluated by the runs.
`HelloWorld` also assumes what the examples are: one coroutine, which awaits one
operation at a time, and no thread but the main one (`OneThread`).
Every inductive invariant was checked by TLC on the instance of the run before it
was proved; those that only a proof uses are defined beside that proof.

`GrpcContextProofs`:
* `TypeCorrect`: `TypeOK`.
* `WakeupInvariant`: `WakeupInv` is inductive relative to `TypeOK`. The wakeup
  properties are not inductive alone. `WakeupIsUnique` adds why a producer that
  is told to signal is alone: while a wakeup is under way the queue stays active,
  so nobody else is told. That could fail only if the runner marked the queue
  inactive during a wakeup, which it does only after taking the alarm's event -
  except for the first wakeup, which no read asked for. `FirstWakeupFindsWork`
  closes that case: before the first event is taken the runner finds the items,
  and after that it can only wait. `FreshIsIdle` describes the time before the
  first enqueue.
* `NoWakeupLost`, `AlarmNeverReset` and, under `WorkBeforeRun`, `DequeuesOnlyActive`
  follow. So does `FalseIsEnqueued`: the property that finding 2 refutes holds for
  every context in which something is scheduled before the first `Run`.
* `StuckForGood`, which completes finding 1. `Stuck` describes the runner in `Next`
  with items in its local queue, an active remote queue, no wakeup under way and
  nothing with gRPC. From there nothing but `ShutDown` ever moves it, whatever other
  threads schedule and whoever requests a stop (`NextKeepsStuck`, for any number of
  threads). That the state is reached is what `ctx_stuck` shows.
* `PlacesInvariant`: `PlacesInv`, where items can be. `LinkedOnce`: an item is linked
  once, in one of the three lists (they are intrusive, so twice would corrupt
  them). `OnePlace`: an operation is running exactly while it is in a list, with
  gRPC, or in the completion queue, and in one of these only. `CallbackAgrees`: its
  `execute_` is the one for that place, and an answered operation is linked only in
  the turn that took its event, so that the one `event_` all operations share is
  still its own. `LoopAgrees` closes that: while items are executed nothing but
  `stop_op` comes to the local queue. `StopAgrees` follows `stop_op` through a `Run`.
  The lemmas `AppendLinks`, `ConcatLinks`, `TailLinks` say what the operations on
  lists do to what is linked.
* `StoppedRunsAreClean` (`StoppedRunIsClean`) is one conjunct of it.
* `ContextDeliversOnce` (`DeliversOnce`): the refinement of `OperationContract`.
  `NextKeepsContract` maps each action to a step of the contract or a stutter;
  `PlacesInv` makes `Phase`, the mapping, well behaved.
* `ContextExecutesInOrder` (`ExecutesInOrder`): the refinement of `FifoSchedule`, for
  any number of threads that enqueue. What waits to be executed for the first time
  is what the lists, in the order `pending`, `local_queue_`, `remote_queue_`, link
  with the first of the two callbacks, and one operation waits before another when
  it comes earlier there (`ThreeQueues`). The lemmas `AppendPrecedes`,
  `ConcatPrecedes`, `TailPrecedes` say what the operations on lists do to that order,
  `FifoStutter`, `FifoEnqueue`, `FifoExecute` when a step is one of the abstract
  queue, and `NextKeepsFifo` goes through the actions. It needs `PlacesInv` twice: an item is
  linked once, so the order is one, and `execute_` tells who waits for the first time.
* For `OrderlyShutDown`: `OrderlySpec` implies `Spec`, so the invariants above hold.
  `OrderlyInvariant` adds `SignalledItemWaits`: before the shutdown a thread inside
  `SignalRemoteQueue` has left its item in the remote queue, or the runner holds it
  and waits for this signal; either way `NothingScheduled` is false, so that nobody
  is signalling at the shutdown. `OrderlyIsSafe` (`ShutDownIsSafe`) and
  `OrderlyLeavesNothing` (`NothingLeftBehind`) follow, with or without `WorkBeforeRun`.

`HelloWorldProofs`: every step of a program is a step of the context or none
(`ProgramIsContext`), so `WakeupInv` and `PlacesInv` hold. `HelloInv` adds the
coroutine: `call` is what the last issued operation made of it (`CallAgrees`);
the coroutine runs before `Run` or in the receiver of its operation, which is then
in no queue and not with gRPC (`CoroutineAgrees`); `Run` comes after the first
operation is scheduled, and `ShutDown` when the coroutine is done (`MainAgrees`).
`FirstIsAllowed` and `NextIsAllowed` go through the scripts. `ExamplesNeverMisuse`
(`NeverMisused`) follows; in particular the examples keep clear of finding 2.

`NestedRunsProofs`: `NestedInvariant`, about a stack and the current context of its
thread (`StackAgrees`): below the top every frame waits in a receiver, each loop's
`old` is the context of the frame below, and the current context is that of the last
frame that has entered `RunImpl`. `PushAgrees`, `PopAgrees` and `ReplaceAgrees` show it
kept by the three things that can happen to a stack; `RunsOnOneThread` is the rule
for the application, kept by nesting. `CurrentContextIsInnermost`
(`CurrentIsInnermost`) follows. `LocalQueueHasOneOwner` (`LocalQueueIsOwned`, an action
property) goes through the steps of the acting thread: `ScheduleImpl` writes only to
the queue of the current context, which `CurrentIsOfInnermost` makes that of the
innermost loop, and the loop writes only to the queue of the frame on top
(`TopIsInnermost`).

`StreamingHelloProofs`: `ClientsGetAllOrNothing` (`AllOrNothing`) from `StreamInv`: what a
client has read followed by what is under way is what the coroutine has sent, as
long as the call lives, and the whole stream when the status is OK. The proof
depends on the status coming after the messages, which gRPC guarantees.

`LogPrefixProofs`: `LogInvariant` is `LogInv`, from which `ProvidersStayInPlace`
(`ProvidersInPlace`) follows: nobody logs
before the providers are installed; a worker in a line has an object; what is alive
is still to be destroyed; and in a program that registers a provider the vector is
the first of the objects to be destroyed in reverse order, so that it goes when all
others are gone. One lemma per action. `PrefixesAreComplete` (`PrefixComplete`) adds
`PrefixInv`: the vector is in ascending order of the priorities, and a line under way
holds the output of the providers already passed, in that order. An installer
appends behind everything already there because installers run by priority
(`InstallAscends`); a line in which the vector could change would not be complete,
which is where `LogInv` is needed: whoever logs has all registered providers before him
(`InstalledBeforeUse`).

`LogSiteProofs`, for `LogEverySecond`: `EverySecondTypes`, `FlagIsMutex` (`OneInside`), and
`MessagesSpaced` (`Spaced`) from `SpacedInv`: `last_occurs` has reached every time
claimed or written, and the thread about to store is still due by the value it
re-read under the flag, which no one else can change meanwhile.

`ServerCallProofs`: `CallTypes`, then `CallInvariant`: `CallInv` says that whatever
gRPC is doing on the call is covered by an operation some coroutine awaits
(`GrpcIsAwaited`), that reads and everything else are awaited by one coroutine at a
time (`OneAtATime`), and that the application's idea of the call agrees with gRPC's
(`ProgressAgrees`). One lemma per action shows it preserved; `AllowedRuns` isolates
what a closure does when gRPC's rules hold. `OperationsNeverRejected` and
`IdleCallIsQuiet` follow.

`LogSiteProofs`, for `LogOnce`: `OnceTypes` and `WrittenOnce` (`OnceOnly`) from `OnceInv`, which adds that
the flag is set as soon as a thread is chosen.

`LogSiteProofs`, for `LogEveryN`: `CounterTypes`; `SerialInvariant`: as long as no calls have
overlapped, one thread is inside and the counter is the number of silent calls
plus what the last message left (`SerialInv`). `NeverSilentTooLong` (`Cadence`) and
`NeverEarly` (`EveryNth`, an action property) follow, for every N. `DriftedIsSilent`
is the other side of `SilencedOnlyIfDrifted`: once calls have left the counter of a site
with N = 1 above 1, and come one at a time from then on (`Drifted`), no thread ever
writes a message there again, from `DriftedInv`.

`CoarseClockProofs`: `ClockTypes`; `TimeIsMonotone`, the refinement of `MonotoneClock`,
from `SampleInv` (samples lie between the published time and now, and the worker
starts only after the constructor has stored); `DeviationBounded` for every `Late`
and `Delay` with 4 + Late + 3 * Delay < 10, from `TimedInv`, which bounds how far the
next step lies from the time that is published. The delay counts three times:
before a sample is stored, before the loop tests, and before the next is stored.
`NothingStoredAfterJoin` (`NoStoreAfterJoin`, an action property) from `JoinInv`: a
joined worker has exited.

Only model-checked: the liveness properties. They need fairness and `ENABLED`,
which the prover does not handle. For finding 1 and the silent `EVERY_N` site the
theorems prove the part that needs none: that nothing happens any more.

## Plan

Done: all components modelled and checked, and every safety property, action
property and refinement of the passing runs proved. What is left is what
the tools cannot do (the liveness properties) and what is not modelled.

## Not modelled

* The text of a log line, the D forms of the macros (the same as the others, or
  nothing where `NDEBUG` is defined), `errno` in the P forms, and the arithmetic of `CHECK_NEAR`,
  which is that of its callers' types.
* The system clock's timestamp, stored like the steady one.
* `align.h`, `likely.h`, `internal/macros.h`: constants and preprocessor macros.
* Tests and the benchmark (read for what they expect), build files.
* The internals of gRPC, libunifex, glog and fmt, beyond how this code uses them.
