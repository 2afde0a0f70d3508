# Verification of libawe

TLA+ models of the parts of libawe in which threads, locks, timers and reused
memory meet, the TLC runs that check them on small instances, and proofs, checked
by TLAPS, of what holds for every instance.  Paths are relative to the repository
(`src/src/looper.c` is `looper.c` below); line numbers are those of the commit the
modules were written from and are listed definition by definition in
`PROJECT.json` under `map`.

## 1. The system

libawe is a library a program links: event loops that run callbacks, and the
thread, lock, timer, list and connection types they are built from.

| component | state | operations | who calls whom |
|---|---|---|---|
| thread handle (`unix/thread.c`) | `_tid`, `_exit_pending`, `_running`: plain words, no lock | create, start, request_exit, exit_pending, running, thread_id, destroy; `dummy_worker` in the new thread | used by looper, uxscheduler, scheduler |
| mutex, condition (`unix/thread_mutex.c`, `unix/thread_cond.c`) | holder, wait set | lock, unlock, wait, timedwait, signal, broadcast | used by looper, uxscheduler |
| delayed-task list (`timer_task.c`) | a list sorted by due time of heap cells, each valid or cancelled | init, insert, first, del, cancel, clear, destroy | used by looper and uxscheduler under their mutex |
| looper (`looper.c`) | `_started`, its list, mutex, condition, thread handle | create, start, stop, post, cancel, clear, destroy; the worker's loop | the program calls it; its worker calls the program's callbacks, which call it again |
| uxscheduler (`uxscheduler.c`) | the same plus a list of uxevents, `_have_rmopt`, `_delayMs` | start, stop, add, rm, enable, disable, post, cancel; a worker that selects | uxconnector, program |
| scheduler (`scheduler.c`) | lists of watchers and timers, a trigger socket pair, a libev loop | start, stop, break, watch, enable, disable, delayedtask, task_again, token destruction, trigger | connector, program; libev calls back |
| connector, uxconnector (`connector.c`) | its connection, a watch token, a timeout token | open, close, takeout, event handlers, the two callbacks | scheduler / uxscheduler and the program |
| connection (`connection*.c`) | a descriptor, a reference count | create, addref, release, open, close, read, write | connector, program |
| linked list, object (`linkedlist.c`, `object.h`) | references to objects | add, remove, removeFirst, del, clear, contains | scheduler |
| ring buffer, ring array | read and write positions | put, get, moveReadPosition; write/read Ready and Finish | program, one reader and one writer |
| packet (`packet.c`) | a reference count, a range of its data, who owns the data | create, addref, autorelease, unfree_data, setrange, setrange2, setrange3 | program |
| pool, buffer, memory, sockets, socket pair, time, log, hexdump, ux stub | memory, descriptors | wrappers, formatting | all of the above |

What is hard in it, and what makes each component correct:

* **thread handle**: three unlocked words are written by the starter after the new
  thread already runs, and by the thread when it ends.  Correct means: never two
  threads for one handle, a request to exit is obeyed, the flags say what their
  names say.
* **task list**: ids are addresses that malloc may hand out again.  Correct means:
  every task is in one place, is freed once, and the order is by due time and then
  by post.
* **looper**: the worker gives the mutex up between the test of a condition and
  its use; tasks are run and freed outside the mutex; callbacks call the looper;
  one condition variable has two kinds of waiters; the timed wait uses a clock that
  can be set.  Correct means: a task is run at most once, not early, in order, not
  after it was cancelled, one at a time, none after stop has returned; a task that
  is due is run; stop and destroy return.
* **uxscheduler**: the same, and besides: the worker looks a uxevent up and calls its
  handler without the mutex, handlers add and remove uxevents, and a removal waits for
  the worker on the condition on which the worker waits too.  Correct means, as far as
  the calls allow: the handler called belongs to the socket that was ready, none is
  called through freed memory, and tasks are run as a looper runs them.
* **scheduler**: several watchers are pending in one iteration of the loop;
  callbacks destroy the token they were called for, one-shot timers are restarted by
  their own callback.  Correct means: no callback of a destroyed token is called, libev
  never has a freed watcher, every watcher is freed once, an accepted trigger is read.
* **connector**: the completion of a connection races its timeout; the timeout frees the
  task it is run for; a ux connector does several locked calls in a row, with the
  uxscheduler's worker in between.  Correct means: whoever opened a connector is told
  one outcome, exactly once, unless the connector was closed before; no token, task,
  descriptor or reference is left over.
* **connection**: each step of an open may fail; a ux connection keeps its datagram
  connection alive.  Correct means: every open descriptor has one owner and is closed once.
* **ring buffer, ring array**: free-running indices that wrap, the empty and the
  full case, two threads without a lock.  Correct means: a queue.
* **lists**: a walk whose callback changes the list.  Correct means: a circle in both
  directions, every cell that stays is visited once.
* **packet**: a range moved by sums of 32 bits.  Correct means: the range is in the data.

`PROJECT.json` lists the hazards one by one, at their lines.  A hazard without a property
is one that no passing run would find going wrong, because the rules or habits of the
modelled programs exclude it or the code promises nothing there: its note says which.

## 2. Plan

1. *(done)* `AweThread`, `ThreadLifecycle`: the handle, alone.
2. *(done)* `TimerTask`: the list, and `TimerTaskProofs`, lemmas about it.
3. *(done)* `Looper` over both; `DelayedTasks`, what a looper promises; `LooperProofs`.
4. *(done)* `UxEvents` and `UxScheduler`, over the same `Monitor` and `TimerTask` and
   with the same abstract specification.
5. *(done)* `LinkedList` and `Scheduler`: watchers, timers and triggers as objects with
   reference counts, libev external.
6. *(done)* `Fifo`, and `RingBuffer` and `RingArray` that implement it; `DList`, the
   linked list with its pointers; `Packet`.
7. *(done)* `Connection`, `Connector` over it and `Scheduler`, `UxConnector` over it and
   `UxScheduler`.
8. *(done)* Proofs of the safety of each part: handle, looper, uxscheduler, scheduler,
   connections, both kinds of connectors, rings, the linked list and packets (section 5),
   with the refinements of `DelayedTasks` and `Fifo`.
9. *(done)* The type invariants of the uxscheduler, of ux connectors and of the containers, so
   that no invariant of a passing run is only model-checked, and that ux connectors are
   clients of the uxscheduler.

## 3. Modules

**`AweThread`** — the state of `awe_thread_t` and one fragment for each of its
unlocked assignments: `Spawn` (pthread_create, line 112), `ArmExitPending` (121),
`MarkRunning` (122), `RequestExit` (140), `ForgetTid`, `PendAtExit`, `ClearRunning`
(67, 68, 69).  The modules that extend it say when each happens.

**`ThreadLifecycle`** — callers and threads of one handle.  A caller is in
`awe_thread_start` before line 121 (`arm`) or 122 (`mark`), or idle; a thread is in
its process (`body`) or before one of its three last assignments.  `Disciplined`
callers take turns and start only when `awe_thread_running` says no.  The process is
chosen in `Init`: if `polls`, it returns only when it sees an exit pending.  A failed pthread_create may
leave any identity in `_tid`.

**`Monitor`** — what a looper and a uxscheduler have besides their lists: the handle, one
mutex, one condition variable with its wait set.  `pthread_cond_signal` wakes exactly
one waiter, as the comment in `unix/thread_cond.c` lines 87-97 relies on.

**`TimerTask`** — `heap` maps addresses to tasks or `Free`; `tasks` is the list of
addresses.  `ListInsert` takes any free address, as malloc may, and puts it where
`GoesAfter` says the backward scan of lines 55-62 ends.  `stamp` counts the posts: it
is not in the code and lets properties tell apart two tasks that lived at one address.

**`Looper`** — the product of handle, list, mutex, wait set, clock and the program
counters of all threads.  A critical section is one action, enabled when the mutex is
free, except two: `awe_looper_start` (`StartLock`, `StartArm`, `StartMark`,
`StartPublish`: its new thread already runs), and the worker's computation of
a delay (`PickLater`, `TimedWait`: the clock is read at line 52 and again in
`awe_cond_timedwait`).  The worker's unlocked steps are actions: `Loop` (37),
`CheckStarted` (44), `Run` (65), `Return`, `Drop` (68), and the three assignments
after it.  A worker in `proc` is in a callback and may make any call a client may:
`Resting(t)` is where a thread makes calls from.

`fault` records how a program ends: `tid` and `create` are the assertion of line 126
(the handle had a thread; pthread_create failed), `self` the check of line 144,
`empty` the first task of an empty list (line 53), `uaf` freeing the looper under a
worker.  After a fault, and after destroy, only stuttering is left (`Terminated`).

`Owners` are the threads that may call start, stop, clear and, if they are clients,
destroy.  `ClearAnytime` lets every thread call clear at any time.  Destroy is the
last call of the program: it begins when no other client is inside a call, while
callbacks still run.

**`DelayedTasks`** — the promise, without threads or addresses: `open`, the set
`waiting`, the one `current` task, the number of posts and the clock.  `Looper`
implements it with the mapping of `Promise`: open until stop has returned; waiting
are the listed tasks that are not marked; current is the task a worker has taken and
has not finished.

**`UxEvents`** — `uxheap` maps addresses to uxevents or `UxFree`; `uxevents` is the
list.  `UxFind` is the set of listed cells of a socket; that it has at most one member,
so that the code's "first" is well defined, is `OneEventPerSocket`.

**`UxScheduler`** — the worker's round: sleep while there is no uxevent (`LockWait`),
read `_started` (`CheckStarted`), collect the sockets (`Prepare`), `ux_select`
(`SelectReady`, `SelectTimesOut`, `SelectFails`), then for every ready socket `Find`,
`Call` and `HandlerReturns`, and at the end at most one task (`TakeTask`, `Run`,
`Return`, `Drop`).  `Find` and `Call` are unlocked steps of their own: what another
thread does between them is what the worker meets.  `ux_select` is external: any
non-empty set of the sockets it was given may be ready.  `forever` says that it was
given no timeout (a negative `delayMs`, line 138); how long the other timeouts are is
left out, as is the length of rm's wait.  A look-up is one step: that another thread
changes a list which the worker is walking through (line 72, called at line 153) is
not modelled.  `Removers` are the threads that may call rm.  `add` without conditions
is rm, and has no action of its own; the failed `add` of socket 0 changes nothing.
`fault` is `tid`, `create`, `uaf` as in the looper, or `select`: line 177.

**`LinkedList`** — the reference-counted objects and the lists that own one reference
of each of theirs, as operators on a heap and on a list.  A list is a sequence of
addresses; `Without` is the search and unlinking of remove and del, `Released` the end
of a reference.

**`Scheduler`** — the loop is one thread, the program's (`Enter(Main)`) or the
scheduler's own (`StartThread`), and it is the only one that calls the scheduler while it
runs, through callbacks; another thread triggers (`TriggerCheck`, `TriggerWrite`:
`_started` is read before the write).  libev is external: `active` and
`pending` are its sets of watchers, `Poll` one wait (any active watcher may turn out ready,
the trigger's certainly if there is something to read), `Invoke` and `InvokeTrigger`
the calls, in any order, `Turn` the end of an iteration and of `ev_run`.  Due times are
left out: any active timer may be due.  In a callback (`phase` is task, handler or
trigger) every call may be made, for every token.  `evtimer_list` and `evio_list` own
the objects; an address can be used again at once, also before the callback that freed
it returns (`ReturnTask`, line 159).  Once libev has a freed watcher (`Corrupt`) the
program registers nothing more in the model, and the next use of it is the fault `uaf`.
`rules` says what the program refrains from, chosen in `Init`: stopping while the loop
runs or running again after a stop ("stop"), destroying a task in its own callback
("own"), restarting a delayed task in its own callback ("again").  The code
enforces none of them; without them it frees watchers that libev has.  stop is one
step although the loop may run meanwhile, for programs that do that.

**`Fifo`** — the promise of the rings: a bounded queue between a writer that offers and
a reader that wants; either may be given part of it.

**`RingBuffer`** — `in` and `out` are counted modulo `Wrap`, which every capacity divides.
A put or a get is four steps: the limit (`PutLimit`), its second evaluation by
the macro `_min_` (`PutReload`), the copy, and the move of the own index, so that the
other thread can move its own between any two.  `use` says whether the program locks
its calls and whether the build loads the other's index twice.  The combination without lock
and with a second load is left out of the run: there a limit grows between comparison
and use, and the copy is longer than the caller's buffer.

**`RingArray`** — `_nmemb` is loaded and stored in separate steps (`WriteLoad`,
`WriteStore`) on each side.  `habit` says whether the program locks its calls ("lock")
and whether it passes readFinish a positive number in place of the index it was given
("positive").  `ArrayIsFifo` is about programs that do both; programs that do neither run too.

**`DList`** — the two pointers of each cell, as `__list_add` and `__list_del` set them, the
size that `linkedlist.c` keeps, and a walk of `awe_linkedlist_forEach`, whose callback
adds and removes cells (`removal`: only the cell it was called for, or any).  The
modules above use lists as sequences; `ActsAsSequence` is what allows that, and it is proved.
`Remove` includes the list's release callback, called between unlinking and freeing: the
two that the library registers touch no list.

**`Packet`** — the range arithmetic in integers of 2 x `Half` values, the references, and
who frees the data.  `careful` programs pass no argument below 0 or above the
capacity, except that setrange3 may shrink a range down to nothing.

**`Connection`** — `conns` maps addresses to connections, `socks` are the open descriptors.
`StreamOpen`, `DgramOpen` and `UxOpen` are the outcomes of an open: the failure of each
step (no address, no socket, a later call), with the descriptor that remains open in each.
`ConnOpen` of an open connection changes nothing.  Whether descriptor 0 is a failure is
not asked: it is taken to be in use.

**`Connector`** — a connector's two tokens are tokens of `Scheduler`, whose loop calls
either (`Dispatch`).  A callback has two stages: the connector's `body`, which removes both
tokens (`ConnectHandling`, `ConnectTimeout`), and the `user`, who may make any call.
`awaiting` is not in the code: the connectors that owe their user an outcome.
`OpensInTimeouts` says whether users open connectors when told of a timeout.

**`UxConnector`** — each call of the uxscheduler that a connector makes is a step of its own:
post and add of an open (`ConnectorOpen`, `ConnectorWatch`), rm and cancel of a close
(`ConnectorRm`, `ConnectorCancel`), cancel and rm of a completion
(`AssertCancelled`, `Unwatch`).  A close of a connector without a connection skips rm
and cancel and only tells, as line 223 has it; setEventHandler may be called at
any time by whoever may use the connector.  `lost` says how a program ends: the assertion of line 115,
or the use of a freed connector.  `program` gives the rules a program keeps, its
connectors and the calls it makes.  The code enforces none of the rules; each
is needed, as TLC shows when it is dropped:

* "prompt": a timeout that the worker runs between the post and the add of an open tells the user,
  and the add then watches the socket of a connector that was already told about;
  its completion tells a second outcome.
* "quiet": a post to a uxscheduler that is not started returns no task, and nothing ever
  ends the connector's wait; a stop between rm and cancel makes cancel return without doing
  anything, and the timeout is left for a connector that is then destroyed; after a stop the
  assertion of line 115 fails.
* "inside": a client that closes a connector while the worker is about to call its handler
  does not keep it from being called.
* "tidy": `_timeouttask_id` is not cleared, so a later close cancels whatever task has that
  address by then (line 225), and the connector it was of never tells.

**`MCThreadLifecycle`, `MCLooper`, `MCUxScheduler`, `MCScheduler`, `MCContainers`,
`MCConnector`, `MCUxConnector`** — model values, the delays `LateOrSoon` and `EndlessOrNot`,
the rules a program keeps, and the symmetry of addresses, sockets, connectors and workers, of
which no property distinguishes members.  Symmetry is used in safety runs only.
`MCContainers` checks five components that do not interact in one run: each behaviour
chooses one, and the others stay as they were created.

Definitions whose comment begins with "Mutant" belong to no specification: each is
a wrong form of the definition after it, and is used to see that a property fails
when the code is wrong in that way.

## 4. Runs

| run | cfg | shows |
|---|---|---|
| thread_handle | `ThreadHandle.cfg` | `SoleThread`, `HandleKnowsThread`: callers that take turns and wait for `running` never get two threads, and the handle knows the one that runs; `ExitObeyed`: a process that polls exits once it was asked |
| looper_one_owner | `LooperOneOwner.cfg` | one client starts, stops, destroys, and clears a stopped looper; both clients and all callbacks post and cancel: no assertion fails, nothing is used after it was freed (`NoFault`), one worker, no sleep through work, and `KeepsPromise`; under fairness `Served`, and `CallsReturn` of stop and destroy |
| looper_any_caller | `LooperAnyCaller.cfg` | every thread starts, stops and clears, even from callbacks, and the clock is set back: types, `HeapOwnership`, `CancelledNeverRuns`, `InDueOrder` |
| looper_stop_sleeps | `LooperStopSleeps.cfg` | **violated** `NoSleepWhenStopped`: stop between lines 44 and 50 is not seen; the worker sleeps until its first task is due and stop waits as long |
| ux_handlers_remove | `UxHandlersRemove.cfg` | one client starts, stops and destroys, both add, enable, disable, post and cancel, and handlers and callbacks also remove, themselves or others: `NoFault`, `RightHandler`, `NoLostWakeup`, `KeepsPromise` |
| ux_liveness | `UxLiveness.cfg` | `Served`, `StopReturns` under fairness, for timeouts that are not negative |
| ux_rm_returns | `UxRmReturns.cfg` | **violated** `RmWaits`: rm returns to a client while the worker is still in the handler of the socket |
| scheduler | `Scheduler.cfg` | for programs with every rule and with none: `ListsOwn`, `TriggerWatched`; with every rule: `WatchedIsAlive`, `OneShotsEnd` |
| containers | `Containers.cfg` | `BufferIsFifo`, `ArrayIsFifo`: the rings implement a bounded queue; `ActsAsSequence`, `VisitsAll`: the linked list is a circle, its operations are those of a sequence, and a walk visits what stays; `ConnectionsOwned`: descriptors and references, whichever step of an open fails; `RangeInData`: a careful program's packet |
| connector | `Connector.cfg` | two TCP connectors in every order of completion, timeout, close, takeout, destroy, reopening and stop of the scheduler: `OneOutcome`, `NeverForgotten`, `Owned` |
| connector_reopens | `ConnectorReopens.cfg` | **violated** `StoppedBeforeFreed`: a connector opened in the callback of a timeout can have its own timeout freed while it is active, as the returning callback finds it at the address of the old one |
| ux_connector | `UxConnector.cfg` | for every program, also clients that remove and close at any time: `Owned` (with `OneEventPerSocket` and `HeapOwnership`), `NoForgottenRemoval`; for programs with the four rules: `Sound`, `OneOutcome`, `NeverForgotten` |

The three violated properties state what a comment, a declaration or an assertion of
the repository says; `PROJECT.json` quotes them under `findings`.

The models show more that either no line of the repository speaks about or that a run
once showed and that is not kept as one:

* thread: a new thread can see an exit pending nobody asked for (line 121 clears the flag
  when the thread already runs); a process that returns before line 122 leaves the
  bare handle "running" for ever.
* looper: a `clear` of a running looper between lines 42 and 50 makes the worker take the
  first task of an empty list (`ClearAnytime`, fault `empty`); a start during another
  thread's stop aborts at line 126 (fault `tid`).
* uxscheduler: a client's rm between the worker's `Find` and `Call` makes it call through a
  freed uxevent; a client that waits in rm can receive the one signal of an add that the
  sleeping worker needed, or of a stop, which then waits for a worker that sleeps.
* scheduler: a program without the rules "own" or "again" makes libev use a freed timer; stop
  frees watchers that are active, the trigger's among them, which is harmless while no loop runs;
  a trigger that the full socket drops is reported as accepted.
* rings: with the index that readReady gave, readFinish never gets past slot 0; without a lock a
  count of `_nmemb` is lost; `_min_` evaluates its limit twice.
* packet: negative or huge arguments give ranges outside of the data, unnoticed.
* connector: see the rules above.

The runs named one_owner and handlers_remove, and the rules of programs, state the use
under which none of this happens.

### Bounds

* Two clients are enough for a call that meets another one; callbacks are callers too.
  Two workers are enough for a worker that has not ended when the next one starts
  (three threads in `ThreadLifecycle`, where it costs nothing).
* Looper: two addresses and three posts (`MaxPosts`) give a task that is held, one that is
  listed and one that is inserted before or after it, and reuse of an address
  by the third post.  Where every thread is an owner, two posts at any of three
  addresses: with three posts the run is thirty times longer and showed nothing else.
* `MaxTime`: the clock stops there, and a post is made only if its task is due by
  then, so that every task becomes due.  A worker whose deadline lies beyond it
  (because the clock moved between lines 52 and 60) times out at `MaxTime`: that is
  the end of the modelled time, not a behaviour of the code, and it only adds wakeups.
* Delays 0 and 1: now and later; `LateOrSoon` adds a negative one, which the API takes.
* `ClockSettings`: the clock may be set to these times; {0} sets it back.  The other
  runs let it only advance, as `DelayedTasks` would otherwise have nothing to promise
  about lateness.

* Uxscheduler: two sockets and two uxevents, so that a handler can remove its own or
  the other's, before or after the other is called, and the address of a removed one
  can be used again for another socket.  One task, with which the time it waits behind
  sockets and its cancellation are reached; orders of several tasks are the looper's
  question, over the same module.  `EndlessOrNot`: a negative `delayMs` and a positive.
  The liveness run has one uxevent at a time, of either of two sockets.
* Scheduler: three tokens, of which the trigger's is one, so that a callback can destroy
  or re-create a watcher that is pending beside its own.  Two masks, so that disabling one
  leaves a watcher active or not.  `Capacity` 1 and `MaxTriggers` 2: the socket is empty
  or full, and a trigger is dropped.
* Containers: capacities 1, 2 and 4 with indices modulo 8, so that an index wraps after two
  to eight turns, and batches of up to two bytes, so that a copy has both parts and either part
  alone; sizes 1 to 3; three cells, of which a walk has one behind, at and before it; three
  connections and descriptors: a datagram connection with two bound to it.  Packets of 1 and 2
  bytes and sums of 16 values, which wrap within the arguments tried.
* Connector: two connectors and two connections, so that one is closed or created by the
  other's callback; five tokens are two for each and the trigger's.  A connector's
  address is used again after it was destroyed.  `ConnectorReopens.cfg` needs one connector.
* Ux connector: one client beside one worker, two connectors, tasks, uxevents and sockets.
  Delays 0 and 1: with 0 a task is run at once and its address used again.  Some programs
  use one connector, with the calls that others leave out, and some keep no rule.  Deadlock is not
  checked: in programs without rules a worker that left at once after its start
  (thread.c line 121) leaves a rm or a stop waiting for it, which no step ends.

### Fairness

`FairSpec` assumes of the code's environment what an operating system gives: every
worker that can step does (a mutex that is free for good is obtained), a call that
has begun goes on, timed waits end (those of stop after 10 ms, the worker's at its
deadline), callbacks return, and the clock advances.  It assumes nothing of the calls a program
makes, of spurious wakeups, or of the setting of the clock.  Fairness of the worker is
weak and over all its actions together.  `Served` has two escapes beside stop: the
worker that left at once because it saw the old `_exit_pending` (`Deserted`, see the
thread above), and the end of the program.
Of the uxscheduler the same is assumed: handlers return, and `ux_select` returns if it
was given a timeout.  Its `Served` has one escape more: without sockets the worker
sleeps, whatever is due.

## 5. Proofs

TLAPS checks the theorems below for every value of the constants: any number of threads,
addresses, sockets, connections and tokens, every capacity and width.  Every proof has the same
form: an inductive invariant `Inv`, the lemmas `Init => Inv` and
`Inv /\ [Next]_vars => Inv'` with one step per action, and a temporal theorem that
combines them.  TLC checks the theorems' properties on small instances first (section 4).

| module | theorem | what it states of the specification |
|---|---|---|
| `ThreadLifecycleProofs` | `HandleHasSoleThread`, `HandleKnowsItsThread` | `[]SoleThread`, `[]HandleKnowsThread`, if `Disciplined` |
| `LooperProofs` | `LooperTypes`, `LooperOwnsHeap`, `LooperCancels`, `LooperInOrder` | `[]TypeOK`, `[]HeapOwnership`, `[]CancelledNeverRuns`, `[]InDueOrder`, whoever the owners are |
| | `OwnedLooperIsSafe`, `OwnedLooperHasOneWorker`, `OwnedLooperIsWoken` | `[]NoFault`, `[]OneWorker`, `[]NoLostWakeup`, with one owner |
| | `OwnedLooperKeepsPromise` | `KeepsPromise`: the looper implements `DelayedTasks` |
| `UxSchedulerProofs` | `RemovalsAreRemembered`, `NothingLeaks`, `UxSchedulerTypes` | `[]NoForgottenRemoval`; `[](HeapOwnership /\ OneEventPerSocket)`; `[]TypeOK`, whoever calls what |
| | `OwnedUxSchedulerIsSafe`, `OwnedUxSchedulerCallsRight`, `OwnedUxSchedulerIsWoken` | `[]NoFault`, `[]RightHandler`, `[]NoLostWakeup`, with one owner and removals by callbacks |
| | `OwnedUxSchedulerKeepsPromise` | `KeepsPromise`: the uxscheduler implements `DelayedTasks` too |
| `ConnectorProofs` | `ListsOwnObjects`, `TriggerStaysWatched` | `[]ListsOwn`, `[]TriggerWatched`, whatever the program does |
| | `WatchersStayAlive`, `DelayedTasksEnd` | `[]WatchedIsAlive`, `[]OneShotsEnd`, which concern programs that keep the rules |
| | `ConnectorTypes`, `ConnectorsKeepTheirOwn`, `ConnectorsTellOnce`, `ConnectorsForgetNobody` | `[]CNTypeOK`, `[]Owned`, `[]OneOutcome`, `[]NeverForgotten`, for `Customary` programs |
| | `ConnectorsStopBeforeTheyFree` | `[](StoppedBeforeFreed /\ fault = "none")`, for `Customary` programs |
| `ConnectionProofs` | `ConnectionsKeepTheirOwn` | `[]ConnectionsOwned` |
| `UxConnectorProofs` | `UxConnectorsKeepTheirOwn`, `UxConnectorsRemember`, `UxConnectorTypes` | `[]Owned`, `[]NoForgottenRemoval`, `[]UCTypeOK`, whatever the program does |
| | `UxConnectorsAreClients` | `UCSpec => Spec`: every step is a step of the uxscheduler, or none of its |
| | `UxConnectorsAreSound`, `UxConnectorsTellOnce`, `UxConnectorsForgetNobody` | `[]Sound`, `[]OneOutcome`, `[]NeverForgotten`, which concern programs that keep the rules |
| `ContainerProofs` | `PacketsStayInRange` | `[]RangeInData` |
| | `RingBufferIsQueue`, `RingArrayIsQueue` | `BufferIsFifo`, `ArrayIsFifo`: both rings implement `Fifo` |
| | `ListsActAsSequences` | `ActsAsSequence`: the linked circle of cells is a sequence |
| | `WalksVisitAll` | `VisitsAll`: a walk with callbacks that remove only their own cell |
| | `ContainerTypes` | `[]TypeOK` of rings, list, connections and packet, with no condition on the calls |

`TimerTaskProofs` holds lemmas only: for each operation of the list, that it keeps
the list's invariants: what `AddAfter` returns, that an insertion keeps the list sorted and free
of duplicates, and the same of cancel, del, clear and destroy.  They do not mention the looper,
and the looper's and the uxscheduler's proofs both use them.  `ConnectorProofs` proves
about `Scheduler` first, by itself, and then about `Connector`, whose steps are the scheduler's
or combine them.

### Assumptions

The named assumptions of the modules (`NoWorker`, `NullIsNoAddress`, `FreeIsNoTask`,
`ThreadsDistinct`, `OwnersAreThreads`, `NumbersAreNumbers`, `FreedIsNoObject`, `NoConnectorIsNone`, `NoProcIsNone`,
`WrapIsNumber` and their like)
say that model values differ and that numbers are numbers, that a packet can have one holder
(`HalfIsPositive`, since creating it makes one), and `MemoryIsFinite` that malloc has finitely many addresses to return.  Beyond them:

* *One owner* (looper): `o \in Clients`, `Owners = {o}`, `~ClearAnytime`.  Start and stop are
  not protected against each other, so nothing that concerns the handle holds with two
  owners (run looper_any_caller allows them and checks only the rest).
* *One owner, removals by callbacks* (uxscheduler): `Owners = {o}` and `Removers \subseteq Workers`.  A client
  that sleeps in `awe_uxscheduler_rm` waits on the same `_cond` as the worker, and
  the one signal of an add may go to it instead of the worker; TLC finds `NoLostWakeup`
  violated when a client may remove.  The scenario is the hazard at `uxscheduler.c`'s signal.
* *Disciplined* (handle): callers take turns and start only when `awe_thread_running` says
  no.  Without it two threads for one handle are reachable.
* *Customary* (connector): every program keeps the rule "stop" of section 3, as the TCP
  connector has no protection against a stop from within the loop; none is said to keep "own",
  since `connector_connecttimeout` destroys the task that it is called for, whatever the program
  does; and `~OpensInTimeouts`, which is needed: connector_reopens shows what happens
  otherwise, and `ConnectorsStopBeforeTheyFree` is the property that it violates.
* `BufferIsFifo` assumes that no use without the lock loads an index twice
  (`\A u \in Uses : u.twice => u.locked`), the reason being in section 3.  `ArrayIsFifo` is itself about `Proper` habits.

### The inductive invariants, and why they are needed

**Handle.**  `TLTypeOK`, at most one call in progress (`OneCall`), the property, that a thread that has not yet
forgotten the handle is the one it names (`NamedUntilForgotten`), and that the handle says it
runs while that thread is alive (`RunningWhileAlive`).  The last is what makes a disciplined caller wait: the
three assignments at a thread's end come in the order tid, pending, running.

**Looper, whoever calls.**  `Inv` conjoins the four properties with `FirstHeld` — a worker holds a task
exactly between taking it off the list and destroying it, where its program counter
says so — and `StampedBelow` — every listed task has a rank below the number of
posts, so that a new one is the youngest among equals.  A step that touches
no task carries the invariant on (`CarriesOn`, `Frame`); the steps that do are
few (post, cancel, clear, pick, drop, destroy's clear) and each combines the
list's lemma with the holder's program counter.  A cell in a worker's hands is not listed, so neither cancel nor clear can
reach it: that is why a callback's task stays valid, although
`Run` looks at it without the lock.

**Looper with one owner.**  `OneInv(o)` adds that only the owner is inside start and stop (`OneCaller`),
who may hold the mutex at each program counter (`Sections`) and who may be in the wait set (`Waiters`), that the handle tells
the truth between the owner's calls (`HandleIsTrue`), the phase of the pair owner and worker
(`Phases`: before, during or after a run of the worker, and which of its assignments are still due), and
that what a worker in its delay computation is about to wait for is still the list's first (`WorkKnown`).
`NoFault`, `OneWorker` and `NoLostWakeup` follow from it and are not inductive without it: that the worker is awake when a
post signals depends on where the post, the worker's reading of `_started` and the
owner's stop stand to each other.

**UxScheduler.**  `Inv` is the types that do not involve `watched`, `Hands` (what each worker holds,
by its program counter), `HeapOwnership`, `InDueOrder`, `StampedBelow`, `OneEventPerSocket` and
`NoForgottenRemoval`.  Its `OneInv(o)` is shaped as the looper's, with `FoundIsListed` — the
uxevent that a worker found and will call is still listed, for its socket, until it calls —
which is what `RightHandler` and the absence of `uaf` rest on: with removals made by callbacks alone,
nothing can remove a uxevent between `Find` and `Call`.

What a worker has selected, `watched`, is not typed in `Inv`, where only its head is ever compared;
its type is a second invariant on top of `Inv`: `MoreTypes`, with a uxevent in a worker's hands only while the
list of what it selected is not empty, since `Find`, `Call` and the return of the handler take the
first of that list.  What `Prepare` collects and `ux_select` leaves is `OnlyIn` of a list, a recursive
function; that it has values, and that they are sequences of elements of the list
(`OnlyInIs`), is proved by the smallest number for which it would not, as for `Ahead` below.

**Scheduler.**  `Inv` is `Basics` — types, `Store` (every address is free, or listed once in the list of its kind
with one reference), `TriggerHeld`, `StoppedIsEmpty` — and, for programs with `rules = Rules`, `Orderly`:
what is active or pending in libev is listed, what is being handled is listed or was
removed by that very callback, and a delayed task listed is on its way to its call.
`Basics` needs no rule, which is why `ListsOwn` and `TriggerWatched` hold for every program
although `WatchedIsAlive` and `OneShotsEnd` do not.

**Connections.**  `Counted`: the map of connections is finite, its chains of user data stay within it, and
each count is the number of holders (`RefsIn`); `OwnedIn`: descriptors and open connections
correspond one to one.  The lemmas take the connections and descriptors as
parameters (`CreatedCounted`, `ReleasedCounted`, `OwnedGrows`, `OwnedShrinks`), so that they serve the
connectors, who have the same connections.

**Connectors.**  `CNInv` is the scheduler's `Inv`, of which programs with connectors keep `Basics`,
with types (`CNTypes`), `Links` — `Counted` and `OwnedIn` of the connections, with the
connectors among the holders —, `Loops` — a stopped scheduler's loop is out, and nothing is pending
while libev waits —, `Stages` and `Tokened`.  `Tokened` ties the two lists of the scheduler to
the connectors, from both sides: what is listed is bound (`AllBound`) to a connector that has
that token, an open connection and, unless the handler is the user's, an outcome to tell (`Bounded`);
the tokens a connector has are bound to it while the scheduler is started (`Holding`), since a stop
leaves them dangling; who owes an outcome has both, and the timeout is active, pending or being told
(`Waiting`); and no two connectors share one (`Apart`), although addresses are used again.  A
step either frees a set of tokens (`TokensKept`: each connector is `Rid` of its own or
the `Same`), or gives one connector new ones (`TokensAdded`).  Of `Stages`, the conjunct that carries
the double free of the timeout is that a task whose connector has spoken is listed no more: so line
159 finds nothing to drop, unless the callback has opened a connector at that address.
`Sound`, that no freed watcher is active or pending before a stop, is inductive relative to `CNInv`.

**Ux connectors, every program.**  `UCInv` is the uxscheduler's own `Inv`, which every step of a
connector keeps because it is a step of `UxScheduler` or leaves it alone (`UCStepIsNext`), with
`Turns` — at most one worker is active, the one the handle names, and who clears the lists does it
when nobody can start —, types (`CNTypes`), `Known` — a handler is known for exactly the watched sockets and a
connector for exactly the allocated tasks — and `Links` — `Counted` and `OwnedIn` of the
connections, with the connectors among the holders.  `UCStepIsNext` is also what makes
`UxConnectorsAreClients` a theorem, and so `MoreTypes` an invariant here.

**Ux connectors, programs that keep the rules.**  `RuleInv` says, of each connector `k`
(`Keep(k)`), how its parts hang together at every point of every call.  Who owes an outcome has an
open connection of its own and, unless a thread is in a call of it, a listed or running timeout under
the id it remembers (`AwaitOK`); what each label of a call has still to do, and what the others
cannot have done meanwhile (`CallOK`); a watched socket, a task that will be run and one that is
being run are those of a connector that owes an outcome or of a call that is about to remove them
(`ProcOK`, `TaskOK`, `RunOK`); and the id that a connector has kept after it has told is still its
own while its user is told (`TellOK`), which is why a close in that callback cancels nobody
else's task.  `Sound` is `lost = "none"`, and each rule is used where the list of section 3
says: "prompt" when the worker takes a task (`TakeRules`), "quiet" at stop (`StopRules`) and at open,
"inside" whenever a call begins (`UsedIs`), "tidy" at close (`CloseRules`) and open.  A step concerns one connector,
or none: the others are `Untouched`, and `SameKeeps` carries `Keep` on for all of them.

**Rings.**  `RingInv`: types, that what is stored is at most the capacity, that at most one locked call is
inside, and, for a put and a get in progress, that the limit it computed is still within
what is free, or stored, whatever the other side did since (`PutHolds`, `GetHolds`): the
other index only ever moves in its favour.  Indices are taken modulo `Wrap`, and the arithmetic
lemmas about distances modulo a multiple of the capacity come first.  `ArrayInv` says the same of
the array for `Proper` habits, with `_nmemb` equal to what is stored except between a load and
its store (`OneMoves`).  Their types hold for every use, locked or not: an index is a
remainder, and the step that copies takes, for each slot, the last byte of those that go there, of which there is a
greatest index (`GreatestElement`).  The array's need
`ArraysTyped`: a write in progress has its item, and a read in progress a slot that there is.

**Linked list.**  `DLInv` says that some sequence of different cells, which are the allocated
ones, is what both pointers encode (`Listed`): the head is in front of the first cell and
behind the last (`NodeAt`).  An addition inserts into that sequence and a removal deletes from
it (`Inserted`, `Deleted`); that the pointers then encode the new one are the lemmas
`LinkedInserted` and `LinkedDeleted`.  While a walk is on, the next cell is another than the current one
and is listed, and every cell in front of it that has stayed was visited (`Halfway`): a
removal of the current cell cannot touch it.  `ActsAsSequence` speaks of what following the
pointers from the head gives (`Ahead`, a recursive function).  That such a function exists, and that it gives the cells of
the sequence (`AheadIsTheList`), is proved by the least number for which it would not
(`LeastElement`), as the library's induction theorems cannot be used.

**Packet.**  `PacketInv` bounds begin, end and capacity; the proof splits each of the range
operations on whether the sum wraps.

### Refinement

`KeepsPromise` is proved step by step: every action of the looper and of the uxscheduler is, under
the mapping of `Promise`, a stutter (`Stutters`), an accepted post (`Accepts`), the withdrawal of a
task (`Withdraws`), the beginning or end of a callback (`Begins`, `Ends`), the opening and closing of the service (`OpensUp`,
`ClosesDown`), the discarding of tasks by clear and destroy (`Discards`), or the clock (`ClockIsMoved`).  Both
proofs use the invariant twice: to see that a taken task was due and first, and that no
second one is current.  For the rings, the beginning and the end of a call is `Ask`, the writer's
and the reader's index movement are `Enqueue` and `Dequeue`, moveReadPosition is `Discard`, and copies and
limits are stutters; the queue's contents are the cells between the indices.

### Only model-checked

* Liveness: `ExitObeyed`, `Served`, `CallsReturn` and `StopReturns` (runs thread_handle,
  looper_one_owner and ux_liveness).  Under fairness it is out of the prover's reach, as is `ENABLED`.
* That the TCP connectors' specification implies `Scheduler`'s: one step of `Connector` makes several calls
  of the scheduler, with nothing in between, so it is a sequence of the scheduler's steps and
  not one of them.  `ConnectorProofs` shows of each that it keeps the scheduler's `Basics`.
* The properties of the runs that expect a violation, which are refuted, not proved.

## 6. Not modelled

* Pools and buffers (`pool.c`, `buffer.c`): growth of one allocation, without sharing.
* Connections: a datagram connection of a family other than AF_INET and AF_INET6, whose
  creation calls through a null `_impl` (connection.c lines 57 to 59); reading, writing, addresses and names, options, `_local_port` (which
  connection.c line 182 reads once and keeps when the connection is closed and opened
  again), and the accepting sockets of the examples.  What an open connection transfers is
  the operating system's.
* Connectors: time.  Their timeouts only race the connection; how long they are is left out.
* Liveness of the scheduler's loop and of connectors, which is libev's; that an accepted trigger is
  read is stated as the invariant `TriggerWatched`, and that an outcome is told as
  `NeverForgotten`: its timeout is listed and active.
* Sockets, logging, hexdump, formatting of time, the ux stub, attributes of locks,
  the reader-writer lock (a wrapper without a user), thread names and priorities: I/O or constants without interplay.
* A failed malloc: the code dereferences the result.  A failed pthread_create is modelled
  as the failed assertion it causes.
* What a program does after undefined behaviour or an abort: the model stops there.
* The width of times: `_proc_ms` is 64 bits of milliseconds.
* Words written without a lock (`_tid`, `_exit_pending`, `_running`, `_started`, the rings' indices) are
  modelled as sequentially consistent: `volatile` promises less, and reordering by the
  processor is not explored.
