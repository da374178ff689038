# Verification of coasio

coasio is a C++ coroutine runtime: `task<T>` coroutines run on worker threads,
await timers, sockets, channels, semaphores and blocking calls, and are
cancelled through a scope that every awaitable registers with. This directory
holds TLA+ models of its concurrent core, TLC configurations that check them on
small instances, and TLAPS proofs, for every size, of the parts that all the
others rest on. Paths below are relative to `include/coasio/` unless they start
with `src/` or `tests/`.

## Inventory

| part | state | operations | what is hard |
|---|---|---|---|
| `cancel_scope.hpp` | `cancelled_`, `mtx_`, intrusive list of guards; per guard `state_`, `cb_` | `arm`, `disarm`, `~cancel_guard`, `cancel` | `cancel()` runs callbacks with the mutex held while owners arm, disarm and are destroyed |
| `sync/oneshot.hpp` | `value_`, `ready_`, `sender_dropped_`, `receiver_dropped_`, `cancelled_`, `waiter_` | `send`, drop of either end, `co_await`, cancellation | three parties race for one waiting handle |
| `sync/semaphore.hpp`, `sync/mutex.hpp` | `permits_`, `has_waiters_`, queue of waiters inside awaiters | `acquire`, `try_acquire`, `release`, cancellation | a fast path that reads without the lock, FIFO grants, waiters that live in coroutine frames |
| `detail/blocking/` | pool queue, `stop_`, control blocks shared by pool, awaiter and guard | `spawn_blocking`, `try_cancel`, pool loop, `~pool` | a call is withdrawn or executed, by whoever comes first |
| `runtime.hpp`, `src/runtime.cpp` | run queue with condition variable, `stop_requested_`, list of roots, `live_roots_` | `spawn`, `block_on`, `abort`, `join`, worker loop, `~runtime` | shutdown while roots run, end and spawn |
| `task.hpp` | promise: result, exception, continuation, scope, detached flag | start, symmetric transfer, `final_suspend`, `detach` | a root destroys its own frame; exceptions and the scope cross frames that suspend |
| `detail/async_op.hpp`, `time.hpp`, `net/tcp/`, `net/base_resolver.hpp` | awaiter over an asio operation, cancellation signal | initiate, completion handler, cancellation, `connect_to` | the handler on an io thread, the guard and asio's slot |
| `net/helper.hpp` | none | `trim_whitespace`, `parse_port`, `parse_host_port` | edges of the input |
| `filesystem.hpp`, `filesystem/file.hpp` | a stream handle | calls on the blocking pool, asynchronous reads and writes | what a cancelled call is reported as |

How they meet: every awaitable gets its task's scope from
`promise_type::await_transform` and arms a `cancel_guard`. What resumes a task
is always `runtime::schedule(handle)`, called by a sender, a releaser, a pool
thread, an asio handler or a cancelling thread. The single rule everything
depends on is that between two suspensions a handle is scheduled once: by
the event or by the cancellation, never by both and never by neither. The
correctness properties of each part are therefore about who wins a race, about
what the loser may still touch, and about what is left behind.

`PROJECT.json` lists the components with what is and is not modelled, and the
hazards, each at its line.

## Modules

```
Await            what every co_await promises (abstract)
   ^ implemented by               ^ implemented by
AsyncOp (its safety part)      SpawnBlocking; Semaphore and Oneshot (its safety part)
   ^ extended by                  ^ extended by
Task    frames over AsyncOp    Files        (MCFiles)
   ^ extended by                  ^ BlockingProofs
Connect    with HostPort       (MCConnect)
   ^ ConnectProofs             (also about AsyncOp and Task)

CancelToken      what a guard promises (abstract)
   ^ implemented by               ^ used as allowed by
CancelScope                    Oneshot
   ^ CancelScopeProofs            ^ OneshotProofs

FifoSemaphore    what a semaphore promises (abstract)
   ^ implemented by
Semaphore

IntrusiveList    the linked lists, pointer by pointer
   ^ extended by                  ^ extended by
Semaphore  (MCSemaphore)       Runtime      (MCRuntime)
   ^ SemaphoreProofs              ^ RuntimeProofs

SequenceLemmas   queues, pieces of sequences, least numbers
   ^ extended by                  ^ used by
ListLemmas       the           BlockingProofs, ConnectProofs
   pointers of IntrusiveList
   ^ used by
RuntimeProofs, SemaphoreProofs
```

Conventions. A critical section of a mutex is one action unless something
outside it can see its middle; the accesses to atomics outside a lock are
actions of their own, and so is everything done after an unlock. A mutex that is
held across a callback (a scope's, during its sweep) is visible as a phase of
its holder, and `arm` and `disarm` wait for it. Memory is sequentially
consistent: the code's relaxed and acquire/release accesses that matter are made
under a lock, and the `has_waiters_` protocol uses `seq_cst`. A reference to an
object that may have been destroyed is a nondeterministic read. Operators whose
comment says "a mutant of" are not part of the model: each is a plausible bug in
the definition below it, kept to show that a property would notice.

**CancelToken** is an abstract specification: a token is armed unless the scope
was cancelled, and then either stopped by its owner or run once; `disarm`
answers true exactly when it stops an armed token.

**CancelScope** models `cancel()` as unlocked test, locked exchange, then for each
guard an unlink (`CancelPop`) and a callback (`CancelCall`) with `mtx` held; any
number of threads may cancel. `owner[g]` follows the awaiter that holds the
guard, up to its destruction at any moment the mutex allows. A guard without a
scope is included.

**Oneshot** models one channel, a sender that may try several values, and the
awaiter step by step: `await_ready` reads the scope and then the channel,
`await_suspend` arms and then publishes the handle, `await_resume` disarms and
then reads. Send, drop and cancel are each split at the unlock, so that the
wake-up comes later.

**IntrusiveList** is `link_tail`, `link_locked`, both `unlink`s, and `Represents`:
what it means that the pointers make up a given sequence of nodes. `unlink` does not
test that the node is linked, as in the code.

**Semaphore** follows each thread (`at`, `doing`) through the awaiter and through
`release()`. `grant_locked` grants one waiter a step (`GrantFirst`) until there is
none or his permits are not there (`GrantEnds`), and its thread has `queue_mtx_`
meanwhile (`Unlocked`), for `release` adds permits without the lock and a waiter
may already run when the next is granted: the handles are scheduled one by one
after the unlock, but those for which the wake buffer has no room
(`Capacity`, 16 in the code) at once. A visitor is a thread outside the
runtime with one `semaphore_permit`: it may `try_acquire` and `merge`, then drop
the permit or `forget` it, or release without having acquired. `Stops` is the end of
`await_suspend` with `true`. Constants select environments: `Cancellable`, where
inside an `await_suspend` a cancellation may find a waiter that has no permits
(`CancelAt`: before it is linked, while it is, or after the lock is given up;
`Spared` says who is kept from it), and what a
read of a destroyed waiter's flag may give (`LateReads`). A cancellation that finds
its waiter granted may come anywhere in every environment. `line` and `total` are
history variables, the queue as it should be and the permits there should be.
The mutex is the instance with one permit.

**FifoSemaphore** is an abstract specification: a number of free permits, a queue
of tasks, and who has what. The first in the queue is served, or whoever asks if
there is no queue; a waiter may leave; permits come back, are forgotten or added.
It has no threads and no pointers, and a grant is one step. In `ImplementsFifo` its queue
is `line`, which `QueueFaithful` says the pointers are, and a task that the real
semaphore has granted counts as served before it runs.

**Await** is an abstract specification: a task runs, suspends, is woken once and
resumed, and once its scope is cancelled it does not stay suspended. SpawnBlocking is
checked to implement it, liveness included, by the run `blocking`. The safety part is
proved of AsyncOp, SpawnBlocking, Semaphore and Oneshot (`KeepsPromise`); that a cancelled operation of
AsyncOp ends is checked as `CancelEnds` of the run `client` and not through Await.

**SpawnBlocking** composes pool threads, workers and cancellations; a control
block is named by its task. `Look` is the critical section of `worker_loop`, with
sleeping threads and `notify_one`.

**Files** extends it by the coroutines of `filesystem.hpp` and of `file` and
`random_access_file`, which are one call each and differ in what they make of
the error code and of what `spawn_blocking` gave: `Reply` puts them in
three groups.

**AsyncOp** is the awaiter of `async_op()`, and those of `sleep` and `accept`,
which are written like it. `at[t]` is the coroutine (`await_ready`, `Arm`, `Start`
or `Refused`, `Disarm`, `Read`), `op[t]` the operation in asio and then its
handler on an io thread (`Take`, `HandlerDisarms`, `Deliver`, `HandlerWakes`), and
`scope[t]` the cancellation with its `sig_.emit()`. asio is external: an operation
completes at any time or never, a signal aborts what still waits in asio and
nothing else, and a name lookup need not be interruptible.

**Task** puts trees of frames on top: a body creates, drops and awaits tasks,
awaits leaves, throws, catches and returns in any order, and `Call`,
`Transfer`, `AwaitResume` and `Finish` are the promise's transfers of control. The
frames that wait for one another (`Chain`) are those on a path of continuations.
**Connect** adds the frames of `socket::connect_to()`, whose body is fixed: parse,
resolve, connect. **HostPort** is the parser it calls, position by position; an
address is a sequence of characters because `ParseExact` is about characters.
`Past` is what lies behind the address in memory.

**Runtime** has the run queue, sleeping workers, the list of roots with its
pointers, and the destructor with its cursor over that list. A root's body is an
arbitrary program: spawn, await, join, return, in any order. What an await does
internally is left to the modules above; here it is `awaits[r]`, taken away once
by its event, its cancellation or, for a join, the child's outcome: what Await
says. The sweep holds `roots_mutex_` and is the one critical section that is not a
single step. `join()` belongs to a child task of the joining root and is taken as
its own step.

## Runs

All runs stop, since their programs end: `CHECK_DEADLOCK FALSE` is set for that
reason, and that nothing is stuck is stated as liveness instead.

| run | shows |
|---|---|
| `cancel_scope` | `CallbackContract` is the comment at `cancel_scope.hpp:57-59`; `NoDanglingGuard` that a destroyed awaiter is out of reach of the sweep; `NoneLeftArmed` and `CancelReachesArmed` that no cancellation is lost; `ImplementsToken` the refinement |
| `oneshot` | one wake-up, agreement of both ends, no lost wake-up, correct use of the guard |
| `semaphore` | permits conserved, queue intact, first come first served, no permits idle beside a waiter they would satisfy, one resumption, the refinement of FifoSemaphore, an answer for every acquirer |
| `blocking` | executed or withdrawn, cancellation reaches a queued call, a task reports only what the file system said, the refinement of Await with its liveness, every await and the pool end |
| `runtime_safety` | the list of roots is what it should be and the sweep never on a dead root, handles neither lost nor doubled, no worker sleeps through work, nothing left when the workers stop |
| `runtime_live` | the destructor returns and aborted roots end |
| `client` | one waker per suspended coroutine, honest results, frames where they belong, exceptions arrive, the parser is exact, `connect_to` keeps its order, a cancelled tree ends |
| `sem_window_lost`, `sem_resumed_twice`, `blocking_late_store`, `runtime_late_spawn`, `async_cancel_lost` | expected violations, see below |

Bounds. Three guards and two cancellers give a sweep in progress with one guard
fired, one linked and one being destroyed, and a second thread at each of the two
tests of `cancelled_`. Two values let a sender try again after either answer.
Three acquirers, of 1, 2 and 1 permits, on two workers make a queue with a middle
and a head that wants more than its successors; two of them may be cancelled; a
visitor's permit of two (`MaxHeld`) is a merged one. A `Capacity` of one wake-up is
exceeded by two grants at once. `EveryoneReturns` says that again and again nobody
waits, which is an answer for everyone since a task waits once. Two calls, pool
threads and workers let one call be withdrawn while another is executed; one of
the two tasks looks at what `spawn_blocking` gave (`file_size`) and one does not
(`resize`). Three roots give the list a middle and allow a root to join one while
it is joined by another; `MaxAwaits` bounds the awaits of one root (1 with three
roots, 2 with two). `client` is one root, since roots share nothing but io threads
and queue; two children make chains of three frames, and `MaxSteps` bounds its
leaves and throws to two, those of `connect_to` not counted. The parser's two error codes
(`invalid_argument` and `result_out_of_range`, for a port above 65535) are one in the model:
`connect_to` passes either on. `MaxPort` is 9 for
65535, with the digits 0 and 6, so that two digits may be a port ("06") or not
("66"). Ten addresses go through `connect_to`; all of at most five of six
characters, the shortest with brackets, colon and port among them, are tried
against the reference definition by an assumption of MCConnect
(`ParserExact`). Symmetry is used only in `runtime_safety`, which checks
invariants only: roots and workers are interchangeable there.

What the passing runs assume of the program. `semaphore`: whom a cancellation finds
between `arm` and the read of `w_.cancelled` has his permits (`CancelAt = {}`), only tasks
that ask for one permit are cancelled, and the late read gives false, the value the waiter had.
`client`: nobody is cancelled between `arm` and the start of the operation
(`CancelInSuspend = FALSE`).
`runtime_safety` and `runtime_live`: no root spawns once the destructor has begun
(`LateSpawn = FALSE`), and what a root awaits behaves as Await says: its event and its
cancellation between them wake it once, and its cancellation does so if the event does not. That
is true of AsyncOp and Semaphore only under the assumptions of `client` and `semaphore`: with a
cancellation lost as in `async_cancel_lost`, neither `ShutsDown` nor `AbortEnds` would hold
of a root in a long sleep. `CancelAt`, `CancelInSuspend` and `LateSpawn` exclude what the
violations below show; the late read and the tasks that ask for more than one permit
are explained after them. `EveryoneReturns` promises nothing once permits are
forgotten that a task needs. All pool functions return.

Fairness. Weak fairness of each thread's next step, and of taking a handle out of
the run queue (it is a FIFO served by all workers, so no handle is passed
over for ever). Strong fairness of `Take`: asio's queue of handlers is a FIFO too,
but an io thread busy with one handler disables the others. A name lookup ends,
at the latest when it times out; no other operation has to complete, for
`CancelEnds` is about those that do not. Programs are bounded and go on. Callers
are free: nobody has to send, drop, cancel, abort, spawn or release from outside,
and in Runtime no awaited event has to come. Tasks and visitors give the permits
they hold back or forget them.

## Where code and expectation differ

1. `sem_window_lost` (`sync/semaphore.hpp:286-294`). The guard is armed before the
   waiter is linked. A cancellation in between calls `unlink` on a waiter with
   null pointers, which sets `head_` and, if nobody follows, `tail_` to null: the
   waiters already queued are lost.
2. `sem_resumed_twice` (`sync/semaphore.hpp:294-302`). A cancellation between the
   enqueue and the read of `w_.cancelled` marks the waiter and schedules its handle,
   and the read then makes `await_suspend` return false: the coroutine goes on at
   once and a second time from the run queue, when its frame may be gone.
3. `blocking_late_store` (`detail/blocking/spawn_blocking.hpp:78-81`). The call is
   visible to the pool before `cb_` is set; resumed early, the awaiter reports
   "cancelled" for a function that ran. The second look at line 83 then works on
   a destroyed awaiter too; the model lets it read either value, and
   the refinement of Await holds even so.
4. `runtime_late_spawn` (`src/runtime.cpp:50-61`). Roots registered after the sweep
   are not cancelled, and the destructor waits for them.
5. `async_cancel_lost` (`detail/async_op.hpp:76-83`, `time.hpp:109-118`,
   `net/tcp/listener.hpp:65-73`). The guard is armed before asio's handler is in the
   cancellation slot. A cancellation in between emits to an empty slot, and the
   operation, started afterwards, runs its full length.

Seen while modelling and not the subject of a run:

- `sync/semaphore.hpp:299`: after the enqueue another worker may resume the task
  and destroy the waiter before `w_.cancelled` is read; a true reading resumes the
  coroutine a second time. `LateReads = {FALSE, TRUE}` violates `ResumedOnce`.
- `sync/semaphore.hpp:80-87`: cancelling a waiter that was holding up the queue does
  not grant to those behind it. If a task that asks for two permits may be cancelled,
  `NoIdlePermits` is violated: the next waiter sleeps beside a permit that would do,
  until the next release. The test at `tests/sync/semaphore.cpp:168` is about a
  release after the cancellation, which does reach it.
- A scope cancelled before `arm` gives `coasio::error::cancelled`, one cancelled
  afterwards asio's `operation_aborted`, and `accept` gives the latter in both
  cases; `tests/runtime_basic.cpp:134-141` expects asio's code.
- `file::open` (`filesystem/file.hpp:77`, `211-212`) uses `current_runtime()` on a pool
  thread, where it is null, and dereferences the
  result of a cancelled call (`85`, `221`): `Reply` is "undefined". `resize`,
  `sync_data` and `sync_all` (`158-183`) do not look at `status`, so that a cancelled
  call is a success; `FileHonest` states that they are the only ones.
- `trim_whitespace` (`net/helper.hpp:30-32`) keeps the blank it stops at, so that an
  address followed by a blank has no port, and for a single last character, or
  nothing but blanks, its view reaches one byte past the input. `ParseExact` holds of what
  `connect_to` makes of it, whatever that byte is.
- With no io thread (`set_io_worker_count(0)`) no operation ever completes.

## Proofs

`CancelScopeProofs` proves, for any sets of guards, scoped guards and cancelling
threads, the type invariant, `CallbackContract`, `NoDanglingGuard`,
`NoneLeftArmed` and the refinement of `CancelToken`. None of the three safety
properties is inductive: a callback that has not run, say, is only known to
belong to the thread inside its sweep. The strengthening says that exactly the
mutex holder sweeps and that it sweeps only when `cancelled`, that the linked
guards are exactly the armed scoped ones, that a firing guard is fired with its
callback still due while every other fired guard has had its callback, and that the owner of
an armed guard is still waiting. The refinement follows because the
callback counts as run when it has returned: a popped guard is still armed in
the abstract, and `disarm` cannot see the difference as it waits for the mutex.

`OneshotProofs` proves for any set of values the type invariant, `WokenOnce`,
`EndsAgree` and `UsesToken`, and that the channel is resolved in one way
(`OneResolution`, which `EndsAgree` rests on). The strengthening says where a handle
can be: a non-null `waiter` means a suspended receiver and an open channel,
a wake-up in flight means a suspended receiver, a null `waiter` and a resolved
channel, and a receiver that comes back finds the channel resolved or, if it was
never armed, its scope cancelled. It also ties the scope's phase to
the guard's state and to the answers of `disarm`. `KeepsPromise` follows: the
channel's `co_await` implements the safety part of Await, for who schedules the handle
has taken `waiter_` from a suspended receiver, and only one can.

`ConnectProofs` starts with AsyncOp and proves for any set of coroutines, operations
and number of io threads, with cancellations in any place, the type invariant,
`AwaitersSound`, `HonestResult` and `KeepsPromise`, that AsyncOp implements the
safety part of Await. The inductive invariant is a conjunction over tasks: a
coroutine that waits has one waker (`Waker`), an armed guard or a firing scope
belongs to an awaiter that still waits (`GuardHeld`), `op`, `ec` and
`outcome` progress together (`Progress`), and a result is what asio or the scope
said (`Honest`). A step of one task leaves every conjunct of the others alone
(`OthersKept`), so each action is looked at for its own task. It is shown for
`AnyNext`, in which a body may await any operation at all and not only the
`Used`. The three invariants carry over to `ConnectSpec`, for any trees
of tasks and any addresses: every step of Connect is a step of `AnyNext` or leaves
AsyncOp's variables alone, because to asio and the scope a tree is one
coroutine whose body is the frame that has control.

`CancellationReachesOp` and `ClientCancellationReachesOp` are the other half of the
run `async_cancel_lost`: if no cancellation falls between `arm` and the start of
the operation (`~CancelInSuspend`), then in AsyncOp and for every tree of tasks an operation that
asio can abort does not outlast the sweep of its scope. Inductive is that the guard
of a pending operation stays armed as long as its scope is live, and that a scope is
still live when the operation starts (`Reached`).

The same module then proves `FramesSound` and `ExceptionArrives`. What is
inductive (`FrameInv`) says of every frame who owns it, who continues after it and whether it
has run: a frame that waits is continued by one callee (`OneCallee`), the callee is
held by the frame it returns to, and an exception is stored only in a frame that
has ended (`Stored`). The frames that wait are the least set closed under
continuations, so that a call adds one to it and a return takes one away, without
an induction over its length. `ConnectsInOrder` needs `OrderInv` besides: the frame
of `connect_impl` has begun only after its sibling got an endpoint, and what a leaf
has been told is what its frame remembers.

`ParsesExactly` is `ParseExact` for any addresses at all. Under it lies
`ParserIsExact`: for every sequence `s` over any set of characters, and any byte
after it, what `ParseHostPort` finds is what `Named(s)`, the definition without an
algorithm, has in it. The searches of the code are first elements of a set of
positions (`Found`, `Begins`), for which a least number exists by `LeastNat`. The view
that `trim_whitespace` leaves is the address from its first character on, up to a
blank or the end (`View`), and a digit at its end shows that it is no blank at which the
view stopped (`Longer`); where one character is left it is too short for a colon
and a port, whatever the byte behind it is (`OneCharacter`). Both directions then
come down to the same colon (`ColonAt`). The value of the digits is not looked into: parser and
definition read the same digits.

`BlockingProofs` proves for any tasks, pool threads and workers `TypeOK`,
`CancelReachesQueue`, `WithdrawnNeverRuns`, the safety part of Await
(`KeepsPromise`), and for the tasks of Files `FileHonest`. `OnePlace` says where a control
block can be: in the run queue, in the pool's queue, with a pool thread, with
whoever withdrew it, or with a worker, and in one of them only. The worker that has
queued the call is apart (`Late`): it may be in `await_suspend` while the task is
resumed elsewhere, and after the callback it is the only one that can still find
the call in the queue (`SecondLook`). The late store of `cb_` is part of all this:
what is lost to it is the result and not the wake-up.

`RuntimeProofs` proves for any roots and any finite set of workers `TypeOK`,
`RootsListed`, `HandleOnce`, `NoIdleWorker` and `StopsWhenDone`, with roots that are
spawned late as well as without. The inductive invariant has for each root the one place
of its handle and the stage of its life that this place implies (`OnePlace`,
`StageMatches`), for the registry that some sequence of the live roots is what the
pointers make up (`ListInv`), for the destructor what is behind it at each of
its stations (`Stopping`), and `NoIdleWorker` itself, which is inductive once it
counts: handles in the queue against workers on their way to it. `CancelsEveryRoot`
is `WaitsForCancelled` for programs that spawn nothing once the destructor has begun;
its invariant is that the roots before the cursor of the sweep are cancelled, and
it needs that the list stands still during the sweep and only shrinks after it. The run `runtime_late_spawn` shows
that without the hypothesis it is false.

`SemaphoreProofs` proves `TypeOK` for every environment, and in those that `Quiet`
names, where a cancellation that falls inside an `await_suspend` finds the waiter granted
and the late read gives false, for any tasks, demands, threads and size of the wake buffer,
`PermitsConserved`, `QueueFaithful`, `ResumedOnce`, `FirstComeFirstServed` and,
if the tasks that may be cancelled ask for one permit each (`SmallCancelled`),
`NoIdlePermits`. The run `semaphore` checks the same under the same conditions. No
part of `Quiet` can be left out: `sem_window_lost` and `sem_resumed_twice` let a cancellation find
an ungranted waiter before and after it is linked, and violate `NoIdlePermits` and
`ResumedOnce`, which the other value of the late read violates too. The
invariant (`IInv`) has one thread inside `queue_mtx_`, for each task the one place
from which it can be resumed and none while it is in `line` (`OnePlace`, `InLine`),
a guard that stays armed without permits only in `line` or on the way to it (`Guarded`),
and the stage of the coroutine that each position of its thread implies
(`Running`, `Staged`). That permits are conserved is shown of the sets of permits,
each grant or release adding or removing the share of one task or visitor.
`MutexExcludes` draws the conclusion for `sync/mutex.hpp`: while there is one permit,
one task or visitor has it. No bound on `permits_` is needed because the model's is
any natural number. `KeepsPromise` is the safety part of Await for `acquire()`, under
`Quiet`: a coroutine is moved on by one thread at a time (`Moved`) while the others
stand `Still`, and counts as suspended once its thread has given up `queue_mtx_`.

`FifoImplemented` is the refinement of FifoSemaphore, under `Quiet`. Each step is seen from outside as
one operation of the abstract semaphore or as nothing: linking a waiter as
joining, a grant as serving the head, a `try_acquire` that succeeds as taking when nobody
waits, the callback of a cancellation as leaving or, after a grant, as nothing. It needs that
`head_` is the first of `line` and null when there is none, that a task in `line` has no permits, and that a
worker that releases holds what its task was given, all of which `IInv` says. `Quiet` cannot go:
the run `sem_window_lost` shows waiters that fall out of the list, after which a
newcomer takes the permits they wait for.

`SequenceLemmas` has what these proofs need about appending to and removing from a
queue in which nobody stands twice and about pieces of sequences, and that a set of
numbers has a least one, which is what induction is done with here; `ListLemmas` has that `link_tail`, `link_locked`
and both `unlink`s do to the pointers what those operations do to the sequence, wherever
the node stands, the only node included.

The assumptions are those named in the modules: `ScopeAssumption` and
`ValueAssumption` (distinct names for nobody and nothing), `NilAssumption`,
`AsyncAssumption` (the operations are among those of the library, there is an io
thread), `TaskAssumption` (frames have distinct names), `ConnectAssumption`
(`connect_impl` is awaited by `connect_to` only), `AddressAssumption` (an address is a
sequence of characters), `BlockingAssumption`,
`FunctionAssumption`, `RuntimeAssumption` (workers are finite and none of them is
the main thread) and `SemaphoreAssumption` (everybody asks for at least one permit).

Only model-checked. Liveness, which with ENABLED is outside the prover's reach:
`CancelEnds`, `ComesBack`, `EveryoneReturns`, `PoolEnds`, `ShutsDown`, `AbortEnds`,
`CancelReachesArmed`, and for SpawnBlocking the liveness of `ImplementsAwait`, whose safety
part is proved of AsyncOp, SpawnBlocking, Semaphore and Oneshot (`KeepsPromise`). Every invariant and every safety property
of the passing runs is a theorem. What nothing is said of is what `Decimal` computes: it is a
fold over the digits, whose value the theorems about folds would give only by an
induction over an operator, and `ParserExact` and the run look at it for short numbers.

## Not modelled

asio, the file system and name resolution, but for how the code uses them;
members that only hand over to asio (bind, listen, close, socket options, `expires_after`)
and have no state of their own; conversions of addresses and the error
category, which have none either; `open_options`; the lazy creation of the blocking pool
(`call_once`); `block_on` called by a worker, which blocks that worker and, if it is
the only one, for ever; `dequeue_or_return` and the oneshot awaiter's destruction
while suspended, since the runtime destroys no suspended coroutine; overflow of
`permits_`; moving guards and handles before use; awaiting an empty or moved-from task
and joining twice, which dereference null; spurious wake-ups, which every wait of
the code tolerates by its predicate.

## Plan

1. Runtime as an implementation of Await. Runtime takes a cancellation and the wake-up
   it causes as one step, and its roots are spawned while others run: both need steps
   that Await does not have yet. What it would say of handles is in `HandleOnce`.
2. `block_on` from a worker in Runtime, with the condition on workers and
   blocked roots under which the destructor still returns.
