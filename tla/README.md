# Verification of phpco

phpco is a PHP 7 extension, in C, that gives a script stackful coroutines
(`co::create`, `co::yield`, `co::resume`) and calls that suspend the calling
coroutine until a socket is ready or a time has passed (`co::socket_accept`,
`co::socket_read`, `co::socket_write`, `co::sleep`, `Co\PDO::prepare`,
`Co\PDOStatement::fetchAll`), driven by an epoll loop (`co::event_loop`).
A process has one thread: what is hard in it is not parallelism but the order in
which coroutines create, suspend, resume and end each other on one C stack with
`setjmp`/`longjmp`, and what they do to descriptors while the loop is in the
middle of a batch of events. Real concurrency comes with `fork`: the README
offers multi-process use, and the processes share a listening socket and
sometimes an epoll instance.

This directory models that code in TLA+, checks it with TLC on small instances
and proves it, where the prover reaches, with TLAPS for all instances. Source paths below are
relative to the repository's root.

## 1. Inventory

| part | source | state | operations |
|---|---|---|---|
| cid allocator | `coroutine_util.c` 260-342 | bitmap `page`, counter `nr_free`, `last_cid` | `alloc_cidmap`, `free_cidmap` |
| coroutine core | `coroutine_util.c`, `coroutine.c` 167-285 | the registers `EG(vm_stack...)`, `COROG.current_coro`, `COROG.allocated_return_value_ptr`; `COROG.require`, `COROG.coro_num`; the global `checkPoint`; `cid_context_map`; the C stack itself | `coroutine_create`, `yield`, `resume`, `coro_close`, the resumption in `aio_invoke`, `PHP_RSHUTDOWN_FUNCTION` |
| event table | `coroutine_event.c`, `coroutine_event.h` | `RG.aio_event_fds`: one `aio_event` per descriptor number, never removed except when a registration fails | `_aio_event_store`, `aio_event_free` |
| waiting calls | `coroutine.c` 287-410, 571-632 | - | `socket_accept`, `socket_read`, `socket_write`, `sleep`, `prepare`, `fetchAll`, `socket_close` |
| timeouts | `coroutine.c` 412-441, 491-515, `src/link/link.c` | `RG.timeout_fd_link` | `socket_set_timeout`, the pass in `event_loop` |
| event loop | `coroutine.c` 9-60, 466-518 | the batch `events[]`, `i`, the turn counter `test` | `event_loop`, `aio_invoke` |
| timer descriptors | `coroutine_timer.c` | kernel | `create_timerfd` |
| PDO wrappers | `coroutine.c` 541-652, 12-46 | the property `origin`, reference counts | constructor, `prepare`, `fetchAll`, destructors |
| descriptors of PHP values | `coroutine_event.c` 88-186 | - | `c_convert_to_fd` |
| multi-process use | `coroutine.c` 167-190, `tests/co_http_server.php` | per process all of the above; shared: the listening socket, and `RG.epollfd` after a late fork | `pcntl_fork`, `coro_init` |
| string hash table | `src/hashtable/` | chains of `kv` | `new`, `put2`, `get`, `rm`, `delete`; not built, nothing calls it |
| inter-process mutex | `initMutex` | - | not called |

How the parts meet. A waiting call stores its `php_context` in the event table,
saves the registers into it and longjmps to `checkPoint`, which brings control
back to whatever C call started or resumed the coroutine: `coroutine_create`,
`resume` or `aio_invoke`. `event_loop` asks epoll, and for each reported
descriptor `aio_invoke` makes the transfer (PHP's own `socket_read` and so on),
releases the event, then resumes the coroutine of the event. The coroutine runs
*inside* that call, so it can create, resume, wait, close and open anything
while the rest of the batch is pending.

What makes each part correct:

* allocator: no cid is given out twice or withheld while it is free, and the search
  ends, although the counter drifts from the bitmap;
* core: a coroutine runs on its own stack, a suspension goes back to whoever
  started the coroutine, every suspended coroutine can be resumed exactly once,
  nothing is freed early or twice;
* event table: an event is wholly in use or wholly released, epoll watches
  exactly the waits of the table, no wait is lost or answered twice;
* loop: pending reports stay true while descriptors are reused; what was
  reported is resumed;
* timeout list: a pass stays on allocated nodes while coroutines push elements;
* timers: a sleep and a timed wait end neither too early nor too late;
* memory of a call: arguments and contexts are freed once;
* main vm stack: what a leaving coroutine installs hides no frame of the caller;
* PDO wrappers: a connection is open while somebody uses it and closed with the
  last one;
* processes: what one accepts, releases and registers does not disturb another;
* hash table: a key gets the value last put under that key.

`PROJECT.json` lists the hazards at their lines, with the properties that watch
each of them.

## 2. Modules

| module | what it is |
|---|---|
| `CidMap` | the allocator |
| `Coroutine` | the core, over `CidMap` |
| `Cooperative` | what the core promises: the abstract specification that `Coroutine` implements |
| `Reactor` | waiting calls, event table, epoll, timeouts, event loop |
| `Invocation` | `Reactor` with the memory of the calls and the end of `aio_invoke` |
| `Deadline` | clocks, sleeps and timeouts |
| `Link` | the linked list with its nodes as addresses |
| `VmStack` | the main script's vm stack |
| `CoPdo` | lives and references of the PDO wrappers |
| `Prefork` | processes that accept from one socket |
| `HashTable`, `KeyedStore` | the hash table, and the abstract store it implements |
| `MC...` | the same for TLC (symmetry sets, keys, clock steps) |
| `CommonLemmas` | least elements of sets of naturals, sequences without their last element: used by several proofs |
| `CoroutineProofs` | theorems about `Coroutine` and the allocator under it |
| `ReactorProofs` | theorems about `Reactor`, with and without the rules of use, and `Invocation` |
| `HashTableProofs` | theorems about `HashTable` |
| `TimeoutProofs` | theorems about `Deadline` and `Link` |
| `PreforkProofs`, `VmStackProofs`, `CoPdoProofs` | theorems about the module of that name |

### CidMap

`page` is the set of bits that are set, `NCid` is 0x8000 in the code. The
search loop is there twice: `find_next_zero_bit` is the loop as the code has it
(a recursive function on its iterations), `IsNextZeroBit` says which bit it
returns. `alloc_cidmap` uses the predicate; that both agree, from every
starting point, is checked (`ScanFindsNext`). `alloc_cidmap` and `free_cidmap`
take the cid as a parameter so that `Coroutine` conjoins them to its own steps.
`free_cidmap(-1)` touches a bit outside the page, as in the code.

The allocator is checked under the client it really has, `Coroutine`: a refused creation
keeps its cid for ever, a creation that gets -1 goes on without a cid, and the end of
such a coroutine releases -1, which increments `nr_free` and clears no bit.
`FreeCountDrift` (in `Coroutine`) gives the counter exactly: zero bits plus coroutines
that ended without a cid. So the counter is never too low, and `AllocAnswers` says what
follows for an allocation: a free cid is always found, and with a full page, where only
a drifted counter starts a search, the search ends at `last_cid` and the caller gets -1.

### Coroutine

The state is what the C code has: `cstack` is the sequence of C calls that run a
coroutine at the moment (`coroutine_create`, `resume` or `aio_invoke`), each with
its locals (`prev_checkpoint`, `ctx`, `required`, the context it will free);
`reg` are the registers a `php_context` saves; `checkPoint` and `jmpbuf` are the
global pointer and the blocks it can point to, a block holding the position of
the C call that did `setjmp` on it or `Freed`; `heap` holds the contents of the
`php_context` blocks. A register is reduced to *whose* it is. `Return(d, ...)`
is everything that the C call at position `d` does after control came back to
it, so `Yield`, `Park` (a waiting call) and `Close` each model a suspension or
an end up to the point where script code runs again. Where the longjmp lands is
read from `jmpbuf[checkPoint]`: nothing in the model says that it is the
innermost call, that is a property (`YieldLandsInOwnCall`).

`Create` has the three outcomes of `c_coro_create`: started with a cid, refused
at the limit (the cid is not given back, the callback goes to the caller's
task), started without a cid. `st` is a ghost that says what the script did
with each task.

Rules of use (the code does not check them, every script in `tests/` follows
them): `co::yield` and waiting calls are made inside a coroutine; `co::resume`
is given the cid of a coroutine that is in `co::yield`. The model does not
follow `co::yield` of a coroutine with cid -1, which writes outside the array.

### Cooperative

One coroutine or the main script runs; a start or a continuation pushes whoever
ran; a suspension or an end pops it. `Coroutine` implements it under the mapping
at its end: the callers are read from the *saved* registers in the C calls and
the suspended coroutines from the *contexts*, so a lost or wrong context is a
step that the abstract specification does not have.

### Reactor

`ev` is `RG.aio_event_fds`; of an event the model keeps the context, the mask,
the type and whether it has arguments and a timer. `WaitOn` is a waiting call:
`Refuse` (the registration is refused: the event is freed and the call returns FALSE)
or `Store` (the event is filled in, or the wait dropped because somebody waits; then
the suspension). `EPOLL_CTL_ADD` may be refused at any time, of a socket or a timer,
for want of memory or watches, and is always refused of a closed descriptor, a regular
file or one that is watched already (`AddRefused`). A refused `co::sleep` leaves its
timer open (`TimerOwned` names it), and a refused wait frees the event even while an
`aio_invoke` on that descriptor is on the C stack. `aio_invoke` is the transfer, `aio_event_free` and the
resumption. The kernel is modelled from how the code uses it: `kind` says what
each descriptor is, `epoll` what is watched; a closed descriptor leaves epoll, the
lowest free number is given out. `epoll_wait`
returns any subset of what is watched, in any order, any of them as an error
alone. Time is abstracted: whether the first element of the timeout list is due
is a choice. The element is unlinked and freed after its coroutine ran, and its
`next` is read from freed memory: the pass ends or the process dies
(`main = "crashed"`).

Coroutines are what `Cooperative` says (a stack of running ones): `Reactor`
implements `Cooperative` too (`ImplementsCooperative`), so that the two halves of the
system are checked separately against one statement of what they owe each other.

`BrokenRules` says which of two rules the script breaks: `"share"`, a coroutine
waits on a descriptor on which another one waits; `"close"`, a descriptor is
closed under a waiting coroutine. The code checks neither.

### Invocation

Extends `Reactor`: each of its actions is one of `Reactor`'s with what it does to
memory. `contexts` and `args` count the `php_context` blocks and argument arrays that
are allocated and not freed, `inv` is the `aio_invoke` whose coroutine has control
(`fd`, whether it has a result, whether the descriptor was closed or the event freed
under it), `function_name` is the field that nothing clears. Calls take PHP values
and go through `c_convert_to_fd`: a stream without descriptor, a negative number or
another type makes the call return FALSE with its array allocated (`lost` counts
those). `AllSpec` has `Reactor`'s fairness. The rules of use are kept.

### Deadline

Time in ticks, `Sec` to a second. `create_timerfd` sets the timer to the current
second of the monotonic clock plus `n`, with no nanoseconds: a sleep is counted from
the start of the current second. `event_loop` waits at most a second, dispatches,
then makes its pass over the timeout list with `gettimeofday`, which somebody may
set (`skew`). Coroutines may compute (`busy`). One socket has a reader and a timeout;
of the timeout the ghost field `made` remembers when it was set, because `last_time`
moves when a persistent one fires, and a bound counted from `last_time` would not
notice a reader that is left waiting. `number` says what has the descriptor number of
that socket: the socket, nothing after `socket_close`, or a sleeping coroutine whose
timer got it. A timeout that is due resumes whoever is on the number (`OnTheNumber`), a
sleeper too: this is the exception in `SleepsLongEnough`. The memory of a refused
sleep and refusals themselves are in `Reactor`.

### VmStack

A frame takes as many places as its size, any of `FrameSizes`; `mem` has at each place
which of the main script's calls (`frames`) wrote there last, 0 for frames of calls
that the extension makes. The first `co::create` captures the top above its own frame;
a coroutine that leaves installs it; `co::create` and `co::resume` put their caller's
top back, `aio_invoke` does not. So `event_loop` goes on with the captured top, and a
transfer (a PHP call from `aio_invoke`) writes its frame there. Rule of use:
`event_loop` is called by a call of the main script that was on the stack already at
the first `co::create` (the ghost `first`); every script in `tests/` keeps it. A rule
about call depth would not do: `f` calls `co::create` and returns, then `g`, with a
larger frame, calls `event_loop` at the same depth, and the captured top is inside
`g`'s frame. That `event_loop`'s own frame does not reach above the captured top needs
it to be no larger than that of `co::create`: it takes no argument, `co::create` does
(`LoopSize <= CreateSize`).

### CoPdo

`rc` counts the references to each wrapped object, `held` the script's variables that
hold the wrapper, `call` the wrapper in whose method a coroutine is suspended. The
constructor and `aio_invoke` leave one reference too many, `__destruct` releases it.
A constructor that throws leaves the PDO object behind, as does the code. External:
that a PDOStatement holds a reference to its PDO, and that the connection is closed
with the last one. Rules of use are in the module's head.

### Prefork

Here processes interleave between any two system calls. `Fork` copies the process, before
or after its first `co::create` or after an `event_loop` (`LeaveLoop` returns to the
script, which may fork and call `event_loop` again, as `tests/co_http_server.php` does);
before the first `co::create` the child will make an epoll instance of its own,
afterwards it has the parent's (`checkPoint` is set, so `coro_init` is skipped).
`epoll_wait`, PHP's `socket_accept` (`accept`), the release and the resumption
(`aio_invoke`) are separate steps, so another process may take the connection in
between. An instance knows the listening socket once, whoever registered it:
`EPOLL_CTL_ADD` of a second process on a shared instance is refused, and a release
removes it for all. `Alone(p)` says that the instance is the process's own. Refusals
for want of memory or watches are left to `Reactor`.

### HashTable and KeyedStore

Keys are sequences of chars, negative ones too, and the hash is computed modulo
`UIntSize`. `put2` updates or appends, or fails for lack of memory. `hash_table_rm`
sets the chain to NULL when it removes its head, and otherwise reads `next` of the
freed element: unchanged, NULL, or something else (the process dies). `KeyedStore`
is a partial function with destructors; its parameter `Near` says which other keys a
removal may lose. With none it is what `hashtable.h` promises (`KeepsPromise`), and the
code violates it (run `hashtable_rm`, a finding). With those of the same chain it is
what remains: `ImplementsStore` shows that no other keys are lost and no two confused.

### Link

Nodes are addresses that `malloc` reuses. `pushqueue` does not link the new node
to the last one, and the first node is removed from the front only, so `rear`
dangles. The pass of `event_loop` is there step by step (`q`, `f`, `stage`): it begins
at the front, invokes an element that is due, during which coroutines may push, and
either advances or frees the node (`expire`) and then reads `q->next` from it. When
that read returns what was there the pass goes on; otherwise it is lost, and the model
says nothing of what follows. `WalkIsSafe` shows that a pass stands on the front node
only, which is allocated and has no `next`: the read after `expire` is the one read of
freed memory. This is why `Reactor` and `Deadline` keep a single element, plus whether
`rear` is set.

## 3. Runs

| run | instance | states | properties |
|---|---|---|---|
| `coroutine` | 5 creations, limit 2, 3 cids, 4 contexts | 642k | `TypeOK`, `RunsItsOwnContext`, `YieldLandsInOwnCall`, `CheckPointAllocated`, `OneWakeup`, `UniqueCid`, `CoroNumExact`, `CallbackKept`, `CallbackFreedAtEnd`, `FreeCountDrift`, `AllocAnswers`, `ScanFindsNext`, `ImplementsCooperative` |
| `coroutine_cids` | 4 creations, limit 1, 3 cids | violated | `CidInRange` |
| `reactor` (module `Invocation`) | 2 coroutines, 2 descriptors, 2 turns, timeouts, refusals, rules kept | 271k | `TypeOK`, `WhollyUsedOrReleased`, `WatchedInUse`, `ClosedIsCleared`, `NoLostWaiter`, `BatchStaysTrue`, `TimerOwned`, `EventReadBack`, `ContextsOwned`, `ArgumentsOwned`, `ReportedIsResumed` (liveness), `ImplementsCooperative` |
| `reactor_closed` | 2 descriptors, rule "close" broken | violated | `ClosedIsCleared` |
| `deadline` | 2 coroutines, 2 ticks a second, sleeps of 1 and 2 s, timeouts of 1 and 3 ticks, 3 turns, clock set by 3 ticks | 3.6M | `SleepsLongEnough`, `SleepsNotTooLong`, `TimeoutEndsWait` |
| `link` | 4 nodes | 4.0k | `WalkIsSafe` |
| `link_length` | 3 nodes | violated | `LengthIsReachable` |
| `vmstack` | 8 places, frames of 1 to 3 | 394k | `FramesIntact` |
| `copdo` | 2 connections, 3 statements, 2 coroutines | 15k | `OpenWhileUsed`, `ClosedWithLast` |
| `prefork` | 3 processes, 2 connections, 2 turns a loop, forks at any time | 108k | `RefusedOnlyIfShared`, `AcceptorRegistered`, `NeverUnwatched`, `ConnectionsServed`, `ReportIsNoTrap` (liveness) |
| `hashtable` | 4 keys (3 in one chain), 3 values, 2 indices, 256 unsigned ints | 4.5k | `FreedOnce`, `ImplementsStore` |
| `hashtable_rm` | the same | violated | `KeepsPromise` |

Why the bounds are enough. With three cids and a limit of two, five creations reach
every outcome of `c_coro_create`: started, refused at the limit (which uses up a cid),
started without a cid beyond the limit, and what a release of cid -1 does to the
counter afterwards; up to four coroutines are alive, on a C stack with every mix of
create, resume and invoke calls. Two coroutines and two descriptors give a batch of
two entries, with numbers that are closed, opened, accepted and used by timers
between them; two turns let a wait of the first turn be reported in the second. What
`reactor` shows of the table for two descriptors is proved for any number (section 5),
also for scripts that break the rules. Three cids have every page and every mark a
search can start from, with and without a wrap; the code's masks make its modulus a
power of two, of which nothing else is used. Two ticks to a second are enough for a call to be made at the start of a second and inside it; three turns outlast the longest sleep
and timeout; a clock step of three ticks is longer than a second in either direction.
Three processes allow one that has used up its turns, one with a stale report and one
that accepts, and a shared instance beside an own one. Three keys in one chain give a
head, a middle and a last element; keys include one whose hash wraps and one with a
negative char. Eight places hold frames of different sizes below and above the captured
top, in calls made before and after the first `co::create`.

Runs say `CHECK_DEADLOCK FALSE` where the script may end (`coroutine`, `reactor`,
`deadline`, `copdo`, `prefork`) or the memory may (`link`, `hashtable`). `vmstack` has
no deadlock.

Fairness. `reactor`: weak fairness of the loop's steps, because `event_loop` is a C
loop that nothing interrupts when no coroutine runs, and of the end of the running
coroutine: there is no preemption, so a coroutine that never gives control back stops
everything, which is a fault of the script. No fairness is assumed of epoll: the
property speaks only of what it reported. `prefork`: weak fairness, for each process,
of what the extension goes on with by itself (`Run(p)`),
because the operating system runs every process; nothing makes clients connect
or give up, or scripts create, fork or call `event_loop`. `ConnectionsServed` is about a
process that is in `epoll_wait` with a turn left. `ReportIsNoTrap` needs `NonBlocking`: on a blocking
socket `accept` waits for the next connection, and the process with it.

The properties of the passing runs each have a mutant, a plausible slip in the code
under which TLC finds them violated; the mutated definitions stand, marked as such,
before the ones they change.

## 4. Findings

* `coroutine_cids`: `c_coro_create` takes a cid before it tests the limit and does
  not return it (`coroutine_util.c:88-93`); when the map is empty, creation goes on
  with cid -1, past the limit too. The comment above the map says
  `1 <= cid <= 32768`.
* `reactor_closed`: the comment in `_aio_event_store` (`coroutine_event.c:21`) says
  that the events of a closed descriptor are zero. That is so after
  `co::socket_close`; after PHP's own `socket_close` or `fclose` of a descriptor on
  which a coroutine waits it is not, and a later wait on the reused number is not
  registered. If nobody closes under a waiting coroutine the comment is right
  (run `reactor`).
* `link_length`: a second timeout that is pushed is never linked
  (`src/link/link.c:32`), so no walk meets it and its socket never times out; nor
  does any that is pushed after the first one was removed.
* `hashtable_rm`: `hash_table_rm` empties the whole chain when it removes its head
  (`src/hashtable/hashtable.c:165`); the header says "remove a value indexed by key"
  (`hashtable.h:29`) and that `free_value` is called when a value is removed. The other
  keys are gone and their values never freed.

The passing runs show limits of the code as well, stated in their properties:

* after a fork that follows the first `co::create`, `co::socket_accept` is refused
  when another process has the socket registered, and a script that calls it again,
  as `tests/co_http_server.php` does, spins as long as nobody releases it
  (`coroutine.c:185`; `RefusedOnlyIfShared`, `ConnectionsServed` and `ReportIsNoTrap`
  except that case). A fork before the first `co::create` is safe;
* `co::sleep(n)` may last hardly more than `n - 1` seconds, and hardly any time when its
  timer has the number of a closed socket whose timeout is due (`coroutine.c:498`,
  `SleepsLongEnough`);
* a `co::sleep` that epoll refuses leaks its timer descriptor and its `itimerspec`
  (`coroutine.c:402-406`, `TimerOwned`);
* a wait that epoll refuses frees the event; when an `aio_invoke` on that descriptor is
  on the C stack it reads the freed event at `coroutine.c:57` (`EventReadBack` excepts
  it);
* `event_loop` reads `next` of the timeout element it has just freed (`coroutine.c:514`;
  `WalkIsSafe` says that this is the only such read);
* a waiting call that fails leaks its argument array (`ArgumentsOwned` counts it);
* the free counter of the cid map passes the size of the map when coroutines without
  a cid end (`FreeCountDrift`): `alloc_cidmap` then searches a full page and returns -1;
* `event_loop` called by a function that was not on the stack at the first `co::create`
  may have frames overwritten (a rule of use of `VmStack`).

## 5. Proofs

Every invariant that a passing run checks is also a theorem about every value of the
constants, and so are one action property (`SleepsLongEnough`), both refinements of
`Cooperative` and that of `KeyedStore`. Each proof has one inductive invariant and
one lemma per action or kind of action.

`CoroutineProofs`, the search for a free cid, for every `NCid`. If some bit is zero, the
zero bit at least distance after the mark is the one the search stops at (`ScanStops`,
from `LeastNat`). `ScanCorrect` is about the loop itself, a
recursive function: an explicit function that looks up the first iteration that ends the
loop satisfies the recursion, so a solution exists; a second one would differ at a
largest iteration, which `LeastNat` excludes (`ScanLoop`). The bit tested in an
iteration is the one at that distance (`TestedDistance`), which makes the first end the
first zero bit.

`CoroutineProofs`, the core, for every number of creations and cids, every limit and
set of contexts. `CoroInv` has these parts:

* `StackInv`: `RunsItsOwnContext`, and the C calls run different coroutines, all alive,
  with `aio_invoke` only as the outermost one;
* `ContextInv`: every allocated context belongs to one coroutine, and is held by the C
  call that resumed it, or is where `co::resume` or the event will look for it;
* `CheckInv`: `checkPoint` is the block of the innermost call (one `aio_invoke` uses
  that of `coro_init`), each call's block was filled by its own `setjmp`, and each call
  remembers the block of the call below. No block is reused, because no more calls are
  nested than there are coroutines alive, all different (`DepthBound`, a pigeonhole
  argument): this is what `YieldLandsInOwnCall` and `CheckPointAllocated` rest on;
* `CidsInv`: `FreeCountDrift` and `UniqueCid`, which need each other: that a release
  clears a bit needs the bits of living coroutines set and distinct. With `MarkInv` (a
  bit is set only after one was handed out) and `ScanStops` it gives
  `AllocAlwaysAnswers`;
* `CallbackInv`: a coroutine's function is its own callback or one that was refused.

`CooperativeImplemented` maps the callers of a coroutine to the saved registers of the
C stack and the suspended ones to the contexts: a call pushes one caller
(`CallersPush`), a suspension or an end pops one (`CallersPop`).

`ReactorProofs`, for every set of coroutines, number of descriptors, turns and
events, and for *every* `BrokenRules`. The inductive invariant `IInv` has three parts:
`TableInv` (types, `WhollyUsedOrReleased`, `WatchedInUse`), `CoInv` and `LoopInv`.
`WatchedInUse` needs `WhollyUsedOrReleased`, because `aio_event_free` removes a
descriptor from epoll by the event's type, and the type of reports needs
`WatchedInUse`, because a report names the coroutine of a watched event; `LoopInv`
also says that the loop dispatches only below the limit of turns. Theorems:
`TypeCorrect`, `EventsConsistent`, `EpollConsistent`. `ReactorIsCooperative` adds
`ScheduleInv` (the coroutines on the stack run and are there once, a context in the
table is of a coroutine that waits, a crash leaves nobody in control): every action
enters a coroutine, leaves one or does neither, as `Cooperative` has it, also for a
script that closes descriptors under a waiting coroutine or shares them.

The second part of `ReactorProofs` is about every instance with `BrokenRules = {}`, a
script that keeps both rules. `NoLostWaiter`, `BatchStaysTrue`, `TimerOwned` and `ClosedIsCleared` are proved
together (`WakeupInv`), since each leans on the others: that only what epoll accepts is
waited on, so no closed number is (`WaitedPollable`), is what makes a reused number safe
for `sleep` and `Open`; that reports are distinct (`ReportedOnce`) is what keeps the rest
of a batch true when one entry is dispatched; that the coroutines on the stack run and
are there once (`StackRuns`) is what makes the one that begins a wait not already
waiting. The proof is by what a step does to one descriptor: nothing to a wait
(`WaitersKept`), a wait begins (`WaitersAdded`), a waiter is taken (`WaiterTaken`), while
every other descriptor is left alone or opened (`Grown`).

The third part proves the ledger of `Invocation`. `InvocationIsReactor` shows that its
specification implements `Reactor`'s, so that all of the above holds of the run's own
specification. `LedgerInv` counts contexts and argument arrays against the table: a
wait that begins adds one element to the set of descriptors waited on, an `aio_invoke`
takes one and keeps its context until it frees it (`WaitCounts`, `InvokeCounts`).
`EventReadBack` needs that `function_name`, which nothing clears, agrees with the type
of whatever waits there (`NameKept`), and that an event is freed only by a refused wait,
which the invocation under way is marked with (`ReadBackInv`).

`TimeoutProofs`, for any list of timeouts, every length of a second and any number of
coroutines. `WalksAreSafe`: by the same argument as `ScanLoop`, the recursive function
of `delete_node`'s walk meets the front and then nothing (`WalkValue`), so that
unlinking only ever takes the front; `event_loop`'s pass stands on the front too, and
the `next` it reads after `expire` is that of the front, NULL, if it is still there. For `Deadline` the invariant
`ClockInv` says that a timer's time is more than `n - 1` and at most `n` seconds after
the call (`TimerBounds`, from the division by a second), that a reported sleeper's timer
has expired, that time passes in `epoll_wait` only up to the next timer and the end of
the turn, and for timeouts (`TimeoutInv`): the turn of the loop began before the
timeout was due for anybody who waits, `last_time` is after the beginning of the wait
only by time spent computing, and after a firing everybody who waits began to wait
after it (`ReadInv`). `NumberInv` says that nobody reads a socket that is closed and that
a timer with its number belongs to a sleeper, so that a timeout wakes early no other
sleep than that one. From these `NeverWokenEarly`, `NeverAsleepTooLong`,
`TimeoutBoundsWait`.

`PreforkProofs`, for any number of processes, connections and turns, with forks before
or after the first `co::create` and after an `event_loop`. `RefusedOnlyIfShared` and `AcceptorRegistered` speak of one process, but
depend on what the others may do to its instance; the inductive invariant
(`InstanceInv` for every process) adds that an instance is used by the process that
made it, so that a new one is nobody's, that only instances that exist hold the
socket, and that an instance with one user holds it exactly while that user's
coroutine waits. A fork ends this for the parent's instance and for no other. On this
invariant `NeverUnwatched` is inductive for shared instances (`WatchStep`).

`VmStackProofs`, for a stack and frames of any sizes. The frames lie one above the other
and hold what was written (`Stacked`); the top is just above the last one or, in
`event_loop`, at the captured place. Of that place `VInv` says that every call that was
there at the first `co::create` and has not returned ends at least a frame of
`co::create` below it: `event_loop`'s frame, pushed on the last of them, fits in
between, and what is written from the captured top on touches none. From it
`StackNeverOverwritten`.

`CoPdoProofs`, for any number of connections, statements and coroutines. `PdoInv` gives
the counts exactly (`CountInv`): two references for a living statement that has an
object; for a PDO object two while its wrapper lives, one when the constructor threw,
and one for each living statement it prepared. That a living wrapper is one that a
variable or a suspended call refers to (`LifeInv`), and that a wrapper is in at most one
call (`CalledOnce`), turns the release of a reference into a step of these counts. From
it `ConnectionOpenWhileUsed` and `ConnectionClosedWithLast`.

`HashTableProofs`, for all keys, values and sizes of the table and of an unsigned int.
The loop of `hash_33` is a recursive function; that it has a value at every char, a
natural number, is shown at the least length at which it would fail (`HashIsNumber`), so
every key has an index of the table. `HashInv` says of the chains that an element is in
the chain of its key, once, and that a value is in the table once (`Sound`), and that
values in the table were put and are not freed (`Live`). `FreedOnce` alone is not
inductive: that a value put now was never freed needs that only values that were put
are. `RemovedSound` covers whatever `hash_table_rm` leaves of a chain, a part of it
without the key's element (`Without`), `PutSound` an element put in place of another or
at the end. `StoreImplemented` reads the store off the chains (`StoreIs`): a put changes
one key, a removal at most the keys of its chain (`LostNear`), and what is released is
what those keys owned (`OneReleased`, `AllReleased`).

Assumptions on constants: `NCidAssumption`, `CoroutineAssumption`, `ReactorAssumption`,
`LinkAssumption`, `DeadlineAssumption`, `PreforkAssumption`, `VmStackAssumption`,
`CoPdoAssumption`, `InvocationAssumption`, `HashTableAssumption` (sizes are positive, `NULL` is none of the values it stands beside), and
`NullAssumption`, `NullIsNoEvent`, `NullIsNoInvocation`, by which `NULL` is no record. TLC
evaluates them in the runs.

Only model-checked: the liveness properties (`ReportedIsResumed`, `ConnectionsServed`,
`ReportIsNoTrap`), which are out of the prover's reach.

## 6. Not modelled

* `c_convert_to_fd` of objects of classes other than the PDO ones, where the code
  returns an uninitialised number, and the callers that do not test what it or
  `timerfd_create` returned (`socket_accept`, `socket_close`, `socket_set_timeout`,
  `sleep`): the models give those calls a valid descriptor.
* Values passed by a resumption and exceptions: the Zend engine's business.
* PDO and mysqlnd themselves, lost and persistent connections. The reference that
  `aio_invoke` itself has to the result of a call until it releases it
  (`coroutine.c:57-59`), after the coroutine gave control back: `CoPdo` gives the object
  to the coroutine at once, which changes when the last reference goes at most to
  earlier, within the same `aio_invoke`.
* The time that transfers on blocking sockets take: `Deadline` counts as computing
  (`busy`) only what coroutines do.
* `epoll_ctl` refusals for want of memory in `Prefork`, where the coroutine would only
  call again (they are in `Reactor`).
* Several requests in one process, `event_loop` called inside a coroutine: no script
  of the repository does either.
* `initMutex` (not called), `php7_wrapper.h` (macros over two Zend versions),
  `php_pdo_mysql_int.h` (a copy of PHP's own declarations), class registration.

## 7. Plan

Done: all components that keep state are modelled, every invariant and every refinement
that the runs check is proved, and what is left to TLC is liveness. Left: nothing that
these tools could show of the state the code keeps; section 6 lists what stays out.
