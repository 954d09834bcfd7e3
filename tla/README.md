# A TLA+ verification of tigr

tigr is a dynamically typed language. Its implementation (Rust, `src/src/`)
compiles a program to bytecode and runs it in a virtual machine. This project
models four of its layers, each where the repository's tests reach least:

* **coroutines** (`go`): cooperative, scheduled by the `Vm` of one actor
  (`vm/scheduler.rs`, `vm/vm.rs`), in a program of their own or driven by an
  embedding host (`embed.rs`);
* **threads**: actors (`spawn`, `vm/task.rs`), channels (`vm/channel.rs`), the pool
  that carries out blocking calls (`vm/offload.rs`);
* **sockets**: the I/O reactor (`vm/reactor.rs`, `vm/socket.rs`);
* **the language**: parser, folder, compiler, bytecode machine, generators and
  collector (`vm/parser.rs`, `fold.rs`, `compiler.rs`, `vm.rs`, `gc.rs`), compared with
  a reference semantics.

## 1. The system: inventory

| component | source (`src/src/…`) | state | operations | status |
|---|---|---|---|---|
| coroutine scheduler | `vm/scheduler.rs` | run-queue; four parking collections (join, I/O, timer, deferred); next and current id | enqueue, park, wake, `cancel_unpark`, reset, idle and progress tests | `Scheduler`; not: collector roots |
| virtual machine, switching | `vm/vm.rs` | frames and stack of the running coroutine; the place in `drive` and `run_loop` | safepoint, `go`, `yield`, `join`, `wait`, blocking dispatch, `go_cancel`, return, raise and unwinding, `pick_next` | `GreenThreads`, `Session` |
| handles and deferreds | `vm/scheduler.rs`, `native_modules/deferred.rs` | result, `cancel_requested`; settlement | settle (by coroutine or host), join, cancel | `GreenThreads`, `Session` |
| channels and `select` | `vm/channel.rs` | queue under a mutex, two condition variables, atomic `closed`; process-wide parker with a count of selectors | send, recv, try_recv, close, select | `Channel` |
| offload pool, mailbox | `vm/offload.rs` | job queue, idle and total workers; mailbox of completions | submit, worker loop, post, drain, wait | `OffloadPool` |
| tasks and actors | `vm/task.rs` | outcome slot, taken once | spawn, complete, join, death by panic | `OffloadPool` |
| reactor and sockets | `vm/reactor.rs`, `socket.rs`, `native_modules/net.rs` | table of operations, registrations, read and write buffers, mode of the handle | submit, readiness, re-arm, cancel, close, timeout, inline calls | `Reactor`; not: TLS handshake, connect, name resolution |
| embedding session | `embed.rs`, `vm.rs` | main set aside, host clock, bindings | load, call, `drain_ready`, settle, reload | `Session`; not: carrying data over a reload |
| parser | `vm/parser.rs` | position, errors recorded | one function per form of the grammar, recovery | `Parser`; not: the lexer's characters |
| folder, compiler | `vm/fold.rs`, `compiler.rs` | functions, scopes, locals, upvalues, loops, tracked stack height | one function per form of the tree | `Folder`, `Compiler`; not: `spawn`, `go`, `select`, floats, big integers |
| bytecode machine | `vm/vm.rs`, `value.rs` | stack, frames, try handlers, cells, resume stack, module cache | one step per instruction | `Machine`, `Values`; not: natives, sets, bytes |
| generators | `vm/vm.rs`, `scheduler.rs` | saved frames and stack, status, resume stack | make, resume, yield, return, raise | `Machine` |
| collector | `vm/gc.rs` | marks, free places, threshold | mark, sweep | `Collector`; not: generations that wrap |
| REPL and runners | `repl.rs`, `vm/mod.rs` | bindings kept between lines | eval a line, run a program | `Machine` |
| local channels; transfer between heaps; native library; files and processes; CLI; v0.1 interpreter; language server; playground | see `PROJECT.json` | | | not modelled: sequential functions on data, plain I/O, or outside the program |

How they meet:

* A `Vm` calls its scheduler directly. There is no preemption: a coroutine gives up
  the thread only in the operations of the table. Other threads reach an actor only
  by posting into its mailbox (`CompletionMailbox::post`), which the actor drains at
  safepoints (`vm.rs:1175`) and where it sleeps when nothing is ready
  (`pump_io_completions`).
* A blocking operation runs inline if the scheduler is idle and is offloaded if any
  sibling exists (`dispatch_blocking`, `vm.rs:3423`): to the pool, or, if it is one on
  a socket, to the reactor. A channel's `recv` and a task's `join` are such
  operations, so the threads of `Channel` are actors and pool workers alike.
* Coroutines of an actor share its heap, handles and deferreds; actors share only
  channels, tasks and sockets.
* A host drives an actor from outside: it calls functions in a nested dispatch loop,
  and once per frame lets the coroutines run while main is set aside.

### What is hard in it, and what makes each part correct

* **Scheduler and switching.** A coroutine moves between six places (running, ready,
  four kinds of park), and cancellation can tear it from any of the four. Correct
  means: it is always in exactly one place and a finished one in none; nobody waits
  for what has already happened; what is delivered is what was awaited, though an
  abandoned call may still answer later; a cancellation raises exactly once and is
  never slept through; in a cooperative program everyone ready runs.
* **Session.** Drains set main aside while coroutines fail, finish and park; a reload
  discards coroutines and gives their ids out again. Correct means: the host always
  gets main back, and no coroutine or live handle is forgotten.
* **Channels.** Two condition variables signalled with `notify_one` after the mutex
  is dropped, a `closed` flag written outside the mutex, a lock shared by all
  selects. Correct means: close is final, no lost wake-up on any path, no lock cycle.
* **Pool and tasks.** A worker count read before woken workers have left their wait,
  a cap, a panicking job, a task joined by several threads. Correct means: each call is
  answered at most once and to the one who made it, and, unless lost to a panic, is
  answered in the end.
* **Reactor.** Oneshot interest, close against readiness in one batch, two calls on one
  socket, over-reads kept for the next reader, a mode flag stored apart from the mode.
  Correct means: no byte lost or repeated, no operation forgotten, nobody left
  waiting on a closed socket, and what is ready driven on. (That the reactor's thread
  never sleeps in a system call is what KNOWN_ISSUES.md #7 relies on; it is not so, see
  section 5.)
* **Language.** The compiler chooses the slots of locals by tracking the height of the
  stack; every jump, break, handler, match and generator must agree with it. Correct
  means: the machine computes what the program means; and, behind that, stack, handlers,
  cells, generator statuses and collected objects are what the code around the next
  instruction says.

`PROJECT.json` "hazards" lists each of these at its line with the property that
would notice it going wrong, or the reason none does.

## 2. The modules

```
Scheduler                  collections of one actor's scheduler, and its operations
  └─ GreenThreads          the actor: every operation of the Vm over them
       ├─ MCGreenThreads          instances for TLC
       ├─ GreenThreads_proofs     theorems about places: who is where
       │    └─ GreenOutcomes_proofs    theorems about deliveries and cancellation
       │         └─ GreenRefinement_proofs   that GreenThreads implements Awaiting
       │              └─ Session_proofs         theorems about Session (which it extends too)
       └─ Session                 the same actor under a host      (MCSession)
Awaiting                   what coroutines may rely on (abstract): GreenThreads implements
                           Awaiting!Spec, Session its HostedNext
Channel                    channels and select between threads     (MCChannel)
  └─ Channel_proofs               theorems
JobService                 what a blocking call promises (abstract)
  ├─ OffloadPool           implements JobService!Spec              (MCOffloadPool)
  │    └─ OffloadPool_proofs      theorems
  └─ Reactor               implements JobService!Safety            (MCReactor)
       └─ Reactor_proofs          theorems about the control
            └─ ReactorBytes_proofs     theorems about the data
Syntax                     syntax trees
  ├─ Parser                tokens to trees
  ├─ Grammar               how a tree is written (from docs/language)
  └─ Values                values and their operations
       ├─ Folder           constant folding
       │    └─ Compiler    trees to bytecode ──┐
       ├─ Collector        mark and sweep ─────┴─ Machine   the bytecode machine
       ├─ Reference        what a program means (abstract)
       └─ Programs         the programs checked
                           MCLanguage puts the last four and Parser together
```

### Scheduler and GreenThreads

`Scheduler` holds the five collections of `scheduler.rs` under their own names, the
id counters, and `parked_resume` (the outcome stored with a ready coroutine).
A coroutine *is* its id: frames, stack and upvalues do not matter to any property.
`GreenThreads` adds the actor's thread as a program counter over the dispatch loop:

| `pc` | code |
|---|---|
| `"poll"`, `"timers"` | the safepoint, `vm.rs:1175-1187`: drain the mailbox if anyone is parked on a call, then fire due timers |
| `"exec"` | the running coroutine executes one operation |
| `"raise"` | the loop returned an error, `catch_with_generators` looks for a handler |
| `"pick"` | the coroutine parked or ended: `pick_next`, `load_green` |
| `"ended"` | `drive` returned |

Every operation is one action, with its guards in the order of the code's early
returns: for a join, "already finished", "nothing could ever run" (`deadlock`), "a
request to cancel me is pending", then the park. `in_flight` is the error being
unwound or, at `"pick"`, what `drive` would return if nothing can be picked.
Programs are not fixed: at `"exec"` any operation may come next, on any handle in
existence, so a run covers every program within the bounds. `Caught` and
`FailGreen`/`FailMain` are the two outcomes of the handler search.
`site` records what the coroutine's suspended code waits for; it is implicit in
the program (where the frame stopped) and lets properties compare what is awaited
with what is delivered.

Workers (`Post`) and the clock (`Tick`) move at any time, so a completion can arrive
between the two halves of the safepoint, while picking, or after its coroutine was
cancelled.

What is abstracted:

* The parking collections are vectors edited with `swap_remove`; the order in which
  one call wakes several coroutines depends on earlier removals. They are sets, and
  a wake appends the freed coroutines in any order (`Orders`), which includes the
  code's.
* Time is a small natural. The `f64` edges of `wait` (infinite, NaN) are not there.
* Two outcomes of a kind are not told apart (`"done"`, `"settled"`, `"io"`): the
  kinds are distinct enough for delivery to the wrong place to show.
* `BlockingTimersOk` is the field of the same name: TRUE under `run`, FALSE under
  `run_closure` and in a session, where `wait` outside a drain is refused and no
  deferred join is called deadlocked because a host might settle it. The theorems hold
  for both; `HostYieldNeverEscapes` is about TRUE.
* `MaxStarted` bounds the coroutines and jobs started in all (`MayStart`), so that two of
  each kind can meet without all four at once. It is a bound, not a guard of the code.

### Awaiting

What a program relies on, with no word of how it is kept: no collections, no order of the
ready ones, no dispatch loop, no mailbox. A coroutine that waits, waits for one thing, and its
wait ends in one of three ways: the thing has happened, and all who wait for it are told how, in
one step; the time has come; or a request to cancel it takes it out, of which it then hears
exactly once. `GreenThreads` maps its state to this one where `Promise` is declared: the waits
are read off the four parking collections (`Waits`), who is `ready` off the queue, who runs and
what error unwinds it off `pc`; `parked_resume`, `cancel_requested`, `result`, `running_jobs`
and `mailbox` are `told`, `requested`, `ended`, `calls` and `answer`. The safepoint's halves,
looking for the next coroutine and sleeping on the mailbox are stutters. The last section of
`Awaiting` is a host: it may give main the thread, settle deferreds, let a frame begin and start
the program afresh, but only when nobody runs and main neither is ready nor waits.

### Session

`Session` extends `GreenThreads`. The host's calls are actions enabled at `pc = "host"`:
`CallIn` (a call, or a load), `BeginDrain`, `HostSettle`, `Reload`; between them, the
operations are those of `GreenThreads`. What differs is taken from the code of the
drain: only the host moves the clock, `pick_next` polls the mailbox once and hands back
instead of sleeping, main is `aside` and never picked. A call runs in a dispatch loop of
its own above main's persistent frame. The variables `installed` (the Vm's frames are
main's), `strayed` (main parked inside a call and has not come back) and `forsaken` (a
reload left a live handle without its coroutine) keep the consequences. The host does
not call on a session that is no longer whole; section 5 says how it gets there.

### OffloadPool, JobService, Reactor

A step is a critical section, a system call or the test of a flag. In `OffloadPool`,
idle workers are counted, busy ones told apart by their job; a job is a join of a child
actor's task, or a call that returns or panics. Wake-ups for no reason are bounded by
`MaxSpurious`.

`JobService` gives each call a status. `OffloadPool` maps its queue, workers, mailbox
and coroutines to that status, and implements it with liveness: a call that is not lost
to a panic is answered. A socket cannot promise that, so `Reactor` implements the safety
part only and has a liveness property of its own.

`Reactor` has one socket (TCP, TLS, listener or UDP) that two actors call on. Bytes
are numbered as the peer sends them: what the kernel has (`came`), what it has handed
out (`taken`), what the program received. A call's `phase` is where the thread that
carries it out stands; the calls of two actors, or one of an actor and one left in the
reactor, interleave between any two phases, as nothing in `dispatch_socket` keeps them apart:

| `phase` | code |
|---|---|
| `"handle"`, `"mode"`, `"switch"`, `"again"`, `"store"` | `start_op` asks the half for its handle; `set_nonblocking_mode`: test the flag, change the mode through each mutex, store the flag |
| `"check"` | `closed` is looked at |
| `"buffer"`, `"push"`, `"rest"` | the critical sections of `read_buf`: take what is there, append what was read, take what is left at the end |
| `"call"`, `"asleep"`, `"held"` | before a system call; in one that blocks, with the half's mutex; between two of an inline `write_all`, with the mutex |
| `"park"` | the reactor's op goes (back) to the poller |

A half has a mutex (`Half`, `Locked`); a TLS connection has one for both directions.
Locking, a call that returns at once and unlocking are one step. Whether a call that
would block sleeps depends on `nonblock`, the mode the description really is in, and not
on `flag`. `mixed` is a history variable: two threads have had reads of the socket under way
at once.

### The language modules

A tree is a record (`Syntax`). `Parser` is one operator per parse function, over tokens.
`Compiler` is one operator per compile function; an instruction keeps, besides its
operand, the stack height `h` the compiler believed in when it emitted it, which real
bytecode does not carry. `Machine` runs the code: one action per group of instructions,
a whole raise, with unwinding of frames and generators, in the step that raised; a
collection may happen at the safepoints where the code allows one. Slots are bytes
(`SlotRange`), integers lie in `MinInt..MaxInt` and overflow as the checked operations
of the code do.

`Reference` is the meaning of a tree, an evaluator with locations, outcomes and nothing
of slots, jumps or frames; `Grammar` is how a tree is written according to
`docs/language`. They are what the translation is compared with and so have no source
lines. Values are integers, strings as atoms, Booleans, null, arrays, objects, ranges,
functions and generators; floats are one opaque value per operation.

### Channel

One channel is a message count, the `closed` flag, the holder of the queue's mutex
and (as a ghost) `told`, whether some receive has reported it closed. A thread's
`pc` is where it stands in `send`, `recv`, `close`, `wake_selectors` or `select`; a
step is a critical section, or the part of one between two points where another
thread can interfere. `Condvar::wait` releases the mutex and sleeps in one step;
being woken means going back to take the mutex; `notify_one` picks any sleeper;
spurious wake-ups are allowed. Reading `closed` happens under the mutex, storing it
does not. `select` takes the parker's lock, tries every channel while holding it,
and sleeps on it.

Messages are counted and not told apart: the queue is only ever pushed at the back
and popped at the front under its mutex, so order is not at stake. Memory is
sequentially consistent in the model, which is stronger than the code: `closed` and
the count of selectors are accessed with acquire and release orderings. For `send` the
queue's mutex orders the push and the read of the count, so nothing is lost by this; for
`close`, which takes no mutex, the store of the flag and the load of the count may be
reordered, and that is outside the model (see the hazards). A select is over all channels, tried in any order. A sender held back by
`MaxLen` is an artefact of the bound and is not counted as stuck.

## 3. What the runs check

"States" are the distinct states TLC found.

| run | question | states |
|---|---|---|
| `green_safety` | all safety properties of an actor with main and two `go` coroutines, two blocking calls, one deferred, one clock tick | 336,718 |
| `green_liveness` | progress of a cooperative program whose calls return | 77,455 |
| `session` | a host that calls, loads, drains, settles and reloads: is main kept, is everyone accounted for | 966,427 |
| `channel_safety` | close, wake-ups and locks: two senders, two receivers, a selector and a closer over a bounded and an unbounded channel | 2,429,760 |
| `offload_pool` | growth, wake-ups, panics and a task joined twice; refinement of `JobService` | 119,046 |
| `reactor` | two calls on one socket of each kind against readiness, close, cancel and each other; refinement | 650,306 |
| `language` | some 1,170 programs and sessions, each parsed, folded, compiled and run | 110,091 |
| `session_calls`, `reactor_mode`, `channel_close`, `stale_try`, `or_pattern` | five statements of documentation or comments, each refuted (section 5) | |

Properties of an actor (`GreenThreads`):

* `OnePlace`: a live coroutine is in exactly one of six places, once; an ended one
  in none. No wake, cancel or switch loses or duplicates one.
* `NobodyStranded`: no one is parked on a finished coroutine, a settled deferred or
  a call whose answer is gone.
* `DeliversWhatIsAwaited`: what is queued for delivery is the recorded outcome of
  what that coroutine's code waits for, though an abandoned call may answer later; the
  placeholder of `cancel_unpark` is only ever there while the request stands.
* `NoCancelSleptThrough`, `CancelFiresOncePerRequest`: nobody is parked with a request
  pending, and each request is consumed by exactly one `cancelled`, raised in its
  addressee.
* `HostYieldNeverEscapes`: the deadlock guards taken before a park are strong enough
  that `drive` never returns the internal signal.
* `OutcomesAreWrittenOnce`: results and settlements are final.
* Liveness: `ReadyRuns`, `CancelTakesEffect`, and `WaitEnds` for both kinds of sleep.

* `ImplementsAwaiting`: all of the above seen from the program. It forbids what no state shows to be
  wrong: a wake too many, too early, with another's outcome, or of only some of those who wait;
  an answer dropped from the mailbox while somebody awaits it; a request that is forgotten rather
  than heard; a sleep begun for a time that has passed.

(`TypeOK` of `GreenThreads`, `Channel` and `OffloadPool` is a theorem and not repeated in their
runs.)

Of a session: `SessionSurvives` (the host always gets main back with its frames, unless
main itself parked in a call) and `EveryoneAccountedFor` (each live handle has its
coroutine in one place, across drains and reloads, and whoever is parked waits for
something that can still come), and `KeepsPromises`: every step of a session is one of
`Awaiting!HostedNext`, so that a wait ends only with what it is for whether the host settles the
deferred, a frame fires the timer or a drain looks into the mailbox, and after a reload, which
gives ids out again, nothing of the old program reaches the new one. `StrangerReturns` and
`StrangerFails` are the one exception: a coroutine that ends in the nested loop of a call in
which main has parked (section 5) ends unheard. How many frames it has there is not modelled, so
whether its return or its error stays below the call's depth is left open.

Of channels: `ClosedIsFinal`, `NoWakeUpIsLost`, `SelectorsAreNotForgotten`,
`SelectFindsTheEnd` (a select that reports all channels closed has looked at one after another,
and is right about all of them at once) and `CallsNeverDeadlock` (whoever is inside a call and awake,
some such thread finds the lock of its next step free). The wake-up properties are stated as a balance: while someone
sleeps, every buffered message (or free slot) is matched by a thread on its way to
notify or one already woken.

Of the pool: `SurplusHasAWorker` (queued jobs never wait behind running ones while the
pool may grow: the workers' share), `NobodySleepsThroughNews` (no joiner, and no actor on its
mailbox, sleeps while what it waits for is there; it says nothing of workers),
`OneJoinGetsTheOutcome`, and `ImplementsJobService`.

Of the reactor:

* `BytesHaveOneHolder`: over-reads, partial reads and two readers, in turns or at once,
  neither lose nor repeat a byte, nor give one to both. It says nothing of order, which two
  readers at once do not get (section 5).
* `OneReaderKeepsOrder`: until two threads read at once, everything stays in order.
* `NoOpIsForgotten`, `CloseLeavesNobodyWaiting`, `ImplementsJobService`: across close,
  readiness, cancellation, and either executor meeting the other.
* `ReadyOpsAdvance` (liveness): any op of the table, a write or a TLS op included, whose half is
  ready and whose next system call would not block, is driven on. Its antecedent
  `[]<>~ReactorStuck` excludes the behaviours where the reactor's thread, from some point on, is
  always asleep in a system call or behind a mutex: both can happen (section 5), and then no
  socket of the process advances.

Of the language: `ResultAgrees` (every line gives what `Reference` says, folding,
compiling and collecting included), `ReadAsWritten` (what `Grammar` writes, with the
fewest parentheses and in two styles, `Parser` reads back; one mistake or forgotten `;`
leaves the statements around it as they were), and the invariants that make it so:
`StackIsWhereTheCompilerSaysItIs`, `HandlersAreThoseAround`,
`SharedVariablesHaveOneCell`, `NoHandleIsStale`, `SessionKeepsItsBindings`,
`NothingStaysInProgress`.

### Bounds, and why they are enough

* `MaxGreen = 2`: with main, three coroutines: one that acts, one that is acted on, one
  that waits for either; cycles of joins need two, several joiners of one handle three.
* `MaxJobs = 2`: one job already completes before, during or after the park, the
  cancellation or the end of its coroutine; two are needed for an answer to reach the
  wrong call. `MaxStarted = 3` leaves out only runs with two `go` *and* two calls.
* `MaxTime = 1`, `Delays = {1}`: a timer is not due, then due, with everything else
  possible in between. Several coroutines can fall due together.
* `session`: the same, with one deferred that the host may settle in any frame. Frames and
  reloads are not bounded.
* `MaxLen = 2` for the unbounded channel and `Cap = 1` for the bounded one: a full
  channel, two buffered messages for two receivers, and two senders for one slot.
  `t1` both sends and receives, `t2` sends and closes.
* `offload_pool`: `Cap = 3` is the number of calls, so that growth happens at each
  submit; main joins its child twice and the child makes a call that may panic.
  Below the cap only: at the cap, jobs may wait behind joins, as the code accepts.
* `reactor`: two actors that make one call each, `MaxCame = 2` with one delimiter, send
  buffers of one. Five plans: `read_exact` of 2 beside `read_until`, with a timeout
  (over-reads, partial reads, two readers of one buffer); `read_all` beside a write of 1 (two halves,
  two mutexes, the end of the stream); over TLS a `read_chunk` beside a write of 2 (one mutex,
  records left over, a read that has to flush first); two accepts; two `recv_from`. With
  `TlsRoom = 1` and `MaxRoom = 1` a flush succeeds as a whole or not at all.
* `language`: `MaxInt = 7` puts overflow next to every constant; `MaxDepth = 5` and
  `MinThreshold = 8` make stack overflow and collections happen in small programs. The
  generated programs put each of 15 effects (break with a value, raise, yield, closure
  capture …) in each of 24 contexts that hold values on the stack, in each of three
  loops; the written ones cover what a context cannot hold.
* No symmetry is used: ids are numbers whose order the code uses.

Every property has a mutant in `PROJECT.json`: a plausible bug put into one
definition (wake one joiner of several, put the height after a branch back wrongly,
re-arm only idle handles, …) under which TLC refutes the property in the same
configuration. The mutated forms are the operators commented `Wrong:`.

### Fairness

* `ThreadFairness`: the actor's thread runs whenever the code lets it (weak fairness
  of the safepoint, of unwinding and of picking) and the clock advances. Strong fairness
  of `GiveUp(c)` says the program is *cooperative*: a coroutine that holds the thread
  gives it up eventually. The code cannot enforce that (there is no preemption), so
  the liveness properties are about such programs.
* `IoFairness`, kept apart, says every offloaded call returns. That is about the outside
  world, and `WaitEnds` needs it: under `CooperativeSpec`, without it, a `wait` can be
  held up for ever (section 5).
* `Channel`: each thread inside a call that can go on does (the operating system's
  scheduler). Strong fairness of `SelectTry` says that a mutex taken again and
  again by others is eventually obtained.
* `OffloadPool`: weak fairness of `Progress`, the steps of workers and actors that are not
  spurious, and of the calls that return by themselves.
* `Reactor`: weak fairness of the reactor's own loop, and of nothing else: an actor's thread
  may stay in the middle of an inline call for ever, a notification or a close may never be
  finished, a timeout may never come, the peer may be silent.

Deadlock is checked in every run: an ended actor, a finished program and a broken session
stutter explicitly.

## 4. What is proved

Eight modules, about 13,350 obligations, all checked by TLAPS. Each theorem is about
**every** value of the constants that satisfies the assumptions below; the runs of
section 3 check most of the same properties on instances (not those defined in the proof modules,
nor the type invariants of the actor, the channels and the pool).

| module (obligations) | theorem | statement |
|---|---|---|
| `GreenThreads_proofs` (1,905) | `TypeCorrect` | `Spec => []TypeOK` |
| | `OnePlaceAlways` | `Spec => []OnePlace` |
| | `NobodyStrandedAlways` | `Spec => []NobodyStranded` |
| | `NoCancelSleptThroughAlways` | `Spec => []NoCancelSleptThrough` |
| | `OutcomesAreFinal` | `Spec => OutcomesAreWrittenOnce` |
| | `NobodyIsOvertakenEver` | `Spec => NobodyIsOvertaken` (defined there) |
| `GreenOutcomes_proofs` (1,635) | `DeliversWhatIsAwaitedAlways` | `Spec => []DeliversWhatIsAwaited` |
| | `CancelFiresOncePerRequestAlways` | `Spec => CancelFiresOncePerRequest` |
| | `HostYieldNeverEscapesAlways` | `BlockingTimersOk` implies `Spec => []HostYieldNeverEscapes` |
| `GreenRefinement_proofs` (1,062) | `AwaitingIsImplemented` | `Spec => ImplementsAwaiting` (refinement) |
| `Session_proofs` (1,654) | `SessionTypeCorrect` | `SessionSpec => []SessionTypeOK` |
| | `SessionSurvivesAlways` | `SessionSpec => []SessionSurvives` |
| | `EveryoneAccountedForAlways` | `SessionSpec => []EveryoneAccountedFor` |
| | `KeepsPromisesAlways` | `SessionSpec => KeepsPromises` (refinement) |
| | `NobodyIsOvertakenInFramesEver` | `SessionSpec => NobodyIsOvertakenInFrames` (defined there) |
| `Channel_proofs` (1,167) | `TypeCorrect` | `Spec => []TypeOK` |
| | `ClosedIsFinalAlways` | `Spec => []ClosedIsFinal` |
| | `NoWakeUpIsLostAlways` | `Spec => []NoWakeUpIsLost` |
| | `SelectorsAreNotForgottenAlways` | `Spec => []SelectorsAreNotForgotten` |
| | `SelectFindsTheEndAlways` | `Spec => []SelectFindsTheEnd` |
| | `WithinCapacityAlways` | `Spec => []WithinCapacity` (defined there) |
| | `LocksAreOrderedAlways` | `Spec => []LocksAreOrdered` (defined there) |
| | `CallsNeverDeadlockAlways` | `Spec => []CallsNeverDeadlock` |
| `OffloadPool_proofs` (1,578) | `TypeCorrect` | `Spec => []TypeOK` |
| | `SurplusHasAWorkerAlways` | `Spec => []SurplusHasAWorker` |
| | `NobodySleepsThroughNewsAlways` | `Spec => []NobodySleepsThroughNews` |
| | `OneJoinGetsTheOutcomeAlways` | `Spec => []OneJoinGetsTheOutcome` |
| | `SafetyOfJobService` | `Spec => Service!Safety` (refinement) |
| `Reactor_proofs` (2,214) | `TypeCorrect` | `Spec => []TypeOK` |
| | `NoOpIsForgottenAlways` | `Spec => []NoOpIsForgotten` |
| | `CloseLeavesNobodyWaitingAlways` | `Spec => []CloseLeavesNobodyWaiting` |
| | `SafetyOfJobService` | `Spec => ImplementsJobService` (refinement) |
| `ReactorBytes_proofs` (2,134) | `BytesHaveOneHolderAlways` | `Spec => []BytesHaveOneHolder` |
| | `OneReaderKeepsOrderAlways` | `Spec => []OneReaderKeepsOrder` |

### Assumptions

* `BoundsAssumption`, `StartedAssumption`, `DelaysAssumption`: the bounds of the actor are
  naturals, delays too, and `BlockingTimersOk` is a Boolean. `HostAssumption`: it is FALSE in a
  session (`run_closure` never sets it).
* `ChannelAssumption`: there is a channel, capacities are positive (`native_modules/channel.rs:67`), and
  threads are finitely many. The set of channels may be infinite.
* `PoolAssumption`: actors and calls are finitely many, a join's target is a child, `Cap` is
  positive.
* `ReactorAssumption`: calls are finitely many and the plans are well-formed: a call suits the
  kind of its socket (`Suits`; any other touches nothing and fails, with `WrongKind`, and is left
  out), an exact read asks for a natural number of bytes.
* One theorem has a hypothesis of its own: `HostYieldNeverEscapes` is about a standalone
  program (under a host the signal is meant to come out). The run `green_safety` is an instance.

### The actor

`OnePlace` is not inductive: it says nothing that would stop `go` from handing out an id
some stale result belongs to, or `FailGreen` from recording "no error" and so leaving a
dead coroutine alive. The inductive invariant is

    PlaceInv == /\ TypeOK
                /\ Unborn          \* ids not yet given out have no result
                /\ RaiseHasError   \* whoever unwinds has an error in flight
                /\ pc # "ended" => Placed
    Placed   == Unique /\ Apart /\ Accounted

* `Unique`: no collection holds a coroutine twice.
* `Apart`: the places are disjoint.
* `Accounted`: a coroutine is live exactly if it is in some place.

Most operations do one of four things to the places: append one coroutine to the queue,
remove the head, move the running one into a park, or move a set from a park to the
queue. The lemmas `AppendMoves`, `TailMoves`, `ParkMoves` and `WakeMoves` say once what
that does to the sets involved, `WakeJoinersMoves` … `CancelUnparkMoves` connect the
scheduler's operations to them, and `ParkPlaced`, `FinishPlaced`, `WakePlaced` carry
`Placed` over. `PlacedStep` then has one step per action. All of them are stated for
`PlacedBut(A)`, where the coroutines of `A` are live outside the scheduler, so that
`Session_proofs` can use them while main is set aside; `Placed` is the case `A = {}`.

`NobodyStranded` splits into three independent parts, each inductive with `TypeOK`
(`JoinsLive`, `JoinsOpen`, `CallsReturn`). The last holds because a completion leaves the
mailbox only together with its waiter. `NoCancelSleptThrough` needs `PlaceInv` as well:
`cancel_unpark` stops at the first collection that holds the coroutine, which is
enough only because no coroutine is in two. Outcomes are final since only
the running, hence live, coroutine gets a result (`PlaceInv` again) and `settle_deferred`
looks first.

`NobodyIsOvertaken` is the safety half of `ReadyRuns`, of which `Awaiting` says nothing: a ready
coroutine leaves the run-queue only to run, once nobody is ahead of it, and nobody gets ahead of
it. Every step appends to the queue or takes its head (`QueueSteps`). In a session the same holds
from one reload to the next (`NobodyIsOvertakenInFrames`). TLC checked both on the instances of
`green_safety` and `session`; they are in no run.

What is delivered (`GreenOutcomes_proofs`) needs more than where everyone is:

* `OutcomeInv`: which outcomes can be where. Neither the null of a plain wake nor an internal
  signal is ever recorded as a result, a settlement or a completion.
* `SiteInv`: an entry of a parking collection waits for what the coroutine's code waits for;
  who has the thread waits for nothing, and ids not given out are blank.
* `JobInv`: a job's id is used once, so the late answer of an abandoned call finds no waiter
  rather than another call's waiter. This is what `DeliversWhatIsAwaited` would break on.
* `HostInv`: a park leaves `pick_next` somebody to find. It holds only with `BlockingTimersOk`.

`AwaitingIsImplemented` (`GreenRefinement_proofs`) takes each action to the move of `Awaiting` it
makes. The invariant it needs, `ViewInv`, is small next to what the above establishes (`ActorView`
derives it): nobody is in a collection twice or in two of them (`Unique`, `Apart`), so a wake takes out of
`Waits` exactly the entries it puts into the queue; `OutcomeInv`, so a delivered null or
`cancelled` is told from a recorded outcome; the one who runs has not ended; and a call's id is
not given out again while its answer may come (`CallsKnown`). The lemmas `DueBy`, `ReturnIsSeen`
and `StartIsSeen` say what the mapping makes of the scheduler's operations, and are stated so that
`Session_proofs` can use them.

### The session

`SessionInv` joins these to the host's side. `TypesInv` and `CallInv` say who has main at each
point (a call until main parks in it, the drain while it is aside); `Sound => PlacedBut(Kept)`
puts everyone in one place in all states the host can go on from, `Kept` being main while the
host or a drain keeps it; `Unborn`, `OutcomeInv` and the three parts of `NobodyStranded` are
taken over; and no reload is ever one that forsakes a live handle. `Sound` is needed because
the states after a call in which main parked (section 5) are not placed, and the theorems
must say exactly which states those are. Each action of the actor is carried over by the
lemmas of `GreenThreads_proofs`; the host's six steps, and those the drain changes, have
proofs of their own. For `KeepsPromises`, `JobsKnown` is added: ids of calls, unlike those of
coroutines, survive a reload, so a late answer finds nobody. The host's own steps are `Enter`,
`HostSettle`, `Frame` and `Restart`, which `Awaiting` allows to a host only while main is with it:
that is `Kept`. TLC checked `SessionInv` on all states of the `session` run first.

### Channels

The base is `LocksInv`: a mutex is held by exactly the thread at a label of its critical
section. What a thread saw under the mutex therefore still holds when it goes to sleep
(`WaitInv`, `FinalInv`, and `ScanInv` for the channels a select has tried under the parker's
lock). `MessageInv` and `SlotInv` are the balances: while a receiver sleeps, the threads about
to notify or already woken are at least as many as the messages; both say for *each* channel
how a push, a pop, a notification and a spurious wake-up move the two sides, which takes
counting sets of threads (`Cardinality`, by the theorems of `FiniteSetTheorems`). `ParkInv`
is the protocol of the parker: a message pushed while a select scans is seen, or its sender's
read of the selector count (`CountInv`) comes after the select raised it.

`SeenInv` says that what a select remembers having seen closed and drained is still so (`told` is
final by `FinalInv`), whence `SelectFindsTheEnd`. `CapacityInv`, that a sender about to push has
room, makes `WithinCapacity` inductive: several senders may be woken for one slot, and each looks
again under the mutex.

`LocksAreOrdered` says that a thread that waits for a lock waits for one inside a call and awake,
which waits at most for one that waits for nobody; `CallsNeverDeadlock` follows. It is stated with
`CanGo`, which says which lock a thread's next step takes, in place of `ENABLED Step(t)`. That the
two agree for a thread inside a call has been checked with TLC.

### Pool, tasks, reactor

`OffloadPool`'s `IInv` says where a job may be given what its coroutine, its owner and the task
it joins are doing (`QueueInv`, `InlineInv`, `AnswerInv`, `TaskInv`, `MailInv`, `JoinedInv`) and
counts workers (`IdleInv`, `SpareInv`). `SpareInv` is the invariant behind `SurplusHasAWorker`:
`idle` may be stale, as woken workers are still counted, but never by more than the queue can
bear below the cap.

`Reactor`'s `IInv`: the reactor drives one call at a time (`CursorInv`), the channel holds the
queued calls once (`QueueInv`), registrations and arms belong to calls of the table (`TableInv`),
how far a call is agrees with what its coroutine does (`FateInv`), a socket's close is followed
by a `Cancel` still in the channel as long as anything of it is in the table (`CloseInv`), and
whoever fills the channel still owes a notification (`NewsInv`). `PlaceInv` and `SizeInv` say
which reads get to the phases `"push"` and `"rest"`, and that an exact read never has too much.
Nothing in it says that the two executors keep out of each other's way.

Both refinements of `JobService` have the form of section 3's properties: `Init` implies the service's `Init`
under the mapping, and every step is a move of `JobService` or a stutter; `IInv` is what
rules out a second answer, or one to a coroutine that has stopped waiting.

`BytesHaveOneHolder` rests on `Split`: the bytes handed over are divided between the buffer and
the calls, each byte in one place. Every critical section, system call and push keeps that by
itself, so it holds for any number of threads in any interleaving. `WholeInv` (a delimited read
or an item has nothing until it is complete, but for what `read_until` is about to push),
`RestInv` and `ResultInv` (what a successful call returns) complete it.

Order is another matter. `OneReaderKeepsOrder` needs, as long as `mixed` is false: `MixInv`, a read on
an actor's thread has no other beside it, and the reactor's thread drives one op at a time;
`AheadInv`, what is buffered came after all that the calls have, and what is about to be pushed
after the buffer; `FoundInv`, what a read found in the buffer before its system call is still
what is there after it; and `FrameInv`, a frame has no delimiter but its last byte.

Writing the proofs changed the models in four places. `CloseLeavesNobodyWaiting` asked
that the channel be empty; `NewsInv` shows that this follows, so the property no longer
asks. `Reactor`'s type invariant now says which calls suit which socket. `CallsNeverDeadlock` no longer
uses `ENABLED`. The assumptions on
constants that the proofs use (`Chans # {}`, finite sets, well-formed plans) are stated in the
modules.

### Only model-checked

* Liveness under fairness: `ReadyRuns`, `CancelTakesEffect`, `WaitEnds`, the liveness part of
  `OffloadPool!ImplementsJobService`, `ReadyOpsAdvance`. The prover has no rule for it here.
* All properties of the language modules. They compare recursive definitions over trees
  (parser, compiler, reference), and what a recursive definition computes for every
  tree needs induction over data; every one of those modules reaches a `RECURSIVE` operator.

## 5. Where code and documentation disagree

Each of the first five is a run whose single property states what the text says and
which TLC refutes.

* **A host's call in which main parks breaks the session** (`session_calls`,
  `vm.rs:2952`). A `join` or `yield` inside `Session::call` moves main's frames to the
  scheduler and loads a coroutine into the nested loop. With nobody to load the call
  returns `HostYield` and the Vm has no frames; if the coroutine returns there, the loop
  goes on without a frame and panics (`vm.rs:1196`). `embed.rs:391` says the persistent
  frame is left intact and a later call still works.
* **The reactor can sleep in a system call** (`reactor_mode`, `vm.rs:3481`). KNOWN_ISSUES.md #7
  calls the test and store of the nonblocking flag "safe today only because the `is_idle()` dispatch
  invariant keeps the inline executor and the reactor from touching one socket at the same
  time". `dispatch_socket` asks only whether the *calling* actor is idle or in a generator body; a
  second actor that shares the socket, a generator body, or an op whose coroutine was cancelled
  puts both on it. In the trace an inline call tests the flag, the reactor makes the handle
  non-blocking, the inline call sets it to blocking again and the reactor, which has seen the flag it
  wants, sleeps in its system call: no socket of the process advances until that one does.
* **`close` can miss a receiver or sender** (`channel_close`, `channel.rs:114`): flag and
  notification happen without the mutex, so both can fall between a receiver's check
  and its sleep.
* **`break` and `continue` out of a `try` leave its handler** (`stale_try`,
  `compiler.rs:2260`): a later raise in that function goes to a catch the program has left.
* **An or-pattern inside a pattern shifts the stack** (`or_pattern`, `compiler.rs:1901`): a failed
  alternative leaves its Bool, and names bound afterwards read other slots.

Seen while reading, without a run:

* A coroutine can end the actor (`vm.rs:697`, `1479`): the last one that can run ends it with its
  own error or its own value while main is parked in a join. `scheduler.rs:37`: only main's
  return finishes the actor; `docs/stdlib/builtins.md:236`: an uncaught `cancelled` never ends it.
  (`GreenThreads` has these steps: `ReturnGreen` and `FailGreen`.)
* Two actors that read one stream at once get its bytes out of order: no lock is held between
  `read(2)` and `extend_from_slice`, nor between the look into the buffer and the system call
  (`socket.rs:444`, `496`, `511`). A thread that has found the buffer empty can read a later byte
  before an earlier one is pushed, and then take that from the buffer. `Rising(got[j])`
  without `~mixed` is refuted by TLC.
* The reactor's thread also waits for a mutex that an inline reader keeps while it sleeps in
  `read(2)` (`start_op` asks the half for its raw handle, `set_nonblocking_mode` locks both); a TLS
  connection has one for both directions, so its writers wait for its readers.
* A TLS read in the table is registered for both directions, so a writable socket without
  anything to read makes the poller report it again and again. A surplus that another thread puts
  into `read_buf` wakes no read in the table, which waits for the next byte from the peer.
* `pick_next` sleeps on the mailbox as long as any coroutine is parked on a call and looks
  at timers only when none is (`vm.rs:3521`): a `wait(0.1)` beside a read that never
  returns never ends, against `docs/stdlib/builtins.md:217`. (`WaitEnds` fails under
  `CooperativeSpec`.)
* `Net.set_timeout` does not bind reads and writes that the reactor carries out
  (`docs/stdlib/net.md:398`); inline, a timeout surfaces as `WouldBlock`.
* `select` with an `else` arm raises when all channels are closed (`channel.rs:196`,
  `docs/language/concurrency.md:56`).
* A `return` at the top of a REPL line pops the REPL's frame, and the next line panics
  (`vm.rs:1104`). A `yield` with nobody else ready does not consult a pending
  self-cancel (`vm.rs:2735`). `drain_ready` promises the first uncaught coroutine error but
  has one only if nobody else was ready (`vm.rs:3659`). A lone coroutine's blocking
  call in a drain runs inline, on the host's thread (`vm.rs:3612` says never). A job that
  panics posts no completion (`offload.rs:299`).
* Compiler: a declaration inside a default parameter is not hoisted (`compiler.rs:2485`); slots wrap
  above 256 (`compiler.rs:668`); a hoisted declaration hides an outer variable, as null,
  from the start of its block. Machine: a `gen fn` used as an iterator's `next` runs as
  a plain function; spreading a native iterator does not advance the instruction pointer
  (`vm.rs:2218`); a generator that yields a closure over its own local leaves an open cell
  whose stack is looked up where it is not (`vm.rs:3785`); a range that ends at the largest
  integer wraps (`value.rs:273`). Parser: errors inside an interpolation are dropped when the
  sub-parser recovered (`parser.rs:1455`); `parallel` calls whatever `join` is in scope
  (`parser.rs:914`); a condition that starts with `[` may be taken for `[]` (`parser.rs:1428`).

The programs of `Programs` stay clear of these; `Shapes` holds the two that are runs. So
`SessionKeepsItsBindings` is about lines without a top-level `return`, and `RunFailed` leaves out
what `start_repl` rebuilds when a coroutine died in a line, as `Machine` has none.

## 6. Not modelled, and why

* Weak memory: `closed` and the selector count of `channel.rs` are acquire/release.
* An iterator's `next` and a generator body in which a coroutine parks: `Machine` has no
  coroutines of the scheduler, `GreenThreads` no frames.
* `spawn`, `go`, `select` and channels as *expressions* are parsed, not compiled; their
  run-time behaviour is in the concurrency modules.
* Floats, big integers, bytes, sets, maps and the native library: functions on data.
* Name resolution, connecting, the TLS handshake, files and processes: plain I/O.
* Slot generations of the arenas (KNOWN_ISSUES.md #1) and a 256-local program: beyond the
  instances TLC can hold.
* Everything the table of section 1 marks "not modelled".

## 7. Plan

Done: `Scheduler`, `GreenThreads` and its proofs, `Channel`, `OffloadPool` and `Reactor`
over `JobService`, the language modules, `Session`, `Awaiting`.

Proved since: every safety property of `GreenThreads`, `Session`, `Channel`, `OffloadPool` and
`Reactor` that a run checks, both refinements of `JobService!Safety`, and that the actor and the
session keep the promises of `Awaiting`.

Next, in this order:

1. One more theorem module is worth having for a part of the language that does not need
   recursion: the collector's mark and sweep as a state machine over a graph of objects, or
   the stack discipline of `Machine` at a single instruction. Both need the module first to be
   freed of the `RECURSIVE` operators of `Values`.
2. For channels: a message accepted is received at most once and in order needs a
   queue of messages in place of a count.

The language modules otherwise stay with TLC.

## 8. Running it

    tlc -workers 2 -config GreenSafety.cfg MCGreenThreads
    tlc -workers 2 -config Language.cfg MCLanguage
    tlapm GreenThreads_proofs.tla
    tlapm GreenRefinement_proofs.tla
    tlapm Session_proofs.tla

A proof module is checked by itself: what it extends is taken as proved there.

`PROJECT.json` lists every run, the mutants, the theorems, and for each definition the
source lines it was translated from.
