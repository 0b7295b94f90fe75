# A verification project for ihft

ihft is a C++20 library for low-latency programs: lock-free channels that
broadcast events from one writer to its readers, allocators that feed them, a
logger built on both, and an engine that runs tasks on pinned threads. The
TLA+ modules here model its concurrent core, TLC checks them on small
instances, and TLAPS proves the most important results for every instance.

## 1. The system

| Component | State | Operations | Hard because |
|---|---|---|---|
| `channel`, one-to-one queues | per bucket one atomic sequence number and raw storage; a counter and a bucket index per side | `try_write`, `try_read`, guard, drop of a handle | two threads share only the buckets; unsigned counters wrap; guards close in any order |
| `channel`, one-to-each queues | per bucket a sequence number *and* an atomic counter of readers left | the same, for any number of readers, and `create_reader` | stale sequence numbers stay in the buckets; the last guard of several destroys |
| ring buffer factory | the shared buffer, the content allocator in its deleter | make, destruction by the last owner | whichever thread is last frees everything |
| `stream_fixed_pool_allocator`, `box` | an index into a ring of slabs; a pointer that destroys | `active_slab`, `seek_to_next_slab`, `allocate`, destruction | the pool is never told what is free again |
| logger client, log macro | a queue, its pool, the flag `m_synch` | log statement, `try_log_event`, `set_mode` | construction, a full queue, nested statements, a mode that changes underneath |
| logger adapter | consumers, cursor, listener, mode, one shared stream, a mutex | registration, `dispatch`, `change_mode`, `replace_listener` | the mutex is opened in the middle of `dispatch` |
| engine, `engine_main` | logical cpus, registered tasks, the stop flag, threads with their affinity | checks, configuration, registration, create, run, join, signal | many ways to fail, each half-way; start-up and shut-down order; a signal at any time |
| measuring programs | arguments, a barrier, counters per thread and in total | `test_main`, the two loops, a controller | spinning threads that count events; objects counted where they are destroyed |
| log event and its extra data | the event's fixed storage, a cursor | pack, print, clean | arguments are packed in the compiler's order, texts behind the tuple, as room allows |
| arena | a cursor | `allocate`, `reset`, `used` | the cursor is aligned before the room is checked |
| cpu lists | a bitset per kernel parameter, a vector | `process_cpu_list`, `cmdline` | numbers, ranges and what is neither; limits of `unsigned` and of the bitset |
| ping-pong, sysjitter | two channels; a counter threads spin on | two threads that wait for each other; a thread per core | everybody waits for everybody |

The writer of a channel constructs an event in a bucket and publishes its
number; readers poll for the number they wait for. A logger client owns a
one-to-one queue of boxes whose events lie in a pool; `dispatch` reads all those
queues in turn. The engine starts one thread per task, one of which dispatches.
What makes each part correct is stated by the properties of section 3;
`PROJECT.json` lists the places where things could go wrong as hazards, with the
properties that would notice.

## 2. The modules

**`Channel`** is the abstract specification: a bounded broadcast FIFO in which
the n-th event is the number n. A write needs the event `Cap` positions back to
be released by all; a reader takes events in order, looks at those it holds, and
releases them in any order. It says nothing of buckets, numbers or counters.

**`One2OneQueue`** is `one2one_seqnum_stream_queue_impl.h`, its bucket, and the pod and
object readers. Each access to a bucket's atomic or storage is an action:
`TryWriteStart` (the acquire load), `Construct`, `Publish` (the release store),
`TryReadHit`, `CopyEvent` or `GetEvent`, `DestroyEvent`, `ReleaseBucket`. What a
thread does to its own counters moves with the shared access next to it, which no
other thread can tell apart. All orderings in this queue are acquire/release on
the bucket's number, so sequentially consistent interleaving loses nothing.
`CntMod` and `SeqMod` are the counter's width and the masked number's;
arithmetic wraps exactly as the unsigned types do.

**`One2EachQueue`** is the same for `one2each_*`: the writer stamps a counter, then
publishes; every guard counts down; the last one destroys and stores the empty
mark. It interleaves whole steps.

**`One2EachMemory`** extends it with the memory orders the source gives each access. For every
thread it keeps the uses of each bucket's storage that happen before the thread's
next step, and the same for what a release left with `m_seqn` and `m_counter`. An acquire
load that hits takes that knowledge over, a relaxed store leaves none, and a
read-modify-write continues the release sequence it found. A use whose thread
does not know of a conflicting earlier use is a race (`NoDataRace`). Three simplifications,
none of which hides a race: a load that misses takes nothing over; loads see the
last store, because an older sequence number is another miss and an older counter is not yet
zero; dropping a handle is ordered by the `shared_ptr`'s count. Guards stay on their
reader's thread. For the pod queue the order is complete: readers count down with
release, the writer loads with acquire. For the object queue it is not (see the findings), so
what the other runs say of it holds for machines that do not reorder those accesses.

**`EventPool`** extends `Channel` with the allocator, the box and the writer's
thread, and so composes them with *any* channel that implements `Channel`. One
variable says which client runs: the logger (`active_slab`, `construct_at`,
`try_log_event`, the pool moves on only after success, a refused event is
destroyed by its temporary box) or the measuring programs (`allocate` moves on at
once, the same box is offered until it is taken). The readers' `LookInBox` shows
what lies in the slab, so that implementing `Channel` is a statement about the
objects and not only about pointers.

**`NestedLogging`** adds to `EventPool` a log statement whose argument logs.

**`MeasureProgram`** puts `EventPool` into a program: `test_main` of `channel/measure/main.h`
with the controller `perf_allocated_test`. `CheckArguments` covers help and the list of cpus,
`Spawn` starts the readers and then the writer, `ReaderReady` and `WriterReady` are the
barrier, `TryRead`, `CheckData`, `ReleaseData` one turn of a reader's loop, `Allocate`, `CreateData`,
`TryWrite` one of the writer's; constructions and destructions are counted per thread
(`g_local`) and added up at its end, `EndThread` drops its handle, `Join` is main's. `to2pow` is
the channel's rounding, and the assumption `SizeAssumption` ties the instance's capacity to it.
While the pool's client is the logger, `LoggerStep` does what `EventPool` alone would;
`MeasureSpec` is a process in which only a measuring program runs.

**`PingPong`** is `channel/example/ping_pong.cpp`: two instances of `One2OneQueue`, each with
all its steps, and the two threads that go round between them. A thread compares the answer
with the number it sent and aborts when they differ. Its queues are pod queues (`PodAssumption`).

**`Arena`** is `arena_allocator.h`, with the 64 bits of sizes and addresses as `SizeMod`: the
product `n * sizeof(T)` wraps, and so does the end of the block (which C++ leaves undefined; the
model takes the sum the build computes). **`LogEvent`** is `logger_event.h` with
`logger_contract.h` and `logger_extra_data.h` (a byte of the buffer names the argument that
wrote it, so that two copies in one place show; printing goes argument by argument, each after
the piece of the pattern up to the next placeholder); **`CpuLists`** is `process_cpu_list.cpp` and
`cmdline.cpp`, section by section and cpu by cpu; **`SysJitter`** is
`platform/example/sysjitter.cpp`: a thread per core, the count all spin on, and the report.

**`SmallParts`** checks these five side by side: a behaviour is one of a single part.
What there is to read (`Texts`) it gives to `CpuLists`: `CpuTexts`, the arguments of a
measuring program (`Argument`) and pairs of words of a command line (`Parameter`).

**`LoggerAdapter`** is `logger_adapter.cpp`: registration, `change_mode` flag by flag,
`replace_listener`, and `dispatch` cut at every lock, unlock and access to shared
state: `Lock`, `ScanEmpty`/`ScanFound`/`ScanDone` under the mutex, `Notify` and
`Release` without it, `Relock`. Queues are abstract (one reader, a set of open
guards); `QueuesAreChannels` says that what several dispatchers do to one of them is
still what `Channel`, and so `One2OneQueue`, allows its one reader. A text is the event it was formatted from.

**`Engine`** is `engine_main.cpp` from its first check to its return, with `engine.cpp`,
`cpus_config.h`, `task_storage.h` and `logical_cpu.h`. `pc` is the main thread's place: `CheckSystem`,
`ParseConfig` (narrowing to `unsigned`, then the checks), `SetupSignals`, `BindMain`, `AddTask` and
`RegisterDone` (the application's callback, and `logical_cpu` going out of scope), `CheckUntil`,
`ReplaceTask`, `CreateEngine`, `Spawn` (one turn of the constructor's loop), `ChangeMode`, `Join`.
Each returns early wherever the code does. A thread binds itself or quits, and then
alternates between the stop flag and its task; an application's task logs or returns,
with either result; the logger's dispatches. `Signal` may come at any time once the
handler is set. The logger is a count of events per queue; a dispatch is one step,
since `LoggerAdapter` has its details. The system's refusal to *reset* an affinity is left out.

**`MCLogger`** is `LoggerAdapter` with the bound on its events, one for each regime.

**`ModArithmetic`** holds lemmas about remainders; **`ChannelProofs`, `One2OneProofs`,
`One2EachProofs`, `EventPoolProofs`** (with the measuring program), **`LoggerAdapterProofs`,
`EngineProofs`, `PartsProofs`** (what `SmallParts` puts side by side) hold the theorems of section 4.

## 3. What the runs check

| Run | Instance | Shows |
|---|---|---|
| `one2one_object` | capacity 4, 4-bit counter, 20 events | guards in any order, handles dropped at any time: `GuardSeesItsEvent`, `MarkIsExact` (no double destruction, no overwriting), `FullIffUnreleased`, `NothingLeaks`, implements `Channel`, `FullIsTemporary` |
| `one2each_object` | 2 readers, 2 guards each, capacity 2, 3-bit counter, 9 events | the last guard and only it destroys (`DestroyedOnce`); `FullIffUnreleased`; implements `Channel`, so each guard keeps its event; `FullIsTemporary` |
| `one2each_pod` | 3 readers, capacity 2, 3-bit counter, 9 events, memory orders | no two uses of a bucket race (`NoDataRace`); stale numbers never deliver an event twice or skip one (`EmptyIffAllTaken`); every published event is taken by each reader (`PublishedIsTaken`) |
| `event_pool` | 2 readers, channel of 4, 5 slabs, 6 events; the logger's process, and a measuring program from arguments to return | each event somebody needs is in its own slab, so none is built over another (`SlabsExact`); `OffersActiveSlab`, implements `Channel`; every object counted as built is counted as destroyed (`CountersBalance`); the program ends (`MeasureEnds`) |
| `logger` | main and 2 threads, 3 events in all (5 in the asynchronous regime), one mode change, one listener change | in the asynchronous regime the listener gets every event once and a thread's in order (`AsyncShowsInOrder`); `SynchLeavesNothing`, the fairness of the scan (`NobodyIsPassedOver`), `InstalledListenerIsFlushed`, every queue implements `Channel` (`QueuesAreChannels`), `QueuesDrain` |
| `engine` | 3 names (one the logger's), 2 bodies, 5 configurable values, queues of 1, 3 events | the constructor's abort is unreachable (`ConstructorFindsEveryTask`), cores are exclusive (`OneThreadPerCore`), all threads end first (`NoThreadOutlivesMain`), `NothingLeftWithoutLogger`, `StopEnds`, `LoggerKeepsUp` |
| `small_parts` | the pod queue with exactly `std::uint8_t` at its largest capacity 64 and 260 events; two of them in a ping-pong; arenas, log events, cpu lists, jitter measurements (see Bounds) | no lap is mistaken for another (`EmptyIffAllTaken`); every number comes back (`PingPongEnds`) as it was sent (`NeverAborts`); allocations are aligned, inside and apart (`BlocksStayApart`); an event prints what was logged (`PrintsWhatWasLogged`); a list is read to its end (`CpuListsAreRead`) and then is what its text says (`ListsAreExact`); when the report of sysjitter comes, and that it comes (`ReportNeedsAllOrNone`, `JitterIsReported`) |

`NobodyIsPassedOver` bounds how many events dispatch takes from others while a queue waits by
the number of queues. One would expect one turn of each *other* queue, and with three threads that holds. It does
not with four: the offset found by the scan is added to the cursor modulo the number of queues at that later time
(`logger_adapter.cpp:211`). If threads have registered in between, the cursor does not wrap where the scan did
and may come to lie behind the queue just served, or jump over others; a waiting queue then sees
one event more go first. With `Threads` of four, `MaxEvents` 3, `Totals` of 6 and no change of the listener TLC finds states that
reach the bound; that instance, of a million states up to symmetry and safety only, is not among the
runs, and the theorem `ScanIsFair` covers every number of threads.

Five runs expect a violation; each is a finding of `PROJECT.json`:

- `one2each_255`: with an 8-bit counter and the 255 readers the factory grants, the
  object queue's stamp wraps to the empty mark and a full channel is overwritten.
- `one2each_guard`: the object guards count down relaxed, so the destructor that the last
  one runs races with another reader's read, and the writer's next construction with
  the destructor. The pod reader's release and the writer's acquire show what is missing.
- `pool_rounded`: a measuring program's `make_queue` sizes the pool by the request, the channel
  rounds it up (`to2pow`); with 3 requested the fifth event is constructed over the unread first
  one. The logger sizes both by one `QUEUE_SIZE` of 4096 and is not concerned.
- `nested_logging`: an argument that logs makes the assertion of `try_log_event` fail.
- `logger_sstream`: in the default synch mode a second thread formats into the shared
  stream before the first has passed its text on; an event is destroyed unseen.

Some properties of `small_parts` state, besides what holds, exactly when it does not,
because the code falls short there:

- `ReportNeedsAllOrNone`, `JitterIsReported`: a thread that the system refuses its core (or its name) returns before
  it counts itself in, the others spin for a count that will not come, and main never joins
  them; the report's line about an invalid experiment is reached only if *every* thread was
  refused. A core without a hiccup has its percentiles read past the end of an empty vector
  (`Undefined`). The first property says that this happens only if every thread was let onto its core;
  the second accepts it, as the code does.
- `BlocksStayApart`, by `Addressable`: a request for more than the address space has a size or
  an end that wraps, may pass the check for room, and is then granted: its block is not inside the
  memory, and the cursor may have moved back over blocks still in use. The property holds up
  to the first such grant and again from the next reset on.
- `ListsAreExact`, `CpuListsAreRead`, by `Representable`: a cpu of 512 or more throws out of `bitset::set`
  during the initialisation of a static, and a range that ends at the largest `unsigned`
  never ends.
- `PrintsWhatWasLogged`: a text for which the ones packed before it left no room is
  `<truncated>`, so what is cut depends on the compiler's order of evaluation.

**Bounds.** `MaxEvents` bounds the events written and is a guard of the writer only.
Each run's bound lets the sequence number and the counter wrap (20 events against
16 counter values, 260 against 256, 9 against 8) and every bucket be reused at
least twice; the channel of `event_pool` is abstract, and its 6 events come round to the
first of its 5 slabs. A behaviour depends on the ordinals only through the wrapping
counters, so longer runs repeat these states; the proofs of section 4 remove the bounds
from the safety properties anyway. `MaxOpen` bounds the guards one reader keeps
open, `MayDrop` the handles that may go. In `LoggerAdapter`, `MaxEvents` and `MaxTotal` (per regime)
bound the events of one and of all threads, `MaxChanges` the calls of `change_mode` and
`MaxListeners` those of `replace_listener`, and `EngineCrew` the threads that register in the engine regime;
three events are enough for two dispatches that overlap and a third that
follows, five in the asynchronous regime let a queue wait through two registrations, and `QueueSize = 1` makes the refusal of an event reachable.
In `Engine` three names
give maps of every size up to three, with a name before and one after the logger's;
two bodies let one name have two tasks, which `std::multimap` allows; the value 9 narrows
to 1 when `UMod` is 8, so a configuration may name one core by two integers, and core 3 has no
isolation.

In `MeasureProgram`, `CounterBits` is 8 and the request is 4, from which `to2pow` gives the
capacity; a measuring reader holds one event at a time by its own loop, `MaxOpen` bounds what a
reader of the logger's process holds. In `PingPong`, `Iters` numbers are sent over and over,
260 in all. Arenas have up to 9 bytes at aligned and unaligned origins, types of size and
alignment 1 to 4, at most `MaxBlocks` = 3 blocks before a reset, and requests for the numbers of objects in
`Counts`; with `SizeMod` = 16 the larger ones wrap, and some of those are granted. Log events have 8 bytes, up to `MaxArgs`
arguments, of which a text takes 0, 2 or 3 bytes, and patterns of up to `MaxPattern` letters
or placeholders: fewer than arguments, as many, or more. Cpu lists (`CpuTexts`) have two sections, or are two
parameters of one each, over an `unsigned` of `CpuMod` = 5 values and bitsets of
`MAX_CPUS` = 3, so that both limits lie among the numbers. `SysJitter` has three cores, every
set of refused ones, and a clock that stops at `Runtime`.

The smallest capacity `to2pow` gives is 4 (`one2one_object` uses it); the instances of
capacity 2 are smaller rings of the same code, with fewer buckets to tell apart.

**Regimes of the logger.** `synch` is the default without a logger thread. `async` is what
`logger_mthreads.cpp` does: the mode is changed before other threads register.
`engine` is `engine_main.cpp`: the logger's thread dispatches before and while the mode
changes. A property that needs a regime names it.

**Fairness.** In the queues: a started `try_write` completes, guards are scope objects and
are destroyed, and a reader that keeps its handle polls (`Fairness` of each module). No
fairness is assumed of the user's decision to write, to look, or to drop a
handle. In `LoggerAdapter` a call that has begun goes on, and the logger's thread calls
`dispatch` again, which is its task's loop (`engine_main.cpp:184-188`,
`engine.cpp:64`). Weak fairness suffices although `std::mutex` is not fair: when only
the logger's thread keeps dispatching, it is the one that drains the queues. In `Engine` the main
thread and every started thread go on, the application's callback returns, and so
does each task: the thread's loop (`engine.cpp:64`) looks at the stop flag only between two
calls, so a task that never returned would leave the code no way to stop. The signal itself is under no fairness. In
`MeasureProgram`, `PingPong` and `SysJitter` main and the threads go on: they spin and never
block, and the scheduler runs them; so does the clock of `SysJitter`. In `CpuLists` the one
thread that calls the code goes on.

**Deadlock** is checked in the queues and in `Engine`, where `Finished` stands for the state without
handles and for the program's return, and in `event_pool`, where `Stopped` is the end of the
program or of what the logger's process does. `logger`, `small_parts` and the violation runs
switch it off: there the program really stops when the bound is reached, all handles are gone,
or a sequential function has returned.

## 4. What is proved

TLAPS checks the proofs from nothing; there are no unproved steps.

`One2OneProofs`, for **every** capacity `Cap`, every `SeqMod` that is a multiple (at least two
times) of it, every `MaxEvents`, pod and object:
`TypeCorrect`, `GuardsAreSafe`, `MarksAreExact`, `NoLeak`, `FullIsExact`, `EmptyIsExact`, and
`QueueImplementsChannel`. The assumption `QueueAssumption` is what `to2pow` guarantees: a power
of two not above a quarter of the counter's range. None of the safety properties
is inductive. `IInv` ties the code's state to the unbounded history: the counters
are `sent` and `taken` reduced (`Counters`); what is unread or held lies among the
last `Cap` events (`Window`); a guard's bucket is its event's (`GuardsInPlace`); a bucket is
marked empty or carries the number of the one unreleased event that belongs there
(`Marked`); storage agrees with the marks up to the step in progress (`Stored`,
`StoredIsMarked`, `WriterPlace`). The heart of it is `OneLap`: unreleased
events are less than `Cap` apart, so two that share a bucket are the same event; and
a bucket's old number is not the next one's because a lap is at most half of
`SeqMod`. `ModArithmetic` proves the facts
about remainders from the definition of division.

`One2EachProofs` does the same for the one-to-each queue, any number of readers, pod and object: `EachTypeCorrect`,
`EachGuardsAreSafe`, `EachMarksAreExact`, `EachDestroyedOnce`, `EachFullIsExact`, `EachEmptyIsExact` and
`EachImplementsChannel`. The new part of the invariant is the counter: while an event is
unreleased, its bucket's counter is the number of readers that still need it, and one more in the object queue. So
the reader that finds itself last is the last, and it is one reader; a counter at the mark belongs to no
event. The numbers are not cleared as in the one-to-one queue: a bucket's number is that of the newest event
written there, which cannot be the one a reader waits for unless it is there. The theorems have one
hypothesis, `StampFits`: the object queue's stamp, readers plus one, is in range. It fails only for
`std::uint8_t` and 255 readers, where `one2each_255` shows the properties violated; for the pod queue it is
no restriction. `PodHasNoDataRace` is about `One2EachMemory`: of every use of a bucket's storage, the
knowledge released with the next store or decrement of an atomic covers it, decrements continue
the release sequence, so the writer that finds the counter at zero knows of all reads and a reader
that finds its number knows of the write (`OrderInv`). For the object queue this is false (`one2each_guard`).

`ChannelProofs` proves `ChannelBounded`: no reader of a channel is ever owed more than
`Cap` events. `EventPoolProofs` builds on it: if the pool has more slabs than the channel's
capacity (`RoomToPrepare`, the hypothesis of most theorems, which `pool_rounded` shows to be
needed), event `e` lies in slab `e % PoolSize`, everything alive is among `Cap + 1` consecutive
events, so nothing shares a slab (`OwnSlab`). From `PoolInv` follow `ConstructionIsSafe`,
`DestructionIsExact`, `ActiveSlabOffered`, `PoolTypeCorrect` and `PoolImplementsChannel`, for any
number of readers. `PowersHaveRoom` says where the hypothesis comes from: a request that `to2pow` does
not change, and a pool with its extra slab.

The same module proves `ProgramBalances` of `MeasureProgram`: when main returns, as many destructions as
constructions were counted, and all slabs are raw. The program's steps are the pool's (`ProgramUsesPool`),
and `ReaderInPlace`, `WriterInPlace` tie each thread's place to the channel. What the readers counted cannot be read off the
state, because nothing records which reader destroyed what; the invariant says that *some* division of the events
all readers have released into disjoint sets, one per reader, has the sizes the readers counted, and that the total
is the size of what the finished ones own (`Divided`).

`LoggerAdapterProofs`, for any number of threads, events and changes: `LoggerTypeCorrect` and
`ListenerIsFlushed` from `IInv` (the mutex has the holder that each dispatch's place implies, registered threads
are listed once, every notified listener has its dispatch); `SynchIsDrained` from `SynchInv`: in synch mode the threads that owe a
dispatch, because they wrote or are inside one, are always enough for the events left, and a dispatch that finds
nothing pays too, because what it did not see was written behind its scan by threads that still owe; `AsyncLosesNoText` and `ScanIsFair` from `AsyncInv`: only the
logger's thread dispatches, the shared stream holds its event's text until it was shown, and for every waiting
queue the events taken before it and its distance from the cursor stay within the number of queues. The
proof of the last one failed for the bound first assumed, one turn of each other queue, and TLC showed why with four threads (section 3).
`AsyncKeepsOrder` adds that the event in hand is the last one taken from its queue and not shown yet (`InOrder`);
the ones before it were, by `AsyncLosesNoText`'s invariant.
`QueuesImplementChannels` is a refinement for every thread at once and in every regime: each step of the
logger is at most one step of each queue's channel. With `QueueImplementsChannel` it closes the
chain from the code's buckets to the logger's queues.

`EngineProofs`, for every finite set of names, every configuration and number of tasks:
`EngineTypeCorrect`, `ConstructorNeverAborts`, `CoresAreExclusive`, `ThreadsEndBeforeMain`, `EngineLeavesNothing`. The invariant says
what each place of the main thread has established: nothing runs before `spawn` (`QuietBefore`);
the configuration is valid and injective after `config` (`Configured`, `Distinct`); after `create`
every cpu has exactly one task (`OneTaskEach`); only cpus of the configuration have threads
(`OwnThreads`), bound to their own core or to none (`ThreadsBound`), and main is bound only while it
registers tasks or on its way out (`MainBound`). That `create` never looks for a cpu without a task, and yet leaves
none, is the pigeonhole principle: as many tasks as cpus, no name twice, each a cpu
(`AcceptedIsOnto`). For `EngineLeavesNothing`, `LogInv` adds that without a logger's thread there are never more events in
the queues than threads between their write and their dispatch.

`PartsProofs` has one invariant per part.

- `ArenaBlocksApart`, for all memory and types and every word size, up to the first grant of a block
  that is not addressable (`Addressable`, a premise of the property and of the invariant). A new block lies behind the cursor and so behind
  all others. How far refused requests move the cursor beyond the end takes an argument: each leaves it on a
  multiple of its alignment, and since of two alignments one divides the other (`TypesAssumption`: they are
  powers of two), the next request does not add to the overhang but replaces it. So aligning never leaves the address space, given the
  room behind the memory that `AddressAssumption` asks for, and what wraps is the sum of a block that is not addressable.
- `EventPrintsWhatWasLogged`, for every pattern, every list of arguments, all sizes and every order of packing. Copies of texts lie
  behind the tuple, before the cursor and apart (`CopiesAreWhole`), so `construct_at` overwrites none; a text is truncated
  only if the cursor, which never goes back, left no room for it. Printing is a loop over the placeholders, and what it has
  streamed is the statement up to where it stands (`PrintedSoFar`), counted in placeholders (`HolesUpTo`).
- `CpuListsExact`, for every command line and every `unsigned`. What was called so far is what the sections read so
  far mean (`ReadUpTo`, `NamedBefore`), with the part of a range that is done (`RangeIsThere`); a cpu that throws was named, and so
  was the range that begins again at 0. The first attempt failed because the meaning of a section (`CpusOf`)
  was written as a CASE with overlapping guards, of which TLA+ may choose either and TLC takes the first.
- `ReportIsAllOrNone`, for every number of cores. The barrier's count is the number of threads that passed their
  binding (`JitterInv`), so a single refused thread keeps it below the number of cores for ever. Only the core of a thread
  that measured has its samples read, so reading past their end is also excluded when none was let onto its core.
- `PingPongNeverAborts`, for every capacity, counter width and number of rounds. It takes the invariant `IInv` of `One2OneProofs` twice, once per
  queue, and says where each thread stands between the two (`ThreadA`, `ThreadB`) and that the n-th event of either
  queue carries the number of the n-th round (`Echoes`). `PollsFor`, `HasRead` and `GuardHasItsEvent` of
  `One2OneProofs` are what a pod queue's user may rely on.

Assumptions on the constants are those the modules name: what `to2pow` and `make` guarantee of the queues
(`QueueAssumption`), a channel with a reader (`ChannelAssumption`), a positive request (`PoolAssumption`),
the logger's thread apart from the others and the mutex's free mark apart from both (`LoggerAssumption`),
finitely many names (`EngineAssumption`), sizes and alignments (`ArenaAssumption`, `TypesAssumption`,
`EventAssumption`), no memory at the very end of the address space (`AddressAssumption`), bitsets no larger than `unsigned` counts (`CpuListAssumption`), at least one core
(`JitterAssumption`) and round (`ItersAssumption`), and pod queues in the ping-pong (`PodAssumption`).

Only model-checked: liveness, which is beyond the prover (`FullIsTemporary`, `PublishedIsTaken`,
`QueuesDrain`, `StopEnds`, `LoggerKeepsUp`, `MeasureEnds`, `PingPongEnds`, `CpuListsAreRead`, `JitterIsReported`).
Every other property of a run that passes is a theorem. The theorems state some more that TLC need not repeat, because
its runs check something that would notice: the types of the one-to-one queue (every property of `one2one_object`), `GuardSeesItsEvent` and `MarkIsExact` of the one-to-each queue
(`ImplementsChannel`, `DestroyedOnce`), `ConstructsInRawMemory` (`SlabsExact`; `pool_rounded` shows it fail), `AsyncShowsEveryEvent` (`AsyncShowsInOrder`).
The proofs speak of each part of
`SmallParts` by its own specification; that these run side by side is only the instance's doing.

## 5. What is not modelled

Guards handed to another thread than their reader's; thread names and ids, `m_lost`, the
header of a printed event, levels and the listeners' streams; the exit handler that deletes
the adapter, and a failed registration (a null client that is dereferenced at once); a
listener that logs from `flush`, under the mutex; `readers_mask`, which is only printed, and
shifts too far from 64 readers on; the measuring programs' other controllers, whose recording
does not touch the channel; page allocators (whose check for a failed `mmap` compares with the
wrong value), the readings of `/proc` and `/sys` other than the cpu lists, and configuration
files, which are system calls and a library's parsing; `result`, `scope_exit`,
`function_ref` and `temp_file`, which hold one value each; timer, constants, compiler
attributes, network examples and analytics. `PROJECT.json` gives the reason for each.

## 6. Plan

1. `QueueAssumption` from `to2pow`, whose loop is a recursion over data.
2. A reset of affinity that fails, failed registration in the logger, and the exit
   handler as a step of `LoggerAdapter`, with the property that no thread still logs.
