# A verification project for the ghpc runtime

The repository is a port of a PlayStation 2 game: a static recompiler turns the
game's MIPS code into C++ functions, and `ps2xRuntime` runs them on an emulated
Emotion Engine (EE) kernel.  This directory holds TLA+ models of the parts of the
runtime whose correctness is a matter of control (who runs, who waits, in what
order things happen), TLC configurations that check them on small instances, and
proofs for every size of them.

Paths below are relative to `src/`; `ES` stands for
`ps2xRuntime/src/lib/Kernel/EeScheduler.cpp`.

## The system

| Component | State it keeps | Operations | What makes it correct |
|---|---|---|---|
| Threads and ready queues (`ES`, `Syscalls/Thread.cpp`) | the threads with status, priority, suspend and wakeup counts and wait; one ready queue per priority; the current thread; reschedule and slice flags | create, delete, start, exit, terminate, suspend, resume, sleep, wakeup, cancel, change priority, rotate, release; select, preempt | a thread is in exactly the queue its state names; the running thread is the current one; a more urgent ready thread is never overlooked; equal threads share the processor |
| Semaphores and event flags (`ES`, `Syscalls/Sync.cpp`) | count or bits, waiter queue | create, delete, signal/set, wait, poll, clear | waiter queues agree with the wait states of the threads; no unit and no satisfying bit is left while somebody waits for it |
| Invocations (`ES`) | a stack of invocations per thread, the queue of pending ones, dispatcher threads | queue, start, nest, complete | a queued handler starts, and no thread code goes past a checkpoint before it; stacks stay bounded; the completion of a wait runs first and once |
| Host event queue, deadlines, alarms, vertical blank (`ES`) | events under a mutex, deadlines in guest cycles, alarms, the next event | post, drain, schedule, cancel, wait, stop | no event is lost or handled twice; stopping ends the loop; exactly one vertical-blank start is to come |
| IRQ handler tables (`ES`, `Syscalls/Interrupt.cpp`) | handlers per INTC and DMAC cause in order, enable masks | add, remove, enable, disable, dispatch | the enabled handlers of a cause run in their order; removal during dispatch is safe |
| Save states (`ES` serialize/deserialize, `ghpc_state.cpp`) | the state files, the pending request, the quiescence rule | request, save inside a vertical blank, restore at boot | a save happens only when no host callback is outstanding; a resumed machine has its deadlines, its waits can end, and nobody else gets its stacks |
| SIF RPC (`Syscalls/RPC.cpp`) | tables of servers and clients, chains of queues in guest memory, calls as invocations of a thread | init, bind, register, remove, set and remove a queue, call, check | a bound client has the server of its sid; the chains are what was registered; a client has one call at a time |
| IOP subsystem and plugins (`ps2xIOP`) | services, routes from sids to services, the profile catalog | load plugins, configure for an ELF, route, reset | a route leads to a service that exists and claims the sid, however a configuration ends |
| Synth engine and its service (`ps2xIOP/src/modules/synth*.cpp`, `ghpc_synth_bridge.cpp`) | streams and their channels, sample voices, queued replies, the ring they are delivered through | the records of a command flush, render (audio thread), deliver replies | each wait of the game is answered once; the channels of a stream stay in step; what was asked for arrives |
| Guest heap (`ps2_runtime.cpp`, `Syscalls/Thread.cpp`) | the blocks of the runtime arena, thread stacks taken from it | malloc, calloc, realloc, free; start, exit, terminate, delete a thread | blocks cover the arena and do not overlap; what is in use has one holder and keeps its contents |
| CD, MPEG, memory card, pad, audio stubs (`Kernel/Stubs`) | streaming state | one stub per library call | waits are completed; completions run in order |
| GS, VIF1, VU1, renderers | graphics registers and memory | packets | numeric and bitwise |
| EE memory, I/O registers, timers (`ps2_memory.cpp`) | guest memory, register files, four timers | loads, stores, DMA, advance | addresses decode as on the machine; a timer interrupts at its compare value |
| Recompiler, analyzer, studio (`ps2xRecomp`, `ps2xAnalyzer`, `ps2xStudio`) | the program being translated | offline passes | the translation preserves control flow |

How they interact: one host thread, the executor, runs the dispatch loop of
`EeScheduler::run`.  It enters recompiled code, which calls the kernel through
the stubs and syscalls; a call changes the scheduler's members and either returns
or throws `EeDispatcherTransfer`, which unwinds to the loop.  Handlers
(interrupts, alarms, GS and RPC callbacks) are queued as invocations and start on
a thread when the loop dispatches it.  Host threads (audio, the window, timers)
reach the scheduler only by posting events under its mutex and by requesting the
stop, which takes no mutex; the audio thread shares the synth engine with the
executor under a mutex of its own.  A call to the IOP goes from `SifCallRpc` along a
route of the IOP subsystem to a service, whose answer may start guest functions as
invocations of the calling thread.  The save of a state runs inside the handling of a
vertical blank.

What is hard: guest threads are preempted only at the points where the code looks,
so each operation has to leave the right flag up; a handler runs on the thread it
interrupts and may wake, rotate or suspend that very thread; a wait can end by a
signal, a release, a deletion, a termination or a timeout while its thread is also
suspended; a completion can block its thread again; and events arrive at any time.
Around the kernel: the audio thread renders between any two critical sections of a
flush, a process may end inside the write of a state, a configuration may fail after
it has destroyed what it replaces, and a long run of heap calls must never lose or
share a byte.  The file `PROJECT.json` lists these hazards with their lines and the properties
that watch them.

## Modules

| Module | What it is |
|---|---|
| `EeScheduler` | the kernel and its dispatch loop |
| `MCEeScheduler` | the programs (sets of calls and event sources) that TLC runs against it |
| `EeEventLoop` | the executor among host threads: posted events, deadlines, its two sleeps, the stop |
| `EventChannel` | what posting an event promises: a FIFO channel, the abstract specification of the event queue |
| `QueueOps` | ordering and filtering of queues, without recursion |
| `QueueOps_proofs` | what those and the library's queue operators return and preserve |
| `EeScheduler_proofs` | one lemma per helper and operation of the kernel |
| `EeSchedulerSafety_proofs` | the inductive invariants, one lemma per action and invariant, the safety theorems |
| `EeEventLoop_proofs` | the event queue: no lost flag, no lost wakeup, and the implementation of `EventChannel`; the deadlines: one vertical-blank start, alarms, guest code on time |
| `EeSaveState` | `EeEventLoop` with saves, files that may be torn, restarts and restores, and the stacks handlers run on |
| `EeSaveState_proofs` | what a file that loads holds, and what survives saves and restarts |
| `SynthEngine` | the synth's streams, channels, voices and replies |
| `SynthLink` | the engine among the game's client, the service that walks a flush, the reply ring and the audio thread |
| `SynthLink_proofs` | the invariants of the synth: what is counted in its queues, channels in step, answers, samples |
| `MemoryPool` | what a taker of memory may rely on: the abstract specification of the heap |
| `GuestHeap`, `MCGuestHeap` | the block list of the runtime arena, with the thread stacks; constants for TLC |
| `GuestHeap_proofs` | the heap's invariants, and the implementation of `MemoryPool` |
| `IopRoutes` | profiles, services and routes of the IOP |
| `SifRpc`, `MCSifRpc` | `IopRoutes` with the game's RPC tables, queues and calls; constants for TLC |
| `SifRpc_proofs` | routes, tables, calls and chains |

`EeScheduler` and `EeEventLoop` are two views of one program.  The first has every
kernel call and lets an event happen at any time; the second has the mechanism that
makes events happen and keeps of the kernel only what it needs: who waits for what,
whether somebody is current, whether a handler is queued.  `EeEventLoop` leaves open
which thread runs and when it is preempted, so whatever `EeScheduler` chooses is
among its behaviours.

### EeScheduler

The members of `EeScheduler` that its helpers read and write are one record, `ee`.
A helper of the code is an operator from one record to the next with the name it
has in the code (`enqueueReady`, `makeReady`, `removeFromWaitObject`, ...), and a
kernel call is the composition of the helpers its handler calls, in order, followed
by the way it ends: `Return` (the guest function goes on), `Unwind`
(`EeDispatcherTransfer`) or `transferIfRequested`.

`phase` says where the executor is: at the top of the loop (`Loop`, still
processing events), choosing a thread (`Select`), dispatching it (`Dispatch`),
inside a recompiled function (`Guest`), processing events after it (`Post`), or
waiting for the next event (`Idle`).  `running` is the thread whose function is on
the executor's stack; it differs from `ee.current` while *detached*, that is after
a call gave the current thread away and yet returned to its function, which
`rotateReadyQueue` and `suspendThread` do when a handler calls them.

What guest code does is open: the constants `Calls` and `HandlerCalls` name the
kernel calls that thread code and handlers of the program make, and TLC explores
every order of them with every argument.  `Sources` names the events that occur.
Guest code may also return from its function (`GuestReturns`), reach a checkpoint
(`YieldToEvents`, `TimeSliceExpires`), call back into guest code from a stub
(`InvokeCurrent`) and queue handlers (`QueueFromGuest`).

Abstractions:

- A release build is modelled, as `ghpc/scripts/build.sh` makes it (line 75):
  assertions are compiled out.
- Thread, semaphore and flag ids are taken from fixed sets; entry points, stacks,
  options and attribute words are left out, except `EA_MULTI`.
- Time: cycles are not counted.  A deadline may come due whenever the loop looks,
  and a slice may end whenever `checkpointDue()` is asked.  The number of vertical
  blanks a wait is short of is kept instead of the absolute tick.
- Host events are taken one at a time; their queue, its mutex and the clock are
  the subject of `EeEventLoop`.
- Exit handlers are reduced to the last one, whose completion ends the thread.
- C++ exceptions out of guest code, the environment switch for the legacy
  invocation stacks, tracing and snapshots are left out.
- Error codes are not kept: a refused call changes nothing.

Bounds, all in guards: `MaxSuspend`, `MaxWakeup` (counts of one thread),
`MaxSema` (the count and maximum of a semaphore), `MaxTicks` (vertical blanks to
wait), `MaxPending` (queued invocations), `MaxDepth` (invocations nested on a
thread besides the handler).  The code bounds none of the first two and the queue;
the proofs do not depend on any of them.

### EeEventLoop

`pc` is where the executor is.  `run()` goes `Loop`, `Pass` .. `Lower`, `Select`,
`Dispatch`, `Guest`; a pass over the events (`processPendingEvents`) is `Pass` (wall
pacing), `Due` (are there deadlines), `Process` (those taken off the list), `Swap`,
`Handle` (the events swapped out), and `Raise` or `Lower` (the checkpoint flag is
about to be stored).  `after` tells the pass that follows a guest function from the
one at the head of the loop.  The executor can sleep in two places, the pacing wait
of `processDueDeadlines` (`PaceEnter`, `PaceSleep`) and `waitForEvent` (`WaitEnter`,
`WaitSleep`); `Enter` is the point where the predicate was false and the condition
variable has not put the thread to sleep yet.  The mutex is held exactly at
`PaceEnter`, `WaitEnter`, `Raise` and `Lower` between two steps.

Host threads: `PostEvent` pushes and raises the flag under the mutex and `NotifyPost`
is its `notify_one()`, later; `requestStop()` is three steps, the two stores and the
notification, none under the mutex.  A notification reaches the executor only when
it sleeps (`woken`).  A wakeup is therefore lost in the model exactly when it is
lost in the code.  The predicate is tested again after each wakeup; spurious ones
add nothing, since the executor would go back to `Enter`.

Clocks.  There are two, `m_eeCycle` and the host's steady clock.  The code compares
a deadline only with a clock or with another deadline, so `deadlines` holds
distances: every guest cycle accounted and every unit of host time brings them
nearer, and 0 or less is past.  This keeps the model finite without a bound on time.
The frame rate is live in the code (a period is read anew at each vertical blank,
once for each clock): `Periods` is the set of values it takes.

Kernel state is reduced to `waits`, `current` and `invoked`.  Time slices and
preemptions appear as choices (`yields` in `checkpointDue`, `current'` in `EndPass`);
handlers as the boolean that one is queued, which may or may not become true with a
vertical blank, since the program decides what it registers.  An EE timer is the
number of cycles until it interrupts; the registers behind that number are left out.
Saved states are the subject of `EeSaveState`.
`ExternalWake` is the only posted event that does anything, so it is the only one
modelled.  Nothing under `ps2xRuntime` calls `postEvent` but its public wrapper
`PS2Runtime::postEeEvent`: the module verifies the interface.
An event posted before `reset()` would be cleared by it like an early stop; the model
lets host threads post only after it.

Bounds: `MaxWait` (blanks a thread waits for), `MaxPosts` (events posted in one
vertical blank period), `Lag` (a host time further back is not told apart from this
one; only wall pacing looks back at all, by `WallSlack`, which is smaller).
`EarlyStop` is a switch, not a bound: whether a stop may be requested before
`reset()` has run.

### EeSaveState

The module extends `EeEventLoop`: every step of the loop is there, with three
additions.  `completions` and `handling` say which threads have a host callback or an
invocation to finish, the only state that cannot be written; `stacks` and `stackTop`
are the pool handlers take their stacks from; `files` is the disk.  Steps of the loop
that touch these are restated (`SavingVBlank`, `DispatchHere`, ...); the others are
`Elsewhere`.

A request (`RequestSave`) is served inside the next vertical blank that finds
`isQuiescentForState()`, at exactly the point where the code serves it: the next
blank is on the list already, this one is counted but its waiters are not yet told
(`completeVSync` comes later), and deadlines of the same pass are in a local variable
and in no list.  A write truncates the file and may stop half way; a piece is refused
at the load unless it lacks only optional chunks.  `Restart` may happen at any step
and keeps the files only.  `Resume` is `deserializeForState` after `reset()`.

Left out: the chunks that are copies of memory; the host threads, which start anew;
the IRQ masks, which are not saved (what they gate is open in the model anyway); and
the GS callback and the interrupt handlers of the blank that was being handled,
which a resumed machine does not see.  Bounds: `MaxBoots`, `PoolSize`.

### SynthEngine and SynthLink

Each operation of `synth_engine.cpp` holds the engine's mutex for its length and is
one action; the audio thread's `Render` may come between any two of them.
`SynthService::handleRpc` walks a flush record by record (`phase = "walk"`), keeps the
highest ranked answer for the RPC (`Offer`) and defers the others to the engine's
queue (`FinishFlush`); `DeliverReplies` hands them to the game's next poll.

The game's side (`StreamEE`, `SampleInstEE`, `SynthEE::Poll`, ...) is in the disc image,
not in the repository.  It is external, modelled from the comments of the four files,
which were read off its disassembly.  A call of the game may be any that its objects'
states allow.  Its command queue holds whole records, so the stop of `handleRpc` at a
record that cannot be read or runs past the flush (`synth.cpp:266`) never happens, and
the switch `GHPC_SPU_ACK=0`, which leaves chunks unanswered on purpose, is left out.

Delivery.  `deliverReplies` takes the replies from the engine first, and only then
allocates the guest buffer it passes them through (`ghpc_synth_bridge.cpp:195`); when the
allocation is refused, or the buffer has fewer slots than there are replies, what does
not fit is gone: answers, a voice's Done, and requests that are counted as in flight.
`RingAllocated` is the allocation, which may fail, `Fitting` how many replies pass, and
`lost` records the others.  The properties about answers and data say that nothing is
lost anywhere else.

Rates.  A frame moves a channel by `Freq` of `Rate` parts of a sample, and `phase` is
the part it is into.  The code keeps a double; a fraction with a fixed denominator has
the same carries into whole samples.  A bent channel moves by any step of `BentSteps`,
so it comes back from a bend with a part of its own.  The described channels of a stream
have one rate.

Lengths are scaled: an ADPCM block is one sample and a request one block.  Left out: the
decoder, mixing, volumes, pans, reverb, a stream's speed (it scales every channel alike),
the reports of positions and the statistics, none of which changes control flow.

Bounds: `MaxEvents` (game calls in all), `MaxCalls` (between two polls), `MaxSamples`
(of a stream), `MaxChunks` (of an upload), `BentSteps`, `MaxLost` (after so many lost
replies the allocation succeeds).  `MaxSlip` is the guest's own clamp.

### GuestHeap and MemoryPool

`blocks` is the block list of the runtime arena.  The list is in address order and an
operation replaces a block by its pieces in place, so the model keeps a set.  A unit is
16 bytes, the granularity to which the code rounds addresses and sizes.  A request
scans for the first fit, keeps the alignment padding as a free block before and the
rest as one behind; a free joins free neighbours; a resize shrinks in place, grows
into a free neighbour, or takes a new block, copies and frees the old one.  `held` is
who will give memory back; `thread`, `stack` and `owns` are the fields of the threads
whose stacks come from the arena.  `memory` is what the cells hold: a caller fills
what it gets with a value, so that a copy that comes too late shows.  A resize that moves takes the
default alignment, as all its callers do.

`MemoryPool` knows nothing of blocks: live areas from an address to a size and
contents, and when a request may be refused.  `GuestHeap` implements it (`PoolSpec`)
under the mapping from blocks in use to areas.

Left out: `configureGuestHeap`, which only tests call; a resize of an address the heap
does not know, which is an allocation; stacks the program brings itself.  Saved states
do not hold the block list; the hazard at `ES:1328` says what follows.

### IopRoutes and SifRpc

A service is an instance: its name and the configuration that made it, so a route
left over from an earlier profile is told from the new one's.  Configuring destroys the
old profile's services first and can then end in five ways: no profile matches, two
match equally, the factory throws, the services clash, or all is well.  Plugins only
add profiles.  A service claims a sequence of sids: a layer in which one sid is claimed
twice, by two services or twice by one, is refused.

`SifRpc` extends it with the tables of servers and clients, the two kinds of chains in
guest memory, followed pointer by pointer as the code does (`Walk`, `Attached`,
`Enlisted`, `Bypassed`), and calls.  A call marks its client busy, asks the service the
sid is routed to, runs a guest function, an end function, both or neither as
invocations of the calling thread, and frees the client after the last.  Calls nest,
and other threads call meanwhile.  `listed` and `enlisted` are ghosts: what the game
registered and did not remove, in order.

The game keeps to its library's rules, as the module's head states: `SifInitRpc`
first, a client is used only when `SifCheckStatRpc` says it is free, and a record goes
into a queue it is not in, or again where it already stands last.  `SifCallRpc` itself
marks its client busy without a look; the game's `SifCheckStatRpc` and the call after it
are one step, so the race of two threads that share a client, both find it free and both
call is left to the game's rule and not examined.  Outside those rules
the code does not keep its chains (the head of a queue registered again is linked to
itself).  The program loads one ELF and stops when its profile is refused
(`main.cpp:223`), so `Next` configures only before `SifInitRpc`; before that, ELFs may
be loaded in any order, as tests of the subsystem do.  A thread that ends inside its
calls leaves their clients busy for good; the model has it (`ThreadEnds`).

Left out: what a call copies and the semaphore it signals, the choice between two
argument conventions, `sceSifSendCmd`, DMA, module loading, and what services keep.
Bounds: `MaxMade` (configurations), `MaxNesting`, `MaxWalk` (1024 in the code; longer
than any chain of the model, as the code's is of a game's).

## Runs

| Run | Program | Shows |
|---|---|---|
| `EeThreads` | main and two threads, three priorities, every thread call, waits for vertical blanks | `TypeOK`, `RunningIsCurrent`, `ReadyQueuesExact`, `SleepersHaveNoWakeups`, `MostUrgentRuns`, `CompletionsRunFirst`, `TurnLostOnlyToSlice` |
| `EeObjects` | main and a thread, handlers that rotate, delete and signal, one semaphore, one event flag of two bits, all wait modes, waits for the host | `WaitersExact`, `NoIdleUnits`, `NoSatisfiedWaiter`, `HandlersBeforeThreads`, `OneHandlerPerThread` |
| `EeLive` | threads that sleep or spin, handlers and callbacks | `ReadyThreadsRun`, `QueuedHandlersStart` (liveness) |
| `EeDetached` | **violated**: `BindFindsMainReady` | the kernel call of a detached handler makes a waiting main the running thread, against the assertion at `ES:2436` |
| `EeLoop` | one guest thread with alarms and waits, posters of two kinds of events, a stop; wall pacing, a changing frame rate | `OneVBlankScheduled`, `AlarmsHaveDeadlines`, `GuestRunsOnTime`, `NoEventSleptThrough`, and `EventsInOrder`: the queue implements `EventChannel` |
| `EeLoopLive` | no wall pacing, an EE timer, fairness | `StopEnds`, `VSyncWaitersResume`, `AlarmsFire`, `TimerInterrupts`, `WakeupsArrive` (liveness) |
| `EeStopLost` | **violated**: `StopEnds` | a stop requested before the game thread runs `reset()` is erased by it (`ES:510`); `run()` never ends and `PS2Runtime::run` joins it for ever |
| `Synth` | a stream of four channels, one the reader does not hold and one the game bends, a sample, an upload, a terminate, a refused allocation; fairness | `AnswersExact`, `DoneComesBack`, `ChannelsInStep`, `DataAccounted`; `WaitsEnd`, `StreamsSound` (liveness) |
| `SaveState` | a thread that waits for the host and for blanks, handlers, saves, torn files, a restart | `OneVBlankScheduled`, `StacksDisjoint`, `WaitersHaveCallbacks`, across restarts |
| `SaveResume` | **violated**: `AlarmsHaveDeadlines` | an alarm that comes due in the same pass as the blank that writes the state is in the file without its deadline: after the load it never fires |
| `GuestHeap` | requests of three sizes and two alignments, resizes, frees, a thread's stack | `HeapExact`, `BlocksHeld`, and `PoolSpec`: the heap implements `MemoryPool` |
| `SifRpc` | a core service, three profiles that take over, clash and tie; two clients, two queues, two records, two threads | `RoutesServed`, `ClientsFollowServers`, `QueuesExact`, `OneCallPerClient` |

`EeLoopLive` and `EeStopLost` are about one thing.  With the stop requested after
`reset()`, `StopEnds` holds, and it holds only because a vertical blank is always
scheduled: the notification of `requestStop()` can fall between the executor's test
and its sleep, and the stop then waits for the next deadline, up to one period.

The bounds are enough because the interesting situations need few actors: a
preemption needs two priorities and a third to be neither; a queue position needs
two waiters; a handler that wakes a thread more urgent than the one it interrupted
needs two threads.  With three threads and three priorities (`EeThreads`) every pair of
queue positions, statuses and relative urgencies occurs.  `EeObjects` has two threads,
because signals, deletions and bits may come from handlers: main and the other thread
can both wait.  One suspension and one stored
wakeup distinguish zero from non-zero, the only thing the code tests.  A semaphore
of one unit has a state with waiters, one with a unit and is then full.  Runs whose program has no asynchronous handler set `MaxPending` to 0.

For the event loop one guest thread suffices, because a deadline or an event never
depends on how many wait.  One alarm id is set, fires, is cancelled and is given
out again; in `EeLoop` it is due at once, in `EeLoopLive` a cycle later, and comes due
before, with and after a vertical blank.  A blank of length 1 in a period of 2 or 3
cycles gives blanks that are early, late, and several periods late at once.  One
event per period is posted, and since the executor may be between two periods' events
at any time, two are in the queue at once: one shows a lost wakeup, two show an order.

`SaveState` starts the program twice: a state is written in one life and read in the
next.  A pool of two stacks, one thread and the dispatcher hold every way two owners
could get one stack.  Its blank is two cycles of three, so that a save finds the
end of a blank on the list.

`Synth` keeps the code's order of sizes.  A target of three requests, two per poll, three
strikes: as in the code (`synth_engine.cpp:39`), a channel is full after two batches of a
reader that holds enough, and a channel that is never fed is struck out in three.  The two
fed channels that are never bent fill, run short and starve in step while a third is bent;
the fourth is described and never fed.  Four calls prepare, play, bend and end.  At a rate
of two thirds with bends of nothing, the song's step and half as much again, each part of
a sample occurs.  One lost delivery tells an answer lost from one doubled.  The channel
that leads the song is not the bent one; the theorem is about any.

The fourth channel shows a stall.  The notes (`ghpc/notes/audio-path.md:77`) say that a
channel which stays unanswered while its siblings get data is marked dead after three
batches.  A strike needs a batch in which a sibling got data (`synth_engine.cpp:663`).  A
reader that serves the siblings slowly makes three such batches, the channel is given up
and the stream plays.  A reader that holds the whole target when it is first asked fills
the siblings in two; from then on only the silent channel is asked, no batch has data and
the stream never starts.  Both are in the run, and `StreamsSound` claims nothing of a
stream with a described channel that was neither fed nor given up.  Which of the two the
game's reader does is not in the repository.

No waits are claimed to end once a delivery is lost, except Terminate's, whose answer rides
the result of its own flush.

`GuestHeap` has five units for sizes up to three: splits before and behind,
merges on both sides, moves, refusals and the reserve all occur.  In `SifRpc` two
records in a queue show the head, the end and an append; the removal of one in the
middle is not exercised for records (it is the same operator as for queues).

Deadlock is checked in every run but one: in `EeScheduler` the loop can always deliver
an event; in `EeEventLoop` only a `run()` that has returned stands still (`Finished`).
`SifRpc` switches the check off, because the program stops when the profile for its
ELF is refused.

Fairness of `EeScheduler` (`FairSpec`, used by the run `EeLive` only) and why the code
justifies it:

- weak fairness of the loop's own steps: nothing stops the executor there;
- strong fairness of `EnterGuest`: an event that is due again each time keeps the
  loop from the guest only finitely often, since every dispatch accounts cycles
  and deadlines lie cycles ahead;
- strong fairness of `TimeSliceExpires`: the slice is renewed only in
  `makeRunning()` and is measured in cycles that guest code spends;
- strong fairness of handlers returning: a handler is straight-line guest code;
- weak fairness of leaving the guest when a checkpoint is pending: recompiled code
  asks `checkpointDue()` at its back edges.

No fairness is assumed of guest calls, of events or of thread code returning.

`EeEventLoop` has a `FairSpec` of its own, with weak fairness only:

- of the executor's own steps and of host time (`Tick`);
- of `GuestCheckpoint`: recompiled code asks `checkpointDue()` at backward edges, and
  at every transfer between functions (`ps2xRuntime/src/lib/ps2_runtime.cpp:2727`),
  so guest code cannot stay away from it;
- of `NotifyPost`, `RaiseForStop` and `NotifyStop`: a host thread inside one of the
  two calls gets to their end.  Whether it makes the call is up to it.

`SynthLink` has one too, with weak fairness only, of the delivery of replies, the
game's poll, the walk of a flush, the disc reader and the audio device: the main loop of
the game polls for ever and the device asks for samples whatever the game does.  That of
the delivery and the poll is written as the change of phase each of them is, which TLC
evaluates in a fraction of the time.
Nothing is assumed of the calls the game makes.

## Proofs

`EeSchedulerSafety_proofs` proves, for any finite set of threads, any number of
priorities, semaphores, flags and tokens, any program and any bounds:

| Theorem | Property |
|---|---|
| `TypeCorrect` | `TypeOK` |
| `RunningIsCurrentHolds` | `RunningIsCurrent` |
| `ReadyQueuesExactHolds` | `ReadyQueuesExact` |
| `WaitersExactHolds` | `WaitersExact` |
| `NoIdleUnitsHolds` | `NoIdleUnits` |
| `SuspendAgreesHolds` | `SuspendAgrees` |
| `SleepersHaveNoWakeupsHolds` | `SleepersHaveNoWakeups` |
| `Inductive` | the invariant `IInv` they follow from |
| `MostUrgentRunsHolds` | `MostUrgentRuns` |
| `NoSatisfiedWaiterHolds` | `NoSatisfiedWaiter` |
| `HandlersBeforeThreadsHolds` | `HandlersBeforeThreads` |
| `OneHandlerPerThreadHolds` | `OneHandlerPerThread` |
| `CompletionsRunFirstHolds` | `CompletionsRunFirst` |
| `TurnLostOnlyToSliceHolds` | the action property `TurnLostOnlyToSlice` |
| `TurnsInOrder` | the invariant `IInv /\ Sided` the last six follow from |

Assumptions: `ConstantsAssumption` (ids are integers, main and "nobody" are not
among the others, there is a priority, bounds are natural numbers; TLC evaluates it
in every run) and `~DetachedCalls`: guest code does not call the kernel once a
call has given its thread away.  The second is necessary; without it
`RunningIsCurrent`, `WaitersExact` and `ReadyQueuesExact` fail, as `EeDetached`
shows.  `TurnLostOnlyToSliceHolds` assumes also that the program does not call
`RotateThreadReadyQueue`, whose purpose is to give a turn away; the run `EeThreads`,
which checks the property, leaves the call out too.

`EeEventLoop_proofs` proves, for any threads, tokens, periods, alarms and bounds:

| Theorem | Property |
|---|---|
| `EventsRaiseCheckpointHolds` | `EventsRaiseCheckpoint` |
| `NoEventSleptThroughHolds` | `NoEventSleptThrough` |
| `EventsInOrderHolds` | `EventsInOrder`: `Spec` implements `EventChannel` |
| `EventsAgree` | the invariant `EventsOK` they follow from |
| `GuestRunsOnTimeHolds` | `GuestRunsOnTime` |
| `OneVBlankScheduledHolds` | `OneVBlankScheduled` |
| `AlarmsHaveDeadlinesHolds` | `AlarmsHaveDeadlines` |
| `TypeCorrect` | `TypeOK` |

Neither of the first two invariants is inductive: that the flag is up while events wait
breaks if the executor may lower it (`Lower`) with an event in the queue, and that
nobody sleeps on an event breaks if the executor may stand at `Enter` with one.
`EventsOK` adds that the queue is empty in both places.  It is kept because a post
needs the mutex, which the executor holds there; the mutant `PostEventUnlocked` shows
it failing.  The refinement maps the channel
to `pending \o events`: a post appends, a handled event removes the head, the swap
moves the border between the two queues and is a stutter, because `pending` is empty
whenever it happens (part of the invariant too).

The deadlines are a list that is searched, filtered and rewritten.  `ListsOK` says that
the list and the one taken from it are lists of deadlines, and that `nextDeadline` is
the least of them; `GuestRunsOnTime` follows because the guest is entered with the cycles
that lie before the least one.  `BlankOK` and `AlarmsOK` say *exactly one place* for a
kind and an id, counted over both lists: a deadline moves from one list to the other, and
a blank schedules its successor, in the same step.  The library counts with folds and
cardinalities; `QueueOps_proofs` turns both into statements about places
(`FilterPlaces`, `RemoveFirstAt`, `LeastElement`).  `ThreadsOK` and `FlagsOK` add what
`TypeOK` needs of waits and of the stop.

`EeSaveState_proofs` proves, for any threads, slots, pool of stacks and lengths:

| Theorem | Property |
|---|---|
| `StacksDisjointHolds` | `StacksDisjoint` |
| `WaitersHaveCallbacksHolds` | `WaitersHaveCallbacks` |
| `OneVBlankSaved` | `OneVBlankScheduled`, of the program that saves and resumes |
| `SavesAgree` | the invariant `SaveInv` they follow from |

The invariant has to speak of files: a step that loads one makes a state out of what a
step long ago, of another life of the process, wrote.  `FileOK` says what a file that
loads holds: a list with one vertical blank to come, a current thread that waits for
nothing, nobody who waits for the host, and stacks that are apart and complete.  That
a save establishes it is where the rule of quiescence is used, together with the
place of the save: inside the handling of a vertical blank, with the next one
scheduled already.  That `StacksDisjoint` survives a
resume needs the last clause of `StacksOK`: no stack below the saved top is lost, so that
the pool of the new life continues where the old one stood.

The inductive invariant of the scheduler.  None of the first seven properties is inductive alone.  That a
ready queue stays exact when `removeReady` runs needs that the thread is in it only
once and under its current priority; that `signalSemaphore` may ready the head of a
waiter queue needs that the head is blocked and in no ready queue; that
`makeReady` decides rightly between Ready and Suspended needs that counts and
statuses agree; that a blocking call leaves its thread in one queue needs that a
running thread was in none.  `IInv` is therefore the conjunction of all of them
with three additions: a deleted semaphore or flag has no waiters (`UnitsOK`), the
object of a wait has the type its reason says (`ThreadOK`), and the phase fits the
current thread (`PhaseOK`).

The argument.  A kernel call is a composition of helpers, and between two helpers
the invariant is broken for the threads that are being moved.  `Core(e, X)` is the
invariant of a record with the threads of `X` lifted out of every queue: the queues
hold exactly the threads outside `X`.  Taking threads out leads from `Core(e, {})`
to `Core(r, X)` (`CoreTake`), putting them back leads the other way (`CorePut`),
and each helper has a lemma that says which of the two it does: `Dequeue`,
`LeaveWait`, `TakeOut` and `TakeSemaWaiters` take out, `Enqueue`, `MakeReady` and
`Block` put back.  An operation starts and ends in `Good(e)`, and an action is its
operation followed by `ReturnStep`, `UnwindStep`, `TransferStep` or `LoopStep`.

Turns.  `IInv` says where threads are, not who is next, and the other six properties
need more than it.  `Sided` is `Side(ee)`: nobody more urgent than the current thread
is ready unless a reschedule is requested, no waiter is satisfied by the bits of its
flag, a completion waits only on a thread that can run, and a handler is the bottom
invocation; and `GuestSide`: what holds further while guest code runs.  Three of its
parts hold each other up.  That a thread which starts to run has run its completion
first needs that a completion never outlives a wait; that no satisfied waiter is left
needs that `finishEventWaiters` offers the bits to the whole queue, one waiter after the
other, each of which may consume them; and that
nobody is overtaken needs to know of every helper whether it readies a thread without
the check of `requestPreemptionIfHigher` to come.  The lemmas about a kernel call
therefore say what it may do to each thread (`Moved`), to flags and queued handlers
(`Moves`), that it leaves no unasked preemption (`Turn`), and for `TurnLostOnlyToSlice`
that it does not make the current thread ready again (`Keeps`); `Settled` is the same
for the steps of the loop.

`GuestHeap_proofs` proves, for any arena, reserve, sizes, alignments and threads:

| Theorem | Property |
|---|---|
| `HeapExactHolds` | `HeapExact` |
| `BlocksHeldHolds` | `BlocksHeld` |
| `PoolSpecHolds` | `PoolSpec`: `Spec` implements `MemoryPool` |

Every operation replaces one to three adjacent blocks by pieces of the same cells.
The lemmas `TakenExact`, `FreedExact`, `CutExact` and `GrownExact` say of each what it
does to a list that is exact: still disjoint, still a cover, and still no two free
neighbours.  The last needs the others (a merge is complete only because the cover
leaves at most one block on each side).  `BlocksHeld` is not inductive without
`HeapExact`, since a free of one address must not touch the block of another, nor
without the types of the threads' fields; `Inv` is the conjunction of the three.

The pool sees of a block in use its address, its size and the set of values in it
(`Live`).  The refinement needs one more invariant, `Uniform`: a block in use holds one
value, so that a copy of a part and a resize in place keep what the pool calls the
contents.  A call that takes, shrinks, grows or moves replaces a block by another
(`Shifted`) and a free removes one (`Vacated`).  The other half are the refusals: where
the pool has a place, the first fit finds a block, because free neighbours are one block
(`OneBlock`, which rests on `Coalesced`) and because the address rounded up is the
least multiple (`Multiples`); where it has none behind a block, `guestRealloc` does not
grow it (`RoomFits`); and the units the code counts as free are those that are
in no area (`SameFree`).

`SifRpc_proofs` proves, for any services, profiles, clients, servers, sids, threads
and nesting:

| Theorem | Property |
|---|---|
| `RoutesServedHolds` | `RoutesServed` |
| `ClientsFollowServersHolds` | `ClientsFollowServers` |
| `OneCallPerClientHolds` | `OneCallPerClient` |
| `QueuesExactHolds` | `QueuesExact` |

`RoutesServed` follows from `RebuiltServe`, which says what `rebuildRoutes` makes of any
valid layer: every way out of `configure` ends in it.  The next two are parts of
`RpcInv`, with the types of the tables and of the call stacks.  `OneCallPerClient` is
inductive only as a whole: that a call frees its client without freeing another's
needs that no two calls share one, and that a new call shares none needs that every
call under way keeps its client busy.  `Fresh` adds that there are no calls before
`SifInitRpc`, which forgets who is busy.

`QueuesExact` is about links in memory: the walk along a chain spells the list that was
registered.  It is inductive only with `ListsApart`, that no record is in two lists or
twice in one: a link that is written into the chain of one queue must not be met
on the walk of another.  `WalkSteps` unfolds the walk, a recursive function, and
`ChainWalk` says what it meets on a chain; the induction over the length is over a set
of naturals (`AllNaturals`: a set that holds 0 and with n also n + 1 is `Nat`), since the
library's own induction theorem has an operator as a parameter.  `QueuesExactHolds`
assumes `WalksReach`: there are no more records and no more queues than the 1024 steps
after which `SifRegisterRpc` and its kin give a chain up; with more, a record would be
lost without a word, and the property does not hold.

`SynthLink_proofs` proves, for any streams, channels, sample voices, lengths, limits and
bounds:

| Theorem | Property |
|---|---|
| `ChannelsInStepHolds` | `ChannelsInStep` |
| `AnswersExactHolds` | `AnswersExact` |
| `DoneComesBackHolds` | `DoneComesBack` |
| `DataAccountedHolds` | `DataAccounted` |

`ChannelsInStep` is about the audio thread, and hinges on the service: a channel given up
in one batch and fed in a later one would start behind its stream.  `InStep` therefore
follows the data all the way: a request is made for a living channel, data is sent for a
request, the record that names the channel is followed by its data and the end of the
batch comes behind both (`FlushOrdered`, `DataForLiving`), and no stream is described
while data of it is on its way, because its info is under way once at most (`Answered`).
`StreamsInStep` then says that the channels never bent that got data share their sample
and their part of it, and that they share the song's if no bendable channel comes
before them: the leader of a frame is the first channel heard that does not slip
(`LeadingOf`), and it moves by as many whole samples as they do, because it is into the
same part of one.  A bendable channel that leads is into a part of its own, and each change
of leader may move the song by one sample of rounding; nothing is claimed of the song's
position there.  What the poll sends is several sequences put together by `FlattenSeq`, a
recursive function; `FlattenInduction` carries a fact from piece to piece.

`AnswersExact` counts the records the guest awaits an answer to, the answers under way and
those a delivery lost; `DeliveredOf` says that a delivery splits what is due between the
two, whatever fits.  No assumption about the buffer is needed.  For `DoneComesBack` the
invariant looks ahead: `Believed` says what a voice will be once the records on their way
are worked off, so that a start, a stop and a new creation of the same handle in one flush
are told apart by their order.

`DataAccounted` counts samples.  `Coming` is what the flush being walked still brings a
channel; `Balanced` says that what was sent is what was played or dropped, what is held
and what is coming, that nothing comes that the channel does not await, and that it is
not asked of the guest but for what it awaits.  Each step then moves samples from one
term to another: a poll from the reader to the flush (`DataPoll`), a record from the flush
to the channel (`ComingWalk`, `BalancedWork`), a frame from the channel to its position
(`DataAudio`).  A stream's description finds nothing sent: the guest sends nothing to a
stream whose answer it awaits (`Unsent`), and none is described twice.  That what is
awaited is asked for or closed (`AskedCovered`) holds as long as no delivery has lost a
request of the channel or the answer to its stream's info (`Uncut`): a poll that asks a
stream for data finds it ready, because that answer is in the same delivery at the latest
(`AnswerDelivered`), from the exactness of the answers.

Assumptions are `ArenaAssumption`, `IopAssumption`, `RpcAssumption`, `EngineAssumption`
and `LinkAssumption`; TLC evaluates them in the runs.

Every invariant and action property of a passing run is a theorem.  Only model-checked
are liveness and anything about fairness or ENABLED, which the prover does not handle
(`EeLive`, `EeLoopLive`, the last two properties of `Synth`), and the properties that fail.  What recursion computes is proved for two functions,
by induction over a set (above): the walk along a chain, and the offer of bits to the
waiters of an event flag (`OfferedSteps`).  No module that is proved about declares a
RECURSIVE operator: `QueueOps` defines its operators by counting, and `OfferedBits` and
`Walk` are recursive functions.

Some theorems state facts that no run lists: `SuspendAgrees` and `EventsRaiseCheckpoint`
are conjuncts of what the others need, and `Inductive`, `TurnsInOrder`, `EventsAgree` and
`SavesAgree` are the invariants themselves.  All hold for every instance.

## Plan

Done: the kernel (`EeScheduler`) and its safety proofs; the event loop, its abstract
channel and the proofs about both; saved states and the synth with its link, each with its
proofs; the heap, its abstract pool and the proofs that one implements the other; the
IOP's routes and SIF RPC with their proofs.

Left, in this order:

1. The IRQ handler tables: masks, order, and dispatch while handlers add and remove
   handlers.
2. The streaming stubs (CD and MPEG): requests, callbacks and buffers in flight.

## Not modelled

Memory and its registers are data paths; of the timers only the distance to the next
interrupt is kept.  Graphics (GS, VIF1, VU1, the Vulkan and software renderers) is
numeric and bitwise with little control state.  The recompiler, the analyzer and the studio are offline
tools.  File access, audio output and the window are input and output.  The
CD, MPEG, memory card, pad and audio stubs are next in the plan.  Game overrides and
scripts under `ghpc/` have no state of their own that outlives a call, save states and
the synth's bridge excepted.
