# RS65816: models, checks and proofs

RS65816 is a home-built computer around a 65C816 CPU: a CPLD that decodes addresses and
times the bus (`cpld/cpumodule.vhd`), a FreeRTOS V11 kernel ported to it (`src/tasks.c`,
`src/list.c`, `src/queue.c`, `src/port65816.asm`), three heaps (`src/heap_5.c`,
`src/farheap.c`, `src/heapStack.c`), an application that starts the kernel
(`src/rtos65816.c`), a monitor (`src/monitor.c`, `src/kernel.asm`) and a PC emulator
(`emulator/`). Paths in this file are relative to the repository.

This directory holds TLA+ models of the parts whose behaviour is hard to test, TLC runs
over small instances of them, and TLAPS proofs for all instances. `PROJECT.json` lists
every definition with the lines it stands for, every run with its properties, for every
property a plausible bug that breaks it, the hazards, and the disagreements found between
the code and what it says of itself.

## The system

| part | state | operations | what is hard | what makes it correct |
|---|---|---|---|---|
| Bus controller, `cpld/cpumodule.vhd` | slot position, refresh and wait counters, registered strobes | one clocked process | refresh, wait states and selects are decided in different clocks of a slot | one device drives the bus; a CPU cycle ends only when served; the CPU never hangs; DRAM is refreshed |
| Scheduler, `src/tasks.c`, `src/list.c`, `src/port65816.asm` | ready, delayed, suspended, pending and termination lists; tick count; suspension count | the task API, the tick interrupt, the context switch, the idle task | the tick comes between any two critical sections; the tick count wraps; lists are cached; work is put off while the scheduler is suspended | a task is in one list; no sleep is early or late; the highest priority runs; equal priorities share; nothing is freed in use |
| Notifications, `src/tasks.c` | a state and a value per task | wait, notify from tasks and interrupts, clear | an interrupt notifies between "I wait" and the sleep; a wait without end looks like a stop | no notification is lost; a resume never ends a wait |
| Region heap, `src/heap_5.c` | address-ordered free list over several regions, counters | allocate, free, define regions, reset | splitting and joining at the edges of regions; freeing takes two sections | no byte is lost or lent twice; neighbours are joined; counters agree |
| Far heap, `src/farheap.c` | as the region heap | as the region heap, its own `farcalloc` | a duplicate that drifted | as the region heap; what it lends holds nothing of an earlier owner |
| Stack heap, `src/heapStack.c` | as the region heap, one region in bank 0, sizes of 16 bits | allocate, free, lazy set-up | the mark of a block shares its size word; bank 0 has other tenants | stacks stay apart, all bytes come back |
| Queues and semaphores, `src/queue.c` | a ring of items, a count, two event lists, two lock counts | send, overwrite, receive, peek, reset, the forms for interrupts | interrupts work on the queue while a task is on its way into an event list; time-outs on a clock that wraps; each waiter may be overtaken | no wake-up is lost; no call gives up early; the locks come to rest; items come out in order |
| Mutexes, `src/queue.c`, `src/tasks.c` | holder, depth, inherited priorities | take, give, both recursive | the holder's priority changes while it is in any list; a waiter that gives up takes back what it lent | one holder; no inversion; what was lent comes back |
| Event groups, stream buffers, timers | | | not linked into the image | left out |
| Monitor and loader | memory pointer | commands, Intel hex download | a record of no data; bytes stored before their checksum | left out |
| Emulator | CPU registers, `cpu_irq`, event list | run, interrupt | a timer thread beside the CPU thread | left out |
| FatFs, C library, printf, `FreeRTOS-LTS/`, boards, builds | | | vendored, generated or without behaviour | not modelled |

How they interact: `main` takes the array of regions from the stack heap, defines the
region heap with it, creates tasks (TCBs from the region heap, stacks from the stack
heap) and starts the scheduler, which writes a jump to the tick interrupt into bank 0 at
0xDFFA. The heaps protect themselves with `vTaskSuspendAll`, so a task that allocates
meets the scheduler's rules for pending ticks and pending tasks; so does a task that waits
for a queue, which suspends the scheduler while it enters an event list. The idle task frees
tasks that deleted themselves. Every memory access goes through the CPLD.

## The modules

**BusController** is the clocked process: one action per value of `counter`, with the
registered outputs as they are after the edge. The environment is a CPU that puts a new
access on the bus only when phi0 falls. `MCBusController` uses the constants of the VHDL.
**BusControllerProofs** holds its theorems.

**FreeList** has the list algorithms the three heaps share: first fit, split, insertion
with joining. **Heap5** adds the state and entry points of `heap_5.c`. The code between
`vTaskSuspendAll` and `xTaskResumeAll` is one step, since no other task runs in it and no
interrupt allocates; `vPortFree` unmarks and clears its block *before* it suspends the
scheduler, which is a step of its own (`Release`). `vPortGetHeapStats` only reads and is not
modelled. **HeapPromise** is what an application may rely on, without a list; Heap5
implements it (`KeepsPromise`). **FarHeap** adds the `farcalloc` of `farheap.c`, which is
`heap_5.c` once more under other names: one heap serves the requests of both, so what the
run shows holds for either file. **HeapProofs** has its theorems. **HeapStack** is `heapStack.c` at its
real address and size, with the mark in the top bit of a 16-bit size.

**List** is a list of `list.c` that is served in turn: items and the position of
`pxIndex`. **Kernel** has the state of `tasks.c` and its internal functions. There is one
CPU, so only the code of `pxCurrentTCB` runs, and `pc` says where each task goes on inside
the kernel. A critical section is one step; the tick interrupt may come between any two
steps unless `xTaskResumeAll` masks it. The loops of `xTaskResumeAll` are steps of their
own, one per pending task and one per pended tick. Lists that are not served in turn are
sets: the delayed lists are only asked for their least wake time, and tasks that wake
together are made ready in any order. **Scheduler** has the API and the idle task,
**Notify** adds notifications. **Sleep** is the abstract clock: a task told to sleep for n
ticks wakes at the n-th counted tick unless roused, and no tick is lost; the scheduler
implements it with a count that wraps, two lists and a recorded wake time (`KeepsTime`).

**Periodic** adds `xTaskDelayUntil` and `xTaskPeriodicDelay`. Both compute a delay from
three tick counts that may each have wrapped. The history variables `since` and `due` hold
the same times without wrap: how long ago the time was that a task keeps, and in how many
ticks its call should return. A task calls again when the time it keeps has come and before
the count has gone round; who is roused from its delay starts anew.

**TimeOut** is `vTaskInternalSetTimeOutState` and `xTaskCheckForTimeOut` on a tick count
and a count of overflows, both of which wrap. **Queue** is one queue or counting semaphore
over the scheduler. A side is "send" or "receive": `waiting[side]` is the event list,
`lock[side]` counts the waiters *of that side* to be woken at the unlock, so
`lock["receive"]` is `cTxLock`. A call that cannot go on takes the places of the code in
turn, each a step between which interrupts come: *suspend*, *lock* (which also asks for the
time-out), *test*, *place*, *unlock* and *unlocked* (the two critical sections of
`prvUnlockQueue`), then `xTaskResumeAll` and the yield, and *retry*, or *recheck* for a
reader whose time is over. One that sees an item at *recheck* tries a last time, with no ticks
left; if the item is gone again, the call ends in its first critical section (`RetryFails`,
`src/queue.c:1575`). Interrupts send and receive, and only count while the queue is
locked. Two histories serve the properties: `served` holds the tasks that were woken for an
item or a place and have yet to try, `left` the ticks for which a caller still asked to
wait. **Mutex** is a recursive mutex: the steps of Queue, with `xTaskPriorityInherit` before
*place*, `vTaskPriorityDisinheritAfterTimeout` after *recheck* and `xTaskPriorityDisinherit`
in the give. A last try that fails takes nothing back (`TakeFails`): `xInheritanceOccurred` is a
local variable and ends with the call (`src/queue.c:1745`). A TCB that is freed or made starts
anew, with its base priority, no mutexes and in no call (`Anew`). **Ring** is where a queue keeps its items, with the pointers counted in items;
**Fifo** is what a queue promises of them, and Ring implements it (`KeepsOrder`). Queue and
Ring are two views of the same critical sections: the first counts the items and has
everything around them, the second has the items.

The proofs about the kernel are in modules of their own: **SchedulerProofs** (what the list
operators and `Min`, `Max` return, the ready lists and the context switch, the inductive
invariant, what each operation does to the set of ready tasks and that it keeps the invariant, what
follows, and that the highest priority runs), and on top of it **WaitProofs** (the refinement of
Sleep, periodic tasks, notifications), **QueueProofs** (the queue) and **MutexProofs** (the
mutex). **RingProofs** has the theorems about Ring, **HeapProofs** those of the region heap and the
far heap, **StackProofs** those of the stack heap.

Abstractions in Kernel worth knowing: the port's critical sections mask interrupts without
a nesting count, and a yield inside one saves the mask with the task, so a section that
yields is cut at the yield; stacks and registers are left out; the heap calls of
`xTaskCreate` and of the deletion are one section of suspended scheduler; in `Scheduler` no
mutex is held, so base and current priority agree. The kernel is configured (`src/include/FreeRTOSConfig.h`)
with preemption, time slicing and one notification per task, and without timers, queue
sets and tickless idle.

Definitions called `FaultyX` are X with a plausible bug. Nothing uses them; `PROJECT.json`
names for each property the `FaultyX` that breaks it.

## The runs

| run | cfg | what it shows |
|---|---|---|
| bus_controller | MCBusController | strobes never select two devices, DRAM strobes come in order, no CPU cycle ends unserved, the CPU does not hang |
| refresh_lost | MCRefresh | a disagreement: the refresh slot never opens a row |
| region_heap | MCFarHeap | two adjoining regions, every sequence of requests, callocs of both files and releases: nothing lost, nothing lent twice, neighbours joined, counters right, no data of an earlier owner in what a calloc lends, HeapPromise kept |
| stack_heap | MCHeapStack | the stack heap at its real size, requests below 32 KB: stacks apart, all bytes come back |
| scheduler_time | MCPeriodic | delays of 0 to 3 and periods of 2 and 3 on a tick count of 4, nested suspension, stops and resumes: never late, no tick lost, periodic tasks do not drift |
| scheduler_tasks | MCTasks | creation, deletion, priorities, stops, resumes from interrupts, catching up: one home, counts, search, preemption, no switch while suspended; the inductive invariant of the proofs |
| scheduler_fairness | MCFairness | sleepers wake, equals share the CPU |
| created_task_read | MCCreate | a disagreement: a created task's priority is read after it may have been freed |
| notifications | MCNotify | waits with and without end against notifiers, interrupts, stops and resumes: no notification lost, no wait taken for a stop |
| queue | MCQueue | a queue of one place, two tasks that send, receive and peek with time-outs, interrupts at every step of a wait: no wake-up lost, no call gives up early, who waits sleeps, locks belong to the runner |
| mutex | MCMutex | three tasks of three priorities, time-outs, recursion: one holder, no inversion, what was lent comes back, no wake-up lost, also when a waiter is overtaken at its last try |
| queue_items | MCRing | rings of one to four places, every mixture of both ends, overwriting, receiving, peeking, resets: pointers and count agree, items come out in order |

Bounds. Two application tasks and the idle task are enough for the conflicts at hand: a caller,
the task it acts on, and the idle task as the third party the CPU can go to; an interrupt is a
further actor. The mutex needs a third application task, for an inversion has a holder, a waiter
and one between them. The waits of the two higher ones may end, so that either gives up while the
other waits, and the highest can take the mutex between the look and the last try of the other,
which happens in the run (`TakeFails`); the lowest waits without end. One task, the middle one,
nests its takes. No tick comes while the scheduler is suspended in that run: it would be worked
off at the resume, as a tick that comes right after it is, and the queue run has such ticks. Two
priorities give "above", "same" and "below". A tick count of 2 to 4 values wraps within every run,
and delays reach `portMAX_DELAY`, so wake times fall before, at and after the wrap; one or two
pended ticks are "some" and "more than the wake time needs". The bounds are constants of the
modules (`Delays`, `NewPriorities`, `CatchUps`, `MaxNesting`, `MaxPended`, `Mortal`, `Stoppable`,
`Waits`, `Listeners`, `Resets`, `MaxNotified`, `Periods`, `OverflowRange`, `uxLength`, `Lengths`,
`MaxDepth`), each named in its declaration. One overflow count of two values wraps, which the code
allows for. A queue of one place is full and empty within one step of each other, which is where
tasks wait on both sides. The heap runs use regions of a few bytes with a header of one, so that
remainders just below, at and above the split limit occur; HeapStack uses the real numbers.

A `CONSTRAINT` stands for what `main` creates: the two tasks of the periodic and the queue run,
the three of the mutex run, with their priorities, and for which of the three nests. A `VIEW` in
the queue and mutex runs leaves out what is never read again: the wake time of a task that is
awake, and the time of day while nobody sleeps or has a time-out; in the mutex run also the
history `left`, which none of its properties reads, and of the overflow count, which has two
values there, all but whether it differs from that of a time-out. No run uses symmetry: each has a
set that tells the tasks apart.

Deadlock is checked in every run but those of the heaps. They switch it off:
an application may never call again.

Fairness. The oscillator never stops (weak fairness of the bus process). For the scheduler:
strong fairness of the tick, because the timer holds its request until interrupts are
unmasked, so a tick comes even if masks come and go; weak fairness of the kernel's own
steps, because the CPU executes the running task, whose steps inside a call need nothing
else; weak fairness of the start of the scheduler. Nothing is assumed of the application:
it need not call anything again. In that run it does not suspend the scheduler, or it could
keep it so for ever.

## What is proved

For every refresh interval and power-up value, in `BusControllerProofs`:
`TypeCorrect`, `Exclusive` (the bus never has two drivers), `EveryCycleServed` (phi0 never
falls on an access that was not served) and `RowFirst` (a column is strobed only for the
access on the bus, after its row). `OneDevice` and `CycleServed` are not inductive: a step
can only be judged knowing which access set a strobe that another clock of the slot clears.
The inductive invariant `IInv` therefore adds `Decoded`: what each registered strobe holds,
as a function of the position in the slot, the two counters and the access on the bus. The
only assumption is that the refresh interval is at least one slot.

For every finite set of tasks, number of priorities, tick width and choice of the bounds, of
the specification `Spec` of `Scheduler` if no other is named:

| theorem | module | says |
|---|---|---|
| Inductive | SchedulerProofs | the inductive invariant `IInv` holds |
| TypeCorrect | SchedulerProofs | `TypeOK` |
| EveryTaskHasOneHome | SchedulerProofs | a task that exists is in one list, once, and the running task is never freed |
| SearchAlwaysFinds | SchedulerProofs | the context switch finds a task, and none is above where it starts |
| NothingIsLeftPending | SchedulerProofs | resuming the scheduler works everything off |
| NoTaskIsLate | SchedulerProofs | the recorded wake time is never too late, across the wrap |
| CountsAreRight | SchedulerProofs | the counts of tasks are the sizes of the lists |
| SuspendedMeansAlone | SchedulerProofs | no switch while the scheduler is suspended |
| TimeIsKept | WaitProofs | the scheduler implements Sleep |
| DelaysEndOnTime | WaitProofs | of `PeriodicSpec`: every call that delays returns at the tick it asked for, wherever the count wraps |
| PeriodsKeepTime | WaitProofs | of `PeriodicSpec`: it implements Sleep too |
| HighestReadyRuns | SchedulerProofs | no ready task waits for one of lower priority |

None of these is inductive. `IInv` puts together what they need from each other:

- `Typed` has the places of the calls in progress (`Place`), without which nothing can be
  said of the next step; `Homes` has the lists, apart from each other, together the tasks
  that exist, and the pending tasks among them.
- `TopKnown` bounds the ready priorities by `uxTopReadyPriority`; with the idle task always
  ready (`Alive`) the search ends. The idle task stays ready because no call that blocks,
  stops or deletes can be its own.
- `Suspension` says that calls between `vTaskSuspendAll` and the end of `xTaskResumeAll`
  belong to the running task and fit the suspension count. So a task that puts itself to
  sleep does so with no tick being counted, and its wake time is right.
- `Away` says that a running task in no ready list is on its way to a yield; `Owned` that
  memory not yet or no longer a task belongs to one call, so a TCB is added once and freed
  once, and the counts go with the lists.
- `NeverLate` and `CountsAgree` are properties that happen to be inductive with the rest.

The step simulation of Sleep looks at `TicksLeft` before and after each step: a counted tick
takes one from every sleeper, whichever list it is in and whether or not the count wraps; a
task that goes to sleep gets what it asked for; any other step leaves a sleeper its time or
rouses it. For periodic tasks `PeriodicInv` adds `Kept` (the tick count is the time a task keeps
plus the ticks since, less at most one turn of the count) and `Awaited` (a call is due when
its task is woken). From `Kept` the two calls' comparisons of three tick counts are shown to
be the comparison of the period with the ticks since (`UntilCounts`, `PeriodCounts`), and a
call that suspends the scheduler on its way keeps `IInv` (`DelayForKeeps`). Preemption needs a second invariant, `Preempts`, proved on top of `IInv`: a ready
task above the running one means that a yield is pending, or that the running task is in a
call that will yield, or that it has just created that task and has yet to compare.

Notifications and queues add actions to the scheduler and new places where a task can be between
two critical sections. Of `NotifySpec`, in `WaitProofs`:

| theorem | says |
|---|---|
| NotifyInductive | the invariant `NotifyInv` holds |
| StoppedTasksAreAlwaysKnown | `prvTaskIsTaskSuspended` tells a stopped task from one that waits without end |
| EventItemIsFree | a notifier never links an event list item that is in a list |
| NotifiedTasksWake | no notification is lost between the check and the sleep |
| WaitersHaveOneHome | a task is in one list here too |

Of `QueueSpec`, for every length of the queue, choice of calls and widths of both clocks, in
`QueueProofs`:

| theorem | says |
|---|---|
| QueueInductive | the invariant `QueueInv` holds |
| WaitersAlwaysSleep | a task waits in one event list, once, and sleeps while it does |
| LockIsTheRunners | the queue is locked only within a call of the running task |
| CallsGiveUpInTime | a call gives up when its time is over, not before, and never sleeps for less than what is left |
| QueueingHasOneHome | a task is in one list here too |
| WakeUpsAreNotLost | no wake-up is lost between calls, interrupts and the unlock |

`NotifyInv` adds to `IInv` where a task is that is marked as waiting, and how one that sleeps is
marked (`WaitersAwait`, `SleepersWait`): the mark is set in one critical section and the sleep
entered in another, and a notifier decides by the mark alone. `Undecided` and `Decided` say what the
waiter may rely on between the two.

`QueueInv` adds that who waits is in a call of that kind (`WaitersInCall`), with the place it has
reached and the side it waits on (`Entering`, `Trying`); that the queue is locked at the places between *lock* and *unlocked*, and
that the unlock does the receivers first (`HoldsLock`); that the time-out structure of a call,
`xTimeOnEntering` and the overflow count with it, allows for the ticks that are left
(`TimesKept`, across the wrap of either count); and that the idle task calls no queue
(`IdleIsOut`), so it stays ready. The steps of the kernel that the calls share move only tasks
that wait (`Rearranges`, and the lemmas about it in SchedulerProofs), and keep `IInv` for that
reason.

`WakeUpsAreNotLost` needs a third invariant, `WakeInv`. What became available is owed to the
tasks that were woken, or counted in the lock (`OwedAt`); a woken task is on its way to try and
waits no more (`ServedTry`); a caller goes into the event list only after it looked in a locked
queue (`Looked`). The lock count stops at the number of tasks (`src/queue.c:277`), so in a
long queue it may be less than the items that came in: then it is no less than the number that
waits, and the unlock wakes them all, which is the second half of `NoWakeUpLost`. The theorem
has two hypotheses. Tasks that wait are not deleted (`Immune`): a woken task that is deleted
before it tries takes its wake-up with it, in the code as in the model. And a queue that is reset
has one place: a reset frees all places and wakes one sender, as the comment at
`src/queue.c:327` means it to.

Of `MutexSpec`, for any number of tasks, depth of recursion and time-outs, in `MutexProofs`:

| theorem | says |
|---|---|
| MutexInductive | while no holder is freed, the invariant `MutexInv` holds |
| HoldersStand | if no task is deleted, no holder is freed, and `MutexInv` holds |
| MutexHasOneHolder | while no holder is freed, a taken mutex has one holder, who waits for nothing, and a free one none |
| MutexWaitersSleep | while no holder is freed, waiters sleep, locks are the runner's, each task has one home, here too |
| MutexCallsGiveUpInTime | while no holder is freed, a call gives up when its time is over, not before, here too |
| MutexLends | if no task is stopped or deleted, the invariant `LendInv` holds |
| MutexHolderCarriesWaiters | then the holder has the priority of whoever waits, or a task of that priority is awake in its call and sees to it |
| MutexNoStrayPriority | then who is above its base priority holds the mutex, and one that lent so much is still in its call and sees to it |

Four of them speak of behaviours in which no task that holds the mutex is deleted and freed
(`MutexSpec /\ []HolderStands`). It is what an application has to see to, for the code does not:
`xMutexHolder` goes on pointing at the freed TCB, a task made in that memory has
`uxMutexesHeld` 0 and is taken for the holder, and `xTaskPriorityInherit` looks through the
pointer whatever is there. The model has the cleared counts (`Anew`) and not what is read
from freed memory, so it says nothing of what comes after. Tasks that do not hold the mutex may be
deleted, those that wait for it too. Where `Mortal` is empty the hypothesis always holds
(`HoldersStand`), so the last three theorems, which assume that, do without it.

`MutexInv` is `QueueInv` with four parts. The holder, the count of the queue, the count of mutexes
held and the depth of recursion agree (`Agreed`); `HolderIsOut` says that the holder is in no call
that may wait, which is why it is never found in the event list; `TakesOnly` that the calls that wait
are those that take the mutex; and `Lent` that no task is below its base priority and only the
holder is above it. The last is needed for what the others say of the ready lists: inheritance
moves a task that may or may not be in one, and the list it is in is that of the priority it had. The actions of the wait change the
priority of another task than the one that runs, which nothing in the scheduler or the queue does.

The last three theorems have a hypothesis on the constants, `Steady`: `Mortal` and `Stoppable` are
empty, as in the run `mutex`. It is needed. A waiter that is stopped after it was woken, and
resumed when its time is over, leaves its call without a word if it lent nothing; meanwhile a task
below those that still wait may have taken the mutex, and nobody raises it: `xQueueSemaphoreTake`
raises the holder when a task comes to wait, and nothing looks at who waits when the mutex is taken.
With four tasks, the second of which may be stopped, TLC finds that in 58 states. A task that
lent its priority and is deleted does not take it back either.

"Sees to it" (`WillSee`) means that the task will take back what it lent or lend anew; who tries
a last time, with no time left, does neither, and is not counted. That this exit leaves nothing astray
is because such a task saw the mutex free: what it lent ended with that give.

`LendInv` is `MutexInv` with what the waiters know of the holder. `Orderly`: the event list is
sorted by priority, the lock counts nothing (nobody gives from an interrupt), and no yield is left
over. `Found` and `Offered`: who goes into the event list found the mutex taken and lent its
priority. `TimeLeft`: who sleeps, or goes back because the queue changed, has time left, so that
it sees to it. `Loans`: who waits above the holder's base priority has `xInheritanceOccurred` and
so will take its priority back (`Owed`); what the holder borrowed is from such a task
(`Borrowed`); and if the holder is below one that waits, such a task is awake (`Carried`).
`Succession` speaks of a free mutex that tasks wait for: one that was woken is on its way, none
that waits is above it, and nobody it is above goes on to run. Without that part the others are
not inductive: a task that takes the free mutex raises nobody, so it must not be below those that
wait. The exception is a giver that has suspended the scheduler and takes the mutex again; those
above it lent something to it before, which the last conjunct of `NextUp` says.

For every set of items and every length, in `RingProofs`: `PointersAlwaysMeet` (the write
pointer lies behind the last item counted from the read pointer, whichever end the items
came in at) and `OrderIsKept` (the ring implements Fifo). `PointersMeet` with the types of
the length and the memory is inductive; that each step of the ring is a step of the queue
rests on the items lying apart (`PlacesApart`). The only assumption, `RingAssumption`, is
that lengths are positive and that nothing received is told from every item.

For every array of regions, header size, widths of the counters, and sets of requests and
array requests, of the specification `FarSpec` (`heap_5.c` with the `farcalloc` of
`farheap.c`), in `HeapProofs`:

| theorem | says |
|---|---|
| BytesAreTiled | every usable byte is in one block, free or owned; no block leaves its region |
| ListStaysOrdered | the free list is in address order and ends with `pxEnd` |
| RefusesOnlyFull | a request is refused only if no run of unowned bytes in a region could hold it |
| CountersAgree | the counters agree with the list and the blocks lent |
| FreedDataIsGone | what an application wrote lies only in memory it has, if a `size_t` can count the payload of a region |
| HeapKeepsPromise | the heap implements `HeapPromise` |

The invariant is `HeapInv`. Its part `LayoutInv` says that the list is in order and ends at
the last region (`Listed`) and that the free and owned blocks (`Shape`) are apart, each in one
region, together cover every usable byte, and that no two free blocks touch unless the first is
an end marker. This is stronger than `Tiling`, which only counts bytes, and it is what makes
first fit complete: a run of unowned bytes is covered by free blocks, of which none can end
inside the run. `CountInv` ties the counter of free bytes to the bytes of the list and the
difference of the two call counters, which wrap, to the number of blocks lent; `NoDataLeft` is
inductive with these. Its theorem has a hypothesis, `RegionsFitSize`: sizes of blocks are
`unsigned long`, but `vPortFree` clears a block with `memset`, whose count is a `size_t` of 16 bits
(`memsetCount`, `src/heap_5.c:431`). In the regions of the program, 64 KB each with two headers
(`src/rtos65816.c:121`), the count is exact; of a larger block the remainder of its size would be
cleared. A grant and a release are first shown to be a cut and a join of blocks
as sets (`ShapeGranted`, `ShapeInserted`), then that the code's walk through the list
makes that cut and that join (`TakeIs`, `FreeIs`). The list that `vPortDefineHeapRegions`
builds satisfies `Shape`, and its count of bytes, a recursion over the regions, is shown right
by looking at the first region for which it would not be.

The stack heap has the same list in one region, with the mark in the top bit of a size word. In
`StackProofs`, for every size of the memory below twice the mark and all requests that stay away
from it:

| theorem | says |
|---|---|
| TaskStacksApart | no two blocks in use overlap, and none overlaps a free block |
| StackBytesComeBack | when nothing is in use, the memory is one free block again, counted whole |

Its invariant `StackInv` is `Shape` for the free blocks and the blocks in use without their
marks, that no size without the mark reaches it (so the marks are told from the sizes), and the
count of bytes. The proof is in `HeapProofs`, whose lemmas on cuts and joins apply because the walks are
those of the region heap (`SameOperators`); there the memory is the one region of `Regions`
(`StackPlace`). `StackProofs` puts the memory of `heapStack.c` in its place (`PlaceIsRegion`) and
shows that the heap spoken of is then `HeapStack` (`SameSpec`). Hypothesis: no request has a block
that could reach the mark, while larger ones are refused (`OffTheMark`). Without it the theorem is
false, which is disagreement 3 below; the program asks for task stacks of some hundred bytes.

Assumptions of the heap: the array of regions is not empty and in address order, as
`vPortDefineHeapRegions` asserts, and a region is larger than a header (`RegionsAssumption`);
headers have a size (`HeaderAssumption`); a `size_t` can count more than a header and the call
counters wrap (`WidthAssumption`); requests are numbers (`RequestAssumption`); `NULL` is no address (`AddressAssumption`);
the memory of the stack heap starts above 0 and is smaller than 64 KB, twice the mark
(`StackHeapAssumption`). TLC evaluates them in
`region_heap` and `stack_heap`.

Assumptions of the scheduler: the set of tasks is finite and has the idle task (`TaskAssumption`); the tick
has at least two values and priorities are numbers (`WidthAssumption`); delays and ticks to
catch up fit the tick type, priorities are below `configMAX_PRIORITIES`, and the idle task
is neither stopped nor deleted (`BoundAssumption`); periods are ticks and not zero, as the
two calls assert (`PeriodAssumption`). TLC evaluates each in every run of its module.

Assumptions of notifications and queues: waits are for numbers of ticks, and the idle task waits
for no notification (`NotifyAssumption`); the queue has places, it is tasks that call it and
reset it (`QueueAssumption`; that the idle task calls nothing is a guard of the model, for the
idle task of `src/tasks.c` has no application code), and the overflow count has at least two values
(`OverflowAssumption`). A mutex is a queue of one place, a task waits only to take it, and nobody
changes priorities (`MutexAssumption`). That no task is stopped or deleted (`Steady`) is a hypothesis of
three theorems, not an assumption of the model; so is that no holder is freed (`HolderStands`), of
four.

Only model-checked: all liveness (TLAPS has neither fairness nor ENABLED). What the
theorems of `Scheduler` say of time and of preemption is proved for `Spec` (of time for
`PeriodicSpec` too); that it holds with notifications, queues and mutexes added is not.

## Disagreements found

Two are runs of their own; `PROJECT.json` quotes both sides.

1. `cpld/cpumodule.vhd:121`: the slot taken for refresh pulses a column and withholds the
   row, so the DRAM is never refreshed (`refresh_lost`).
2. `src/tasks.c:2132`: the new task's priority is read after the critical section; with a
   creator of idle priority the task may have run, deleted itself and been freed by then
   (`created_task_read`).

Others need no model to be seen, and are written down here:

3. `src/heapStack.c:87`: the mark shares the size word of a heap larger than 32 KB. A block
   of 32 KB or more that is granted whole is marked already, and its release loses 32 KB of
   it. The run asks for less.
4. `src/heapStack.c:1`: the stack heap (0x0200 to 0xE1FF) reaches over the jump to the tick
   interrupt that `src/port65816.asm:135` writes to 0xDFFA.
5. `src/farheap.c:491`: `farcalloc` clears `xSize` bytes, not the `xNum * xSize` its comment
   at line 489 has in mind.
6. `src/queue.c:1062`: a giver that falls back to its base priority yields at once if nobody
   waits for the mutex, as `src/tasks.c:6934` explains it must; if a task of low priority
   waits, the giver does not yield, and a ready task between its base priority and the one
   it had waits for the next tick. `HighestRuns` with the model of mutexes shows it.

(`src/` in the file names above is the repository's own `src` directory.)

## Not modelled

- Event groups, stream buffers and software timers are not linked into the image. Each would
  be a module over `TimeOut`, as Queue is.
- The emulator is a test tool for a PC. Its one hazard, a timer thread that sets a bit of
  `cpu_irq` beside the CPU thread that clears it, is two statements; the interpreter of
  instructions is a table.
- Monitor and hex loader are one sequential loop over a serial line; what is hard there (a
  record of no data, a checksum that comes after the bytes are stored) is listed with the
  hazards.
- FatFs, the FreeRTOS distribution under `FreeRTOS-LTS/`, the C library's listings and the C
  that a VHDL simulator generated under `cpld/isim/` are vendored or generated. They are
  nearly all of the repository's lines: the program itself is some 5% of them.
- Of the kernel: a task that holds two mutexes, `vTaskPrioritySet` of a task that waits or
  has inherited, the deletion of a queue or of a waiter, `xTaskDelayUntil` of a task that
  was roused from it and comes back before its time. Queue sets, the registry, tickless idle
  and run-time statistics are not configured. The queries change nothing.
- Of the port: registers, frames on the stacks and bank registers.

## Plan

1. Proofs: preemption with notifications and queues.
2. A task with two mutexes, and `vTaskPrioritySet` of a task that waits.
3. Event groups and the indices of stream buffers, should they be linked.
4. The emulator's interrupt line and the loader of hex records.
