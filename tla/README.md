# A TLA+ development of kangaroos

kangaroos is a preemptive real-time kernel for one Cortex-M core: tasks with
fixed priorities, a 1 kHz SysTick, a context switch in PendSV, and the
primitives tasks synchronise with. This directory models its scheduling and
synchronisation in TLA+, checks the models with TLC on small instances, and
proves with TLAPS every safety property and every refinement that the runs
find to hold.

Paths below are relative to `src/kangaroos/src/` of the repository.

## 1. The system

### Components

| part | state it keeps | operations | correct when |
|---|---|---|---|
| scheduler (`kernel/scheduler.rs`) | `CURRENT`, `ALL_TASKS`, `TICK`; in each TCB `state`, `priority`, `all_next` | `svc_first_task_sp`, `pendsv_save_and_switch`, `find_next`, `tick`, `unblock`, `block_and_push`, `wait_list_pop_highest` | the highest Ready task runs or a switch is on its way; peers take turns; sleepers wake |
| kernel start (`kernel/mod.rs`, `idle.rs`) | hardware registers | `start`, `systick_handler` | the first task is the highest one |
| task control block (`kernel/tcb.rs`, `storage.rs`) | one per task | constructors | fields are written only by the parts above |
| task API (`task.rs`) | - | `spawn`, `yield_now`, `sleep`, `sleep_until`, `exit` | no sleep is short; a task executes only while Running |
| port (`port.rs`, `arch/`) | PRIMASK, PENDSVSET | `interrupt_free`, `trigger_pendsv`, stack frames | critical sections are atomic |
| Mutex (`sync/mutex.rs`) | owner, wait list; the owner's priority | `lock`, `try_lock`, drop of a guard | exclusion, inheritance and its end, no lost waiter |
| Condvar (`sync/condvar.rs`) | wait list | `wait`, `notify_one`, `notify_all` | no lost wake-up; the guard is a guard again |
| Semaphore (`sync/semaphore.rs`) | count, wait list | `take`, `try_take`, `give` | tokens are neither lost nor made; nobody waits beside one |
| EventGroup (`sync/event_group.rs`) | flags, two wait lists, `wait_ptr` | `set`, `set_from_isr`, `clear`, `wait_any`, `wait_all` | a flag goes to one task; nobody waits for what is there |
| Channel (`channel/mod.rs`) | ring, two wait lists, `wait_ptr` | `send`, `try_send`, `recv`, `try_recv` | one FIFO queue; nothing uninitialised is received |
| Once (`sync/once.rs`) | state, wait list | `call_once` | the closure runs once and all callers wait for it |
| Pool (`mem/mod.rs`) | slots, free list, wait list | `alloc`, `alloc_blocking`, drop of a box | no slot has two owners, none leaks |
| Timer, Instant, Duration (`timer/mod.rs`) | absolute deadlines | `wait`, arithmetic | periodic deadlines do not drift |
| macros, examples, build files | - | - | - |

### How they interact

Everything goes through the TCBs. A primitive blocks its caller with
`block_and_push` and wakes others with `unblock`, in a critical section; if a
switch is due the caller executes `trigger_pendsv()` *after* it. SysTick runs
`tick()`, which wakes sleepers, charges the slice of the running task and may
request a switch. Interrupt handlers of the application may call the operations
that do not block. Condvar gives up and takes back a Mutex. Channel, Pool and
EventGroup pass data through `wait_ptr` of a parked task.

### What is hard

* The window between the critical section of a blocking call and its switch: a
  tick, a wake-up or another switch may fall into it.
* PendSV has the lowest priority and masks nothing, so handlers run inside it.
* `sleep` reads the tick and enters the state in two critical sections.
* A woken owner, receiver or waiter has been given something before it runs.
* Wait lists are intrusive and share one link per task.
* Priorities change while tasks wait in priority-ordered lists.
* Liveness rests on slices, the starting point of `find_next`, and `>=`.
* Closures of `call_once` and `T::drop` of pooled values run between critical
  sections and may themselves block.
* Deadlines are words that wrap, compared with a tick that does not.

`PROJECT.json` lists these hazards line by line, with the properties that would
catch each of them, and says which ones no property covers yet.

## 2. The models

| module | models | extends |
|---|---|---|
| `Kernel` | TCBs, SysTick, PendSV, launch, the task calls that need no object, the shared wait-list steps | - |
| `Scheduler` | a system of tasks that use the kernel only | `Kernel` |
| `Mutex` | `lock`, `try_lock`, unlock, exit | `Kernel` |
| `PriorityLock` | what Mutex promises: a lock handed over by base priority | - |
| `Condvar` | `wait`, `notify_one`, `notify_all` | `Mutex` |
| `Handshake` | a client of Condvar: the flag pattern `condvar.rs` documents, and locks, try-locks, drops and exits beside it | `Condvar` |
| `Semaphore` | `take`, `try_take`, `give`, by tasks and handlers | `Kernel` |
| `Tokens` | what Semaphore promises: a bag of tokens | - |
| `EventGroup` | `set`, `set_from_isr`, `clear`, `wait_any`, `wait_all` | `Kernel` |
| `EventWord` | what EventGroup promises: every flag set is given once at most | - |
| `Channel` | `send`, `try_send`, `recv`, `try_recv`, by tasks and handlers | `Kernel` |
| `Fifo` | what Channel promises: one bounded FIFO queue | - |
| `Pool` | `alloc`, `alloc_blocking`, drop of a box, by tasks and handlers | `Kernel` |
| `Allocation` | what Pool promises: slots handed to one owner each, by priority, with their values | - |
| `Once` | `call_once` | `Kernel` |
| `LazyPool` | a system of both: Onces whose closures allocate from a pool | `Pool`, `Once` |
| `Timer` | `sleep`, `Timer::after`, `every`, `wait` with the absolute, wrapping deadlines of the code | `Kernel` |
| `TimerWaits` | `Timer` with a history of the waits that have completed | `Timer` |
| `Boot` | spawning, the idle task, the walk that picks the first task | - |
| `MC*` | the instances TLC checks | |
| `*Proofs` | theorems (section 5) | |

### State and steps

* **One step is the code between two points where an exception may be taken.**
  A critical section (`port::interrupt_free`) is one action. The
  `trigger_pendsv()` behind it is another one, `Trigger`: the call is then at
  `pc = "trigger"`. `pc = "return"` is the instruction after it, which the task
  reaches when it has the CPU again.
* **Exceptions.** SysTick and the handlers of the application may come between
  any two steps. A pending PendSV is taken before Thread mode goes on
  (`Thread` requires `~pendsv`). A handler's call is one action: its critical
  section and its `trigger_pendsv()` cannot be told apart by what may come
  between them.
* **PendSV is two steps.** `PendSVEnter` puts the outgoing task back,
  `PendSVSwitch` picks the next one. (A tick that comes before the outgoing task is
  put back finds it Running and can only request the switch once more, so the
  entry of the handler and that store are one step.) `seen` holds the tasks that were Ready at
  entry. `find_next` may or may not see a task that became Ready since then,
  for its walk has passed it or has not; the model lets it miss any of them,
  which allows a few combinations that one order of the list does not.
* **Time is relative.** In `Kernel`, `left[t]` is the distance of the deadline
  from `TICK`, 0 once it has passed, so the models need no bound on time.
  `Timer` keeps `TICK` and the deadlines as the code does, modulo `Modulus`, and
  its `TimeAgrees` says that the two tests agree at every point of a sleep. Its
  `call` and `due` are history variables: the deadline without the wrap.
* **Two critical sections, one call.** `sleep` and the drop of a `PoolBox` are
  two actions each (`DropValue` destroys the value and `T::drop` may do anything
  a task does; `DropSlot` gives the slot back). `alloc_blocking` reads the number
  of its slot from `wait_ptr` after the critical section, whether it has waited
  or not, so it passes through `pc = "return"` either way.
* **Boxes move.** `PoolBox` is `Send`, so `boxes` counts the boxes of a slot and
  does not say who has them.
* **The list of tasks.** Tasks are numbered by their place in `ALL_TASKS`, head
  first; `spawn_into` prepends and the idle task is registered last, which makes
  it number 1. The theorems about `Boot` show that the list is a chain and that
  the walk of the launch ends at a task nobody outranks.
* **List walks are stated by what they return**: `IsNext` (`find_next`), `IsFirst`
  (the launch), `IsHighest` and `Popped` (`wait_list_pop_highest`), each with
  the tie-break of the code. The scans of `EventGroup.set` are recursive
  functions over the places of the list, for there the order of the walk decides
  who gets which flag.
* **Payloads.** `slice[t]` is the payload of Ready and Running, 0 otherwise. The
  `wait_next` payloads of Blocked are the sequences `waiters`, `parked` and so
  on. The deadline of Sleeping is in `left`.
* **Calls that change nothing** (`try_lock`, `try_take`, `try_send`, `try_recv`
  that fail, reads) are stutters.
* **What tasks do** is up to the application. The constants (`Yielders`,
  `Sleepers`, `Lockers`, `Masks`, ...) say who may call what; a task may call it
  at any time it has the CPU, in any order, or never.

### What the models assume of the application

A task does not lock a mutex it has a guard of (it would wait for itself), a
guard is dropped by the task that has it (`MutexGuard` is `!Send`), in
`Handshake` each condition has a mutex of its own and a task that is past a wait
locks, and one that has set a flag notifies, before it calls anything else; a
task is spawned once, a wait on an event group has a mask, a channel has room for one
message, and some task is above the idle task. In `LazyPool` closures call no
`Once` and tasks do not exit; in `Timer` the uptime stays below the modulus,
which the comment on `Instant::checked_duration_since` assumes too. A handler
that calls `set_from_isr` may request the switch it is told to, or drop the
result.

## 3. The runs

Each run is named after its `.cfg`. Task 1 is always the idle task.

| run | instance | what it shows |
|---|---|---|
| `sched_mixed` | two peers and a third task below; yields, sleeps of 0 to 2 ticks, exits | `KernelTypeOK`, `RunsOnlyWhenRunning`, `PreemptionPending`, `SleepsLongEnough`; `SleepersWake` and `TopTasksRun` under fairness |
| `locks` | a producer between a low and a high consumer; a mutex with a condition variable and one without, one guard each; the low one also uses `try_lock`; interrupts that notify; tasks sleep and exit | `HandshakeConsistent` (one place in one list), `MutualExclusion`, `PriorityInheritance`, `BoostHasACause`, `NoLostWakeUp`; `ImplementsPriorityLock`; `TopTaskLocks`, `TopConsumerWakes` |
| `sem_mixed` | two peers and a task above; one semaphore given, one tried by handlers; maxima 1 and 2 | `Consistent`, `NoTokenWhileWaiting`, `PreemptionsKept`; `ImplementsTokens` (a bounded bag of tokens, one of them perhaps on its way to a woken task; that the highest waiter is served is not part of it); `TopTaskTakes` |
| `channel` | three tasks and handlers on a channel of two places and two messages | `Consistent`, `WaitersHaveReason`, `RecvReturnsAMessage`, `ImplementsFifo`, `TopTaskReceives` |
| `events` | three tasks and three flags with overlapping masks; a task sets and clears, handlers set two flags at once and may drop the result | `Consistent`, `NoSatisfiedWaiter`, `ImplementsEventWord`, `TopTaskReturns` |
| `lazy` | two peers and a task above race to a Once; a pool of two slots; handlers allocate and drop | `Consistent`, `SlotsHaveOneOwner`, `OnceRunsOnce`, `ImplementsAllocator`, `TopInitialiserReleases` |
| `timer` | two tasks, delays of 1 and 15 and a period of 2 ticks, words of 4 bits | `TimeAgrees`, `ReturnsWhenDue` (not early; a late periodic timer once per tick at most), `WakesWhenDue` (not late, no drift) |
| `sched_starve`, `sem_missed`, `mutex_nested`, `mutex_try`, `timer_past` | instances of the same modules | a claim of the repository that the code does not keep (section 4) |

`locks` checks `Mutex`, `Condvar` and their client together: `Handshake` has every
action of `Mutex`, and besides the documented use of a condition variable its
tasks lock, try, drop and exit as they like. `Mutex` has a specification of its
own, `Spec`, without condition variables and with nested guards, for the runs of
section 4 and the theorems. No run checks `Boot`: its properties are proved, for every
number of tasks (section 5).

`Consistent` is, in each module, the type invariant and "a task is Blocked
exactly while it is in the list of what it waits for, once": the wait lists are
intrusive, so a task in two lists, or in none, is the way they fail.

The bounds are of the instance only (tasks, objects, durations, capacity). The
one bound in an action is `Horizon` of `Timer`, the last tick; nothing moves
after it, so `timer.cfg` and `timer_past.cfg` do not check for deadlock. Six ticks see a period of
two pass twice and be late once, a delay of 15 wraps a word of 4 bits from tick
1 on and does not at tick 0. The other bounds are chosen so that the
interesting cases happen: three user tasks are the owner, the waiter and the one
between them of a priority inversion, or two waiters and the one that wakes
them; two priorities with peers show round robin and ties; two mutexes show
that a boost follows the right one; a ring of two places wraps and fills with
three messages on their way; three flags give masks that overlap and one that
does not. Slices of one or two ticks make them expire often; in
`lazy` and `timer` slices are 0, which the code takes for one tick, to keep the
state small.

### Fairness

* WF of `Launch`, `SysTick` and `PendSV`: the hardware takes a pending
  exception, and the timer keeps running.
* SF of `TickRunning`: ticks do not always fall into the few instructions
  between a blocking critical section and its switch. The timer has a period of
  a millisecond and is not synchronised with the code.
* SF of the rest of a call that is under way: a task that gets the CPU again and
  again executes its instructions.
* `Handshake`: SF of dropping a guard, and of the client's loop. A task
  that has a guard and the CPU for long enough drops it. A producer that has set
  a flag notifies; nothing obliges it to set one.
* `Semaphore`, `Channel`, `EventGroup`: WF of the handlers that give, send and
  set, for the liveness properties are about signals that keep coming.
* `LazyPool`: SF of the end of a closure and of `T::drop`, for a task that gets
  the CPU again and again; WF of the handlers that drop boxes.
* `Timer` states none: its properties are about steps.

Nothing obliges a task to call anything, or to stop computing; in particular
`TopTaskLocks` holds although a task of middle priority may compute for ever.

## 4. Where code and words differ

These runs violate a property that a comment or the repository's README states.

* `sem_missed`: an interrupt that gives a semaphore while PendSV executes. The
  woken task is compared with the outgoing one, `find_next` has walked past it,
  and a lower task runs until the next tick. The comment on
  `pendsv_save_and_switch` says that no other handler runs concurrently.
  `PreemptionsKept` (run `sem_mixed`) says that this is the only way a
  preemption is forgotten and that the next tick that finds a task running
  makes up for it.
* `sched_starve`: `tick()` returns on preemption before it charges the running
  task's slice. With a sleeper above them that wakes on every tick, one of two
  peers never runs.
* `mutex_nested`: unlocking restores the base priority although the task owns
  another mutex a higher task waits for.
* `mutex_try`: `lock()` boosts the owner however it locked. The documentation of
  `try_lock` (`sync/mutex.rs:131-135`) says that no boost is applied to a holder that
  used `try_lock`, and warns of unbounded inversion. `TriersAreNotBoosted` states
  that claim for a task that only uses `try_lock`; `PriorityInheritance` and
  `TopTaskLocks` (run `locks`) state what the code does, which is better.
* `timer_past`: a second `wait()` for a one-shot timer sleeps until the next tick.
  Its documentation (`timer/mod.rs:177-179`) says that it returns immediately, which
  `LaterWaitsDoNotSleep` states. `TimerWaits` adds the history the sentence needs.

Met while modelling and without a run of their own:

* With no task above `u8::MAX` the launch dereferences null; the documentation of
  the idle task (`idle.rs:18-20`) says there always is a task to run.
  `FirstIsHighest` (of `Boot`) says that this is the only such case.
* `sleep(d)` is documented to last at least `d` (`task.rs:170`); a deadline beyond
  the range of the counter wraps and ends at the next tick. `ReturnsWhenDue`
  excepts it.
* `mem/mod.rs` lets `T::drop` run unrestricted. One that blocks holds a slot that
  is nobody's, and may wait for the very slot; `TopInitialiserReleases` excepts
  it, and is violated without the exception.
* Spawning a TCB twice closes `ALL_TASKS` into a cycle although `all_next` is
  documented as set once; `exit()` leaves owned mutexes locked.

## 5. The proofs

For any number of tasks, any priorities, slices, durations, objects, capacities,
masks and widths of the tick counter; the constants satisfy the named `ASSUME`s
of the modules only, which TLC evaluates on every instance, and `BootAssumption`,
which is a hypothesis of the theorems about `Boot`.

| module | theorems |
|---|---|
| `KernelProofs` | `KernelStepType`: every kernel step keeps `KernelTypeOK`, for every module that extends `Kernel`. Lemmas for all of them: how each kernel step changes `state`, `pc` and `pendsv` (`KernelInv`), what parking a task, waking one and waking many does, also to a preemption that is due, lists as sequences without repetition. Of `Scheduler`: `SchedulerTypeCorrect`, `OnlyRunningTasksRun`, `NoMissedPreemption`, `NoSleepIsShort` |
| `BootProofs` | `AllTasksIsAList`, `NobodyOutranksTheFirst` |
| `MutexProofs` | `GuardsExclude`, `NoWaiterIsLost`, for nested guards and for tasks that exit with guards too; with `MaxHeld = 1`, `NoPriorityInversion`, `NoBoostOutlivesItsCause`, `LockingMissesNoPreemption`, `MutexImplementsPriorityLock`. Of `Handshake`, with nested guards and handlers that notify: `WaitMovesTasksSafely`, `WaitKeepsExclusion`, `WakeUpsAreNotLost`; with `MaxHeld = 1`, `WaitKeepsInheritance`, `WaitDropsBoosts`, `WaitKeepsPreemptions`, `WaitImplementsPriorityLock` |
| `SemaphoreProofs` | `NoTakerIsLost`, `TokensAreHandedOver`, `PreemptionsAreKept`, `SemaphoreImplementsTokens` |
| `TimerProofs` | `TimesAgree`, `NoReturnIsEarly`, `NoSleeperIsForgotten` |
| `ChannelProofs` | `NoWaiterIsLost`, `NobodyWaitsInVain`, `EveryRecvGetsAMessage`, `PreemptionsAreKept`, `ChannelImplementsFifo` |
| `EventGroupProofs` | `NoWaiterIsUnlinked`, `FlagsAreHandedOut`, `OnlyIgnoredAnswersForget`, `EventGroupImplementsEventWord` |
| `LazyPoolProofs` | `NoPlaceIsLost`, `NoSlotIsLost`, `ClosuresRunOnce`, `PreemptionsAreKept`, `PoolImplementsAllocation` |

`PROJECT.json` names the property each of them states. The arguments:

* **What every primitive rests on.** `KernelInv` is the type invariant,
  `RunsOnlyWhenRunning` (who is Running, and that a task off the CPU never is)
  and `NothingBeforeLaunch`. A woken task was Blocked, so it is not the one on
  the CPU; a parked one was Running, so it was in no list.
* **Preemption.** `PreemptionPending` is not inductive: a switch that forgets a
  Ready task would break it. `SafeInv` adds `ScanIsComplete`: while PendSV
  executes, `seen` holds every Ready task. Without handlers that wake tasks
  nothing becomes Ready there, because a tick then finds no Running task and is
  ignored. With them only such a wake-up may be forgotten, and a tick that finds a
  task running compares it with every Ready one: `PreemptionsKept`, proved of each
  primitive that handlers call (`PreemptionsAreKept` of `Semaphore`, `Channel` and
  `LazyPool`, `WaitKeepsPreemptions` of `Handshake`) from what a call and a handler
  do to a preemption that is due when they wake one task or all of a list. A
  handler may also ignore what `set_from_isr` answers, which
  `OnlyIgnoredAnswersForget` adds as the other exception for `EventGroup`.
* **Sleep.** `SleepInv` adds `DeadlineAheadSleeps`: a task whose deadline is
  ahead is about to sleep or asleep, so it has not returned from the call.
* **Locks.** `MutualExclusion` says nothing of the task an unlock has chosen and
  that has not run. `LockInv` adds `GuardsAreOwners` (a guard means ownership),
  `WokenByGrant` (a task that left `lock()`'s list owns the mutex),
  `OneLockUnderWay`, and `ListsAreLinked`, which is `BlockedExactlyWaiting`
  without the claim that a Blocked task is in the list of a mutex: that is
  proved apart (`BlockedInLock`), for it does not hold of an application that
  has condition variables, where `LockInv` is needed too.
* **Steps of a mutex.** `MutexStep` says what a step of any module may do to the
  mutexes: lock, block, free, hand over, or leave them as they are. Inheritance
  and the refinement are proved of `MutexStep`; a `wait` that gives up its guard
  is one, and so is the `lock` at its end.
* **Condition variables.** `CondInv` adds to `LockInv` that a parked task is
  Blocked, in no list of a mutex, and is going to lock the mutex of its condition
  variable (`ParkedAreWaiting`), and that a Blocked task is in some list
  (`BlockedInSomeList`). One place follows by counting: a list without repetition
  has no more places than there are tasks.
* **Lost wake-ups.** A consumer that left the list has a claim on the mutex, which
  becomes one of another kind (to be locked again, being locked, held) and ends
  with an unlock only. So a flag that is set and waited for either was set
  in this step, and its producer owes a notification, or had a consumer on its
  way before, which has its claim still, has cleared the flag, or has found it
  clear; a notification puts one on its way.
* **Inheritance.** With one guard per task an owner never waits (`ClaimInv`), so
  priorities of waiters are their base priorities and do not change in the list;
  `BoostInv` relates the owner's priority to the highest waiter's. With two
  guards the property is false, which `mutex_nested` shows.
* **Semaphore.** `NoTokenWhileWaiting` is inductive once it is known that a task
  takes one semaphore at a time (`OneTakeUnderWay`): the token of a `give` that
  finds a waiter passes by the count. `SemInv` is both, with
  `BlockedExactlyWaiting`.
* **Time.** `TimerInv` relates the absolute words to the distances of `Kernel`:
  `LeftIsAhead` (`left` is what remains to the deadline without the wrap, unless
  that has passed), `DeadlineIsDue` (the word in the task is that deadline,
  wrapped or not), `NextIsDue` (the same of a periodic timer's next word) and
  `CallPhases` (where a call stands). As the uptime is below the modulus a
  wrapped deadline is one that has passed.
* **Channel.** The ring holds messages in the places from `head` on
  (`RingHoldsMessages`), a waiter has a reason (senders a full ring, receivers an
  empty one, so never both), and a receiver that left the list has been given a
  message. The refinement maps the ring to the queue it spells; each send and
  each receive moves one end of it by one place, also where the index wraps.
* **Event group.** What a `set` gives to whom depends on the order of a list of
  any length. `ScanInv` describes the walk after `n` places of the list: the
  tasks still linked, the flags each one visited was given, and the flags that are left,
  which no task was given; no task still linked would be served by them. It is
  proved for every place by induction and says of the whole walk what `EventInv`
  and the refinement need, including that the second scan, over what the first
  one leaves, gives nothing twice.
* **Boot.** `BootInv` says that there is a numbering of the spawned TCBs that the
  list follows, and that the walk of the first launch is at some place of it with
  the best of the tasks before that place; a spawn moves every number up by one.
* **Pool and Once.** The free list is a sequence `f` without repetition that
  starts at `freeHead`, follows the links and ends at `Nil` (`IsFreeList`); each
  slot is in it, boxed, promised to a woken allocator, or being dropped, and in
  one of them only (`OneOwner`). `SlotsInv` says that such an `f` exists; it has no
  more places than there are slots, so the walk of `available()` ends at the last
  one. `OnceInv` says that Running means that one task initialises, and that who
  has left the list finds Done; `OneReasonToWait`, that a task waits for the
  pool or for one Once.
* **Refinement.** Each step of `Mutex`, `Semaphore`, `Channel`, `EventGroup` and
  `LazyPool` maps to a step of the abstract specification or a stutter. For
  `Mutex`, `IsHighest` by effective priority is highest by base priority because
  of `ClaimInv`; elsewhere no step changes a priority.
* **Induction.** The library's induction theorems take an operator as a
  parameter, which the installed provers cannot instantiate. `LeastNumber` (a set
  of naturals that is not empty has a least element) takes a set instead; the
  walks of the free list, of the lists of an event group and of the ring are
  proved by the least counterexample. The recursive functions (`WalkAt`, `Scan`)
  are shown to exist the same way before anything is said of their values.

TLC only: the liveness properties (`SleepersWake`, `TopTasksRun`, the `Top...`
properties of the primitives), which are out of reach of the prover.

## 6. Not modelled

* The arithmetic and conversions of `Duration` and `Instant`: pure functions of
  integers; the one place where their wrapping decides when a task runs, the
  deadline, is in `Timer`.
* Stack frames, canaries, FPU and PSPLIM handling (`arch/`): instruction-level
  code below the level of the scheduler's state. The two helpers that
  `arch/v8m.rs` repeats are those of `scheduler.rs`.
* The macros, the example, `build.rs`, `defmt` logging: no state of their own.
* Instruction and memory barriers: `trigger_pendsv` has none; the models take a
  requested PendSV before the next step of Thread mode, as the handbook of the
  core describes for a write to ICSR that has completed.

## 7. Plan

Every part of the scheduler and every primitive is modelled, and every safety
property and refinement that a run finds to hold is proved; `PreemptionsKept`, which one
run checks, is proved of every primitive that handlers call (of `EventGroup` with
the second exception named in section 5). Next:
the safety half of the liveness properties (what a step may do to the distance of
the highest-priority task from its return), which is what their proofs would rest
on.
