# TOPPERS/ASP3 kernel in TLA+

TLA+ models of the kernel of TOPPERS/ASP3 (directory `src/kernel`, with the ARM dispatcher of
`src/arch/arm_gcc/common` and the timer simulator of `src/arch/simtimer`), of its extensions for message
buffers and priority inheritance (`src/extension/messagebuf`, `src/extension/inherit`) and of the serial interface driver above it (`src/syssvc`, with
the PL011 driver of `src/arch/arm_gcc/common`); TLC configurations that check them on small instances;
and proofs of the main invariants of the task scheduler, the mutexes, the synchronization and
communication objects, the clocks and the serial driver, for every number of tasks, priorities, interrupt
levels and mutexes, every capacity and every width of the words, and that the data queue implements a
bounded channel.

ASP3 is a real-time kernel for one processor. Its concurrency is that of interrupts and of tasks
that pre-empt one another; it is controlled by the CPU lock (`lock_cpu`), which turns every service
call into a critical section, with a few windows that are opened on purpose. What is hard is not the
single call but the state that the calls share: every service leaves it such that all others may
come next.

## Inventory

| component (source) | state | operations | interacts by | what makes it correct |
|---|---|---|---|---|
| task control (`task.c`, `task.h`) | TCBs, `ready_queue`, `ready_primap`, `p_schedtsk`, `p_runtsk`, `dspflg`, `enadsp` | helpers `make_runnable`, `make_non_runnable`, `change_priority`, `rotate_ready_queue`, `task_terminate` ... | called with the CPU locked by all services | a task is linked exactly where its state says; `p_schedtsk` is right; order within a priority |
| task services (`task_manage.c`, `task_sync.c`, `task_term.c`, `sys_manage.c`, `chg_ipm`) | request flags `actque`, `wupque`, `raster`, `enater`, the CPU lock, the interrupt mask | the service calls | dispatcher, time events | no request lost; deferred termination takes effect; no dispatch missed or made while disabled |
| waiting (`wait.c`, `wait.h`) | WINFO on the waiting task's stack, wait queues | entering, ending, timing out a wait | all synchronization objects, time events | a wait ends once, in all its parts |
| mutexes (`mutex.c`) | owner, wait queue, list of locks of each task, `boosted` | create, delete, lock, unlock, initialise, release at termination | `change_priority`, `chg_pri`, `task_terminate` | owner and lists agree; current priority = ceilings of the held locks; hand-over to the right waiter |
| inheritance mutexes (`extension/inherit`, which replaces `mutex.c`) | as mutexes | as mutexes; priorities passed on from owner to owner | `change_priority`, which follows the owners, `wait_dequeue_wobj` | current priority = the best of the base priority, the ceilings and the tasks that wait, along every chain |
| semaphores, event flags, data queues, priority data queues, memory pools | counts, patterns, rings, block lists, wait queues | create, delete, one service to wait, one to release, initialise | `wait.c` | no task waits for what is available; nothing lost or handed out twice |
| message buffers (`extension/messagebuf`) | a ring of bytes, wait queues | send, receive, initialise; a hook into `wait.c` | `wait.c`, which calls back | messages whole and in order; a sender that gives up lets in those behind it |
| time events (`time_event.c`) | event times, heap, clocks `current_evttim`, `monotonic_evttim`, `systim_offset`, `current_hrtcnt` | register, cancel, `signal_time` | timer hardware, timeouts, notifications | no event early, late or lost although all words wrap around |
| system time (`time_manage.c`) | as above | `get_tim`, `set_tim`, `adj_tim` | time events | exact, monotonic |
| cyclic and alarm notifications | existing and started or not, a time event | create, delete, start, stop, handler | time events | run when due, as long as started |
| interrupts, exceptions (`interrupt.c`, `exception.c`) | interrupt controller, mask, handlers | enable, disable, mask; entry and exit | dispatcher | nesting; a task switch only at the outermost exit |
| ARM dependent part (`core_support.S` ...) | registers, `excpt_nest_count` | dispatcher, interrupt entry and exit | all | as above |
| start-up (`startup.c`), dynamic memory | | initialisation once | | the initial states of the models |
| serial driver (`tSerialPortMain.c`, `tUartPL011.c`) | two ring buffers, two semaphores, flow control flags, the UART | open, close, read, write, control; interrupt handler and callbacks | semaphores, CPU lock, the UART and the peer | no character lost or reordered, no wakeup lost, peer and driver agree on who is stopped |
| other | | timer drivers, target ports, trace log, other system services (TECS), library, configurator, extensions, tests, samples, vendored board support | | outside the models, see below |

`PROJECT.json` lists every component with its status, and under "hazards" what can go wrong here
that a test would hardly reach, with the properties that look for it.

## Modules

* `TaskSched` - the helpers of `task.c` and `wait.c`/`wait.h` that need no wait queue, and insertion by
  priority (`queue_insert_tpri`). The C helpers update shared globals with
  the CPU locked and call one another. Each is an operator from a scheduler state `k` (a record of
  TCBs, ready queues, bitmap, `p_schedtsk`, `dspflg`, registered time events) to the next, so that a
  service call is the composition of the helpers that the code calls, in its order. A failing
  `assert` is recorded in the field `asserted`, and so is a result code stored over the pointer to a
  registered time event (`set_wercd`): WINFO is a union.
* `TaskKernel` (extends `TaskSched`) - creation and deletion of tasks, activation, priorities, sleep, delay,
  suspension, termination with deferred requests, dispatch control, interrupt mask, CPU lock and nested
  interrupts. A TCB that is in `free_tcb` has `exists = FALSE`, and keeps what was in it. One action
  per service call, as the CPU lock makes it atomic; `rot_rdq(TPRI_SELF)` is two actions because it
  reads the base priority before it locks. A call that dispatches sets `p_runtsk` in the same step;
  from an interrupt handler the switch is left to `irq_return`, the exit of the outermost handler.
  Calls that return an error have no effect and are only seen as guards.
* `WaitObject` (extends `TaskSched`) - what the synchronization objects have in common: wait queues in
  arrival or priority order, `init_wait_queue`, and `change_priority` of a task that may be in a queue.
  The scheduler state gets a field `wait_queue`. Which queues are in priority order (`TPRI`) is a
  constant; in the code it is an attribute of the object. The loop of `init_wait_queue` is a recursive
  function and not an operator, as are those of `mutex_release_all` in `MutexKernel` and of the restart
  of the semaphores in `SerialPort`: these modules are proved about.
* `MutexKernel` (extends `WaitObject`) - mutexes, created and deleted at run time, with the services
  whose interplay with them matters. The list of the locks of a task is a sequence whose head is
  `p_lastmtx`. `MutexCeilings` adds a history variable, whether the application has so far used
  ceilings as intended (`DisciplinedNext`, as opposed to `UndisciplinedNext`), to state what they are for.
* `InheritKernel` (extends `MutexKernel`) - the extension's mutexes with priority inheritance. What the
  package replaces has `inherit_` before its name here; `transitive_inheritance` is its
  `mutex_change_priority()`, and the jump back in `change_priority()` to the owner is a recursion, so that
  this module is for TLC alone. Whether a task is boosted is calculated where the code does it, and
  `InheritOK` compares it with what the mutexes say.
* `SyncKernel` (extends `WaitObject`) - the tasks, handlers, timeouts and task services around an
  object: activation, termination, priority changes, forced release. `KernelOK` is the part of the
  invariant that every object shares. Suspension, disabled dispatching and deferred termination are
  left to `TaskKernel`: they do not look at the objects.
* `Semaphore`, `EventFlag`, `DataQueue`, `PriDataQueue`, `MemPool` (extend `SyncKernel`) - one object
  each, created and deleted at run time (`acre_...`, `del_...`) and reinitialised while tasks wait. The
  object's control block is the state; what WINFO holds beyond the wait queue (the pattern and mode
  awaited, the data of a waiting sender) is the field `winfo` of the TCB. A WINFO is on the stack of the
  waiting task, so every action forgets it when the wait ends (`EndWinfo`). In `DataQueue` the buffer is
  the ring of the code with its two indexes; in `MemPool` the free list is linked through the management
  area, which nobody clears: `acre_mpf` and `ini_mpf` leave in it what was there. In `PriDataQueue` the
  blocks of the area are in the list sorted by priority, in the free list or never used.
* `SyncObjects` instantiates these five over one kernel. The application uses one of them, chosen
  initially: the services of an object touch no other object, and the tasks only through the helpers of
  `TaskSched` and `WaitObject`, so that a mix of objects in one behaviour would add states and no new
  interaction.
* `MessageBuffer` (extends `SyncKernel`) - it is on its own because it changes `wait.c`: when a sender at
  the head of the queue is released, times out or is terminated, `wait_dequeue_wobj()` calls
  `messagebuf_signal()`, which may let in those behind it (`mbf_dequeue_wobj`).
* `Channel` - what a data queue promises: data accepted are received in order, once each; a sender that
  must wait has its data accepted later or withdrawn; a forced send may drop the oldest. `DataQueue`
  implements it (`ChannelSpec`): the channel is the ring read from `head`, the offers are the data of
  the senders in the wait queue. `PriChannel` is the same with a lane for each data priority, implemented by
  `PriDataQueue`, and `MsgChannel` the channel of bytes that `MessageBuffer` implements: first come, first
  served, and the line of senders moves on whenever its first message fits.
* `TimeEvent` - event times and clocks over a timer that counts in steps and wraps around.
  `signal_time()` is split where it opens the CPU lock: each action runs from one window to the next.
  `rem` and `unread` are history variables: the true time left for each event and since the counter
  was read.
* `TmevtHeap` - the heap array with its empty node moving up and down, and the back pointers;
  `EventQueue` is what the rest of `time_event.c` assumes of it. `Notification` (extends `TmevtHeap`) puts
  the owners of time events on top, cyclic and alarm notifications that are created, started, restarted,
  stopped, deleted and created again in the same block, and tasks that wait with a timeout; it is shown to
  implement `EventQueue`. An event is registered for the current time or later, as the code does; the
  window in which `signal_time()` calls the handler is in `TimeEvent`.
* `SerialPort` - the serial driver as tasks that run one section between `loc_cpu()` and `unl_cpu()` at a
  time, in any order, and an interrupt handler (`eiISR_main`) that runs between any two sections. The
  kernel's semaphores are used as a specification here (a count and a queue in arrival order), the UART is
  two FIFOs and the mask, and the peer obeys STOP. A ring of the driver is the sequence of the characters
  in it. Two constants say what the application may do, see "What is assumed of the application".
* `QueueLemmas` - what insertion, removal and taking the head do to a queue, a sorted list of blocks, a
  linked list and the contents of a ring; `SchedLemmas` - what the helpers of `TaskSched` keep, and when a
  wait queue agrees with the tasks that wait; `SyncKernel_proofs` - what the helpers of `SyncKernel` keep,
  whatever objects use them; `TaskKernel_proofs`, `Mutex_proofs`, `SerialPort_proofs`,
  `SyncObjects_proofs`, `TimeEvent_proofs` - the theorems.
* `MC...` - instances for TLC.

Operators named `bug_...` are not part of the models. Each is a slip that a programmer could make in
the definition that follows it, or nearby; `PROJECT.json` says which property then fails, which shows that the
property is not vacuous.

## What the runs check

All runs are exhaustive for their instance. Five of the instances leave out combinations that are covered
in parts: the constraint `FewCombinations` of `MCTaskKernel` lets all three tasks exist only in states without queued
requests, disabled termination, CPU lock or interrupt mask, and with the same initial priority (`QueueOrders`), and that of `MCMutexCeilings` lets all three tasks be active only
while one of the three mutexes does not exist, and that of `MCInheritKernel` only while dispatching is enabled; that of
`MCSyncObjects` lets an event flag start only with none or all of its bits (the others are set and cleared
afterwards), and that of `MCSerialPort` lets reading and writing overlap only with echo, without which
they share no more than the UART. A `VIEW` leaves out the field `wobj` of tasks that wait for no mutex, which nothing reads.

| run | instance | question |
|---|---|---|
| `TaskKernel` | a task of the configuration, one or two created and deleted at run time, 2 priorities, 1 interrupt level, all services | Is the scheduler's state consistent after every sequence of calls (`ReadyQueuesOK`, `SchedIsFirst`, `DispatchingOK`, `RunningIsScheduled`, `AssertsHold`)? Are requests, deferred terminations, timeouts and suspensions honoured (`RequestsOK`, `RasterOK`, `TimeEventsOK`, `SuspendedUntilResumed`)? Do tasks of one priority run in the order in which they became ready (`FifoKept`)? |
| `MutexKernel` | 3 tasks, 3 priorities, mutexes with two ceilings and a FIFO mutex | Do owners, lists, wait queues, priorities and ready queues agree (`OwnerListsAgree`, `WaitQueuesOK`, `SchedulerOK`) through hand-over, termination, forced release, timeouts, `ini_mtx` and deletion? Is a released mutex handed to the right waiter (`HandedToBestWaiter`)? Is the priority right with nested ceilings released in and out of order, and no base priority above a ceiling (`PriorityIsCeiling`)? Does a task that uses ceilings as intended ever find one locked (`CeilingNeverBlocks`)? |
| `Inherit` | 3 tasks, 3 priorities, two inheritance mutexes and a ceiling mutex | Is every task at the priority that it inherits, along chains of two owners (`PriorityInherited`)? Do queues, owners and `boosted` follow (`InheritOK`)? |
| `InheritPriority` | the same, with `chg_pri` unrestricted | `PriorityInherited` fails: see "Findings". |
| `TimeEvent` | a one-shot and a cyclic event, words of 12, 24 and 8 values | Are events handled in order (`InOrder`), never early (`NeverEarly`), never late and with the counter read in time (`ClocksOK`), and is every event, under `FairSpec`, eventually handled or cancelled (`EventsHappen`)? |
| `TimeAdjust` | one event, adjustments by one tick, `set_tim` | The same while the clocks are moved; is the system time exact and monotonic (`ClockExact`)? |
| `Notification` | a cyclic and an alarm notification and 4 waiting tasks, 4 times, a margin of 1 | Is the event of a notification registered exactly while it is started (`StartedIsRegistered`)? Is the array always a heap with right back pointers (`HeapOK`), and does it implement `EventQueue` (`QueueSpec`)? |
| `SyncObjects` | 3 tasks, 2 priorities; a semaphore of up to 2, a flag of 2 bits that starts with none or all of them, up to 3 blocks, data queues of up to 2 places, priority and arrival order | Does nobody wait for what is there (`NobodyWaitsInVain`), do queues agree with task states (`KernelOK`) and management areas with themselves (`StorageOK`), and do data pass as through a channel (`ChannelSpec`, `PriChannelSpec`)? |
| `MessageBuffer` | 3 tasks, messages of 1 and 3 bytes, words of 2, an area of 8 | Does the ring agree with its indexes and free size and does nobody wait in vain (`MessageBufferOK`)? Do messages pass whole and in order (`MsgChannelSpec`)? |
| `SerialPort` | a writer that also closes and a reader that also controls, buffers of 2 and 3, FIFOs of 1 | Is each right to send or to receive in exactly one place (`TokensOK`), will everything to send be sent (`NothingStranded`), is no character lost, doubled or overtaken (`CharactersInOrder`)? |
| `SerialLive` | a writer of one character at a time, a reader with echo | Does every write return (`WriteReturns`)? |
| `SerialFlow` | as `SerialPort`, without closing | Does the driver know what it told the peer last? It does not: see "Findings". |

Why the bounds are enough. Two tasks on two priorities reach every pair of states of a caller and a
target, same or different priorities, and an interrupt between any two calls; the order of three
equals, hand-over among several waiters and a queue that needs sorting again need three tasks, hence
the third task of `TaskKernel`, `MutexKernel` and the objects: one task acts and two wait, or an interrupt
handler acts and three wait. Three tasks and two mutexes make the shortest chain in which a priority is
passed on twice: a task waits for an owner that waits for an owner. A data queue of two places is the smallest whose ring can be full, half full and
wrapped around; three blocks are the fewest for a list of two with one block held or untouched; two bits
tell the OR from the AND condition; two items of one data priority and one of another tell order of
arrival from order of priority. A message of 3 bytes in an area of 8 with words of 2 takes 6, one of 1
takes 4: bodies start at different places, are split at the end of the area, end exactly there, and two
short ones fit where one long one does not. One interrupt level suffices for the switch at the outermost exit, and
more are covered by the proofs. In the time models every word is so small that it wraps around many
times, while the distances the code relies on (the margin of the boundary, the bound of the timer)
keep their order; `TimeAssumption` names what is needed. Six events make a heap of three levels, which
is the least in which a removal moves the last event upwards into another branch. The buffers of the
serial driver are just large enough for a STOP level and a START level that differ, and for a write that
blocks; its FIFOs hold one character, so that every path of "no room in the UART" occurs.

Fairness. `FairSpec` of `TimeEvent` assumes weak fairness of three actions: the timer counts (`Tick`), its
interrupt is accepted (`target_hrt_handler`), and the callback of an event returns (`signal_time`). The
first two are the hardware's promise and the third the requirement that handlers terminate. No fairness is
assumed of tasks. `MaxDelay` bounds how long an interrupt may stay pending, which the code needs too: the
counter must not lap between a request and its service.

`Spec` of `SerialPort` assumes that a task inside a call goes on, strongly, since interrupts and other
tasks come in between but not for ever (a task that is starved by tasks above it is a matter of the
application); that the interrupt handler runs and the line works (weakly); and that a peer which has said
STOP says START again (strongly, as the FIFO may be full at times). Nothing makes a task begin a call.

What is assumed of the application. `SyncKernel` and `MutexKernel` name the services that are used;
`TaskKernel` has all. In `SerialPort`, `ClosesInUse = FALSE` says that the port is closed only while nobody
is in a call, and `ReleasesEcho = FALSE` that `rel_wai()` is not used on a reader that waits to echo a
character. Both are needed: with either, `TokensOK` fails. A read that is released while it echoes
returns without giving the receive semaphore back, and the characters that are left in the buffer find
no reader until it has been emptied, which nobody can do; a section that was about to begin when the port
is closed finds the semaphores reinitialised. Set the constants to TRUE to see it.

In `InheritKernel`, `Deadlocks = FALSE` says that tasks lock mutexes in the order of `rank`. Otherwise tasks can
wait for one another in a cycle, and then keep one another's priority for ever: with TRUE `InheritOK` fails,
and `ini_mtx()` on a mutex of the cycle follows the chain to a mutex without owner. `LowersOwners = FALSE` says that
`chg_pri()` lowers no task below one that waits for it while its `boosted` is FALSE; what happens otherwise is a finding.

## Findings

* `FlowControlAgrees` (run `SerialFlow`). `serialPort_readChar()` and `eiSIOCBR_readyReceive()` send START
  or STOP directly if the UART has room, and leave in `receiveFlowControl` an opposite character that had
  no room before. `eiSIOCBR_readySend()` sends that one last. The peer is then told the opposite of what
  `receiveStopped` says: it goes on sending while the driver believes to have stopped it, or stays stopped
  with an empty buffer, although `doc/user.txt:1496-1498` says that START is sent when room returns.
* `PriorityInherited` (run `InheritPriority`). `chg_pri()` of the inheritance package takes the new base
  priority for the current one when `boosted` is FALSE. That flag says that a mutex determines the priority, so
  it is FALSE, too, while tasks of lower priority wait for a mutex of the task. If the base priority is then lowered below
  theirs, the owner does not inherit it: the inversion that the protocol excludes. `doc/inherit_design.txt:38-39`
  (NGKI2014) says that the priority is always the best of all, and the `chg_pri` given there calculates it
  always (line 519).

Everything else that was checked holds. Three more remarks came out of the modelling without being
properties: NGKI2015 puts a task whose priority changes by the mutexes before its equals
(`doc/inherit_design.txt:273-278`), but what `chg_pri()` passes on along the owners keeps the `mtxmode` of
`chg_pri()`, which puts them behind, here and in the design; `eiISR_main()` of the PL011 driver calls `readyReceive` and `readySend` by the state of the
FIFOs without looking at whether the callback is enabled, which `doc/porting.txt` (8.2.3) asks for; the
driver above copes with it, and the model does as the code does. And `call_cyclic()` and `call_alarm()`
update the notification before they open the CPU lock for the handler, which is what lets the handler stop
or restart its own notification.

## What is proved

All theorems are about `Spec` (`SafeSpec` of `SerialPort`, which is `Spec` without fairness) and hold for all
values of the constants that satisfy the named assumptions of the modules: at least one priority, `NULL` not
a task, the tasks of the configuration among all tasks with their initial priorities in range, ceilings in
range; for the driver sizes of at least one and characters that are not control characters; for the clocks
words that are wide enough for the longest times (see "The clocks").

| module | theorems for these properties | run |
|---|---|---|
| `TaskKernel_proofs` | `TypeOK`, `ReadyQueuesOK`, `SchedIsFirst`, `DispatchingOK`, `RunningIsScheduled`, `TimeEventsOK`, `AssertsHold`, `RasterOK`, `RequestsOK`, the action properties `FifoKept` and `SuspendedUntilResumed` | `TaskKernel` |
| `Mutex_proofs` | `OwnerListsAgree`, `WaitQueuesOK`, `PriorityIsCeiling`, `SchedulerOK`, the action property `HandedToBestWaiter`, and `CeilingNeverBlocks` | `MutexKernel` |
| `SyncObjects_proofs` | `KernelOK`, `NobodyWaitsInVain`, `StorageOK`, and the refinement `ChannelSpec` | `SyncObjects` |
| `TimeEvent_proofs` | `ClocksOK`, `NeverLate`, the action properties `NeverEarly`, `InOrder` and `ClockExact` | `TimeEvent`, `TimeAdjust` |
| `SerialPort_proofs` | `TokensOK`, `NothingStranded` | `SerialPort` |

**The scheduler.** Hardly one of its properties is inductive alone. The inductive invariant is

    IInv == SInv /\ TasksOK
    SInv == KernelOK(kernel) /\ ModesOK /\ RunOK /\ DspflgOK

where `KernelOK(k)` says of a scheduler state that it is well typed, that queues, bitmap and task states
agree, that time events belong to waiting tasks, that `p_schedtsk` is the first task whenever `k.dspflg`
holds, and that no assertion has failed and no pointer to a time event was lost. `ModesOK` types the mode variables, `DspflgOK` is the first part
of `DispatchingOK`, and `RunOK` relates the scheduler to the running task: outside interrupts it is
`p_schedtsk`; while dispatching is disabled it is `p_schedtsk`, and can run, everywhere. The helpers need
it in this form: `make_non_runnable` may move `p_schedtsk` only while dispatching is possible, which the
services ensure by `CHECK_DISPATCH` or by not being called for the running task.

`TasksOK` says of every TCB what requests may be pending in it, `TaskOK(r, fixed)`: a termination request
only for a task that can run, and with termination enabled only if `fixed`, that is, while the task runs
with dispatching disabled. So a step may take the processor or the disabled dispatching from such a task
only if it ends it, which is `Keeps` in the lemmas: every service but `ext_tsk`, `ena_dsp` and `chg_ipm`
has it. `SInv` needs `TasksOK` in one place: `acre_tsk` takes a free TCB, which must be in no queue.

`SchedLemmas` states for each helper of `TaskSched` what it preserves of `KernelOK` (ASSUME/PROVE, about
any record, not about the variables), over `QueueLemmas` for the sequences (removal, insertion at
either end, by priority, rotation). `TaskKernel_proofs` then composes these lemmas per service call
(`TaskActionOK`, `SelfActionOK`, `SystemActionOK` for `SInv`), and `NextIInv` puts them together. For `TasksOK`
the lemmas `TcbKept`, `TcbAfter...` say what the helpers leave in the TCBs, `Requests...` what a change of one
TCB means for its requests, and `TaskRequestsOK`, `SelfRequestsOK`, `SystemRequestsOK` go through the services.

The two action properties use the same walk over the services. `KeptOrder(q, r, X)` says that what is in both queues
is in the same order in both, elements of `X` excepted; it holds with `X` empty when a task is appended
or removed, and with that task when it is removed and appended again. `Ordered(k, k2, X)` says so of all
queues, one lemma per composition of helpers (`ActiveOrder`, `WaitOrder`, `BlockOrder`, `TerminateOrder`,
`PriorityOrder`), and `FifoCorrect` follows because `X` is only ever the task that a termination or a new
base priority is about. A termination inside `ena_dsp` or `chg_ipm` is covered since there, by `TasksOK`, dispatching was
disabled, so that the step is one of `ext_tsk`. `ResumptionCorrect` needs that a step writes only one TCB (`Others`): the
named task's, where a look at every service decides, or the running task's, which is not suspended.

**Mutexes.** The inductive invariant is `KOK(kernel) /\ ModesOK /\ ExistingOK`, with

    KOK(k) == Tidy(k, {}) /\ OwnersOK(k, {}, {}) /\ PrioritiesOK(k, {})

A service is made of helpers, and between them the state is not consistent: a task that is being
released is in no queue yet says that it waits, a mutex that changes hands has an owner but is in no list,
and a task whose lock was taken has the priority of the old locks. The sets that are `{}` between service calls name
these exceptions: tasks in transit (`X`) and with a pending recalculation (`Y`), and mutexes in
transit (`M`). Each helper has a lemma that says which exceptions it makes and which it removes;
`init_wait_queue`, which empties a wait queue, and `mutex_release_all`, which releases the locks of a task
that ends, are loops: a lemma each shows that the recursive function of the loop exists up to any number
of turns (`LeastNat` picks the first for which it would not), and a second that each turn keeps what
the next one needs. The action property follows from the same walk: `HandsOver(k, k2)` says
of each helper, and `Passed(kernel, kernel')` of each step, that a mutex which changes owners goes to the best of those
that waited for it, so a mutex handed over twice in a call would be noticed.

`CeilingNeverBlocks` needs to know why a ceiling works. The invariant that `MutexCeilings` adds
is that the holders of mutexes form layers while the application is disciplined: of two tasks that hold one, all priorities of the
one, from its current to its base priority, are above all of the other (`Apart`, `Layered`), and the scheduled task
is first and above all other holders (`Topmost`). A task that runs can then not ask for a ceiling mutex that another holds, since that
one would have a ceiling at least as high as its base priority.

**The objects.** The inductive invariant of `SyncObjects` is `Sound`, which is about the kernel, and a part
for each object. `Sound` is `SoundAt(WINFO, kernel, ...)` of `SyncKernel_proofs`: `Tidy(kernel, WINFO, {})`, built like that of
the mutexes with its set of tasks in transit, and what relates `p_runtsk` to `p_schedtsk`. The part of an object relates what it holds to who
waits for it: nobody, or the object exists and has nothing left (`SemOK`, `MpfOK`); the same for both
queues of a data queue, where receivers and senders exclude each other (`DtqOK`, `PdqOK`); for the event
flag, every task waits for a condition of its own that the pattern does not meet, and alone unless there is
`TA_WMUL` (`FlgOK`). `NobodyWaits` is said of the task states; by `EmptyQueue` it is the same as an empty queue.

What the proof rests on is that waits end in many ways and begin in one: `Leaves(k, k2)` says that
every task that waits in `k2` did so in `k`, for the same, and `Joins` is that with one exception, the caller.
Each helper and service is one or the other (`ServeStep`, `ReleaseStep`, `WaitStep`, `TaskStep`), so an object's part survives
timeouts, forced releases and terminations, and the services of the other objects (`Elsewhere`, with the seven queues
distinct). The five instances of `SyncKernel` inside the objects are the one kernel (`SemKernel` and the like). Two
loops have lemmas by `LeastNat` as for the mutexes, that of `init_wait_queue` and that of `set_flg`, which takes tasks out
of the middle of the queue it goes through: after turn `i` no task before that place waits for
a condition that holds in the pattern, which only shrinks, and those behind it are as they were (`Turn`).

For `StorageOK` the management areas have a part each (`StInv`), which the parts above serve: what a sender brings
is in its WINFO, so `PdqOK` says, too, that the tasks in the send queue offer data of a priority of the queue (`OffersIn`).
The ring of the data queue is arithmetic (`RingAt`: `tail` is `head` plus `count`, in a ring of `dtqcnt` places, and stays so over
the wrap-around at either end). For the blocks `StorageOK` speaks of walks through `p_next`; the invariant says instead that there is a sequence of
blocks, each once, of which the pointers are the links (`Linked`): the data in the order of their priorities, and the
free list. Insertion behind equal priorities, taking the head and returning to the free list are then operations on sequences,
and that the walk from `p_head` visits the sequence is one lemma for both kinds of list. What is neither
in a list nor handed out has an index from `unused` on: a block is never in two lists, nor lost.

**The data queue as a channel.** `ChannelImplemented` says `Spec => ChannelSpec`: under the mapping of `DataQueue`
(the channel is the ring read from `head`, a task offers what is in its WINFO while it waits in the send queue) every step is
one step of `Channel` or none. The invariant `ChanInv` is that of `StorageOK` with the bounds on the size and
on the data offered. The lemmas `RingPut` and `RingTake` say what the ring read as a sequence does when data enter or leave at its
indexes, wrap-around included. `DtqServes` then goes through the services: the two in which a datum and a task move at once (a receiver
that makes room for the first waiting sender, a forced send into a full queue) are single steps of the channel, since the code
does them under one CPU lock; initialisation and deletion empty it. `DtqTasks` says that whatever the task services and timeouts do
is, for the channel, the withdrawal of the offer of the task that stops waiting, or nothing. This needs the invariant of the
kernel: none of these services takes more than one task out of the send queue (`OneTaskLeaves`).

**The clocks.** The inductive invariant of `TimeEvent` is about true time, which the code does not have:

    Inv == Types /\ Counted /\ EventsAt /\ TimerAt

`Counted` says that the count of the hardware is the last one read plus what has passed since, modulo its word, and that what was read is
a multiple of the step. `EventsAt` takes the way from the current event time to that of an event, which the code compares modulo
2^32 from a boundary behind it: the way, less what has not been read yet and less the true time that is left, is between 1 and `TSTEP`, the rounding with
which it was registered, and with the distance by which `adj_tim()` has turned the clock back it fits into the word.
`TimerAt` says that the alarm comes before every event plus the two roundings (setting the timer,
reading the counter) and before the counter comes round; while the interrupt is pending or served the same holds of the time passed, with its delay.
The invariant of one part is kept because of the others: the comparison of event times is right because none is
far in the past, which holds because the alarm came in time, which holds because the first event was found by comparison.
`ClockMoves`, `EnqueueOK`, `SetTimerOK` and the like say what each helper does to the parts, over lemmas on congruence
modulo a word, and `NextOK` goes through the actions. `ClockExact` is a calculation with `SYS`, `EVT` and `TCYC`: the position of the system time and its change modulo each.

The assumptions (`TimeAssumption`) hold for the code with room: `BOUNDARY_MARGIN` 200 000 000 is above twice `TMAX_ADJTIM`
(1 000 000) with any sensible delay, `TMAX_RELTIM` 4 000 000 000 and the margin are together below 2^32, and so is
`HRTCNT_BOUND` (4 000 000 002, or 2 000 000 less than the period of a counter that comes round sooner, which leaves an
interrupt two seconds).

**The serial driver.** `TokensCorrect` and `NothingStrandedCorrect` assume `~ClosesInUse` and `~ReleasesEcho`, see
"What is assumed of the application": the run with either is a counterexample. The invariant

    Inv(s) == Sound(s) /\ (Live(s) => Rights(s)) /\ Enabled(s) /\ Phases(s)

has the types, where each call can be and what it has then, and the queues of the semaphores (`Sound`); that each of the
two rights is with the interrupt handler, in the semaphore or with exactly one task (`Rights`), where a
reader that echoes keeps the right to receive while it waits for the right to send; that the transmit interrupt is
enabled while there is something that may be sent (`Enabled`); and how the port is closed (`Phases`): between
`openFlag = FALSE` and the initialisation of the semaphores the rights do not hold, and what makes the
next opening right is that only one task is in a call and that no interrupt can be pending. The parts are
stated for a state `s`, because one interrupt runs two callbacks of several helpers each.

What the proofs found. One bound that TLC had accepted was false for larger instances: an event may be late by
`3 * TSTEP - 2` besides the delay and the adjustments, where `NeverLate` had said `2 * TSTEP`, which is the same for the
`TSTEP = 2` of the runs. There are three roundings to the steps of the counter: registering, setting the timer and reading it.
Two assumptions were too weak and are now stated: that on `Text` in `SerialPort` (a text is a
non-empty sequence), and `TimeAssumption`, which did not yet say that the longest delay, the bound of the timer and the
longest relative times together fit into the words. All other invariants hold as TLC had checked them.

Only model-checked:

* Liveness under fairness (`EventsHappen`, `WriteReturns`), which is beyond the prover.
* `InheritOK`, `PriorityInherited`, `HeapOK`, `StartedIsRegistered` and `QueueSpec`: the recursion along owners in
  `InheritKernel` and the moves of the empty node in `TmevtHeap` are recursive operators, which the prover cannot use.
* `MessageBufferOK` and `MsgChannelSpec`: the free size is a sum over the messages in the ring, and what
  such a fold yields for every sequence takes an induction over data.
* `PriChannelSpec`, which needs the order within each data priority on top of what is proved of the list of blocks.
* `CharactersInOrder`: the text in the transmit FIFO is what `SelectSeq` leaves of it, and what that yields for a
  FIFO of any size takes an induction over data.

## Not modelled, and why

* Errors of the static kind (bad IDs, bad parameters): no effect on the state.
* The allocator of kernel memory behind dynamic creation. A creation that fails for want of memory changes
  nothing; the memory of objects that are created at run time is a bound of the instance. Tasks are created
  and deleted in `TaskKernel` only: the other models have tasks of the configuration.
* Several objects of one kind in one behaviour: an object's services touch no other object, only the tasks.
* The values of the result codes of waits (`wercd`): planned, below. That a code is stored only after the
  time event is cancelled, `wercd` and `p_tmevtb` being a union, is modelled (`set_wercd`). The pattern that
  `wai_flg` returns.
* Start-up, which runs before there is concurrency: its result is `Init`.
* Saving and restoring of registers, CPU exceptions, the interrupt controller, timer drivers: hardware.
* What the notifications notify (`nfyhdr`): a handler of the application, or services modelled elsewhere.
* The emptying of the send buffer when the kernel ends (`getChar` of the serial driver's management entry).
* Target ports, trace log, the other system services, TECS adapters, library: outside the kernel.
* The other extensions are patched copies of the kernel with further functions (overrun handler, task
  restart, sub-priorities); the configurator, the vendored board support package,
  TECS and the tools do not run on the target, or are not of this project. Together they are most of the
  lines of the repository.

## Plan

1. Done: the scheduler with its proofs; mutexes and the purpose of ceilings; all synchronization and
   communication objects over one kernel with the channels they implement; time events, the heap and the
   notifications that own events; the message buffer and priority inheritance extensions; the serial driver.
2. The values of the result codes of waits in `WaitObject`: a wait returns
   `E_OK` only with what it waited for, and `E_TMOUT`, `E_RLWAI`, `E_DLT` only without.
3. The overrun handler and sub-priorities of the extensions, as variants of `TaskKernel`.
4. Done: that `DataQueue` implements `Channel`, step by step, and the clock invariants of `TimeEvent`. The same for
   `PriDataQueue` and `PriChannel`.
5. A proof of the receiving half of `CharactersInOrder`, which needs no `SelectSeq`.
