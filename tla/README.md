# A TLA+ model of msglib

msglib is a header-only C++17 library for threads of one process: *mailboxes*
subscribe to *labels*, *messages* and *signals* are sent to labels, *timers*
signal a label. This directory models the library and its two example programs
in TLA+, checks them with TLC on small instances and proves the safety
properties of the library, and most of those of the programs, with TLAPS.
Everything here is read from `include/msglib` and `example`; tests, comments and
the repository's README are quoted where the code does something else than they
say.

## 1. The system

| part | state | operations | who calls it, under which lock |
|---|---|---|---|
| `detail::Queue<T>` | bounded deque, mutex, condition variable | `tryPush`/`push`/`emplace`, `tryPop`, `pop`, `popWait` | senders and one or more receivers; its own mutex |
| `detail::BytePool` | atomic count of free blocks, a memory resource | `alloc`, `free` | `alloc` by sends under the mailbox mutex, `free` by releases under none |
| `detail::DataBlock` | pointer, size | `put` | `SendMessage` |
| `detail::Receivers` | three mailbox pointers per label | `add`, `remove` | `MailboxData`, under its mutex |
| `detail::MailboxData` | the mutex, the `Receivers` of 65536 labels, a small and a large pool | `Initialize`, register, unregister, allocate, free | all mailboxes of the process |
| `Mailbox`, `Message`, `MessageGuard` | a queue of messages per mailbox | `SendMessage`, `SendSignal`, `Receive`, `ReleaseMessage`, construction, destruction | the program's threads; the two sends hold the mailbox mutex from start to end |
| `detail::TimerManagerData`, `Timer`, `TimerManager` | a recursive mutex, `m_timers` (a `Timer*` per label), memory for 65536 Timers that is never reused, a signal thread | `StartTimer`, `CancelTimer`, `HandleSignals` | the program's threads and the signal thread; the event calls `SendSignal` and, for a one-shot timer, `cancelTimer` |
| `TimeConv.h` and the `StartTimer` overloads | none | conversions to `timespec` | the caller of `StartTimer` |
| `msglib::Initialize` | none | timers first, then mailboxes | the program, once |
| `example/mbox.cpp`, `example/timer.cpp` | threads with a mailbox each | | four and three threads |

Interactions: `SendMessage` takes the mailbox mutex, then a pool's memory
resource, then the mutex of one receiver's queue after another; a timer event
takes the timer mutex, then the mailbox mutex, and keeps both while it goes
through the receivers. Nothing takes them the other way.

Hard to test, and what the properties are aimed at: a wakeup that is given to a
thread which then finds nothing; a deadline that passes while the thread is
being notified; a count that is tested, used and updated in three steps; a send
that succeeds for some receivers and fails for others; blocks released by
receivers while a send allocates; the order of messages in different mailboxes;
a timer whose signal is under way when it is cancelled; an event that waits for
another lock while it holds its own; a `Timer` whose constructor throws after it
was registered; negative, zero and absolute times; shutdown of a thread that
waits for a signal; mailboxes that are destroyed while a label still has them.
The full list, with the line of each, is in `PROJECT.json`.

## 2. Modules

| module | what it is |
|---|---|
| `BlockingFifo` | abstract: a bounded FIFO with blocking and timed takes, and its liveness |
| `Queue` | `detail/Queue.h` with the wait set of its condition variable; implements `BlockingFifo` |
| `BlockPool` | abstract: hands out blocks nobody holds, at most `Capacity` |
| `BytePool` | `detail/BytePool.h`, one step per access to the count or the resource; implements `BlockPool` if allocations are serialized |
| `OrderedMulticast` | abstract: messages are cast one after the other, and every inbox holds them in that order |
| `Mailbox`, `MCMailbox` | `Mailbox.h`, `Message.h`, `MailboxData.h`, `Receiver.h`; implements `OrderedMulticast`, uses two `BlockPool`s |
| `TimerManager` | `TimerManager.h`, `TimerManagerData.h`, with the kernel's timers and signals; an event is one step |
| `Msglib`, `MCMsglib` | both managers in one process; an event takes as many steps as its `SendSignal` does. Implements `TimerManager` and `Mailbox` |
| `Examples`, `MCExamples` | the two example programs as clients of `Msglib` |
| `TimeConv`, `MCTimeConv` | `TimeConv.h`, the `StartTimer` overloads, `timer_settime` |
| `QueueProofs`, `BytePoolProofs`, `OrderedMulticastProofs`, `MailboxProofs`, `TimerManagerProofs`, `TimeConvProofs`, `MsglibProofs`, `ExamplesProofs` | the proofs, of the module each is named after |

Layers: in `Mailbox` a queue is a sequence with the steps of `BlockingFifo` and
a pool is a set of blocks with the steps of `BlockPool`; `Queue` and `BytePool`
show that the code provides just that, and `UsesPools` that the mailboxes use
the pools as their contract demands (`alloc` serialized by the mailbox mutex,
nothing freed that is not out). `Msglib` instantiates `TimerManager` and `Mailbox`
and shows that each keeps its specification when the other is there, so that
what is proved of the two holds of the library.

### Correspondence

*Queue.* All accesses to the deque are under `m_mutex`; one critical section is
one step. `thread[c]` says where a blocked thread is: `asleep` in the wait set,
`woken` by a notification or spuriously, `expired` after its deadline. `Push`
stands for the three producers' operations, which have one body and never
block. `BlockingPop` is the predicate's first evaluation, `Recheck` every later
one; between them anyone may take the mutex. `empty()` and `size()` change
nothing.

*BytePool.* `Alloc` is the test of `m_size`, `Allocate` the memory resource
(which may throw earlier than the count says), `Decrement` the decrement;
`Free` and `Increment` are the two halves of `free`. `SizeMod` is the wrap of
`size_t`. `SerialAlloc` says whether callers serialize `alloc`.

*Mailbox.* `mutex` is the owner of `MailboxData::m_mutex`. A send is
`SendMessage`/`SendSignal` (lock, size check), then for each slot `Skip`, or
`Allocate` and `Emplace`/`EmplaceFull`, then `Return`. Payload bytes are left
out; a message has its label, its size modulo `SizeMod` (the `uint16_t`
`m_size`), its block, and the number of its send as history. `Release` is
`ReleaseMessage` or `~MessageGuard`; like `SendMessage` it picks the pool by
size. `Construct` and `Destruct` are the constructors and `~Mailbox`, which
neither unregisters nor releases; `Destroy` is the destruction by an owner who
has unregistered. `CarelessNext` is `Next` with the destruction of mailboxes that
are still registered, which the example programs do. `GetReceivers` returns a
reference: the loop reads the slots as they are at each step.

*TimerManager.* `memory` is the sequence of all `Timer`s ever allocated; a
signal carries an address in it (`sival_ptr`). Since the monotonic resource
does not reuse memory, the event of a destroyed Timer reads what the Timer
held. `kernel` has one entry per successful `timer_create`. `StartTimer` has
three outcomes besides "already running" and "out of memory", which change
nothing: started, `timer_settime` failed, `timer_create` failed; in the last two
the constructor throws and `m_timers` keeps the pointer. `Dequeue` is
`sigtimedwait` returning, before the mutex is taken; `TimerEvent` is the section
under the mutex, including the nested `cancelTimer`. `Shutdown` and `Exit` are
`~TimerResources` and the end of the thread's loop.

*Msglib.* `event` says how far the signal thread is with the signal it has in
hand: `LockEvent` takes the timer mutex, `EventSignal` gets the mailbox mutex,
`EventProceed` is a step of that `SendSignal`, `EventEnds` the nested
`cancelTimer` and the unlock. Meanwhile `StartTimer` and `CancelTimer` wait
(`TimerMutexFree`) and everything else goes on: sends, releases, registrations
as soon as the mailbox mutex is free, expirations, `Shutdown`. `offered` records
the mailboxes that the send has come to.

*Examples.* A thread is a script, the sequence of its library calls, taken from
its function; `receive` with a label is the receive loop that ends with that
label, and `Handle` is the loop's body (display, release, for `timer.cpp` the
answer `DONE`). `Displays` is what `displayMsg` makes of `as<T>()`. Each thread
owns the mailbox of its name. The programs rest on sleeps and delays where they
do not synchronize: `timely` says that all threads have registered when a sleep
or a timer's delay ends. Nothing is assumed when it is FALSE.

*TimeConv.* One request after the other while the clock runs. Integer division
truncates towards zero (`Trunc`). The constants keep the relation `Second =
SecondsToUsec * UsecToNsec` and are otherwise free; TLC uses a second of ten
nanoseconds, the proofs any.

## 3. What TLC checks

| run | instance | properties |
|---|---|---|
| `queue` | 3 consumers, 2 values, capacity 2 | `NoLostWakeup`, `PopWaitReturns`, `ImplementsFifo` |
| `byte_pool` | 3 threads, 4 blocks, capacity 3, serialized `alloc` | `SizeExact`, `ImplementsBlockPool` |
| `mailbox_blocks` | 2 senders, 2 mailboxes, 1 label with 3 slots, queues of 2, 3 sends, pools of 2 small and 1 large block | `OneOwner`, `BlocksAccounted`, `PoolExact`, `PutFits`, `SendResult`, `TrueMeansDelivered`, `RegistrationsExact`, `ImplementsOrderedMulticast`, `ReceivesInOrder`, `UsesPools` |
| `timers` | 2 labels, memory for 3 Timers, all times | `ArmedRegistered`, `LateSignalsBounded`, `LossesExplained`, `ArmedFires`, `JoinReturns` |
| `msglib` | 1 program thread, the signal thread, 1 mailbox with a queue of 1, 1 label with 2 slots, 2 one-shot timers, 3 sends | `EventReachesAll`, `SendsToLiving`, `ImplementsTimerManager`, `ImplementsMailbox`, `CallsReturn` |
| `examples` | both programs; pools of one block, labels 5 and 6 for 5 to 45, one periodic expiry; `timer` also when its threads come late | `AllShown`, `BlocksReturned`, `SendsToLiving`, `Terminates` |
| `time_conv` | 71 counts of 5 units, timevals from -1 to 2 seconds with -2 to 7 of 5 microseconds | `DelayExact`, `DurationOutcome`, `TimevalOutcome` |

`queue`, `byte_pool`, `mailbox_blocks`, `timers` and `msglib` also check their
module's `TypeOK`.

Why these bounds show something. *queue*: with three consumers two can sleep
while a third steals the value of a notified one, and a capacity of two lets
values outnumber notified threads. *mailbox_blocks*: three slots are what the
code has (`MAX_RECEIVERS`), two mailboxes make one of them register twice; three
sends overflow a queue of two and exhaust either pool; the memory resource has
more blocks than the pools' capacities, so that only the count limits them; the
message sizes are one that fits the small pool, one that fits the large pool and
one that fits neither. *timers*: two Timers for one label are what a late event
needs to hit its successor, a third one shows it for a chain and for the Timer
whose null `timer_t` is somebody else's. *msglib*: one thread that sends,
receives, registers and cancels next to two events in turn is enough for every
overlap of an event with a call; the queue of one is full when the second comes.
*examples*: pools of one block make sends fail that succeed with the default
capacities, so that the programs are checked in their worst setting; `Last = 6`
keeps the two roles of the one-shot timers, the last and the others. *time_conv*:
units that divide a nanosecond, equal it, or are no multiple of one, on both
sides of zero.

Named bounds: `MaxSends` sends (`ProgramMaySend` reserves what the events need),
`MaxTimers` Timers (the code's own bound, 65536), `MaxTicks` expirations of the
periodic timer of `timer.cpp`, `MaxNow` readings of the clock, `Last` the last
label of `timer.cpp`. No other counter is bounded. Symmetry is used where only
invariants and safety refinements are checked.

Deadlock is checked in the `queue`, `byte_pool` and `time_conv` runs. The other
models do stop: when all sends are made and all mailboxes destroyed, after
shutdown, and at the end of the example programs.

### Fairness

*Queue*: a thread that left the wait set gets the mutex (critical sections are
short and every other runnable thread leaves them), and deadlines pass. Nothing
is assumed of callers. *Mailbox*: a thread inside a send takes its next step; its
steps never wait, since `emplace` does not block. Nothing is assumed of
receivers. *TimerManager*: armed kernel timers expire; `sigtimedwait` takes
signals of one number in the order in which they were queued, hence strong
fairness of `Dequeue` for each Timer; the thread gets the mutex and its wait has
a timeout of half a second. Nothing is assumed of the program. *Msglib*: both;
the signal thread competes with the program's sends for the mailbox mutex, which
is free again and again but not for good, hence strong fairness of `EventSignal`
alone. *Examples*: the process runs as long as something can (weak fairness of
the whole next-state relation); its behaviours are finite.

### Where the code and its documentation differ

Five runs expect a violation; each has a finding in `PROJECT.json`.

* `mailbox_lost`: a full queue refuses a message whose block is then neither
  delivered nor freed.
* `mailbox_lazy`: `RegisterForLabel` before `Initialize` locks a mutex twice.
  `LazySpec` adds that call; all other runs initialize first.
* `mailbox_truncated`: a size of 65536 or more does not fit `Message::m_size`.
  Here `SizeMod = 2` and a message of size 2 stand for 2^16.
* `timer_events`: the late event of a cancelled one-shot timer cancels the timer
  that was started for its label in the meantime. TLC's trace lets the pending
  signal survive `timer_delete`; a signal that is dequeued already does the same.
* `time_point`: a timer for a point in time is set by the time since the clock's
  epoch, relative to now. The repository's test of it is disabled.

Seen while modelling, without a run of their own:

* The comment on `BytePool` (`BytePool.h:88-90`) makes thread safety a matter of
  the memory resource. Two threads that call `alloc` without a common mutex can
  both take the last element (`SerialAlloc = FALSE`), and the count wraps. The
  mailboxes allocate under their mutex and are not affected.
* A zero time, or a duration below a nanosecond, makes `StartTimer` return true
  for a timer that never fires: `DurationOutcome` and `TimevalOutcome` say when.
  A negative time throws, although false is documented for a timer that is not
  started; so do failures of `timer_create` and of the allocation.
* `BytePool::size()` is documented as the number of allocated elements and
  returns the number of free ones.
* `thread3` of `mbox.cpp` unregisters labels it did not register, and `thread2` of
  `timer.cpp` registers 40 labels a second time where it means to unregister them
  (`timer.cpp:81-83`). Both leave registrations of a destroyed mailbox behind;
  `SendsToLiving` of the `examples` run shows that nothing is sent to them
  before the end of the program.
* A duration whose unit is coarser than a second does not compile
  (`dur -= secs`).

## 4. What TLAPS proves

For every value of the constants that satisfies the modules' assumptions. A
hypothesis beyond those is named.

### Components

* `QueueTyped`, `QueueNoLostWakeup`: `TypeOK` and `NoLostWakeup` together are
  inductive: a push adds one value and moves one sleeper, if there is one, to
  those who will look; who looks and finds nothing proves the queue empty.
* `QueueIsFifo`: the safety half of `ImplementsFifo`, by a step simulation.
* `BytePoolTyped`, `BytePoolSizeExact`, `BytePoolIsBlockPool`, under the
  assumption `SerialAlloc`. The type invariant (the count never wraps) needs the
  exactness of the count and the fact that at most one thread is between test and
  decrement; `IInv` is their conjunction.
* `MulticastInOrder`, `MulticastTakesForward`: in `OrderedMulticast` every inbox
  is in the order of the casts, and no receipt takes a message older than the one
  before. Both follow from one inductive invariant, `IInv`.
* `MailboxTyped`: `TypeOK`, which includes that a thread is inside a send exactly
  if it owns the mutex.
* `MailboxIsOrderedMulticast`: each step is a cast, a delivery of the last cast
  message, a receipt, or a stutter of `OrderedMulticast`. It needs the invariant
  `CurrentSend`: the send that holds the mutex is the last one that was counted.
  `MailboxInOrder` and `MailboxReceivesInOrder` bring the two theorems of
  `OrderedMulticast` back to mailboxes through this refinement.
* `MailboxRegistrations`, `MailboxSendResult`: inductive with `TypeOK`, the second
  for the slots behind the loop variable (`ResultInv`).
* `MailboxTrueMeansDelivered`: at the end of a `SendMessage` that is about to
  return true, every registered mailbox has the message in its queue or received
  it last. `DeliveredInv` says it of the slots behind the loop
  variable. It is kept because no queue and no receiver has anything newer than
  the current send (`NothingNewer`, from the order of the multicast) and because
  a mailbox in a slot is alive (`RegistrationsExact`).
* `MailboxOneOwner`, `MailboxBlocksAccounted`: neither is inductive alone. `BlocksInv`
  says that the blocks that are out are partitioned: one in the hand of the send
  that holds the mutex (`HandInv`), the others in one message of one queue, with
  one receiver, or lost; an emplacement, a receipt, a release and a destruction
  each move blocks from one part to another.
* `MailboxPoolExact`, `MailboxPutFits`, `MailboxKeepsSize`, `MailboxUsesPools`:
  under the hypothesis `SizesKept`, that `largeSize` fits the `uint16_t` `m_size`.
  `PoolInv` adds to `BlocksInv` that the block of every message, in a hand, a
  queue or with a receiver, belongs to the pool of the message's size, so that a
  release gives it back where it came from. Without the hypothesis they are
  wrong, which is the finding of `mailbox_truncated`.
* `TimersTyped`, `TimersArmedRegistered`, `TimersLateSignals`, `TimersLossesExplained`.
  The second needs `Linked` (a kernel timer is the one that its own Timer names),
  the third a count of the signals that are pending, in hand or still to come for
  each Timer (`LateInv`). The last one needs to know why each kernel timer was
  deleted (`LossInv`): the crucial part is `StrayExplained`, that a one-shot timer
  with a signal under way that is not registered any more was itself cancelled or
  the victim of an earlier one, for then what it ends is a later Timer of its label.
* `TimeConvDelayExact`, `TimeConvDurationOutcome`, `TimeConvTimevalOutcome`: from
  the bounds of truncated division, by cases on the sign. They hold for the real
  10^9 nanoseconds and every integer representation, short of overflow.

The invariants of `Mailbox` that do not need owners to unregister are inductive
for `CarelessNext`: all of the above but `RegistrationsExact` and
`TrueMeansDelivered`, which a careless destruction breaks. That is what makes
them available for the example programs.

### The library as a whole

* `MsglibKeepsTimers`, `MsglibKeepsMailboxes`: the safety halves of
  `ImplementsTimerManager` and `ImplementsMailbox`. Every step of the library is a
  step or a stutter of each manager alone. For the timers, `LockEvent` and the
  steps of the event's send are stutters and `EventEnds` is `TimerEvent`. For the
  mailboxes, `EventSignal` is a `SendSignal` of the signal thread; that its label
  is a label needs `HandlerOK` (an event under way has a signal in hand) and the
  type of `memory`.
* `MsglibTimersSafe`, `MsglibBlocksSafe`, `MsglibPoolsSafe` (if `largeSize` fits
  `m_size`), `MsglibSendsSafe`: by the two refinements, what is proved of
  `TimerManager` and `Mailbox` alone holds when events send while the program
  sends, receives, registers and cancels.
* `MsglibTyped`, `MsglibEventReachesAll`: `SignalInv` says that the signal thread
  sends for the label of the Timer it has in hand, and that the slots behind its
  loop variable hold mailboxes it has come to. The slots stay as they are because
  it owns the mailbox mutex; at the last slot, `RegistrationsExact` turns slots
  into registrations.
* `MsglibSendsToLiving`: from `RegistrationsExact`, for clients whose owners
  unregister before they destroy.

### The example programs

For all capacities, block sizes, numbers of timers (`Last`) and periodic
expiries. The programs destroy registered mailboxes, so that `MsglibSendsToLiving`
does not apply to them.

* `ExamplesKeepTimers`, `ExamplesBlocksSafe`: every step of a program is a step of
  `TimerManager`, and a `CarelessNext` step of `Mailbox`. This needs the types of
  all the calls in the scripts (`ScriptsTyped`), for `timer.cpp` by the structure
  of its concatenated loops.
* `MboxSendsToLiving`: `mbox.cpp` leaves labels registered for destroyed mailboxes
  and still never sends to one. `MboxInv` is the inductive invariant. By the
  position of `main`: how many sends were made and who may be in one
  (`MboxControl`); which threads a slot may name, each once (`MboxRegistered`);
  which label has which number (`MboxMessages`); a thread leaves its loop with the
  sixth send, `Exit`, only (`MboxHands`); and a mailbox that the current send has
  still to come to has not got it (`MboxRoom`). Hence the thread of an awaited
  mailbox has not seen `Exit` and has not destroyed it.
* `ExamplesBlocksReturned`: at the end of either program both pools are full again,
  if `QueueSize >= 3` and `SizesKept`. For `mbox.cpp`, `MboxKept`: only three sends
  carry a block, so that a queue of three never refuses one (`Room`), and every
  thread has released what it received before `Exit`. `timer.cpp` sends signals
  only (`NoSends`). `PoolInv` turns "no block is out" into full counts.
* `MboxAllShown`: if the threads have registered when the sleep of `main` ends, each
  has displayed the signals it must, provided `QueueSize >= 5`. `ShownInv` follows
  labels 4 and 5 from the send through the queue and the hand of `thread3` to what
  it has displayed.

The two bounds on `QueueSize` are what the program needs, not what the code has:
`Mailbox.h:27` sets a default of 256. With smaller queues a full one can refuse a
message, which the finding of `mailbox_lost` is about.

### Only model-checked

* Liveness: `PopWaitReturns`, the fairness halves of `ImplementsFifo`,
  `ImplementsTimerManager` and `ImplementsMailbox`, `CallsReturn`, `ArmedFires`,
  `JoinReturns`, `Terminates`. The prover has no rules for fairness and ENABLED.
* `AllShown` and `SendsToLiving` of `timer.cpp`: they rest on the order in which
  the chain of one-shot timers expires relative to the threads' scripts, and the
  invariant that ties both together is not written yet.

## 5. Not modelled

* Behaviour that is undefined or a misuse: `SendSignal` or `StartTimer` before
  `Initialize` (null pointer), releasing a message twice, destroying a mailbox
  that is in use by another thread. Guards exclude them: `initialized`, `held`,
  and in the general clients of `Mailbox` and `Msglib` `wanted[m] = {}`; the
  example programs destroy mailboxes as they do.
* `m_timers` is an uninitialized array. It is part of an object so large that its
  memory comes zeroed from the operating system in practice; the model starts
  with null pointers.
* Delivery of SIGRTMIN to threads that were created before `Initialize` and do not
  block it: which thread the kernel takes is outside the library.
* `SendMessage`'s branch for a failed `put`: `PutFits` shows it is unreachable.
* Durations with a floating representation (rounding), and overflow of 64-bit
  counts in the conversions.
* Exceptions from the queues' own memory resource, whose upstream is the heap.
* The sandbox programs and `DiagResource.h`: demonstrations that print the
  allocations of a queue and of a pool. The general callers of the `queue` and
  `byte_pool` runs make every call they make. Tests and build files have no
  behaviour of their own.

What remains is outside the reach of a state model (signal delivery, numeric
representation, memory that the program does not own); no component of the
library is left.

## 6. Plan

Done: every component of the library and the example programs, their runs, and
proofs of every invariant and of every safety refinement that the modules of the
library are checked for, and of all the invariants of `mbox.cpp`. Left to prove:

1. `SendsToLiving` of `timer.cpp`: `main` cancels the periodic timer and sends
   signal 4 before it joins, and the threads leave their loops with the labels
   that the last timers signal; the invariant has to say which timers are armed,
   pending or handled at each position of `main`;
2. `AllShown` of `timer.cpp`, from the same invariant and the threads' registrations.
