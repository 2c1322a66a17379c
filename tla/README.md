# TLA+ models of the power management code of the MagX kernel

The repository is Motorola's MagX kernel for the "xpixl" phone: Linux 2.6.10
(MontaVista) for a uniprocessor ARM11, with Motorola's drivers.  Several
million lines of it are Linux.  The product's own concurrent logic that decides
whether the phone works is the *power IC driver*,
`linux-2.6.x/drivers/power_ic`: it turns interrupts of the Atlas chip into
events, debounces the power key, the headset and the headset's key, detects USB
cables, tells applications which accessories are plugged in and measures the
battery.  Around it, *MPM* (`drivers/mpm`) and the suspend code decide whether
and how the phone sleeps.  This project models that core.

Paths below are relative to `linux-2.6.x/drivers/power_ic` unless they say
otherwise.

## 1. Inventory

| Component | State | Operations | Interacts with |
|---|---|---|---|
| Events, `core/event.c`, `core/gpio.c` | chip's status and mask registers, edge latch, `interrupt_flag`, suspend table, callback lists | top half, interrupt thread with bottom half, mask / unmask / clear / sense read, subscribe / unsubscribe | register access; calls callbacks; suspend reads the table |
| Register access, `core/external.c` | `power_ic_access_mutex`, RAM copies of write-only registers | read, write, masked write | everybody; the SPI bus |
| Debouncing, `module/debounce.c` | table of entries, timers, queue with its mutex, `previous_key_state` | interrupt handler, timer handler, the thread, five callbacks | events (unmask, mask, clear, sense), accessory driver, keypad, suspend table, audio |
| Accessories, `module/accy.c` | bitmap of connected accessories, per open file an interest mask and a set of changes, wait queue | open, close, read, write, poll, ioctl, notify insert / remove | debounce thread, USB thread, applications, MPM |
| USB detection, `module/usb_detection.c`, `emu_glue_utils.c` | state of the cable state machine, event flag, pending EMU interrupts | its thread and interrupt handler; open, release, read and ioctl of `/proc/emu` | events and their callback lists, accessory driver |
| A/D converter, `module/atod.c` | two mutexes, the flags of the postponable conversion, timing of the last one | immediate conversions, begin / read / cancel of the postponable one, completion handler | events, register access, applications |
| Charger, RTC, one-wire, audio, lights, ... | chip registers | ioctls and kernel calls | register access |
| MPM, `drivers/mpm/mpm_func.c` | event ring, registered drivers and their busy bits and counts | register, unregister, advise, notify, get event | all drivers; the loadable part of MPM |
| Suspend, `kernel/power/main.c`, `drivers/base/power` | three lists of devices, their power states | suspend and resume walks with interrupts on and off, runtime states, add, remove | drivers, MPM's verdict, sysfs |
| Linux itself | | scheduler, timers, softirqs, semaphores, wait queues | |

What is hard here:

* *Priorities instead of locks.* The interrupt thread has real-time priority
  99, the debounce thread 97, the USB thread 90 (`core/thread.h`); the kernel is
  fully preemptible (`PREEMPT_DESKTOP`) on one processor.  Several
  read-modify-write sequences are safe only because of that, and some are not.
* *An edge-triggered line.* If the interrupt thread sleeps while the line is
  high, the driver is dead.
* *Windows between a clear, a read and an unmask*, over a slow serial bus, while
  inputs bounce.
* *Three contexts on one queue*, one of them a softirq that calls `down()`.
* *Flags that are toggled*, so that a lost or extra toggle inverts their
  meaning for good.
* *Suspend bits* set in one thread and cleared in another.
* *A converter that is stolen and given back*, with a completion interrupt that
  may be under way.
* *Suspend attempts that fail half way*, on a system whose processes are not
  frozen (`CONFIG_MOT_FEAT_PM` compiles `freeze_processes` out).
* *Numbers that are handed out again* while a count of busy drivers is kept.

`PROJECT.json` lists the hazards line by line, with the properties that cover
each, and the components that are not modelled, with the reason.

What makes each part correct: events -- no edge is lost, no client's mask call
is undone, each pending unmasked event is dispatched once; debouncing -- a masked
interrupt is on its way to being unmasked, what was reported is what the input
reads, the phone is kept awake exactly while it is busy; its queue -- no index is
lost or repeated, and nobody waits for itself (it keeps only part of that); accessories -- each reader learns
of each change it has not seen; USB -- VBUS is watched and removals are reported;
A/D -- a conversion that was begun completes, and an immediate one is not
disturbed; MPM -- the busy count is right and the events are a queue; suspend --
nothing is powered during sleep and everything is as before after it.

## 2. Modules

| Module | Models |
|---|---|
| `EventService` | what `core/event.c` promises: pending unmasked events are taken atomically, then dispatched once, lowest first |
| `PowerIcEvents` | how it does it: line, top half, thread, bottom half one bus access at a time, clients' calls |
| `IndexQueue` | what a call of `add_index` and the taking of an index amount to, races included |
| `Debounce` | `module/debounce.c` on top of `EventService` and `IndexQueue` |
| `MCDebounce` | values for `Debounce`'s constants |
| `DebounceQueue` | `add_index` and the thread's pop, statement by statement |
| `Accessory` | `module/accy.c` with its notifiers and applications |
| `UsbDetection` | `module/usb_detection.c`, the hand-over in `emu_glue_utils.c` and the callback lists, on top of `EventService` |
| `Atod` | `module/atod.c` on top of `EventService` |
| `DevicePm`, `MCDevicePm` | `kernel/power/main.c` and `drivers/base/power`; a tree of devices |
| `MpmQueue` | what MPM's event queue promises |
| `Mpm` | `drivers/mpm/mpm_func.c` |
| `PowerIcEventsProofs`, `DebounceProofs`, `DebounceQueueProofs`, `AccessoryProofs`, `UsbDetectionProofs`, `AtodProofs`, `DevicePmProofs`, `MpmProofs` | theorems about the module each is named after, checked by TLAPS (section 5) |

`PowerIcEvents` implements `EventService` (checked and proved); `Debounce`,
`UsbDetection` and `Atod` EXTEND `EventService` and use its actions (`Unmask`,
`Mask`, `Clear`, `Service`, `BeginDispatch`, `Dispatched`) in their own, so that
they stand on the proved interface and not on the register traffic.
`DebounceQueue` implements `IndexQueue` (checked), and `Debounce` EXTENDs
`IndexQueue` in the same way.  `Mpm` implements `MpmQueue` (checked and proved).

**PowerIcEvents.** `stat`, `mask` are the registers as sets of events numbered
like `POWER_IC_EVENT_T`; `SecondReg` is the first event of the second register
pair.  `irq` is the edge latched by the interrupt controller; `SetChip` sets it
on every rising edge of the line, whichever write or event caused it.  The pc of
the interrupt thread follows `interrupt_thread_loop` and `power_ic_bh_handler`:
`wait`, `reset`, `line`, for each register pair `rdStat`, `rdMask`, `wrStat`,
`wrMask`, then `collect`, and `dispatch` / `handlers` once per event.  A client's
call is two steps, as `power_ic_set_reg_mask_sec` is a read and a write under
one mutex; `call` records it and excludes the bottom half's accesses.  Clearing
writes a one to the status register, whose old value is not read.  `MayCall`
states the one scheduling assumption: between two accesses of a pass the
interrupt thread does not block, so no client of lower priority gets the mutex.
The mutant that drops it shows that nothing else protects the mask register.

**Debounce.** The three debounced events and five table entries.  The thread's
pc goes through `begin` (pre-debounce), `clear`, `sense`, `decide`, `callback`,
the callbacks' intermediate bus accesses (`attach`, `attach2`, `hsdet`),
`finish` (unmask), `load`, `store` (the suspend bit) and `reset`.  Every bus
access is a step of its own.  Between two steps inputs may change, timers
expire, and the interrupt thread may take an interrupt; the debounce thread
waits until that one has finished (`IntThreadBlocked`).  Statements that touch
only the thread's own variables are part of the neighbouring step.  A call of
`add_index` is a step of `IndexQueue`: it drops the index if the queue is full,
and up to `MaxOverlaps` calls have computed `next_event` before another call's
store, so that the tail is set to any place up to the end of what was stored and
the indices behind it are out of the queue.  `lost` (history) has the indices to
which that happened.  `TimerSelfWait` is the timer that expires while the
interrupted thread holds the mutex: `self_wait` is that thread, which never runs
again, and nobody adds or takes an index any more.  `connected`
stands for the accessory driver's record of the two headset types, `power_key`
and `headset_key` for the last key event generated.

**DebounceQueue.** Each call of `add_index` has a number instead of a table
index, so that a lost or repeated one shows.  Computing `next_event`, taking the
mutex, storing and releasing are separate steps in the two threads; the softirq
runs in one step when the mutex is free, because nothing preempts it; when the
mutex is taken, `asleep` names the thread on whose stack it sleeps.  `overtaken`
and `lost` are histories: calls into the middle of which another call stored, and
calls whose index was dropped or fell out of the queue.  The refinement maps the
array to the slots from the head on as far as they hold indices not yet taken.

**Accessory.** A notification is split into its test, the load and the store of
`|=` / `&=`, one step per file (each under its spinlock, which disables
preemption) and the wake-up.  The debounce thread preempts the USB thread, both
preempt a writing application, and the readers' calls come in the middle of that
application's notification.  `told`, `steady`, `skewed` are history variables: what
a reader has been told, which accessories were of interest all the time, and for
which file and accessory a race has put the flag out of step.  poll(2) is modelled as queue, look, sleep; its part
outside the driver is marked external.  A write passes the accessory number to `1 << accy`
with the connected flag still in it; an ARM shift uses the low byte of the
register, so the model uses the accessory.

**UsbDetection.** Events are numbered as in `POWER_IC_EVENT_T` (USBI is 16).
`callbacks` are the lists of `power_ic_events[]`; an unsubscribe walks its list
entry by entry (`entry`).  The detection thread's pc separates what an interrupt may come between:
the sampling of the sense bits, the clear, the unmask, the assignment of the
returned state, the branch on it, the wait and the reset of the flag.  `upc =
"null"` is the call through the table's null entry, `"gone"` the end of the
thread after `/proc/emu` was opened.

**Atod.** One step per register access or flag test.  The converter (external)
is `chan`, `aden`, `asc` and the one-shot trigger `shot`, which is `"used"` after
it fired and `"fresh"` only after an immediate conversion: this is the chip's
limit for which the driver has its dummy conversion (`atod.c:2141`).  `Clients`
use the non-blocking calls, all `Apps` the immediate ones, each whenever it is not
in a call; nothing is assumed about the order of their calls.  `Faults` has
`"signal"` (signals and failing user copies) and `"channel"` (a request for a
channel or of a type that the chip does not have, which quits with ADCDONEI still
masked, `ExclusiveInvalid`).  `spoiled` (history) says what has come in the way of the
outstanding conversion since it was begun or restarted: such a request, a read or
cancel that came into a restart, a begin on top of another conversion, a begin
that had looked at a `last_conversion` that is no longer the last.

**DevicePm.** `pc` follows the suspending process through the walks; the driver's call
and the move between the lists are two steps, since `dpm_list_sem` is released in
between.  `hw` says whether a device has power; `Late` devices answer -EAGAIN as
long as interrupts are on.  `Meanwhile` names what other processes do during an
attempt; the run has all three.  Two histories name the devices they have
interfered with: `meddled`, those registered after the walk or written to in the
middle of an attempt, until the record is right again, and `misplaced`, those
registered when their parent had already been taken from `dpm_active`.  `Without` is `list_del`: it takes a device out of a list at the place
where it is.  Platform code (`pm_ops`), drivers and the verdict of
`mpm_ready_to_sleep` are external: every answer is possible.

**Mpm.** Each function is a critical section with interrupts off, hence a step.
The reader is in MPM's loadable part, which is not in the repository; the
model's one reader looks (`mpm_queue_empty`) and then fetches.  `advice` records
what each driver last said, which the code does not keep; `BusyIsAdvised`
compares the count with it.  Names are the drivers themselves.

## 3. Runs

The runs of `PowerIcEvents`, `Atod` and `Mpm` check for deadlock; the others use
`CHECK_DEADLOCK FALSE`: input changes, additions, plugs, notifications and
attempts are bounded, and when they are used up the system rightly stops.

| Run | States | Shows |
|---|---|---|
| `events` | 96 k | `NoLostEdge`, `MaskChangesAsAsked`, the refinement `ImplementsService`, and with fairness `UnmaskedIsHandled`, for all client calls |
| `debounce` | 340 k | power key, headset and its key together: `MaskedIsInProgress`, `ReportedIsCurrent`, `KeyIsCurrent`, `PowerQueuedOnce`, `QueueIsPaidFor`, and with fairness `FinallyReported`, `SuspendReleased` |
| `debounce_queue` | 569 k | `NoReplay`, `LostOnlyToOverlap`, the refinement `ImplementsIndexQueue` |
| `accy` | 595 k | `InStep`, `SleeperIsWoken`, and with fairness `ChangeIsRead`, for two files, two accessories and all three notifiers |
| `usb` | 303 k | `MaskedIsWatched`, and with fairness `RemovalIsReported` |
| `atod` | 569 k | `OutstandingIsArmed`, `ExclusiveUndisturbed`, and with fairness `OutstandingCompletes`, for two clients and every fault |
| `device_pm` | 356 k | `OnOneList`, `AsleepAllOff`, `Restored`, `TreeOrder`, and with fairness `AttemptEnds` |
| `mpm` | 63 k | `BusyIsAdvised`, `OwnNumber`, the refinement `ImplementsQueue` |

Each also checks its module's type invariant.

Where the code has a race that breaks a promise, the race is in the passing run
too, and the property says exactly what it does *not* spread to.  A history
variable (`lost`, `skewed`, `spoiled`, `meddled`, `misplaced`) is set by the step
that does the harm; the property excepts the event, the pair of file and
accessory, the conversion or the device that was hit, and nothing else.  Section 4
lists the races.

* `debounce`: `MaskedIsInProgress`, `FinallyReported`, `SuspendReleased` and the
  properties about rest except an event whose own index was lost (for the key,
  also the headset's, whose debouncing enables it).  The exception is needed at rest too:
  a redetection polls the headset unmasked; if it has cleared a change and then
  loses its index, the headset rests with an old report.
* `accy`: `InStep` excepts a pair after a store of `connected_accessories` that
  overwrote another, and after an open or a read between a notification's store
  and its marking of that file, until the next read or open.
* `atod`: `OutstandingIsArmed` excepts a spoiled conversion, `ExclusiveUndisturbed`
  only a read or cancel that came into a restart.
* `device_pm`: `AsleepAllOff` and `Restored` except meddled devices; `TreeOrder`
  excepts these, misplaced ones and late children of early parents.

Bounds.  `events` has two events in one register, so that one is raised,
masked or unmasked while the other is serviced, and an empty register before it in
each pass; the theorems remove the bound, two full registers included.  In `debounce`, `PollCount` is 1, that is two equal samples
(the code compares with `>`), the smallest number for which a sample can differ
from the one before; two changes of the three inputs are an insertion and a key
press, a press during a removal, or a change and its reverse in any window of
another's debouncing, on top of the two entries forced at power-up.  The queue has
three slots, two of them usable, so that it does fill up, and two calls of
`add_index` have a stale tail, so that one can lose an index and another bring an
old one back.  (The theorems remove these bounds.)  In `debounce_queue` the queue
has four slots and seven calls, so it fills, wraps and has calls of all three
contexts in flight.  In `accy`, two notifications by any of the three notifiers
are an insertion and a removal of one accessory, or changes of both, one in the
middle of the other, against any sequence of opens, reads, polls and closes on two
files.  In `usb`, four changes
of VBUS are two insertions and two removals, with two opens of `/proc/emu`; EMU's
SE1 event is treated like ID and left out.  In `atod` nothing is bounded:
two clients and another application call as often as they like.  In
`device_pm`, the tree has a late bus with a late child that is hot-plugged, an early hub with a leaf;
three attempts and four operations of others, of any kind and at any time, let
failed attempts follow each other with registrations, removals and writes in between
and in the middle.  In `mpm`, arrays grow by two bits and
three drivers register, so they grow twice; the ring keeps two events; nothing
else is bounded.  The initial inputs are arbitrary, so power-up is covered.

Fairness.  The interrupt controller delivers a latched interrupt; each thread
that can run does in the end run (they have real-time priorities, and above
them is only interrupt context); a pending timer expires, a wait with a timeout
ends; a holder of the bus mutex finishes its transfer.  `SF(BhReadStat)` says that semaphores are fair to
a waiter: between two client calls the mutex is free, and a thread waiting for
it is woken and, having the highest priority, gets it.  In `Accessory` the
application of an open file runs the usual loop, poll and then read, and does
not sit idle for ever.  In `Atod`, transmit bursts come, immediate conversions
end and an application that is in a call goes on; it need not make calls.  Immediate
conversions without end can steal a conversion for ever, so `OutstandingCompletes` has
as its premise that they stop at some time.  In
`DevicePm`, drivers return and something wakes the phone.  Nothing is assumed of
the inputs.

Assumptions about callers.  `usb` has one cable per behaviour (`Swaps`); section 4
says what happens otherwise.  The other runs assume nothing.

## 4. What the code does not keep

Four runs expect a violation; each states a sentence of the source's comments or
of the kernel's documentation and TLC finds a behaviour of the code against it.
`PROJECT.json` quotes the sentences.

| Run | Property | What happens |
|---|---|---|
| `debounce_busy` | `BusyBlocksSuspend` | the interrupt is unmasked (`debounce.c:420`) before its suspend bit is cleared (426); an interrupt between the two sets the bit for a new event, and the clearing erases it |
| `queue_wait` | `NoSelfWait` | the timer softirq calls `down` on a mutex that the interrupted thread holds |
| `usb_null` | `WokenHasHandler` | an interrupt between the unmask (`usb_detection.c:258`, 282) and the assignment of the state (407): the thread is woken in the state without a handler and calls NULL |
| `atod_cancel` | `CancelledIsOver` | a cancel between an immediate conversion's test (`atod.c:1157`) and its restart: the cancelled conversion is started, the next one is a second timed start in a row, which the chip ignores |

Timers have no durations in the models: they expire in any order.  The runs
above need only orders that the periods allow.

Further disagreements met while modelling, without a run of their own:

* `add_index` computes `next_event` (`debounce.c:487`) before it takes the mutex
  ("Acquire mutex for protecting the thread queue", 489): two additions that
  overlap lose one index; its event stays masked, its change unreported and its
  suspend bit set.  The run `debounce` has such losses; `NoReplay` and
  `LostOnlyToOverlap` say that nothing worse happens to the queue, and
  `MaskedIsInProgress` and `FinallyReported` that no other event suffers.
* "it is impossible for the queue to fill up" (`debounce.c:479`) does not follow
  from masking alone.  The power key has one index on the queue at most
  (`PowerQueuedOnce`), but a redetection and an index that is still queued when
  its event is unmasked let several indices of the headset and its key be on it
  at once, more with more changes of the inputs while the thread does not run.
  What holds is `QueueIsPaidFor`: only changes of the inputs make work, so that
  the size of the queue rests on a thread that keeps up with them.  A full queue
  drops the index (493) with the same effect as an overlap.
* With no headset in, `previous_key_state` may stay at a release that is not
  what MC2BI reads: the final handler of a press that began before the removal
  records it (eight changes).  The next headset resets it; `KeyIsCurrent` is
  therefore about a connected headset.
* A headset interrupt while the key is held redetects the headset and forgets
  the press, so the removal that follows sends no release, although
  `debounce.c:663` promises one "to avoid a long key press event".  `KeyIsCurrent`
  is about the key state that is recorded, not about the pairing of the events
  sent, which the code does not keep.
* `connected_accessories` is changed by `|=` and `&=` (`accy.c:635`) without
  `connected_lock`, which only `accy_read` takes: a notifier that is preempted
  between load and store undoes the other's change, which is then lost although
  the files are marked.  In the run `accy`; `InStep` says that the other
  accessories' flags stay right.
* The redetection of a headset (`debounce.c:816`) polls HSDETI with its
  interrupt unmasked, although "While it is in the process or debouncing an
  event, the event's interrupt is masked" (`debounce.c:328`).
* A removal disables the key's entry (`debounce.c:639`) while its timer may be
  pending; its index is then dropped (375) and the key's suspend bit stays set.
  With the table's periods this takes a key interrupt in the last polls of the
  removal.
* When an *application* notifies (`accy_write`), a file opened or read between the
  change of the bitmap (`accy.c:635`) and the marking of the file gets an inverted
  flag, until its next read.  In the run `accy` as well.
* An accessory inserted between open and GET_ALL_DEVICES is in the bitmask and
  still flagged; its removal clears the flag (`accy.c:700`) and is not reported.
* `poll_count` is documented as the number of samples (`debounce.c:94`), the
  code takes one more; `power_ic_event_clear` says the flag is cleared after the
  callbacks (`event.c:572`), the bottom half clears it before.
* USB: an insertion between the read of the sense bits (`usb_detection.c:192`)
  and the clear (257, 281) is not noticed; another cable that comes during a
  glitch of VBUS overwrites `cable_attached`, and the first one's removal is never
  reported; `emu_proc_open` does not wake the thread that waits at 413; after
  `emu_proc_release` the handlers stay subscribed, and the next open subscribes
  them again; between the unsubscribe and the subscribe in `emu_proc_open`
  (`emu_glue_utils.c:285`, 288) an event has no callback and stays masked.
* `CLEAR_ACCY_INTERRUPT_1` (`emu_glue_utils.c:75`) ORs the event numbers 16, 19
  and 21 and is used as a bit mask (220): status bits 0, 1, 2 and 4 are
  cleared, ADCDONEI among them, and not those of VBUS, ID and SE1 (187).
* A/D: a signal at `atod.c:1231` and a failing copy at 1829 return without
  `up(&postponable_mutex)`, and the clients' later calls wait for ever; a request for
  a channel that does not exist quits (`atod.c:1110-1116`) after it has masked ADCDONEI, and
  the stolen conversion is not restarted before the next immediate one, although
  "Once this conversion is complete, the other conversion will be restarted"
  (1094); a begin while another conversion is outstanding is accepted and ends
  as a second timed start in a row; a second reader can discard a conversion begun
  after the one it waited for.  The run `atod` has all of them.
* A failed attempt leaves late devices on `dpm_off_irq` (`dpm_resume` empties
  `dpm_off` only).  A late child registered after that is put in front of its
  parent by the next attempt (`drivers/base/power/suspend.c:145`), and the parent is
  powered down first, although "All list on the suspend path are done in reverse
  order, so we operate on the leaves of the device tree [...] first"
  (`suspend.c:60`).  A late child of an early parent is always too late.  The run
  `device_pm` has the first; `TreeOrder` says that every other device keeps its place.
* Suspend: a failing `device_power_down` resumes devices it never
  suspended (`resume.c:138`); a device registered between the walk and the sleep is not
  suspended; `dpm_runtime_suspend` ignores children (`pm_users` is never
  consulted, `drivers/base/power/main.c:59`).
* A runtime state written through sysfs after the suspend walk is recorded for a
  device that the resume walk then powers; the next suspend skips it as already
  suspended, and the platform sleeps with a powered device ("Save state and stop
  all devices in system", `drivers/base/power/suspend.c:96`).
  `kernel/power/main.c:217` says "stop all processes", which `CONFIG_MOT_FEAT_PM`
  compiles out.  In the run `device_pm`; `AsleepAllOff` and `Restored` say that
  no other device is affected, and that this one is right again after a write
  between attempts.
* MPM: `mpm_get_queued_event` does not look whether there is an event; with two
  readers that both looked, the tail would pass the head.  Unregistering a
  number that is not registered takes the length of a null name
  (`mpm_func.c:441`).

## 5. Proofs

Every invariant and action property that a passing run checks, and the refinements
of `EventService` and `MpmQueue`, are proved for all values of the constants, from the
modules' ASSUMEs alone: no theorem has a further hypothesis.  The races of
section 4 are in the specifications that the theorems are about, and the theorems
have the same exceptions as the properties.  The inductive invariants were first
checked with TLC on the runs' instances.

### Events and MPM

`PowerIcEventsProofs` proves, for every number of events, every split into
registers and every set of client calls, from `PowerIcAssumption` alone:

* `TypeCorrect`: `Spec => []TypeOK`;
* `EdgeNotLost`: `Spec => []NoLostEdge`;
* `MaskAsAsked`: `Spec => MaskChangesAsAsked`;
* `Implements`: `Spec => ImplementsService`.

`MaskChangesAsAsked` and the refinement do not follow from the step alone: the
bottom half writes back a mask it read two accesses before, so a proof must know that
the mask has not changed since.  The inductive invariant `IInv` (theorem
`Invariance`) has five parts:

* `TypeOK`;
* `CallFresh`: what a client's call under way has read of its mask register is
  still in it;
* `NoCallInPass`: between the first and last access of a pass there is no call;
* `SnapshotFresh`: `imr` of the current register is its mask, from the read to
  the write, and the events in `isr` are pending until they are cleared;
* `BatchDone`: outside dispatching, nothing is left to dispatch.

`NoCallInPass` is where the priority assumption enters; with it `SnapshotFresh`
is preserved by every client step vacuously and by the thread's own steps by
what they read.  `Implements` maps `mask` to the mask as if it were written
together with the status (`MaskOnceTaken`) and `serviced` to the events taken
but not collected (`Collected`); `wrStat` then is the abstract `Service` step,
`wrMask` a stutter, `collect` is `BeginDispatch`.

`MpmProofs` proves, for every set of drivers (finite or not), every size of the
ring and every growth step of the arrays, from `MpmAssumption` alone:

* `TypeCorrect`: `Spec => []TypeOK`;
* `NumberIsOwn`: `Spec => []OwnNumber`;
* `CountIsAdvised`: `Spec => []BusyIsAdvised`.

The count is compared with what drivers said, while the code only has bits and
counters, so the invariant goes through the bits: `BusyBits` (a bit is set in
`busy_p` exactly if a registered driver that last said "busy" has that number)
and `Counts` (each counter is the cardinality of its bits).  `OwnNumber` makes
the map from busy drivers to bits injective, `BusyBits` makes it onto, and so
both sets have the same cardinality.  `FreshNumber` (the number given to a
registration is free, whether it was found or the arrays grew) is what keeps
`OwnNumber`; `RemoveCounted` and `AddCounted` say that a test-and-clear with its decrement and a
test-and-set with its increment keep a count in step.

It also proves `Implements`: `Spec => ImplementsQueue` for a ring of any
size.  `Ring(f, h, t)` is the sequence that array, head and tail stand for;
`RingCount` relates head and tail to its length, `RingPush` and `RingPop` say
what advancing the head and the tail does to it.  A notification in a full ring
is a pop and a push.  The fetch needs `LookHolds`: the queue the reader found
nonempty is still nonempty, since an overflow moves the tail, but never onto the
head.

### Debouncing

`DebounceProofs` (`TypeCorrect`, `MaskedProgress`, `ReportsCurrent`, `KeyCurrent`,
`PowerOnce`, `WorkPaidFor`) is for every table of poll counts, every size of the
queue, every number of changes and every number of calls of `add_index` that overlap.  The properties speak of entries at rest; the invariant `DebounceInv` says
what is the case at each line of the thread:

* `Flow` and `Enabled`: with which entry the thread may be where, and when that
  entry is enabled;
* `MaskedHasEntry`: who will unmask a masked event, be it an index on the queue, a
  timer, the entry in the thread's hand before its unmask, an event that is still to
  be dispatched, or, for the key, a redetection of the headset; an index that was
  lost counts here as if it were still queued (`InQueue`), so that the invariant is
  about everything but its loss;
* `PowerReported`, `HeadsetReported`, `KeyReported`: if no change of the input is
  `Unseen` (in the status register, taken, queued or timed), then the status the
  thread carries is what the input reads and, after the callback, the last report
  is.  For the key there is one more excuse, a headset that is detected anew.

The clear before the sense read is what makes these inductive: a change after the
read leaves its status bit set, and so is `Unseen`.  A step of `IndexQueue` takes
nothing out of `InQueue`, however stale its tail: what the tail cuts off is `lost`.  `WorkPaidFor` is an action
property; `NextPaid` compares `HeadsetWork` before and after each action, with
`CountAppend` and `CountTail` for the queue, and `PowerOnce` follows from the same
comparison: status bit, dispatch, queue, timer and thread hand on one token.  Both
count what stale tails have left behind in the array, which a later call may bring
back.

`DebounceQueueProofs` (`TypeCorrect`, `NeverReplays`, `LossNeedsOverlap`) is for a queue of any size and
any number of calls.  A tail may be stale when it is set, since it was computed
before the mutex was taken.  `Clean(S)` says that the slots S hold different
indices that nobody has taken; the invariant says that the slots in use are clean
(`NoReplay`) and, in `TailsClean`, that so are the slots below every tail that may
still be set, except the one that is written with it.  `PopIsSafe` is needed
because a pop takes a slot away from all of these: while the thread pops, everyone
who waits for the mutex has seen the current tail.  That holds by the priorities;
with equal ones (the mutant `RunsEqually`) the queue turns back to old indices.
`LossInv` adds, for `LossNeedsOverlap`, that as long as no overtaken call has stored,
every stored index is in use or taken and every tail computed and not overtaken is
the current tail's successor.

### Accessories, USB, A/D

`AccessoryProofs` proves for any number of files, accessories and notifications,
with notifiers that preempt one another, `TypeCorrect`, `NoSleepThrough` and
`FilesInStep`.  The changed flags are toggled, so the invariant says what they will
be: `Owed(s, a)` is a toggle that a notification under way has still to make for
file s (two of the same accessory cancel), and `Flags` says that, for a pair that is
not `skewed`, the flag, or its opposite where a toggle is owed, is the difference
between what the reader was told and what is connected.  `Named` and `Steadily` say
which accessories a notifier names and that those of steady interest are of interest.
`Wakes` says that a sleeper with changes was woken or is
in front of a notification that is still marking.

`UsbDetectionProofs` proves `TypeCorrect` and `VbusWatched` for any plugs, cables and
opens.  `Handover` relates the open of `/proc/emu` to the callback list, and
`Watched` follows the thread from the handler's result to the wait: on this way
VBUS is unmasked or the thread was told.  An unmask alone is not enough, as
an interrupt may mask it again before the wait; then the flag is set.

`AtodProofs` proves `TypeCorrect`, `HardwareMutexKept`, `StolenIsRestarted` and
`ExclusiveNotDisturbed` for any applications and clients that call in any order, with every
fault.  `StealInv` says what the holder of the converter may rely on:
`ServedIsMasked` (an event on its way to the handler is masked), `KeptOut` (while an
immediate conversion has the converter the interrupt is masked and none is under
way), `BeginStages` and `RestartStages` (line by line, what a begin and a restart have
set up unless they are spoiled), and `ArmedUnlessStolen`, the property with the
lines between the theft and the restart as its only other exception.

### Suspend

`DevicePmProofs` is for every device tree, every set of late devices and every
number of attempts.  It rests on lemmas about lists without repetition: what
`Append`, a push in front, `Tail`, `Without` and the concatenation of two such
lists hold and in which order.  `ListInv` is
`TypeOK`, the partition of the registered devices into the three lists, and that
the walk's index is used in one place; `OneList` follows.  `PowerInv` adds what is empty at which
point of an attempt (`Stages`), that late devices wait on `dpm_off_irq` and have no
low-power state of their own (`LateApart`), and which devices have power where
(`Powered`, of devices that are not meddled, of late ones and of all: even a meddled
device has power or a record by which it gets it back); `SleepIsComplete` and
`AttemptRestores` follow from it.  `Ordered` is about the tree without the parents of
those that are `Astray` (`Up`): no list holds a device before its parent, and a device
on `dpm_active` has no parent on the lists that come before it.
`WalksInTreeOrder` follows from it and the other two.

### Only model-checked

Liveness, which needs fairness and ENABLED: `UnmaskedIsHandled`, `FinallyReported`,
`SuspendReleased`, `ChangeIsRead`, `RemovalIsReported`, `OutstandingCompletes`,
`AttemptEnds`.  The refinement `ImplementsIndexQueue`: its step, a store with a stale
tail, needs the length of what the ring holds past the tail, for which the
invariant of `DebounceQueueProofs` would have to follow the lost indices too.  And,
of course, the violations.

## 6. Not modelled

Failing bus transfers (the bottom half ignores them, and
`power_ic_set_reg_mask_sec` does not look at the result of its read,
`external.c:717`), the RAM copies and bit fields of `external.c`; the abort
signal that ends a thread; a preemption in the middle of a list operation
(`event.c:474`); the audio bias registers and the audio mutex of the headset
code; durations; EMU's connection-mode ioctls; the values an A/D conversion
yields; statistics of MPM and its loadable part; drivers that fail to resume,
suspend to disk; and the components that `PROJECT.json` marks `not_modelled`.
The rest of the repository is Linux 2.6.10, far beyond what models beside this
product can cover.

## 7. Plan

Done: events (detailed, abstract), debouncing, its queue, accessories, USB
detection with the callback lists, the A/D converter, MPM (detailed, abstract),
system suspend; the safety properties of all of them proved.  Next, in this order:

1. The proof of `ImplementsIndexQueue`, with an invariant about the slots past the
   tail; then `DebounceProofs` stands on proved interfaces only.
2. Liveness by hand-proved steps that are safety properties: in `Debounce` and
   `UsbDetection`, that every step of the thread decreases a measure while the
   inputs rest.
3. `Registers`: `external.c` with RAM copies, bit fields and failing transfers;
   what a failed read does to the mask registers.
4. The composition of `DevicePm` with `Mpm`'s busy count and the power IC's
   suspend table, against "never asleep while somebody is busy".
5. The headset / audio sharing of the bias registers.
