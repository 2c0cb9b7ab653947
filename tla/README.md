# Verification of Mich Core

TLA+ models of the Mich Core kernel, kept beside its C source. Each module is
translated from the source; `PROJECT.json` maps every definition to the lines
it models. TLC checks the modules on small instances, TLAPS proves
properties of the object and handle tables, the kernel locks, IPC, events and the
objects on them, the process tree, the run queue, memory and the drivers in the
kernel for every instance.

## The system and its parts

Mich Core is a small x86-64 kernel. Everything a task owns is a *kernel object*
named by a per-task *handle*; tasks meet through synchronous IPC and through
events; drivers are user tasks that a supervisor starts, watches and restarts;
a POSIX layer (processes, signals, descriptors, pipes, sockets) and a network
and storage stack sit on top.

Three facts about execution shape every model:

* A system call, an interrupt and a fault are handled with interrupts masked,
  so a processor does one of them at a time. Processor 0 runs the shared queue
  of tasks; the others take IPIs, device interrupts and tasks pinned to them.
  What one processor does under one kernel lock is one step; where the code
  lets a lock go and looks again later, the model has a step on each side.
* Parts that no lock guards because only processor 0 enters them (IPC, events,
  the process tree, exec, block requests) have one step per handler.
* A system call that blocks stages an answer, parks its task and switches away.
  Whoever ends the wait writes the answer into the saved registers. What a call
  returns is thus decided by the waker, often long after the call, and is where
  many of the properties below look.

| Part | Source | Module |
| --- | --- | --- |
| objects and handles | `objects/object.c` | `ObjectTable`, `ObjectTableProofs` |
| kernel locks | `core/klock.c`, `core/spinlock.h` | `Locks`, `ProcessorsProofs` |
| run queue, processors, IPIs | `process/task.c`, `kernel/kernel.c`, `cpu/smp64.c` | `Scheduler`, `ProcessorsProofs` |
| task life, wait, reparenting, init service | `process/task.c`, `kernel/kernel.c`, `process/service.c` | `Process`, `ProcessProofs` |
| spawn, fork, exec | `kernel/kernel.c`, `kernel/elf64.c` | `Images` |
| IPC | `kernel/ipc64.c` | `Ipc`, `IpcProofs` |
| events | `objects/event.c` | `Events`, `AbstractEvents`, `EventsProofs` |
| timers, completions, endpoints, bridges | `objects/timer_object.c`, `completion.c`, `endpoint.c`, `bridge.c` | `Async`, `EventsProofs` |
| ticks and deadlines | the `(i32)(now - deadline)` tests | `Ticks` |
| frames, address spaces, page, DMA and list objects | `core/pmm.c`, `memory/vm.c`, `objects/resource.c` | `Memory`, `HeapProofs`, `MemoryProofs` |
| vectors, MSI, MSI-X, dispatch | `cpu/vector64.c`, `msi64.c`, `msix64.c`, `objects/resource.c` | `Interrupts` |
| drivers in tasks | `driver/driver_supervisor.c`, `driver_manager.c` | `Drivers` |
| drivers in the kernel | `driver/driver.c` | `Modules`, `ModulesProofs` |
| block requests, NVMe queue | `block/block.c`, `drivers/nvme.c` | `Block` |
| page cache of block devices | `block/cache.c` | `Cache` |
| file system | `fs/adytumfs*.c`, `fs/vfs.c` | `Adytumfs`, `AbstractVolume` |
| packet buffers, rings, virtual card | `net/net_buffer.c`, `objects/ring.c`, `net/vnic.c` | `PacketPool`, `Vnic` |
| interface, neighbour cache, receive mailbox | `net/net_interface.c`, `arp.c`, `net_rx.c` | `Packets` |
| TCP | `net/tcp.c` | `Tcp` |
| sockets | `net/socket.c`, `process/posix_socket.c` | `Sockets` |
| descriptors, pipes, poll | `process/posix_fd.c`, `posix_pipe.c`, `posix_poll.c` | `Pipes` |
| terminal, process groups, signals | `process/posix_tty.c`, `posix_pgroup.c`, `posix_signal.c` | `Terminal` |

`PROJECT.json` lists every part, what of it is modelled and why the rest is not.

## Modules

**ObjectTable** (`object.c`). State: the object table (`active`, `references`,
`destroy`), the handle tables (`handle`, `rights`, `generation`) and where
counted pointers live: handle slots, kernel variables (`place`), payloads of
other objects (`inner`) and releases that have not locked yet (`pend`). Each
region under `object_klock` is a step. `object_release` is three: the count
reaches zero, the destroy callback runs without the lock (and may release
further objects, hence `stack`), the slot is given back. `handle_revoke_object` and
`handle_close_all` are loops whose passes interleave with other CPUs (`op`). Between
its first look and its loop the former releases the references of open files
(`posix_fd_revoke_object`). These are places; since the caller keeps the object
alive, releasing them there is the same as releasing them before the call, which the
model does.

**Ipc** (`ipc64.c`). State: each task's state, whom it sends to or expects, its
deadline, and the answer staged for it. Actions: the outcomes of send, timed
send, non-blocking send, receive and probe (refused, meets a peer, would
deadlock, parks), the tick, a task's death, stop and continue. The message is
abstracted to whether the copy into the peer's memory succeeds.

**Process** (`task.c`, `terminate64` and helpers in `kernel.c`, `service.c`,
system calls 15, 32, 216 and `waitpid`). State: task states, generations,
parents, what a waiting parent waits for, stop and continue reports, the
SIGCHLD disposition, the owner of the init service. `Die` is all of
`terminate64`: children go to init or to the kernel, adopted zombies wake an
init that waits, the parent is told or the zombie is reaped at once when SIGCHLD
is ignored.

**Ticks**. 32-bit tick arithmetic: a deadline lies ahead when the signed
difference is negative. `Wrap` stands for 2^32, so the wrap happens in the runs.

**Events** (`event.c`). State: the events (`active`, `manual`, `signaled`,
`waiters`) and the wait each task has registered (`wait_set`, `deadline`,
`timed`). `Wake` is `wake_slot` with `clear_wait_set`. `AbstractEvents` is what
an event promises, with one record of a wait instead of two; `Events` without
stop signals implements it (`parked <- wait_set`).

**Async** (`timer_object.c`, `completion.c`, `bridge.c`, `endpoint.c`) extends
`Events`: each of these objects owns an auto-reset event and is identified with
it. The timer interrupt ends timed waits, then times out requests, then fires
timers; `due` is what it has left to do, and no other step happens until it is
empty. Any task may poll, finish or cancel with any request id ever handed out.

**Adytumfs** (`fs/adytumfs*.c`, the VFS operations of `vfs.c` that reach it,
`block/cache.c`). State: what each block of the device holds (`disk`), the dirty
pages of the block cache over it (`cache`), the metadata the open window has
staged (`stage`), the mounted superblock (`super`), and per file the VFS node
with its page cache (`nodes`). A metadata block is a bitmap or a table of inodes,
a data block two halves or the records of the directory, and `SUMS` the checksum
region, in which a checksum is the content it was computed from. An operation is
a function of all of this, taken as one record `v`, and of what the device makes
of the data blocks it writes (`io`: taken, refused, or taken without its checksum);
`failed` is a history variable, the blocks whose own write failed. A commit
(`Commit`) is the set of results it may have, one for each point at which the
device can start to refuse. `Crash` keeps what was written back of the dirty pages, and cuts one
write short. Since kernel code runs one operation at a time, a crash inside an
operation is one that failed there followed by `Crash`. `mixed` is a history
variable: some flip named a set with a block left from before.
`AbstractVolume` is what the volume promises across crashes: an operation edits
one file of the window (a rename, one more name), and what a reboot goes back to
is replaced by the window as a whole or not at all.

**Locks** (`klock.c`). State: the `ticket` and `served` counters of a lock for
each level, the ticket a processor drew (`mine`), the level it spins for
(`want`) and the record of levels it holds (`held`). `klock_acquire` draws a
ticket when the order allows it (the code panics otherwise), `spin_lock` is the
end of the spin, `klock_release` serves the next. Tickets are compared modulo
`Width`, which stands for 2^32.

**Scheduler** (`task.c`, `kernel.c`, `smp64.c`). State: the slots with their state
and the processor that claimed them, the saved contexts, what each processor
runs and where it is in a dispatch, `current_task_slot` (`shared`) and
`resched_pending`. Registers are one mark, so that a context saved over another
one, or loaded stale, shows. Actions: the timer, device interrupts, the way out
of an interrupt, parks, exits, faults, spawns, wakes; on another processor the
IPIs, its timer and the entry from `hlt`. `Lone` are the steps that stop or end a
task from outside, a control character of the console and a kill. `Next` takes
them only with processor 0 alone: beside another processor the code does not keep
the properties (see Known departures).

**Memory** (`pmm.c`, `vm.c`, `resource.c`). State: frames with a count and a
content, address spaces with the frame at each heap page and its write and
copy-on-write bits, object windows (`maps`), page and DMA objects, lists of
pages (`sg`), and calls that are between two sections. `mem` is a history
variable: what a task last wrote or inherited at a page. An allocation takes some
free frame, it is left open which. `HeapSteps`, `ObjectSteps`, `WindowSteps` and
`ListSteps` group the operations; `MemoryNext` is all of them, and the run takes
the groups in three scopes.

**Images** (`kernel.c`, `elf64.c`). The four calls that build an image, one
allocation to a step, any of which may fail; `call` holds what the call in
progress has acquired, and the failure actions are the code's unwinding.

**Interrupts** (`resource.c`, `vector64.c`, `msi64.c`, `msix64.c`). State: the irq
resources, MSI groups and members, MSI-X entries, the owner of each vector, and
for each processor the call it is in: a mask is decided under one lock and
programmed under another.

**Drivers** (`driver_supervisor.c`, `driver_manager.c`). State: the domain and the
binding of each device, the driver tasks and the handles they hold, the devices
that may master the bus, where each dying task is in `terminate64`, and what the
holders of the two locks are doing (`sup`, `mgr`). Deadlines pass when the tick
says so.

**Modules** (`driver.c`). Kernel modules, instances, and the call each processor
is in; probe, start and stop callbacks run between steps, with the lock
released.

**Block** (`block.c`, `nvme.c`) and **Cache** (`cache.c`). A request slot has a
generation; a client submits, waits for the event, services, collects, or gives
up as `block_io` does. The NVMe completion queue has its phase bits and its
interrupt entry; a capsule may repeat completions. The cache is its entries and
clock over a device on which any set of pages may fail, after some sectors.

**PacketPool** holds the operators on buffers and rings that **Packets** (an
interface with its ARP cache, pending packets, driver and mailbox) and **Vnic**
share.

**Tcp** (`tcp.c`). Two ends and the segments on their way. Bytes are numbered as
the send queue takes them, sequence numbers wrap at `Modulus`; a timer may fire
at any time while what it guards is pending. A step is worked on as a record
(`Work`) with what is left below it (`v`): how many transmissions succeed, how many
timers the deadline heap still takes, the congestion window, the entry a third
duplicate acknowledgement finds. **Sockets** is the layer above with
several connections, where data is a count: the accept queue, detached
connections, generations, the two-section park of the blocking calls, and calls
whose transmission or whose new descriptor fails.

**Pipes** and **Terminal** have a step for each critical section of a call,
because a look, a park and a wake of different tasks can come between them.

**The MC modules** instantiate the modules for TLC. A behaviour picks a `scope` at
the start, which says which part moves, at which size and with which features:
the questions share one run, and their state spaces add up instead of
multiplying. A scope only removes behaviours; no definition is replaced. `MCMachine` and
`MCStack` (with `MCPosix`) put parts that share no state into one run, where
they take turns with the same variables or stay as they were at the start.

## What the runs check

| Run | Shows |
| --- | --- |
| `object_table` | the count of an object is the number of its holders (`ReferencesAreHolders`); no counted pointer dangles; a destroy callback runs once; `HandlesSound`: a revoke hits its own object, rights only shrink, a closed handle value stays dead, a dead task has no handle; an unheld object is freed |
| `ipc` | `ParkedForCause`: no sender and receiver sleep although they match, and the peer of a parked task is live; sends never form a cycle; `AnswersTrue`: a call answers what happened to its message, on time; timed sends end |
| `process` | `FamilyIsLive`: parents and the owner of the init service are live; no wait sleeps through an exit; orphan zombies do not stay; processor 0 returns only to a task that may run, with the registers it had; each runnable task gets the processor |
| `events` | `WaitsSound`: the two records of a wait agree, no task sleeps on a signaled event, a dead task leaves no wait; `AlarmsOnTime`: waits, requests and timers are not overdue, no alarm is stale; `CompletionsReachTheirOwn`: finished requests and notifications stay announced until taken, in order, and a late finish hits no other request; timed waits return; `event.c` implements `AbstractEvents` |
| `adytumfs` | `VolumeSound`: what a reboot finds is one generation that agrees with itself, and so does the open window, after operations that found no room or a device that refuses a block as well; link counts equal names; no block is marked for nobody, and each verifies, but for blocks whose own write failed; `OwnBytesOnly`: a file never shows the bytes of another, nor bytes that truncation cut off; a successful fsync of dirty pages is on the device; the volume implements `AbstractVolume` |
| `stack` | bytes of a connection, a pipe and the terminal come out in order; no byte is lost and, on a path that keeps the order, a timer is behind each that the deadline heap had room for; end of file is not early; nobody sleeps on what is there (a pipe writer may, behind one that does not fit); descriptors, pipe ends and connections are counted; each packet buffer is in one place; no route names a revoked interface |
| `machine` | a lock has one holder and spinning processors do not wait for one another; a task runs on one processor; frames, objects and spaces are counted exactly and sharing after fork is invisible; an exec replaces everything or nothing, and a spawn, fork or exec that failed leaves nothing behind (`LoadsAllOrNothing`); a vector that can be raised is owned and heard; a device has one driver, or is quiet; an answer belongs to its request; no request is forgotten |
| `adytumfs_mix`, `adytumfs_truncate`, `process_stop_again`, `process_spawn_report`, `events_stopped` | the findings below |

### Bounds

*Objects, IPC, events.* Two objects, two handles and two CPUs are enough for a
slot to be reused while another CPU still releases its last tenant, and three
creations for a slot to be reused twice. Three tasks are needed for a cycle of
sends that is not a mutual one, for a grandchild, and for an event with a waiter
to choose. `Wrap` is 4 or 6, with timeouts of one or two ticks, so that a
deadline lies beyond the wrap in many states. Generations have one to three
values. They wrap in `Process`; in `Async` nobody keeps a request id until its
generation comes round again, which in the code takes 2^32 uses of a slot.
`RefMax` is 3, so that saturation of the count is reached. With job control and
three slots every wait is a `waitpid`; native waits meet stopped tasks with two.

*File system.* Four data blocks, two files, two names, one page of two halves per
file and two mounts, up to the third generation, so that each set is overwritten
once; a behaviour has three to five operations besides the creation of its
files, enough to write, commit, free and reuse a block and to crash on either
side of it. In the scope `device` one operation of three meets a device that
refuses one of its first blocks or their checksum. Two conjuncts of `MCAdytumfs` restrict the passing run to what the
code does get right: `~mixed'` drops every step that flips to a set with a stale
block, and `Fits` drops truncations that find no room. The `adytumfs` run
therefore holds only of behaviours without those two defects, which
`adytumfs_mix` and `adytumfs_truncate` exhibit.

*Machine.* Three processors, two levels and tickets modulo 4 with five draws, so
that a counter wraps while two wait. Two processors and three slots for the
claim; four slots on one processor for the queue. Three address spaces over
three frames, so that a fork runs out and a grandchild shares; two objects of up
to two pages with one window. Five frames for an image of three pages, so that
an exec beside another task fails at every step. Three irqs in two MSI groups, of
one or two messages on the first device and of two on the second; two MSI-X
entries of two devices; two processors with one device. One device with three
launches of a driver that falls back, and two devices of which one needs the
other. Two modules, two instances and two devices on two processors, one of which
also runs `driver_start_all` (in the code only the boot-time test calls it). Two
request slots (one for the capsule) in two generations, two clients, of which
one also reads on NVMe; three pages in a cache of two.

*Stack.* Sequence numbers modulo 16 that start three before the wrap; segments of
two bytes (one after a black hole), buffers of two and three, two segments on
their way. The client writes up to five bytes, and the server writes only in the
scope `both`, where each end writes one. Transmissions fail and the deadline heap
is full in `scarce`. Two or three packet buffers with generations
that run round after two (one with two next hops, where nothing is revoked and no
id outlives its buffer), a neighbour cache of one; two frames for the mailbox,
which holds one. Three tasks on one pipe of
two bytes, three on a terminal line of two bytes with five typed. Three
connections, a backlog of one.

Restrictions of scopes that are about the code, not about size, are comments in
the MC modules and entries under Known departures: the link stays up while a
mailbox is full, objects are trimmed while nobody is about to map them, poll is
checked for lost wake-ups on one processor, and a TCP timer outlasts the segments
in flight but in the scopes `eager` and `shrink`.

### Fairness

The timer interrupt keeps coming (`Tick`, `EventTick`, and strongly for
`timer64_dispatch`, since it is disabled again and again while other interrupts
run but is latched by the controller meanwhile); a dispatch once entered runs to
its end (`Dispatches`), and so does a multi-step function of the object table
(`Continue`), because a processor does not stop in the kernel; a task that is
runnable gets back from its call (`Resume` in `Ipc`, which `QueueMovesOn` of the
`process` run justifies). Nothing is assumed of what tasks do. The `stack` and
`machine` runs check safety only: "nobody sleeps on what is there" and "a timer is
behind every byte" are the safety halves of progress that does not rest on
assumptions about the network, the devices or the tasks.

## Findings

* `process_stop_again`: a child that is stopped, continued and stopped again
  before its parent collects the first two reports does not wake a parent parked
  in `waitpid(WUNTRACED)`: `task64_report_child` sees the stale continue report
  first.
* `process_spawn_report`: `spawn64_image` does not clear `stop_report`, so a task
  spawned into the slot of one that died stopped is reported as stopped.
* `events_stopped`: a stop signal takes a task out of an event wait and leaves
  the wait registered; an auto-reset signal can be spent on the stopped task and
  its later waits are refused.
* `adytumfs_mix`: `adytumfs_commit` writes only the blocks this window staged into
  the set it flips to. Write a file and truncate it to whole blocks: the second
  commit stages the inode table alone, the bitmap of that set is two generations
  old, and the volume does not mount again.
* `adytumfs_truncate`: a truncation that fails for want of a block has already
  changed the staged bitmap; the next commit makes the disagreement durable and
  the mount after it fails.

### Known departures without a run

Places where the code, as modelled, does not do what a reader may expect, and
which the runs keep out (or state the property without). Source paths are below
`src/src`.

* TCP: a FIN taken from an out-of-order slot is not announced to the reader
  (`net/tcp.c`, `merge_out_of_order`); on a path that reorders, a connection can
  be left without a timer, so `NoStall` is checked on paths that keep the order.
  `deadline_push` drops a timer when the heap is full, and a response that cannot be
  transmitted keeps the handler from the flush that would arm the probe of a closed
  window: `NoStall` leaves out both (`Starved`). Once `tcp_take_error` has told an
  error, what is left looks like a plain end of file, so `OrderlyEnd` is about
  connections that have had none.
* Poll: `posix_poll_notify` passes over a task that has looked and has not yet
  parked, so with tasks on two processors a wake-up is lost
  (`process/posix_poll.c:155`).
* Sockets: a notification of a socket that two tasks wait on, and of a datagram
  socket, can reach the wrong one; `SleepsForCause` is about stream sockets of one
  task. `net_interface_tcp_send` fails when its flush does, with the bytes queued;
  `stream_send` takes this for a queue that "refused the chunk"
  (`process/posix_socket.c:707`), parks, and queues them again: the peer gets them
  twice. `BytesInOrder` is about the bytes as the queue took them. The end of
  LAST_ACK or TIME_WAIT frees a connection whoever holds its identifier, so a socket
  that was shut down may hold one that leads nowhere; `EndsCounted` allows that.
* Pipes: `wake_writers` ends at the first writer that does not fit, so one behind it
  sleeps on although it would; and it is not called when a parked writer leaves.
  `ParkedOnPipeForCause` allows both. When the first end of a new pipe finds no
  descriptor nothing is closed, and the pipe stays taken without an end
  (`syscall_dispatch.c:2969`).
* File system: a device that refuses a block in the middle of a `Grow`, or of a
  write-back, leaves the new blocks marked in the bitmap. They belong to nobody, and
  once a commit has made that durable `adytumfs_verify` refuses the mount.
  `Recoverable` and `WindowSound` allow such marks for blocks in `failed` only.
* Scheduler: an interrupt on another processor clears `resched_pending`
  (`kernel.c:431`) while processor 0 is about to test it, so a task that a control
  character stopped is returned to; and a kill frees the slot of a pinned task
  that its processor still runs. Both steps are in `Lone`, which `Next` takes
  only when there is no other processor.
* Interrupts: with the dispatch on one processor and the unmask on another the mask
  can be the last to be programmed, so `HearsDevice` is checked on one processor.
* Memory: `page_resource_trim` looks at mappings, not at a call about to make one:
  after a trim in between, the window has pages the object no longer has. `ObjectSteps`
  trims only an object that no such call has looked at, and the theorems are about
  these behaviours.
* Kernel modules: `driver_instance_failed` takes no reference on its instance.
* Interface: a mailbox drained after the link went down keeps its buffer.
* Block: a write that `block_io` gave up on may land later; `Adytumfs` takes a
  failed write as one that landed in part or not at all.
* Wait: an auto-reap of the last child does not wake a parent already parked.
* Reparenting: an init whose own parent dies adopts itself (`reparent_children`,
  `kernel.c:1718`), so it always has a child, and its `waitpid(-1)` parks where
  it would answer ECHILD.
* Terminal: a switch to raw mode with an unfinished line leaves the line behind.

## What is proved

Each proof module shows an inductive invariant `Inv` (`Init => Inv` and
`Inv /\ [Next]_vars => Inv'`, one lemma for each action or group of actions) and
derives the properties of the runs from it. TLC checked each invariant on the
instances of the runs, and on larger ones, before it was proved. The properties
named in the theorems are the ones the runs check.

| Theorem | Module | States |
| --- | --- | --- |
| `TypeCorrect` | `ObjectTableProofs` | `TypeOK` of the object and handle tables |
| `ReferencesExact`, `NoDangling`, `DestroyOnce` | `ObjectTableProofs` | `ReferencesAreHolders`, `NoDanglingPointer`, `DestroyedOnce` |
| `HandlesInvariant`, `HandlesStaySound` | `ObjectTableProofs` | `IInv /\ HInv`, `HandlesSound` |
| `LocksInvariant`, `MutualExclusionHolds`, `NoDeadlockHolds` | `ProcessorsProofs` | `LocksInv`, `MutualExclusion`, `NoDeadlock` |
| `IpcInvariant`, `ParkedForCauseHolds`, `SendsStayAcyclic`, `AnswersStayTrue` | `IpcProofs` | `IpcInv`, `ParkedForCause`, `SendsAcyclic`, `AnswersTrue` |
| `WaitInvariant`, `WaitsAgree`, `WaitsStaySound`, `EventsRefine` | `EventsProofs` | `WaitInv`, its two main parts, `WaitsSound`, `ImplementsAbstract` |
| `WaitTimesInvariant`, `WaitsEndOnTime` | `EventsProofs` | `WaitInv /\ WaitTimes`, `TimedWaitOnTime` |
| `AsyncInvariant`, `ObjectsUseEvents`, `AsyncRefines` | `EventsProofs` | `AsyncInv`, `CoreSpec`, `ImplementsAbstract` |
| `AlarmsStayOnTime`, `CompletionsFindTheirOwn` | `EventsProofs` | `AlarmsOnTime`, `CompletionsReachTheirOwn` |
| `FamilyInvariant`, `FamilyStaysLive`, `NoExitIsMissed` | `ProcessProofs` | `FamilyInv /\ RecordTypes`, `FamilyIsLive`, `NoWaitSleepsOn` |
| `SchedInvariant`, `StaysOnOneProcessor`, `ReturnsOnlyToRunnable` | `ProcessorsProofs` | `SchedInv`, `RunsOnOneProcessor`, `ReturnsToRunnable` |
| `MemInvariant`, `FramesStayCounted`, `ForksStayIsolated` | `MemoryProofs` | `MemInv`, `FramesCounted`, `CowIsolated` |
| `ModulesInvariant`, `CallbacksOwnTheirInstance`, `RunningCodeStays` | `ModulesProofs` | `ModInv`, the kernel drivers of `OneDriver`, `CodeStays` |

### Objects and handles

For any number of CPUs, tasks, objects, handles and kernel variables and any
limits of counts and generations. `IInv` says that counts equal the number of
pointer places (`RefsOK`), live slots are exactly those with a positive count or
a callback that has not finished (`ActiveOK`), payload pointers exist only while
the callback has not run (`PayloadOK`), an object is on at most one CPU's release
stack, once (`StackOK`), and an object whose count is zero is on some stack
(`DyingOK`). None of the listed properties is inductive alone: that a slot is not
reused early depends on the stacks, and that the stacks are disjoint depends on
counts being exact. The lemmas about counting (`CountChange`, `RefsHandle`,
`RefsPlace`, `RefsInner`, `RefsRelease`) say that writing one pointer place moves
the count of two objects by one.

`HandlesSound` needs `IInv` and, of the calls in progress, `HInv`: a revoke still
has the variable it was called through (`KeepOK`), hence by `IInv` its object
cannot have been replaced; a slot has moved on from a remembered handle value by
as many generations as it was closed since, modulo the limit (`StaleOK`); and the
slots `handle_close_all` has passed are empty (`ClosingOK`), hence a dead task has
no handle.

The assumptions are `ConstantsAssumption` (finite sets, positive limits) and
`SyscallAssumption`: the system calls of tasks run on one processor, as the kernel
has it, while interrupts and kernel work may use the table on all of them. Without
it another processor could open a handle in a slot the close loop has passed.

### Locks

For any finite set of processors smaller than the width of a ticket, any number of
levels and any bound on tickets. `LocksInv` is the type invariant with
`TicketsOwned` (each ticket drawn and not yet served has exactly one owner, and a
holder has the served one) and `LevelsIncrease` (levels increase along a record,
to the level spun for). Mutual exclusion needs the first: since there are fewer
processors than tickets in the space, two outstanding tickets that are equal modulo
`Width` are the same ticket (`SameTicket`, `TicketsFew`). The absence of deadlock
needs both: of the processors that spin, take one that spins for the highest
level; the owner of the served ticket of that lock is either let in, or holds the
lock and spins for nothing, because it could only spin for a higher level. The
assumption is `LockAssumption`.

### IPC

For any finite set of slots, any bound on generations, any even width of the clock
and timeouts below half of it. `IpcInv` is the types with `SlotsOK`,
`NoMissedRendezvous` and `SendsAcyclic`. `SlotsOK` says of each slot that a timed
send is as far from its deadline as it has ticks left (`OnTime`), that a parked
call has its fields set, its answer open and a live partner (`ParkedOK`), and that
a call that is over answers what happened to its message (`AnswerOK`, `IdleOK`).
Two arguments are more than bookkeeping. The clock wraps, so that a deadline has
come exactly when no tick is left is modular arithmetic (`TickNearer`). And
`deadlock()` follows the senders for as many steps as there are slots and refuses
the send unless the walk has ended: a set of tasks that send into the set, which
the new send would close, is never left by the walk (`WalkStays`; the induction over
its length is an argument about the least step outside the set, `LeastNumber`), so
no such set is ever closed. The assumptions are `SlotsAssumption` and `TicksAssumption`.

### Events

Of `CoreSpec` (`Events` without stop signals, under which the properties fail, see
`events_stopped`), for any set of events and any task slots. `WaitInv` is the types
with `WaitRecordsAgree`, `NoMissedSignal` and `BrokenWaitIsOver` (a task that is
not parked has no wait). The agreement needs the last: a wait that outlives its
park leaves its bit in `waiters`. `WaitTimes` says that only a parked task is timed and that its deadline is
as many ticks away, modulo `Wrap`, as its wait has left; `WaitsSound` needs of it
that a dead task's slot has no deadline, `TimedWaitOnTime` that a deadline has
come exactly when no tick is left (`TickNearer`). The refinement of `AbstractEvents` under
`parked <- wait_set` needs all of `WaitInv`: that an auto-reset signal wakes an
abstract waiter, the first one, holds only because the waiters of the event are
those parked on it (`FirstWaiterExists`). The assumption is `EventsAssumption`; its
last conjunct keeps the names of events apart from the answers of a wait.

### Timers, completions and bridges

Of `AsyncSpec`, for any timers, completions and bridges, any number of requests,
any length of a ring below the space of sequence numbers, and intervals below half
the clock. `AsyncInv` is `WaitInv` and `WaitTimes` with `ObjectsInv`, which says of
each kind of object what ties it to its event and to the clock. An armed timer or a
pending timed request lies ahead of the clock, or is in `due` and belongs to this
very interrupt (`TimersOK`, `RequestsOK`): `AlarmsOnTime` speaks only of the time
when the handler is done, and it would not survive the tick that makes two alarms
due. A finished request or a queued notification is announced, by the event or to a
task that has been woken and has not looked yet. The sequence number of an active
bridge follows the ones in its ring (`BridgesOK`), so a notification that is
accepted is put in order; that the place written is none of those in use is modular
arithmetic (`PlacesDiffer`).

Every step changes the events by an operation of `event.c` or not at all
(`AsyncStepKeeps`), so `AsyncSpec` implies `CoreSpec` (`ObjectsUseEvents`) and all
that is proved of the events holds with the objects on them; the refinement of
`AbstractEvents` comes to the run's specification this way.

That a late finish hits no other request is proved of behaviours in which no
generation of a slot comes round again (`IdsNotReused`, a hypothesis of
`CompletionsFindTheirOwn` and a restriction of the run): an id in use then never
exceeds the generation of its slot, and one that equals it names the request it was
made for (`IdsOK`). Without the hypothesis the property is false after 2^32 uses of
one slot. `AsyncAssumption` has the limits, at least two generations, and that the
objects of the three kinds are different events.

### Process tree

For any finite set of slots, any limit of generations (they wrap), dispositions
and options. `FamilyInv` has the types and the three properties `ParentIsLive`,
`InitOwnerIsLive` and `NoWaitSleepsOn`, which need one another; `RecordTypes` has
the types of the reports. A slot is freed, and its generation moves on, only when
it is a zombie or dies, and `ParentIsLive` says that nobody is the child of a
zombie, so no parent identifier goes stale (`ZombiesFreed`). `DieKeeps` is the step
that does the work: the children go to an adopter that `InitOwnerIsLive` says is
live; the parent of the dead task is live by `ParentIsLive`, so a wait of that
parent for it is ended; and if the adopter waits for one of the zombies it is
given, it is woken. A park is harmless because the scan before it found no zombie
(`WaitParksKeeps`). The assumption is `ProcessAssumption`.

### Run queue

For any number of slots above one, any set of processors beside processor 0 and
any number of marks. `SchedInv` is the types with `OwnersOK` (a pinned task may
always run, a dead slot has no owner, processor 0 owns only what it runs or has
claimed), `Cpu0OK` and `ApOK` (what each point of a dispatch knows of the slot that
is left and of the slot that is entered) and `Saved` (what is saved for a live task
that no processor has is where it stopped). The properties are not inductive: between
the claim and the load processor 0 owns two slots and its registers are already
saved, and a processor that halts with an armed idle task owns a slot whose saved
context is meaningless until the IPI enters it at its fixed entry. That the claim
finds a slot rests on the idle task (`PickLocked`) and on the walk of the round robin
reaching every slot (`Reach`, `RoundRobinPicks`). A step of another processor
disturbs nobody else (`ApActsInv`): it writes only contexts of slots that it owns.
The assumption is `SchedulerAssumption`. With another processor the theorems are about
behaviours without `Lone`.

### Memory

Of `MemorySpec`, for any finite sets of frames, spaces, heap pages, objects and
lists and any set of windows. `HeapInv` (in `HeapProofs`) has `FrameRefsExact` and
`CowIsolated` with what they need of each other: a page that is writable has its
frame to itself (`WritableIsSole`), so a store that takes no fault is seen by nobody
else, which is true only because the count the fault handler tests is exact; a heap
is filled from its first page on (`HeapShape`), so growing it overwrites no frame;
and an unmapped page will read as zero (`UnmappedIsBlank`). `ObjInv` has for each
object the equation of its references with handles, windows, pins and calls about to
map (`ObjsSound`), that windows and list entries show frames of their object and that
such a call has read no more pages than the object has (`HoldersOk`), and that its
window is still free when it maps (`CallsAlone`). An object in use has a reference by
`ObjsSound`, so none is destroyed under a window or a list entry.

The arguments are about cardinalities: what a change of one page, of one object's
frames or of one list adds to and takes from the sets that are counted. The lemmas
about them are stated once, for the frames in `HeapProofs` (a fork adds as many
owners as it retains, whether it ends at the last page or fails half-way), and for
the holders in `MemoryProofs`. The assumption is `MemoryAssumption`: finite sets, and
heap pages numbered from one.

### Drivers in the kernel

Of `ModulesSpec`, for any set of processors, any finite tables of modules and
instances and any devices, manifests and dependencies. `ModInv` is the shape of the
tables and of the calls (`CallsOK`: a call knows a slot of the table or nothing, not
that the slot is still in use) with the two properties themselves. They need each
other's parts: a callback that returns writes to the instance it was started on, and
that this is still the instance it claimed is the exclusion of the other callbacks;
that it is bound to a registered module is the exactness of the module's count, which
`driver_unregister` tests. Each step is of one of a few kinds, and there is a lemma
for each kind: the call only goes on (`LookKeeps`), one instance changes its state
(`StateKeeps`), an instance is made or released and its module's count follows
(`BindKeeps`, `ReleaseKeeps`), a slot of a module without instances is filled or
emptied (`RegisterKeeps`). A claim is refused while the instance is BUSY, so a step
that is outside every callback never touches an instance that one runs on. What a
probe saw before it took the lock again is not in the invariant: `driver_bind_locked`
looks at the module and at the device once more, and that is all the proof uses.

`RunningCodeStays` is about steps: whatever another processor does, the module whose
code a callback executes is registered afterwards.

A failing instance (`FailureSteps`) is in the theorems for a single processor. The
code restarts or gives up the instance it was told of without a claim on it, so beside
another processor it may write over an instance in a callback; `ModulesNext` says so
in its guard, as the `machine` run does by its scopes. The assumption is
`ModulesAssumption`: slots and devices are numbers, the tables are finite, and a
manifest has a priority.

### Only model-checked

* Liveness (`UnheldObjectIsFreed`, `TimedSendReturns`, `OrphansEnd`, `QueueMovesOn`,
  `TimedWaitReturns`): fairness and ENABLED are beyond the prover.
* The file system (`VolumeSound`, `OwnBytesOnly`, `SyncLands`, `CrashAtomic`), the MSI-X,
  block and cache parts of `VectorsOwned`, `AnswerIsOwn` and `NoRequestForgotten`: their
  operations fold over sequences of blocks, records, entries or completions, and what
  a fold computes for every input takes an induction over data.
* The `stack` run: the bytes of a connection are sequences, cut and joined modulo
  `Modulus`, with the same obstacle.
* The supervisor's part of `OneDriver`, the irq and MSI-group parts of `VectorsOwned`, and `LoadsAllOrNothing`: an
  inductive invariant has to say for each step of each unwinding what the call still
  holds; none has been worked out.
* `BuffersExact` and `RoutesFollowRevoke` of the `stack` run are the conjunction of
  what several modules say of their own buffers and routes, the same applies to each
  of them.

## Not modelled

* Boot, ACPI, PCI, serial, real-time clock, IOAPIC, local APIC, IDT and GDT, SMP
  start-up, IOMMU programming, NVMe controller start-up: straight-line register
  and table programming, with no state a property could relate.
* Building and parsing of packets (Ethernet, IPv4, IPv6, ICMP, UDP, DNS), hashes,
  checksums, entropy: arithmetic on bytes.
* NDP, the choice among routes, the path-MTU cache, the congestion-control
  algorithms: tables and numbers whose only effect on the modelled parts is a
  window or a next hop, which the models choose freely.
* Pledge, unveil and path normalisation: a set that shrinks by one assignment, and
  character work.
* The ramfs, special files and the firmware store of the VFS: sequential tables.
* `net_lock.c`: a depth counter per processor over one kernel lock.
* TLB shootdown: the code invalidates only the local TLB, and an address space
  runs on one processor at a time.
* The benchmark.
