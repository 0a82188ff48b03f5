# Verification of the braneOS kernel

braneOS is a small x86-64 kernel in Rust (`src/kernel/src`).  This directory
holds TLA+ models of the parts of it where the order of events matters, the
TLC configurations that check them on small instances, and TLAPS proofs of
the properties that matter most for instances of any size.

`PROJECT.json` lists the runs, the source lines every definition models, the
faults (definitions commented `Fault:`) that show each property can fail, the
hazards of the code and the disagreements found between code and comments.

## 1. Inventory

| component | state | operations | interacts with | what is hard | what makes it correct |
|---|---|---|---|---|---|
| per-CPU run queues (`sched.rs`) | an array, length and cursor per CPU; a running slot per CPU; CPU count | configure, enqueue (balanced or pinned), dequeue, pick, steal, dispatch, complete, bounded handoff | every CPU, the timer, boot code | stealing while the owner works; full queues; the cursor under removal | a task is in one place, none is lost or starved |
| context handoff (`sched.rs`, `context.rs`) | register frames, per-CPU slot, interrupt flag | prepare, switch, yield, timer tick | run queues, AP loop, boot code | locks are released before the registers are saved; interrupts in between | no frame is loaded before it is saved; slot names the running task |
| AP bring-up (`smp.rs`, `apic.rs`) | boot plan, mailbox, acknowledgements | start, acknowledge, probe, configure | trampoline, Local APIC, run queues | time-outs against late answers; failures in the middle | private slots and stacks; boot always goes on |
| IPC (`ipc.rs`) | ring per task, counters | send, recv | system calls, boot services | wrap-around, full and empty | bounded FIFO |
| legacy scheduler (`sched.rs`) | task table, current index | add, tick, next_ready, prepare_switch | timer, shell | blocked and exited tasks against rotation | one running task, no starvation |
| audit log (`audit.rs`) | ring, head, count, sequence number | record, last_n | every component | the tick is taken before the lock; overwriting | the ring is the tail of the history |
| system calls (`syscall.rs`, `usermode.rs`) | caller context, specifications | capture, authorise, validate, dispatch, audit | capabilities, processes, signals, IPC | authorisation checked before use; a signal at the return | deny by default, one terminal event per call |
| processes, signals (`process.rs`, `signal.rs`) | process table, pending masks, saved context, pins | create, start, terminate, send, deliver, sigreturn | system calls, paging | nested signals; kill while pinned | a terminated process does nothing more |
| capabilities (`security.rs`) | table of grants | grant, check, revoke | system calls, audit | revocation between check and use | no effect without a live grant |
| xHCI controller (`xhci.rs`) | command, transfer and event rings with cycle bits; one pending command and transfer; S3 state | init, enumerate, submit, dispatch event, recover endpoint, suspend, resume | controller hardware, PCI, console, USB storage, ACPI | cycle bits at the wrap; late completions; a suspend that fails half way | every completion is matched to its own request; nothing runs twice; never asleep with DMA running |
| USB storage (`usb_storage.rs`) | SCSI tag, bounce and DMA buffers, availability | probe, execute (command, data, status), recover, read blocks | xHCI, block layer | a buffer after a time-out; short and stalled stages | a read returns its blocks or an error, and returns |
| block layer (`block.rs`, `virtio_block.rs`) | devices, one virtqueue, one bounce buffer | register, read, write, flush | virtio device, FAT32 | the request that timed out; index wrap | callers are told the truth |
| FAT32 (`fat32.rs`) | geometry | mount, stat, readdir, read | block layer | cyclic, cross-linked or truncated chains; geometry at the edge | reads stay in the volume, follow the chain and end |
| Brane sessions, discovery (`brane*.rs`) | discovered branes, sessions, handshake state, nonces | discover, connect, disconnect, handshake, exchange, encrypt, decrypt | sockets, crypto | damaged, repeated and coalesced packets; slots used again | data is accepted once and in order; old ids are refused |
| PCI (`pci.rs`, `pci/interrupts.rs`) | inventory, BARs, MMIO window, vector owners | enumerate, measure and map BARs, arm interrupts | drivers, paging, Local APIC | bridges that lead back; a write lost half way, and its rollback | complete inventory; nobody notices a probe; a vector has one owner |
| ACPI, MADT (`acpi.rs`, `madt.rs`) | tables, sleep registers | parse, suspend | bring-up, PCI, xHCI | malformed tables; failing to sleep | bounded walks; nothing left over |
| memory (`memory/`, `dma.rs`, `process.rs`) | frame bitmap, page tables, pins, generation | mark, allocate, free, pin, validate, commit | drivers, system calls | alignment and limits; mappings that change under a validated range | a frame has one owner; a lease covers what was checked, and no commit overtakes it |
| files, sockets (`vfs.rs`, `ramfs.rs`, `socket.rs`) | inode, descriptor and socket tables | open, read, write, close, bind, listen, connect | system calls, Brane | slots used again | no stale handle |
| modules, AI (`module_loader.rs`, `ai.rs`) | module table, policies | load, start, stop | capabilities, shell | order of lifecycle calls | legal transitions |
| console (`tty.rs`, `keyboard.rs`, `main.rs`, `framebuffer.rs`, `xhci.rs`) | line buffer, terminal and screen locks, pending vector bits | key interrupt, event service, poll, read line, sleep | xHCI, interrupt controller | the check-to-sleep race; handlers and locks on one CPU; the event budget | no lost wake-up, lines are executed as typed |

The kernel runs on several CPUs.  The boot CPU (BSP) brings the others (APs) up
through a shared trampoline mailbox, then configures the run queues, pins one
worker task to each AP and wakes the APs with IPIs.  Every CPU hands off
registers between tasks on its own.  Tasks enter the kernel through the
`syscall` stub, which takes the caller's identity from the CPU's scheduler
slot, the authority from the capability table, and leaves an event in the
audit log.  The shell is a loop of the boot CPU that is fed by two keyboards,
one of them behind the xHCI controller.  PCI enumeration finds the controllers
and gives their drivers register windows and interrupt vectors; disks (virtio
or USB) are read through the block layer by FAT32.  Suspend stops the xHCI
controller, sleeps through ACPI and resumes it.

## 2. Modules and the code they model

`PROJECT.json` ("map") gives the lines of every definition.

| module | models | state | actions |
|---|---|---|---|
| `CpuRunQueue` | `CpuRunQueue` of `sched.rs` | operators on a record `[tasks, cursor]` | - |
| `MultiCoreScheduler` | `MultiCoreScheduler`: one queue and one running slot per CPU | `queues`, `current`, `cpu_count`, `next_assignment` | one per method; a method runs under one lock |
| `RunQueueFairness` | the same, driven as after boot | plus a history of who overtook whom | configure, enqueue and bounded handoffs |
| `ContextHandoff` | `prepare_context_switch_for_cpu`, `switch_context`, the AP loop, probe and timer interrupts, boot phases 2 and 7 | extends `MultiCoreScheduler`; place, interrupt flag, frames of each CPU | one per critical section or instruction window |
| `SmpBringup` | `smp.rs` boot plan, trampoline, `start_application_processor`, probes | lifecycle, mailbox, acknowledgements | steps of the BSP and of each AP |
| `Ipc`, `FifoChannels` | `ipc.rs` rings; the bounded channels they promise | ring arrays, head, tail, count, counters | send (delivered, dropped), receive |
| `AuditLog`, `BoundedTrail` | `audit.rs`; the bounded trail it promises | ring, head, count, sequence numbers; what each CPU captured before the lock | tick, snapshot, record |
| `Console` | shell loop of `main.rs`, `tty.rs`, `keyboard.rs`, deferred xHCI interrupt, HID poll | place of loop and handler, locks, line, event ring, message | interrupts, steps of the loop, the controller |
| `Capabilities` | `security.rs` | table and next id | grant, revoke |
| `Syscalls` | `dispatch` and handlers of `syscall.rs`, `process.rs`, `signal.rs`, over `Capabilities` | process and signal tables, place of each call, its audit events, active handlers | enter, refuse, authorise, deny, one per handler, audit, deliver, return; grants and revocations |
| `SyscallEntry` | the `syscall_entry` stub of `usermode.rs` and what `dispatch` does to its frame | registers, kernel stack, saved context | steps of the stub, three outcomes of dispatch |
| `XhciTransport` | rings, cycle bits, event dispatch of `xhci.rs`, and the controller behind them | rings in memory, cursors, the controller's own positions, pending command and transfer | submit, dispatch (driver); execute, post, reset endpoint, set dequeue (controller) |
| `UsbStorage` | `usb_storage.rs` over `XhciTransport` | stage of the running command, DMA buffers, what the device holds | one per stage and its outcomes, recovery, time-outs; the device's answers and faults |
| `XhciLifecycle` | `init` to `resume_from_s3` of `xhci.rs` with `cmd_suspend`, `suspend_s3` and `resume_platform`, over `XhciTransport` | boot stage, structures prepared, registers, port, S3 state and token | one per step of init, each of which may fail, per entry of the enumeration plan, HID polls, endpoint recovery, suspend with or without a published driver, resume |
| `VirtioBlock` | `virtio_block.rs` under the checks of `block.rs` | driver indices, DMA memory, device, the running call | init, call, prepare, publish, complete, time out; the device fetches and finishes |
| `Fat32` | `fat32.rs` | geometry, the running call, what is known of the disk | mount, begin, scan, follow link, open, skip, read |
| `BraneNetwork` | `socket.rs`, `brane.rs`, `brane_session.rs`, `brane_discovery.rs` | socket table, session table, one session and its peer | one per operation; the peer's packets |
| `PciDiscovery` | `init` and `enumerate_into` of `pci.rs` | the machine and its ECAM coverage, both fixed at the start; scan queue, inventory | one per function read; end of a pass |
| `PciResources` | `probe_bar_with` and `map_bar_mmio` of `pci.rs` | BAR registers, decoding, window, mappings | one per configuration write; map, fail and roll back |
| `PciInterrupts` | `arm_interrupts_for_device` and `pci/interrupts.rs` | capability registers, vector owner, the running call | arm, one per register write, commit, keep, release and try next |
| `Memory` | `frame_allocator.rs`, `dma.rs`, user ranges of `syscall.rs`, pins of `paging.rs` and `process.rs` | bitmap and grants; entries, generation, pins and leases | mark, allocate, free; pin and validate, release, commit a generation, map and unmap a page |
| `MCTasks`, `MCBoot`, `MCServices`, `MCStorage`, `MCPlatform` | several components in one run | plus `focus` | see section 3 |
| `SmpProofs` | proofs about `MultiCoreScheduler`, `RunQueueFairness`, `SmpBringup` and `ContextHandoff` | - | - |
| `ServicesProofs` | proofs about `Ipc`, `Console`, `BraneNetwork`, `AuditLog` and `SyscallEntry` | - | - |
| `SyscallsProofs` | proofs about `Capabilities` and `Syscalls` | - | - |
| `XhciTransportProofs` | lemmas about the rings, for any user of them | - | - |
| `UsbStorageProofs` | proofs about `UsbStorage`, from those lemmas | - | - |
| `XhciLifecycleProofs` | proofs about `XhciLifecycle`, from those lemmas | - | - |
| `StorageProofs` | proofs about `Fat32` and `VirtioBlock` | - | - |
| `PlatformProofs` | proofs about `Memory`, `PciInterrupts`, `PciResources` and `PciDiscovery` | - | - |

What is abstracted: identifiers, messages and payloads are opaque; statistics,
logging and formatting are left out; a mask of signals is a set; a user context
in `Syscalls` is the list of handlers active in it, and in `SyscallEntry` the
symbolic contents of its registers.  The order in which the code takes and
drops locks is kept: what runs under one lock is one step, and everything
else can happen between two of them.  `PROCESS_TABLE` is always taken inside
`SIGNAL_MANAGER`, never the other way round, so delivery is one step.  All
scheduler locks are taken with interrupts masked, or only tried by the timer
handler, and nest in one order (`SCHEDULER`, then the slot), which is what
allows a critical section of the scheduler to be one step.

Hardware is modelled from what the code relies on, and marked external in
`PROJECT.json`: the xHCI controller executes a TD in one step, in ring order,
while the cycle bit offers it, and may be late or silent; the virtio device
reads memory when it takes a chain, not when it was told; a PCI function may
send its message between any two register writes; what a disk or a peer
answers is arbitrary and chosen when it is first asked.  The functions and
bridges of a machine, and its page tables, are fixed before the code runs.

Definitions commented `Fault:` are wrong variants of an action, one for each
checked property; none of them is part of a specification.

## 3. Runs

Components that share no state are checked side by side: the MC module holds
the state of all of them, and a variable `focus`, chosen at the start and never
changed, says which one moves.  The others stand still in one initial state.

| run | properties | what it shows |
|---|---|---|
| `tasks` | TaskInOnePlace, SchedulingKeepsTasks, BoundedOvertaking, AuditTruthful, SigReturnRestores, RevokedStaysRevoked, SignalsAuthorized, KillTerminates, SignalNotLost | every interleaving of the coordinator's methods on 3 CPUs keeps each of 4 tasks in one place and loses none; the cursor, which `remove` shifts, delays a waiting task by a bounded amount; and the system calls of two processes, with grants, revocations and signals in any order |
| `boot` | SlotsAgree, OnlineAnswered, HandoffUsesRightFrames, SlotNamesRunningTask, KickServed, BootCompletes | failures and time-outs of 3 APs in any order leave plan, APs and APIC table in agreement; between any two locks another CPU or an interrupt may run, and still no stale frame is loaded, the slot names the running task and wake-ups are served; both parts of boot end |
| `services` | Fifo, KeepsNewest, RegistersPreserved, NoLostWakeup, CommandHasAllKeys, LineServed, AcceptedInOrder, StaleIdRefused | message rings implement `FifoChannels` and the audit log `BoundedTrail`; the stub's frame and `UserContext` are the same words; the shell sleeps only when it will be woken, and every key typed counts in exactly one command, in order; Brane data is accepted once and in order; ids are not reused |
| `storage` | ReadsInVolume, ReadFollowsChain, WalkEnds, AnswersTrue, CompletionIsOwn, NothingRunsTwice, NoDmaReuse, ReadReturnsBlocks, UsbCallsReturn | FAT32 on every FAT of small volumes, with device reads that fail; virtio requests through the wrap of the indices, refusals and a device that goes silent; the bulk-only transport with rings that wrap and a device that is late, silent, short, stalled or wrong, also during recovery |
| `platform` | SuspendClean, EnumerationSound, MessageWhole, VectorHeld, InventoryComplete, ResourcesIntact, GrantsDisjoint, LeasesSound | the controller's life with and without a device, with an init that may fail anywhere, and through two suspends; PCI with lost writes, bridges wired in any way and pages that cannot be mapped; frames; leases against commits and page-table writes |
| `late_start` (violation) | PrivateSlots | an AP that comes up after its deadline |
| `console_locks` (violation) | HandlerNeverSpins | the PS/2 handler can spin on a lock that the shell loop holds |
| `line_closed` (violation) | CommandIsTyped | keys after a newline and before the read still edit the finished line |
| `syscall_arguments` (violation) | ArgumentsPassed | the stub loads the arguments from the wrong slots |
| `virtio_timeout` (violation) | OneInFlight | a call after a time-out publishes a second request |
| `resume_rings` (violation) | ResumedRingsAgree | after resume, controller and driver stand at different places of the command ring |
| `suspend_unpublished` (violation) | SleepsStopped | after an init that failed late the machine sleeps with a running controller |

Definitions that combine two statements of one idea are written as
conjunctions of named parts (`SlotsAgree`, `AnswersTrue`, `SuspendClean`,
`EnumerationSound`, `ResourcesIntact`, `LeasesSound`).

### Bounds, and why they are enough

* `tasks`, run queues: 3 CPUs (owner, thief, bystander), 4 tasks and queues of 4, so
  that every queue can be empty and full; the shift under the cursor needs
  three tasks.  `OvertakingBound` = 2 is what holds of four tasks; 1 would be
  round-robin.  All three properties are proved for all sizes (section 5).
* `boot`: 3 APs (a predecessor and a successor of the one that fails), one of
  them with an identifier the trampoline cannot address; an AP that misses its
  deadline stays away (`LateStart` = FALSE).  For the handoffs BSP and one AP,
  and 2 stress rounds instead of 8, so that a kick can be left over.
* `services`: 3 slots and 7 messages or events wrap each ring twice; five
  system calls are a signal, a signal inside its handler, and the returns; a
  budget of 2 events instead of 16, 4 port events and a report let one pass and
  the poll after it run out of budget; 3 keys, in reports of up to two instead of
  six, are a letter before and one after a newline, in one report or in two
  (`MaxInputs` bounds keys and port events together);
  tables of 2 sockets and 2 sessions with
  3 ids use every slot again; 4 packets of the peer are a handshake, an
  exchange and two of data, each of which may be damaged or swallowed.
* `tasks`, calls: a parent and a child, as boot creates them; either three calls of
  every kind with two capability slots and two grants, or five calls about
  signals, of which one may interrupt the handler of another.
* `storage`, USB: rings of 7, 3 and 2 usable TRBs instead of 255: TDs do not
  divide the ring, so the link TRB is met at every offset; 2 faults, so that
  the recovery from the first can fail; 17 submissions reach the probe, a read
  of two chunks and another one after a recovery.
* `storage`, FAT32 and virtio: volumes of 2 and 3 clusters with one or two sectors each, a file
  that ends inside, at, and after a cluster boundary; FAT entries are chosen
  when they are read, so all chains occur.  Virtio indices wrap at 4 instead
  of 65536 and addresses at 4 instead of 2^64.
* `platform`: two functions that want one vector and two writes that go wrong
  (one in the rollback of the other); 2873 machines of three buses with one
  device of up to two functions each, where bridges lead to the same bus, back
  or round in a ring, with any ECAM coverage and an inventory of four, which can
  overflow; BARs of one to four pages in a window of four; six frames; two
  pages under an entry each, small or huge, with every permission, two leases
  and one commit; two suspends and a command ring that wraps after boot.

Every bound is a constant that appears in a guard (the names begin with `Max`).
`CHECK_DEADLOCK FALSE` is set where the system may stop: after the last event
of a bounded history, at the end of boot, and where a handler may spin for
ever.

### Fairness

* `ContextHandoff`: a CPU keeps executing its code; APs take the interrupts
  sent to them.  Strong fairness for the code of a CPU, because the timer
  interrupts it again and again but always returns.
* `SmpBringup`: only the BSP is fair; nothing is assumed of an AP.
* `Console`: the loop and the handler run, the periodic timer ticks and a
  message that was sent is delivered when interrupts are on.
* `UsbStorage`: only the driver is fair, whose polls are bounded
  (`MAX_POLL_SPINS`); nothing is assumed of the controller or the device.
* `Fat32`: a call goes on; the device answers or fails.

The MC modules repeat this fairness for the component that has the focus.

## 4. Disagreements between code and documentation

With a run (see "findings" in `PROJECT.json`):

* `late_start`: the trampoline mailbox is reused as soon as an AP has timed
  out; one that starts late gets the stack and slot of its successor.
* `console_locks`: `TTY` and `FB_WRITER` are taken with interrupts on in the shell
  loop and in the keyboard handler of the same CPU.
* `line_closed`: a newline marks the line as ready but does not close it: the
  later keys of the same report, and PS/2 keys before the shell reads the line,
  are edited into it (and a second newline is lost).
* `syscall_arguments`: `[rsp + 6*8]` is r11, not rdi, and so on; only the number
  of the call reaches `dispatch`.
* `virtio_timeout`: `publish_and_wait` forgets a request when its poll runs out,
  and the next call reuses header, buffer and status while the device may still
  hold the first; later polls then wait for an index that has been passed.
* `resume_rings`: resume writes the base of the command ring to CRCR, while the
  driver goes on at its own index.
* `suspend_unpublished`: an init that fails once RS is set publishes nothing and
  leaves RS as it is; boot goes on, `prepare_for_s3` finds no controller to stop
  and answers `Ok(None)`, and `cmd_suspend` sleeps.

Seen while modelling:

* Signals are delivered only at the end of a call that was authorised and is
  neither Exit nor SigReturn (`syscall.rs:1130`); refused, unknown and
  unimplemented calls return before (`syscall.rs:1003-1079`).  A process that makes
  only such calls lives on with a Kill pending.  `KillTerminates` therefore speaks
  of deliveries: where one takes place, no mask or handler keeps Kill out of it.
* `SYSCALL_SECURITY.md:55-56` says that "una mutación de mappings no puede avanzar
  mientras una copia tiene un pin activo".  `map_page` and `unmap_page` look at
  no pin, and nothing but tests calls `bump_address_space_generation`, which does.
  Today's callers map boot and device pages only, so the protocol is not
  enforced, rather than broken.  In the model both write at any time; that a
  leased range stays mapped would be false, and `LeasesSound` does not say it.
* `mark_region_free` rounds the start of a region down to a frame
  (`frame_allocator.rs:67`), so a region that starts inside a frame would free the
  whole frame.  The bootloader's regions start on frame boundaries, and the
  model has such regions only.
* The queue is announced as FIFO/round-robin (`sched.rs:127`), but a task can run
  twice before one that waits: BoundedOvertaking fails with a bound of 1.
* Slots are numbered by attempt and queues configured by success, so after a
  failure in the middle of the plan the last AP has no queue.
* `check_capability` drops the lock, so a capability can be revoked between check
  and use (ADR-008 asks for the check "en el punto de uso").  Today
  `revoke_capability` is called from tests only.
* `dispatch` returns a Rust enum, of which the stub stores rax; which word that
  is, is up to the build.  The layout of `SyscallContext`, which is not
  `repr(C)`, is taken to be its declaration order.
* `handle_yield` (`syscall.rs:1177`) moves the cursor of the legacy scheduler
  without a switch of context.
* A signal delivered inside a handler overwrites `saved_context`; the outer
  `SigReturn` then fails.  `SigReturnRestores` therefore speaks of the innermost
  handler only.
* The control ring has 255 usable TRBs and the control transfers of
  the recovery take two: with one TRB left every further one is refused as
  RingFull, so the recovery fails and the device becomes unavailable, where
  `USB_STORAGE.md` 5.3 has a second failure of the device in mind.
* `initiate_handshake` connects a TCP socket that `send_to` then refuses, because
  it is neither bound nor connected; the error path does not close it, so every
  attempt uses up a slot.
* `process_session_data` parses the first packet of a read and drops the rest:
  packets that arrive together are lost, and since both sides count nonces the
  session stays silent from then on.  AcceptedInOrder is about safety only.

## 5. Proofs

TLAPS proves what follows for every value of the constants that satisfies the
named assumptions of the modules: any number of CPUs, processes, functions or
TRBs, any history.  In each module an inductive invariant is shown to hold
initially and to be kept by each action, one lemma per action; the theorems
follow from it.  Further down, "needs" says why the property alone is not
inductive.

**Run queues** (`SmpProofs`): TypeCorrect, OnePlace,
NothingStranded, TasksKept, NobodyStarves.  `IInv` is TypeOK, TaskInOnePlace and
NoStrandedTask: `steal` and `complete` enqueue without being able to report
failure, and the queue only accepts when the task is not there yet and there is
room, which follows from the other two and from all tasks fitting into one
queue (`TasksFitAssumption`; the code has 64 slots per queue and per task table).

NobodyStarves is BoundedOvertaking for every bound from N*N - 1 on, N the slots of
a queue.  `remove` shifts the queue under the cursor, so there is no fixed order
to argue with; `FairInv` says instead that what a task has been overtaken and what
it can still be overtaken, counted by its place and by the cursor (`Left`), never
add up to more than N*N - 1.  A dispatch from before the task moves it one place
forward for good, and the cursor meets the end of the queue at most once
between two such dispatches.  TLC finds the sharper bound 2 for four tasks.

**Boot** (`SmpProofs`):

* SlotsAlwaysAgree and OnlineHasAnswered, from `BringupInv` and `ProbeInv`:
  between two attempts only one AP is under way and the mailbox holds what the
  BSP wrote for it.  The first theorem assumes `~LateStart`, an AP given up for
  dead stays away: the run `late_start` shows that it fails otherwise.
* FramesAlwaysRight and SlotAlwaysNamesTask, from `HandoffInv`, which contains the
  `IInv` of the coordinator: every context stays at home on one CPU, and a frame
  that is not being executed has been saved.
* HandoffsUseCoordinator: `HandoffSpec => Spec`, the handoffs, the AP loop, the
  timer and the boot code only do what `MultiCoreScheduler` allows.

**Services** (`ServicesProofs`):

* IpcTypeCorrect, RingAlwaysConsistent, AllSendsAccounted, and RingsAreFifo: the
  rings implement `FifoChannels`.  `RingInv` ties head, tail, count and the
  occupied slots together; lemmas about `%` say that the slots are distinct.
* LogKeepsNewest: the audit ring implements `BoundedTrail`.  `LogInv` says which
  event lies in which slot.
* WakeupNeverLost, from `WakeInv`: an empty event ring has been acknowledged, and
  a pass ends with the ring announced or with its budget used up.
* CommandAlwaysHasAllKeys, from `TypingInv`, for both keyboards and reports of any
  length: what was typed and is not at the terminal yet lies, in order, in the
  decoded report and in the report buffer, and the keys at the terminal make the
  line.  What a sequence of keys makes is said without recursion, by the texts in
  between (`Makes`).
* AlwaysAcceptedInOrder needs the nonces on the wire to be below the peer's
  counter (`NonceInv`); StaleIdsRefused needs types only.
* RegistersAlwaysPreserved, from `StubInv`: what each register and each stack word
  holds at each step of the stub.

**System calls** (`SyscallsProofs`):

* CapTypeCorrect, IdsAlwaysUnique, RevokedForEver, PermanentForEver for the
  capability manager.  Uniqueness needs every id in the table to be below
  `next_id`, which is part of `IdsUnique`.
* SyscallTypeCorrect, AuditAlwaysTruthful, SigReturnAlwaysRestores,
  KillAlwaysTerminates, SignalsNeverLost, SignalsAlwaysAuthorized.  `SyscallInv`
  is SyscallTypeOK, `FrameInv` (the saved context belongs to the innermost
  handler), `AuditInv` (the terminal event is written once and agrees with the
  effect), `UnstoppableInv` (Kill and Stop are neither blocked nor handled) and
  `AuthorityInv` (a process about to signal was allowed to by a capability that
  was issued, revoked since or not).  `RequestsAssumption` says what dispatch
  decodes.
* SyscallsImplementBroker: `SyscallSpec => CapSpec`; RevokedForEverInCalls follows.

**USB** (`XhciTransportProofs`, `UsbStorageProofs`): CompletionsAreOwn, TdsRunOnce,
ReadsReturnTheirBlocks, DmaIsNotReused, all from UsbInvariant.

* `TransportInv` is about rings only.  The entries before the cursor have its
  cycle bit, those after it the other one; a ring is either settled (the
  controller has caught up, or does not run) or holds exactly one TD, the one
  awaited; the unread events hold at most one completion of what is awaited, and
  none once it has been taken.  It is kept by submissions on a ready ring after
  the last one is over, by dispatch, and by whatever the controller does.
* `UsbInv` adds what each stage of a command and of the recovery relies on: what
  is pending, which endpoints are ready or halted, whose command the device can
  hold, and, as soon as a success is posted, whose data lie in the buffer.  A
  device that is unavailable is never driven again; that is why a transfer that
  timed out, and may still be executed, does no harm.
* `TransportAssumption`: no TD fills a ring (at most 3 of 255 TRBs in the code).

**Life of the controller** (`XhciLifecycleProofs`): SuspendsClean and
EnumerationAlwaysSound, from `LifeInv`.  That the machine sleeps with a stopped
controller is proved for a published driver only, because without one it is
false (`suspend_unpublished`); that no suspend leaves anything behind is proved
with and without.  Resume moves the controller to the start of
the command ring and not the driver (section 4), so commands may run again and
`TransportInv` is not kept.  Instead:

* `EndpointInv` is the part of it about the endpoints.  A command that runs again
  touches an endpoint only if it is Reset Endpoint, which is given to disks only,
  and nobody waits for the bulk-in endpoint of a disk here.
* `CommandRingInv`: either every entry of the command ring has been written, or
  the controller, wherever resume has put it, stays behind the driver in the
  first lap, and the entries from the cursor on have a cycle bit that it does not
  accept.  So the controller never executes an entry that was not written.
* `EntriesInv`: what a written entry makes the controller follow is in memory, and
  stays there.  This is more than FollowsPrepared, which is about the next entry.
* `PlanInv` and `AwaitInv`: what is prepared, how much of the control ring is used
  up and what is awaited at each step of the enumeration; `SuspendInv`: a
  published controller is stopped and a token exists from quiesce until resume;
  without a driver there never is a token.
* `LifecycleAssumption` has the control transfers of the enumeration, at most 13
  TRBs, fit into the control ring, which has 255.

**Storage** (`StorageProofs`):

* ReadsStayInVolume, from `VolumeInv`: what mount has checked of the geometry
  implies that every cluster number a walk accepts lies in the data area.
  `FatAssumption` gives boot sector fields their types.
* ReadsFollowChain, from `ReadInv`: the walk stands on the cluster of the file that
  its offset names, and what it has put into the buffer so far are the bytes
  from the start of the read on.  A FAT entry is known once it has been read,
  so the part of the chain behind the walk never changes (`ChainGrows`).
  The chain is a recursive function; that it is defined at every place, and
  stays what it was, is shown by induction over the naturals in the form of a
  least counterexample (`SetInduction`).
* AnswersAlwaysTrue, from `QueueInv`, assumes `~LateAnswers`: a device that missed a
  time-out stays silent (the run `virtio_timeout` is about the other case).

**Platform** (`PlatformProofs`):

* GrantsAlwaysDisjoint, from `FrameInv` (every grant is marked in the bitmap).
* LeasesAlwaysSound is LeasesAlwaysChecked and LeasesAlwaysCurrent.  The first
  needs no invariant: the pages that `page_count` counts are
  those the bytes of the range lie in (`ValidatedAccessible`), for any start,
  length and layout.  The second follows from `LeaseInv`: each lease has its own
  pin, so a commit, which waits for the pins, finds no lease.
* MessageAlwaysWhole and VectorAlwaysHeld, from `RouteInv`: what the registers of
  each capability hold at each step of arming, keeping and rolling back.
* ResourcesStayIntact, from `ProbeInv` (how far a measurement got) and `WindowInv`
  (the page table is the union of the mappings, which are disjoint).
* InventoryAlwaysComplete, from `DiscoveryInv`: what has been scanned is listed, and
  what was found is scanned or queued, for any machine, cycles included.  The
  reachable buses are the least set that has bus 0 and is closed under the
  machine's bridges, defined without the walk; a finished walk has scanned a
  closed set, and nothing outside every closed set.  `WiringAssumption` says what
  a function may be.

Only checked by TLC: liveness (KickServed, BootCompletes, LineServed,
UsbCallsReturn, WalkEnds), because the prover does not handle fairness.  Every
other property of a passing run is the statement of a theorem.

## 6. Not modelled

* The legacy scheduler (`struct Scheduler`): its cursor decides nothing any
  more; only its lock and its task table matter, and they are in
  `ContextHandoff`.
* ACPI and MADT parsing, descriptors of USB devices, packet formats of `net.rs`,
  `dns.rs` and the sessions, `crypto.rs`: algorithms over byte buffers.  What they
  accept or refuse is a choice in the models.
* `vfs.rs`, `ramfs.rs`, `module_loader.rs`, `ai.rs`, the registry of `block.rs`:
  sequential tables that one caller changes at a time.
* Creation of page tables, the heap (a library), the I/O APIC and the PIC,
  descriptor tables, drawing, serial output and the announcements of Brane
  discovery: output without a state a property could be about.
* The host runner, which starts QEMU.
