# A verification of the prpl Hypervisor in TLA+

The prpl Hypervisor is a small type-1 hypervisor for MIPS processors with the
virtualisation module (PIC32MZ boards and the Baikal-T1). A configuration file
fixes the virtual machines at build time, one VCPU each. The hypervisor runs on
one processor: it is entered by interrupts, hypercalls and exceptions, always
with interrupts disabled, and leaves with `eret`.

The TLA+ modules in this directory model its kernel and drivers from the source
under `src/`. TLC checks them on small instances; TLAPS proves the results
listed under *Proofs* for every value of the constants. `PROJECT.json` maps
each definition to the lines it stands for, and lists the runs, the faulty
variants that show each property can fail, the hazards and the findings.

## 1. The system

| Component | State | Operations | Module |
|---|---|---|---|
| Scheduler (`sys/kernel/scheduler.c`) | ready list, executing VCPU, tick count, pending fast interrupts; per VCPU: state, priority, remaining priority, critical flag | `run_scheduler`, `round_robin_scheduler`, `fast_interrupt_delivery` | `Scheduler`, `SchedulerShare` |
| Exception dispatch (`sys/kernel/exception.c`) | EPC of the guest | `guest_exit_exception`: hypercall or emulation, skip the instruction, reschedule if the guest blocked | `Scheduler`, `VCPUContext` |
| VMs and VCPUs (`sys/kernel/vm.c`, `driver.c`) | VM and VCPU lists, TLB entries | `create_vm`, `create_vcpu` at boot | initial states of `Scheduler`, `VCPUContext`; `MemoryLayout` |
| Context switch (`arch/mips/common/vcpu.c`, `boot.S`, `gpr_context.c`) | saved registers, CP0 state and PC; hardware registers, guest id, shadow set | `contextSave`, `contextRestore`, `cpu_idle` | `VCPUContext`, `IsolatedVCPUs` |
| Timer (`arch/mips/*/timer.c`) | CP0 compare, time of the last injection | tick: re-arm, schedule, inject the virtual timer interrupt | `Scheduler`, `VirtualInterrupts` |
| UART driver (`arch/mips/pic32mz/uart_driver.c`) | queued transfers, the active one, interrupt enable and flag, hardware queue | `send` hypercall, transmit interrupt | `UartDriver` |
| Inter-VM communication (`drivers/inter-vm-comm.c`, guest `lib/network.c`) | message ring of each VCPU and of each guest, virtual interrupt | send and receive hypercalls, guest interrupt handler | `InterVM`, `MessageChannel` |
| Interrupt redirection (`drivers/pic32mz-interrupt-redirect.c`, guest `platform.c`) | IRQ mapping list, IRQ enables and flags, virtual interrupts | injection, re-enable hypercall | `VirtualInterrupts` |
| Queue (`sys/lib/queue.c`) | ring, head, tail, count | create, add, remove, get, set, swap | `CircularQueue`, `BoundedQueue` |
| Heap (`sys/lib/malloc.c`) | circular list of free blocks | `malloc`, `calloc`, `realloc`, `free` | `Heap` |
| Shared Ethernet (`drivers/pic32mz-ethernet-shared.c`) | DMA ring, shared frame buffers, a ring of buffers per VM, link state | MAC registration, receive, send, watchdog hypercalls | `SharedEthernet`, `FrameInboxes` |
| Ethernet for one VM (`drivers/pic32mz-ethernet.c`) | DMA descriptors shared with the controller, transmit buffer, link state | receive, send and watchdog hypercalls, concurrent with the controller; detection of the PHY | `EthernetDMA`, `FrameFifo`, `EthernetPHY` |
| USB host (`drivers/pic32mz-usb.c`) | detection and transfer state machines, descriptor, retries | poll, get descriptor and send hypercalls, USB interrupt | `UsbHost` |
| PUF flash (`drivers/pic32mz-puf-flash.c`) | a page of flash | read and write of 1 KB: erase, then program | `GuestFlash` |
| Hypercall table, driver start, interrupt registration (`sys/kernel/hypercall.c`, `driver.c`, `arch/mips/*/interrupts.c`, `boot.S`, `pic32mz.ld`) | two tables filled at boot, interrupt vectors | register, dispatch | `Dispatch` |
| Device mapping (`drivers/virtual-io.c`) | the `device_mapping` lists | read and write of a device register | `Dispatch` |
| Performance counter, test drivers, reset button | registers | hypercalls, interrupts | their registration, in `Dispatch` |
| Configuration reader (`platform/cfg_reader/genconf.c`) | addresses of the next machine, TLB entries used so far, `VMCONF`, `vms.info` | one turn per virtual machine, at build time | `MemoryLayout`; the ranges of the other settings are assumptions |
| TLB (`arch/mips/common/tlb.c`) | the entries of the processor | write at boot, mapping of a hypercall's buffer | `MemoryLayout` |
| Processor set-up, boards, libc of the hypervisor, linked list | registers, none | set-up, pure functions, dead code | not modelled |
| Guest library (`bare-metal-apps/lib/libc.c`) | none | integer arithmetic, single precision floating point | `GuestArithmetic`, `GuestFloat` |
| Guest applications | guests | hypercalls | as the environment; `network.c` and `platform.c` above |

**How they interact.** The timer interrupt calls the scheduler, and the
scheduler switches contexts when it picks another VCPU. A hypercall runs in the
context of the VCPU in execution and may block it (UART), in which case the
exception handler calls the scheduler. Drivers wake VCPUs from interrupt
handlers by writing `vcpu->state` and ask for quick delivery by
`fast_interrupt_delivery()`. Virtual interrupts are bits kept in two places:
`vcpu->guestclt2` of a VCPU that is not in execution and the register
`GuestCtl2` of the one that is; the context switch moves or copies them.

**What is hard.** The hypervisor itself is never preempted, so there are no
races inside a handler; the difficulty lies in the order of handlers. A guest
may lose the processor between any two instructions, an interrupt may come for
a guest that is not running, the UART and the DMA controller work while a
handler runs, and state read from hardware registers belongs to whichever guest
is in execution. Counters and rings have limits that are rarely met in a test.

## 2. Modules

Each handler (an interrupt, a hypercall, a guest step) is one action, because
handlers run to their end with interrupts disabled. Modules that end in
`..._Mutant...` definitions have them only to show that properties can fail.

### Scheduler
`readyList` is the queue as a sequence (`CircularQueue` justifies this).
`TimerTick` is the timer interrupt up to the scheduler: it advances `tickCount`
modulo `TICK_MODULUS` (2^32 in the code) and schedules at the end of a quantum
or when a fast interrupt is pending. `GuestBlocks` is a hypercall that blocks
its guest and its exit path; `Unblock` is a driver that wakes a VCPU;
`FastInterruptDelivery` is the function of that name. `RunScheduler` is shared:
`PickCritical` and `PickByPriority` are the two halves of
`round_robin_scheduler()`, and rotation stops where the code's scan returns.
The modules of the drivers extend `Scheduler` and replace the free blocking and
waking by the driver's own.

`SchedulerShare` adds `bgjobs` and a virtual clock, a history variable, and
restricts the VCPUs in `Steady` to compute only.

### VCPUContext
The registers of each context, the hardware that a guest sees, and the three
ways into the hypervisor. Register contents are small values; the program
counter counts instructions. The VCPU the scheduler picks is left open.
`NUM_SHADOW_GPRS` and `PORT_SAVES_GPRS` select the port: shadow sets
(pic32mz), or a trap frame that the switch copies (baikal-t1). The saved CP0
registers include Compare, which is saved but never restored; it is not part of
the CP0 state here. `IsolatedVCPUs` is the abstract machine: a register file
per VCPU that only its owner changes.

### UartDriver
A message is its length; characters are positions. `WriteLoop` is the loop that
fills the hardware queue while the UART empties it, so any number of characters
may be written. The transmit flag follows the hardware: it is set when the
transmitter runs empty, and clearing it while the transmitter is empty may have
no effect. The history variable `burst` is what was written last.

### InterVM
The hypercalls over the ring of each VCPU, the bit that announces messages in
both of its places, and the interrupt handler of the guest library, which moves
messages to a ring of its own. `IrqReceive` is one turn of its loop: the receive
hypercall and, by the guest, the insertion into that ring, which are two steps
in the code. They commute with all that may come between, a switch or a message
for the same VM, since only this guest uses its ring. `MessageChannel` is an
inbox per VM. Hypercalls that only return an error code change no state. A
message sent to oneself is announced at the next switch only, as in the code.

### VirtualInterrupts
Timer interrupts and redirected IRQs with both copies of the pending bits.
`GuestTick` is the whole timer interrupt: scheduler, context switch, injection.
Time is counted in ticks. It is assumed that the hardware clears the bit of
`GuestCtl2` when the guest takes the interrupt.

### CircularQueue, BoundedQueue
The ring of `queue.c`; `BoundedQueue` is a sequence of bounded length with the
same operations and results. `queue_destroy()` and `queue_remtail()`, which
nothing calls, are left out.

### Heap
Units of a block header. `Walk` follows the free list from `freep`; `Fits`,
`Places` and `Join` are the search of `malloc()`, the search of `free()` and its
two joins. Where the search of `free()` would never end, `Free` is not enabled.

### SharedEthernet, FrameInboxes
`rx` is the DMA ring as a sequence of frames; the controller appends to it at
any time (`Arrive`). `ReceiveFrame` is the hypercall: a frame kept earlier, or
the ring up to the first frame for the caller, keeping the others in buffers.
A VM whose ring is full looks as if nothing waited for it, and is served from
the DMA ring. The results -1 of `get_free_buffer()`, `get_vm_destination()` and
`get_vm_buffer_pos()` are compared as unsigned and used as indices: that sets
`wild`, and what is received afterwards is not modelled. Frames come for any
address, and more may wait than there are buffers. `FrameInboxes` gives each VM
an inbox of its own; `ImplementsInboxes` adds the two steps in which the driver
departs from it, `FullLooksEmpty` and `IndexIsWild`, and when they may happen.
`WINDOW` bounds the frames that wait, for TLC only.

### MemoryLayout
From the configuration file to the hardware, in pages of 4 KB. `GenConfVM` is a
turn of the loop of `gen_conf_vms()`, with the two addresses it carries along,
`CreateVM` writes a machine's entries into the TLB, and `MapBuffer` is what a
hypercall does to reach a buffer of its guest. Both ports are built from one
module, as from one source. `Frames` and `Reached` are the processor's
translation: an entry covers an aligned pair of pages, with a frame for each
half. A machine asks for whole pages at page addresses.

### UsbHost
A guest calls `usb_polling()`; each call is one step of the detection machine
(one action per state) or, once a device is `RUNNING`, of the transfer machine.
`InterruptHandler` takes all pending causes at once, in the order in which the
code looks at them, and moves both. A poll is entered by `EnterPolling` and its
step taken later, so that the controller acts in between. The environment
attaches and detaches devices, answers or does not, sends packets, raises bus
errors and overcurrents (at most `MAX_FAULTS`) and lets time pass; time since
`wait_debounce` is `JUST`, `SHORT` or `LONG`, as the three delays tell it apart.
Of a device only the packet size of endpoint 0 is kept, of a descriptor its
length. The controller reports every attachment and detachment; a setup packet
is out before the next poll, 100 ms later; hypercalls are entered with the
interrupts taken. The handling of a controller error as a descriptor is why
completeness is stated without faults. `get_descriptor()` changes no state;
`TRANSFER_WAIT_TX_INT` cannot be reached with transfers of three bytes.

### EthernetDMA, FrameFifo
The controller and the driver work at the same time on the descriptors: `EOWN`
says whose each is. The controller fills a frame's descriptors at once, the
driver copies a frame (`ReceiveFrame`) and returns its descriptors one by one
(`FreeDescriptor`); frames may come between any two. Bytes are those of each
frame, in units smaller than a descriptor. The watchdog turns reception on and
off and sets the ring up again; the PHY answers as it likes, also not in time.
The transmit buffer is read by the controller in two halves. `SendFrame` writes
it whatever the size and whatever is being transmitted; the size is then cut to
16 bits (`SIZES`), and if that is 0 or larger than `MTU` nothing is transmitted.
What is behind the buffer, where the rest of a larger frame goes, is not
modelled. When the watchdog sets up the descriptors it clears that of a
transmission under way; the controller, which finds that it does not own it,
stops (`GiveUp`). `FrameFifo` is a first in first out queue of frames, emptied
when the link goes down; `Given` says what is copied of a frame, all of it or
half.

### EthernetPHY
The search for the PHY at boot, one action for each operation of `phy_reset()`
on the management bus, and the two reads of `is_phy_linked()` by which each
`en_watchdog()` follows the link. An operation may time out before or after it
took effect, and its -1 is read as a register with every bit set, as is an
address without a PHY. The PHYs, whose reset ends some time after it was asked
for, and the line, which may change between any two operations, are external;
the four modes that a PHY advertises are told apart as fast and slow. What
`EthernetDMA` calls an answer of the PHY is one `PollStatus`.

### GuestFlash
`FlashWrite`, `ErasePage`, `WriteQuad` and `EndOfWrite` are the steps of one
write, and `Reset` may come between any two and in the middle of an operation,
leaving a part of it done. The flash itself is external: programming a word
that is not erased spoils it.

### GuestArithmetic, GuestFloat
What the guest library computes where the compiler calls it: `__divdi3()`,
`__mulsf3()` and their kin, `itoa()` and `atoi()`. These are functions, so a
step only chooses arguments; references are the integers of TLA+. Shifts are by
up to one less than the bits of a double word, the amounts that C defines; the
shift instructions take their amount modulo a word. `W`, `THIRD`,
`GUARD` and `EXCESS` scale the words, mantissas and exponents down with their
proportions. The bits of a float are a sign, an exponent and a mantissa.

### Dispatch, MCDispatch
`InitialiseDriver` is one turn of `drivers_initialization()`: the registrations
of a driver, in order, up to the first that it gives up on. `StartTimer` comes
last and enables interrupts. `TakenAt` is the way from an interrupt's vector to
a handler, through the stubs of `boot.S` at the addresses where the linker
script puts them: the gaps are filled with zeros, which execute as `nop`.
`WriteAddress` is the device mapping hypercall; the size of a device in the
headers is the offset of its last register, so its end is in the range. A build
is a port, a list of drivers in the order of their object files (alphabetical)
and what its configuration enables; `MCDispatch` has those of the boards'
makefiles.

### MCStructures
Composes the modules that share no state, `CircularQueue`, `Heap`,
`EthernetDMA`, `EthernetPHY`, `GuestFlash`, the two of arithmetic and `Dispatch`:
each behaviour moves one of them. It exists to check them in one run.

## 3. Runs

| Run | Instance | Shows |
|---|---|---|
| `scheduler` | 3 VCPUs, priorities 2, 3, 5, quantum 3, counter modulo 7 | bookkeeping, no early preemption, no idling with a ready VCPU, no starvation, fast interrupts served |
| `scheduler_share` | 2 computing VCPUs and one that does anything, 16 jobs | shares in inverse proportion to the priorities |
| `context` | 3 VCPUs, registers copied (baikal-t1) | the hardware holds what the VCPU in execution saved; refinement of `IsolatedVCPUs` |
| `uart` | 3 VCPUs, messages up to 3, hardware queue of 2 | blocking and transfers agree, no interleaved messages, the active transfer ends |
| `intervm` | 2 VMs, rings of 2, four messages | refinement of `MessageChannel`; messages flow while there is room |
| `redirect` | 2 guests, one with both user interrupts | no IRQ stays disabled, every interrupt is taken |
| `redirect_lost` | 2 guests, one IRQ each | a disagreement, below |
| `ethernet` | 3 VMs, 2 buffers, up to 3 frames waiting, some for unknown addresses | buffers are freed by their last reader; refinement of `FrameInboxes` but where a ring is full or an index is -1; a polling VM receives its frames alone |
| `memory` | both ports, files of up to 3 machines out of 7 or 4 kinds | memories do not meet, images and memory maps are where they were put, hypercalls reach their guest |
| `usb` | devices with packets of 8 and 64 bytes, one fault | no trace of a device after its detachment, the descriptor reported is complete, data follow their setup packet, detection ends |
| `structures` | eight modules, each alone | see below |
| `vectors` | the starter kit with six interrupt handlers | a disagreement, below |

In `structures`: the queue (capacity 3) refines `BoundedQueue`. `HeapIsSound`
(11 units): used and free blocks partition the heap, free neighbours are joined
and the search of `free()` ends. `RingIsFifo` (4 descriptors of 2 bytes, frames
of 1, 3, 4, 6 and 9): the Ethernet ring refines `FrameFifo`;
`DescriptorsInTurn`: driver and controller never pass each other;
`LastFrameIsWhole` (a buffer of 2, frames of 0, 1, 3 and 5, of which 0 and 3 are
not transmitted and 5 is cut to 1): a transmission that ends has sent its own
frame whole, if the buffer and the descriptor were left alone.
`LinkIsNegotiated` (3 addresses, one timeout): no address without a PHY is taken
for one, the PHY found has finished its reset and negotiates, and frames are
received in the negotiated mode as long as the line did not change since it was
seen up. `FlashHoldsOneWrite` (3 quad words): a guest reads one write, or what a
reset left of it, never two mixed. `ArithmeticIsExact` and `FloatsAreClose`: the
library's results against those of exact arithmetic, and what they are where
they differ. `HypercallsReachTheirDriver`, `InterruptsReachTheirHandler`,
`DevicesKeepToTheirGuests` (two devices, one right after the other): tables,
vectors and device ranges, in seven builds.

*Bounds.* The priorities 2, 3, 5 are coprime, so every relation of the remaining
priorities occurs. Seven is not a multiple of three: the wrap of `tickCount`
cuts a quantum short, as 2^32 does. Rings of two or three slots wrap after a few
steps and are full and empty in most interleavings. `MAX_JOBS` stops the share
run after 16 decisions, two rounds of the pattern, and is why that run may end.
The heap has an odd size and every request is even, so that its lowest block is
never handed out: what happens otherwise is in the table below. In
`ethernet` a third VM lets a broadcast buffer have two readers; two buffers and
three frames make a ring full, leave no buffer free, and go one beyond. In `usb` a
device of 8 bytes needs three packets for its descriptor, one of 64 a single
short one; one fault reaches every recovery, several add only repetition.
Frames of 1, 3, 4 and 6 fill half a descriptor, one and a half, two, and three of
four, so that the ring wraps inside a frame, frames are dropped for want of room
and one is copied by half; one of 9 is larger than the ring and always dropped;
three arrivals go round it. Words of 6 bits are all tried in pairs; double words
are the boundaries of their range and of their halves. Floats have exponents
that are equal, near, and just within and beyond the range where the smaller
operand counts, and mantissas at both ends and around the middle.

In `memory` the kinds of machines
differ in size, so that alignment leaves gaps in every order of them, some are
refused, and the buffers lie within a page, fill one and cross its end. Three
machines suffice to put one between two others; the theorem covers any number.
The pic32mz configuration of the context, a shadow set per VCPU, is covered by
the theorem `ContextsIsolated`.

*Fairness.* Ticks are weakly fair (`TimerTick` and its compositions): the
handler re-arms the CP0 timer before anything else. Enabled interrupts are
taken and the UART transmits (weak fairness): the hardware is not stopped.
Steps of a guest's interrupt handler are strongly fair: a guest that is
dispatched again and again executes instructions each time, but it loses the
processor in between, so weak fairness would say nothing. In `ethernet` only the
VM whose reception is claimed polls fairly. In `usb` the guest goes on polling,
as its application does; interrupts are taken, packets leave the controller and
time passes, but no device ever has to answer. Applications and devices owe
nothing.

### Disagreements between the code and what is said of it

Two runs find a behaviour that contradicts a comment of the source;
`PROJECT.json` quotes it.

* `redirect_lost`: the test against a double injection reads `GuestCtl2`, the
  register of the guest in execution, whatever the target is. An IRQ of another
  guest is acknowledged and dropped while the guest in execution has its own
  interrupt of that number pending.
* `vectors`: `register_interrupt()` hands out vectors for ten handlers, 32 bytes
  apart, but only six have code, and the linker script puts that of the fifth
  and sixth elsewhere. With six handlers, the interrupts of the last reach the
  fifth: on the starter kit with a redirected interrupt and fast Ethernet
  interrupts that is the CP0 timer, and the scheduler is never called.

The passing runs stay on the side of these limits where the code keeps its
promise. The instance named shows the other side.

| Source | Disagreement | To see it |
|---|---|---|
| `scheduler.c:82`, `genconf.c:550` | a VCPU of priority 255, which the configuration accepts, is never picked when it is alone | `Priority` with 255 in `scheduler`: `IdleMeansNobodyReady` fails |
| `vm.c:174`, `pic32mz/boot.S:159` | VCPUs past the last shadow set use set 1, which nothing saves | 8 VCPUs, 7 sets and no copies in `context`: `ContextsAreIsolated` fails |
| `pic32mz-ethernet-shared.c:259` | as many undelivered frames for a VM as its ring holds make the ring look empty: the VM is told that nothing waits, and as no buffer is free the next frame is an index of -1 | `FullLooksEmpty` in `ImplementsInboxes`; without it the property fails |
| `pic32mz-ethernet-shared.c:217` | without a free buffer the driver does not return: `freebuf < 0` is never true of an unsigned `freebuf` | `IndexIsWild` in `ImplementsInboxes`; without it the property fails |
| `pic32mz-ethernet-shared.c:253` | a frame for an unknown address is not discarded, for the same reason | the same |
| `pic32mz-ethernet-shared.c:195` | a VM that has not asked for its address is not sent away, for the same reason | `ReceiveUnregistered` |
| `scheduler.c:120` | `fast_interrupt_delivery()` is said to switch to its target; it marks it | action `FastInterruptDelivery` |
| `uart_driver.c:106` | the next transfer is the one of the lowest VCPU: two VCPUs that print in turn keep a third waiting for ever, so `ActiveTransferEnds` claims nothing of those that wait | `NextTransfer` |
| `inter-vm-comm.c:170` | receiving one message clears the interrupt of those left when the guest's ring is full, so `MessagesFlow` assumes room | `RecvMsg` |
| `pic32mz-interrupt-redirect.c:119` | an interrupt taken before the context switch is copied from the context again, and taken twice | `ReenableInterrupt` |
| `timer.c:79` | one elapsed-time counter for all guests: with two guests that alternate at each tick and a guest timer of two ticks, one gets every timer interrupt | `GuestTick` |
| `malloc.c:71` | a request that takes the only free block exactly leaves it on the free list, and the next request gets the same block | 6 units, requests of 2 and 3 in `structures`: `HeapIsSound` fails |
| `malloc.c:94` | a block joined to the only free block, which is above it, is then linked to that block, its own upper part, which stays on the free list; the base block of the allocator it is based on, always free and empty, would prevent both | 11 units, requests of 2, 3 and 5 in `structures`: `HeapIsSound` fails after 2, 2, 2, the second freed, 5, and that one freed |
| `genconf.c:767` | a memory map is aligned up, its virtual address down to a pair of pages: the PMU of `baikal_t1_board/cfg/sample-linux.cfg:54`, at an odd page, is reached one page off, and its last page not at all | `AlignedMapsAreIdentity`, part of `MachinesAreMapped`, fails without its premise |
| `tlb.c:95` | the entry for a buffer is written for an even page: after a machine of 4 KB of RAM the next one may start at an odd page, and its buffers are not mapped | `HypercallsReachTheGuest` without its premise fails |
| `genconf.c:785` | on baikal-t1, `address_start` of `vms.info` is not aligned as `ram_base` is: they differ after machines of different sizes, and `genhex.sh` places the image elsewhere | `ImagesAndRAMAreMapped`, part of `MachinesAreMapped`, compares them on pic32mz only |
| `genconf.c:791` | nothing compares the total with the memory of the board | premise `BoardHolds` |
| `inter-vm-comm.c:118`, `genconf.c:690` | every hypercall maps its buffer with entry 15 of the TLB; the baikal-t1 build accepts 63 static entries, and entry 15 of a machine is lost at the first hypercall | premise `total_tlb_entries <= HYPERCALL_INDEX` in `MachinesAreMapped` |
| `pic32mz-ethernet.c:495` | the copy of a frame of several descriptors also ends when as much was copied as is left: the size returned may exceed what was copied | `Given` in `FrameFifo`: half of a frame that fills an even number of descriptors, 256 bytes and its multiples in the code; with all of it, `RingIsFifo` fails |
| `pic32mz-ethernet.c:92`, `pic32mz-ethernet-shared.c:278` | the transmit buffer is written before the previous transmission is over: the earlier frame may go out half old, half new | `LastFrameIsWhole` without `tx_buf = started` fails |
| `pic32mz-ethernet.c:532` | a frame of no bytes or of more than `MTU` is told to the guest as sent, and is not; the larger one was written to the buffer and past its end, and spoils the frame being transmitted | `SendFrame` with a size above `MTU` |
| `pic32mz-ethernet.c:443` | the watchdog clears the transmit descriptor without looking whether it is in use: the frame is lost | `LastFrameIsWhole` without `tx_desc` fails |
| `pic32mz-ethernet.c` `en_watchdog` | speed and duplex are set when reception is enabled only: a link renegotiated between two polls keeps the old ones. `phy_read()`'s -1 is used as data: a timeout is taken for 100 Mbps full duplex | `~changed` and `timeouts = 0` in `LinkIsNegotiated` |
| `pic32mz-usb.c:58` | `usb_send_data()` is said to return 0, or -1 when busy; it returns the size, and overwrites a transfer under way | action `SendData` |
| `pic32mz-usb.c:272` | `request_count` is only reset in `GENERALERROR`: timeouts of all devices add up, and a later device gets fewer attempts | `WaitDescriptor`, `GeneralError` |
| `pic32mz-usb.c` `update_state_machine` | an overcurrent seen by the poll that completes a descriptor leaves `descriptor_available` set in `GENERALERROR` | `DescriptorIsWhole` allows both states |
| `pic32mz-puf-flash.c` | the result of a flash operation, said to be below zero for an error, is never looked at | `GuestFlash` assumes success |
| `virtual-io.c:74` | `read_address()` leaves V0 as it was when it refuses | not modelled |
| `interrupts.c:56` | `register_interrupt()` returns 0 after ten handlers, and most drivers write it to the interrupt's offset unchecked | `RegisterInterrupt` |
| `baikal-t1/boot.S:215` | the vector of hardware interrupt 39 passes 37 | `TakenAtT1` |
| `baikal-t1/instruction_emulation.c:126,137` | an emulated `mtc0` takes its value from the register numbered as the destination | not modelled |
| `hal.c:145` | `ConfigureGPRShadow()` documents 1 for success and always returns 0 | not modelled |
| guest `libc.c:768,791,815` | `bm <= 0` is asked of an unsigned `bm` and holds for 32 only: `__ashldi3()`, `__ashrdi3()` and `__lshrdi3()` by 33 to 63 take the branch for less than a word, and shift by a word too little | `ShiftsAreExact` states it; compared with C it fails |
| guest `libc.c` | `__moddi3()` by a negative divisor has the wrong sign; `__ashrdi3()` by 32 keeps the low word; `calc_diff_time()` is one short at a wrap | excluded or stated in `ArithmeticIsExact` |
| guest `libc.c:1149` | a division by zero returns 4294967295 or 2147483647 converted to float; the comment says NaN | excluded in `FloatsAreClose` |
| guest `libc.c:1264` | `__floatsisf()` of the least integer never ends: the shift keeps its sign. `__fixunssfsi()` is wrong from 2^31 on; zero and negative zero compare as different; denormal numbers are taken for normal ones | excluded from `FloatWords` and `Floats` |
| `queue.c:153` | `queue_remtail()` returns the slot after the last element; nothing calls it | not modelled |

## 4. Proofs

The proofs assume the named `ASSUME` of each module: what the configuration
reader enforces, and the ranges of the constants. TLC evaluates them on every run.

* `SchedulerProofs`, for every number of VCPUs, priorities, quantum and counter
  width. `IInv` joins type correctness, the exact count of pending interrupts,
  readiness of the executing VCPU and completeness of the ready list. They need
  each other: the subtraction of priorities stays in range because the pick has
  the least one of the ready VCPUs, which needs the list to hold them all;
  `pending` can be decremented because it counts the critical VCPUs. The proof
  of a step goes through one lemma per half of the scheduler. From `IInv` follow
  the invariants and the two action properties, `QuantumKept` and, with all
  priorities below 255, `IdleOnlyWhenNobodyReady`.

  `WeightedFairShare` is not inductive. The invariant is the accounting equation
  `ChargedPerPick`: the jobs of a computing VCPU times its priority, plus one
  priority, equal the virtual clock plus what remains of its last charge. Two
  VCPUs share one clock, and what remains is bounded by `TypeOK`: the inequality
  follows.
* `VCPUContextProofs`. `IInv` relates the guest mode, the guest id, the register
  set and EPC to the VCPU in execution. With `EnoughGPRSets` (a shadow set per
  VCPU, or none and copies), `ContextsIsolated` proves that every step of the
  switch is a step of `IsolatedVCPUs`.
* `DriverProofs`, of the two drivers that move the scheduler's VCPUs.
  - `UartDriver`, for every number of VCPUs, size of message and depth of the
    hardware queue. `TransfersAreTracked` is inductive with the scheduler's `IInv`.
    `MessagesNeverInterleave` follows: characters are written for the active
    transfer only, which ends before another starts.
  - `VirtualInterrupts`. `IrqsAreTracked` is inductive with the copy of the
    guest's registers that the scheduler keeps: a disabled IRQ is pending in the
    hardware or in the saved context of its guest, or its handler runs.
* `InterVMProofs`, for every number of VMs and size of the two rings. The invariant
  relates indices and counts of both rings to the messages in them; the refinement
  mapping is the guest's ring followed by the VCPU's. Each handler step is a step of
  `MessageChannel` or none.
* `SharedEthernetProofs`, for every number of VMs and buffers and any traffic.
  `StoreOK` counts the uses of each buffer as pairs of a VM and a place in its
  ring, and says that no ring holds a buffer twice, full rings included: `input` at
  `output` with an entry there is a ring of all the buffers. A ring is then no
  longer than the number of buffers in use, and with one buffer free there is
  room in every ring (`NextSlot`). Rings become sequences by `PutAppends` and
  `TakeIsHead`; what a poll keeps for others is an induction over the frames it
  finds (`KeepAllKeeps`), up to the one, if any, that has no buffer or no VM
  (`Overrun`). A poll splits the DMA ring at the first frame for the caller:
  `InboxesImplemented` joins, for every other VM, what was kept for it to what is
  left for it, and finds the cause of every index of -1 among the frames that waited.
* `MemoryLayoutProofs`, for every board, file and number of machines. `Regions`
  says that each machine's regions are aligned and lie after those of the
  machines before it; `EntryCoversRegion` that an entry made by
  `process_tlb_entry()` covers exactly an aligned region of one or two pages, by
  cases over the page sizes. `SeparateMemories` follows: no entry for RAM or
  flash reaches another machine's memory or the hypervisor's below it, as long as
  the board has the memory. Memory maps are devices and may be shared.

  `HypercallsReach` adds that the entry of the last hypercall is the only valid
  one of the hypervisor, and that without a machine of a single page every RAM
  starts at a pair of pages (`HypercallInv`): the buffer's page and the one after
  it are then the two halves of one entry.

  `MachinesMapped` adds where each entry of the TLB comes from. Machines are
  loaded one after the other, so there are offsets, which only grow, such that
  entry *k* of machine *n* is at the *n*th offset plus *k* unless a hypercall
  overwrote it (`Loaded`); the offsets are an existential witness, extended by
  one with every machine of the file. `EntryTranslates` says that an entry whose
  virtual address is aligned to a pair of its pages translates its area page by
  page. That no other entry of the machine answers needs a hypothesis, `FilesFit`:
  no two areas of a machine share a pair of pages, which the processor forbids and
  genconf does not look for, and 0x9D000000, where the image is linked, is aligned
  to a pair of its pages, as it is for images below 16 MB (the boards have 2 MB).
  The files of the run satisfy it.
* `ComponentProofs`, the modules that stand by themselves.
  - `CircularQueue`, for every capacity. `IInv` adds to the count of elements that
    the slots in use hold elements. `QueueIsSequence` maps each operation to that
    of `BoundedQueue`. The remainders are removed first (`Wrap`, `AtIs`), and
    `AtInjective` says that no two elements share a slot.
  - `GuestFlash`, for every size. `FlashInv` says how much of the flash each
    operation in progress has erased or written.
  - `EthernetPHY`, for every bus. `PhyInv` says what each state of the search and
    of the negotiation has learnt from the PHY's registers.
  - `EthernetDMA`, for every ring and frame size. `DmaInv` says that descriptors
    `receive_index`, `receive_index + 1`, ... up to the controller's hold whole
    frames, one after the other (`InTurn`), so that releasing a frame or filling
    one moves an end of a run and never joins the two ends. For the transmit
    side `TransmitInv` relates the buffer to what the controller reads and to
    the frame that was started.

    `RingKeepsFrames` is the refinement of `FrameFifo`. Its mapping reads the run
    from `receive_index` and cuts it after each descriptor that ends a packet
    (`CutNext`); `RingInv` adds that the run is a sequence of whole frames
    (`HoldFrame`), whichever way it wraps. Receiving a frame appends one to what is
    cut (`CutGoesOn`); `CopyIsFrame` says that the loop of the hypercall copies
    the first (`CutFirst`), and the rest are cut as before (`CutShifts`). The loop
    also ends when as much was copied as is left: the proof has a case for
    frames that fill an even number of descriptors, of which half is copied, and one
    for all others, whose half is never the end of a descriptor (`Given`).
  - `UsbHost`, for every device. `UsbPhases` relates the two state machines, the
    interrupt flags and the guest's requests: which pairs of states may stand
    together, and what was sent and received in each. TLC checked it first, with
    one fault and with two.
  - `Dispatch`: a device's registers are its guests', for every set of devices
    that do not overlap: both ends of a range are registers of the device.
  - `Dispatch`, the hypercall table, for every list of distinct drivers: an object
    file is linked once. `DispatchInv` adds to the property, stated for the drivers
    that had their turn, that no driver has two handlers. A driver gives up in two
    ways. Its first code is taken, and then only by the other driver of the
    Ethernet controller, which offers the same codes (`Orderly`): it registers
    nothing (`TakenGivesUp`). Or a registration of a handler fails after a hypercall
    was registered: of the drivers with hypercalls only that of the UART checks for
    it, and `UartHasRoom` shows by the pigeonhole principle that ten handlers are enough for the nine drivers that
    register one. `Fine` says what a driver has registered after k steps.
  - `Dispatch`, the handlers of pic32mz: `InterruptsReachTheirHandler` follows from
    `FiveHandlers`, that the sixth handler is free, in every build. `Leads` says
    that handlers are taken in order and that a claimed interrupt has the vector
    given with its driver's handler. The hypothesis is exact: the run `vectors` is a
    board with six.
  - `Heap`, for every size and set of requests. `HeapInv` says that there is a set of
    free blocks such that the list leads from each to the one with the next
    address, and from the highest to the lowest (`FreeList`), that these and the
    blocks in use divide the heap, and that no two free blocks touch. `WalkIs` and
    `Beyond`, the distance along the list, give what the loops of `malloc()` and
    `free()` find; the proof of `free()` has a case for each way of joining.
    `HeapStaysSound` needs that the lowest block is not handed out
    (`LowestIsKept`): otherwise the list may lose its last block or keep a
    swallowed one, as the table above tells.
* `LibraryProofs`, the arithmetic of the guests' library.
  - `GuestArithmetic`, for words of any even number of bits (`__muldsi3()` works by
    halves), the 32 of the code included. Each loop is a recursive function of its
    turns, and its proof an induction over them, on natural numbers, by `UpTo`. The
    invariant of the divisions (`DividedIs`): the quotient so far times the
    divisor plus what is left of the dividend is the dividend, and less is left
    than the divisor as it was last shifted; the shifts done first are enough for
    that. Division of signed integers follows by cases of their signs. Products
    are sums of half words whose carries cannot get lost (`Muldsi3Is`), or agree
    modulo a word with partial products (`MulIs`); shifts
    are products and quotients by factors of a word, and one by more than a word is
    what one by a word less is. Numerals are compared by what
    they say and not digit by digit: the digits `itoa()` writes spell the
    number (`Spells`), and `atoi()` reads any that do.
  - `GuestFloat`, for any number of bits of the mantissa (in thirds), of guard bits
    and excess of the exponent; the hypotheses are those of `FloatAssumption`, that
    no operation leaves the range of the exponent. Powers of two are a recursive
    function, and what is needed of them (`TwoNext`, `TwoSum`, `TwoGrows`) comes by
    induction. A product is known from its thirds: what `__mulsf3()` leaves out,
    and what its shifts drop, is bounded before the result is rounded
    (`PartialProduct`, `RoundedProductIs`). A quotient is an invariant of the
    repeated subtraction (`SubtractedIs`): the digits so far times the divisor
    plus what is left are the dividend.

    For sums there are two errors. The shift of the smaller operand loses less than
    a unit of the guard bits, and nothing when the exponents differ by one at most;
    otherwise the sum cannot cancel, and is normalised up by one place at most
    (`UpBound`), so that the loss is not multiplied further. Rounding to even adds
    half a unit, with its carry (`EvenedIs`, `RoundedIs`). `NearAbove` and
    `NearBelow` put the two together, according to which exponent is the unit;
    `ShiftedSumNear` follows. An operand too far away to be added is below
    half a unit of the other.

Of the hypotheses above, `FilesFit` is about files the code accepts unread,
`FiveHandlers` about the drivers a build links, `EnoughGPRSets` about the processor
and `LowestIsKept` about the memory that is asked for. The instances of the
passing runs satisfy them all.

Some of the theorems are of formulas that no run names: `TypeCorrect` of
`VCPUContextProofs`, and of `ComponentProofs` (the queue) with `CountIsExact`,
support the refinements that are checked.

Only model-checked: the liveness properties (fairness and `ENABLED` are outside
TLAPS); `InterruptsReachTheirHandler` on baikal-t1, where a driver that
ignores a failed registration loses its interrupts to the handler before it: it
holds of the drivers of that board only.

## 5. What is left

Of the safety properties only the interrupts of baikal-t1 are without a proof,
and of the rest liveness, which the prover does not reach.

Not modelled, and why:

* processor and board set-up, clocks, pins, the set-up of the Ethernet and USB
  controllers: register writes in a fixed order at boot. The register headers
  are most of the lines of the repository and hold definitions only;
* instruction emulation of the baikal-t1 port: a table from opcodes to
  register moves;
* the configuration reader's strings and device tables, and the tools that read
  `vms.info`;
* strings, printing and the heap of the guest library, and the C library of the
  hypervisor: functions without state but a print buffer;
* the linked list, which nothing calls;
* guest applications, network stacks and cryptography: guests may do anything.

Known abstractions: one VCPU per VM, as the code creates them; results in V0 are
left out where no property is about them; messages are not of size zero; time is
counted in ticks, so the wrap of the CP0 counter, computed one count short, is
not visible; `HeapInit()` rounds the heap up to whole units, which the model,
counting in units, does not show; `number_used_buffers` of the Ethernet driver is
written and never read.
