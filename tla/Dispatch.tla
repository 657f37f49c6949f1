------------------------------ MODULE Dispatch ------------------------------
(***************************************************************************)
(* How hypercalls and interrupts find the driver that serves them: the     *)
(* initialisation of the drivers (sys/kernel/driver.c and the init call of *)
(* each), the hypercall table (sys/kernel/hypercall.c), the interrupt      *)
(* handlers and the vectors of both ports (interrupts.c, boot.S and the    *)
(* linker script), and the device mapping hypercalls, which serve several  *)
(* guests (drivers/virtual-io.c).  Interrupts are taken only after         *)
(* start_timer().  A handler is named by its driver.  Vectors are counted  *)
(* in steps of 32 bytes from 0x200.                                        *)
(***************************************************************************)
EXTENDS Integers, Sequences, SequencesExt, FiniteSetsExt

CONSTANTS
  Builds,      \* builds of the hypervisor, see below
  Devices,     \* [device -> [start, size]]: what pic32mz.h says of devices
  Mapped,      \* [VM -> set of devices]: their device_mapping lists
  IoAddress,   \* addresses that guests ask for
  NONE

\* The drivers that a build may have, by the names of their source files.
Drivers ==
  {"inter-vm-comm", "interrupts", "pic32mz-ethernet", "pic32mz-ethernet-shared",
   "pic32mz-interrupt-redirect", "pic32mz-usb", "pic32mz-puf-flash",
   "pic32mz-timer-test", "pic32mz-interrupt-latency-test", "performance-counter",
   "reset", "t1-baikal-UART-test", "uart_driver", "virtual-io"}

(* A build: the port, the drivers in the order of their object files, the  *)
(* interrupts redirected to guests, whether a guest has fast Ethernet      *)
(* interrupts, and whether the board has an Ethernet PHY.                  *)
ASSUME DispatchAssumption ==
  /\ \A b \in Builds :
       /\ b.port \in {"pic32mz", "baikal-t1"}
       /\ {b.fastEthernet, b.phy} \subseteq BOOLEAN
       /\ b.redirected \subseteq Nat
       /\ b.order \in Seq(Drivers) /\ IsInjective(b.order)
  /\ \A d \in DOMAIN Devices : Devices[d].start \in Nat /\ Devices[d].size \in Nat
  /\ \A d, e \in DOMAIN Devices :
       d # e => \/ Devices[d].start + Devices[d].size < Devices[e].start
                \/ Devices[e].start + Devices[e].size < Devices[d].start
  /\ \A vm \in DOMAIN Mapped : Mapped[vm] \subseteq DOMAIN Devices
  /\ IoAddress \subseteq Nat
  /\ NONE \notin Drivers \cup {"timer"}

HCALL_TABLE_SIZE == 30
Code == 0..1023      \* the code field of the hypercall instruction
MAX_NUM_INTERRUPTS == 10
UART_IRQ_TX == 147

VARIABLES
  build,                \* the build that runs
  starting,             \* drivers that are not initialised yet, in order
  running,              \* start_timer() has enabled interrupts
  failed,               \* drivers whose initialisation gave up
  hypercall_table,      \* the driver registered for each code
  interrupt_handlers,   \* the driver registered for each handler
  vector,               \* for each interrupt the vector it is taken at
  owner,                \* for each interrupt the driver that claimed it last
  io                    \* for each address the VM that wrote it last

tables == <<hypercall_table, interrupt_handlers, vector, owner>>
dispatchVars == <<build, starting, running, failed, tables, io>>

-----------------------------------------------------------------------------
(* Steps of an initialisation: a hypercall, or a handler for some          *)
(* interrupts, whose registration is checked or not.                       *)
Hypercall(code) == [kind |-> "hypercall", code |-> code]
Handler(lines, checked) == [kind |-> "interrupt", lines |-> lines, checked |-> checked]

IntervmInit == <<Hypercall(0), Hypercall(2), Hypercall(1), Hypercall(3)>>
UsbStart == <<Handler({132}, FALSE), Hypercall(8), Hypercall(9), Hypercall(10)>>
VirtualIoInit == <<Hypercall(11), Hypercall(12)>>
FlashPufInit == <<Hypercall(14), Hypercall(15)>>
PerformanceInit == <<Hypercall(16), Hypercall(17)>>
TimerTestInit == <<Handler({14}, FALSE)>>
StartLatencyInit == <<Handler({121}, FALSE)>>
Sw1ButtonInit == <<Handler({119}, FALSE)>>
T1UartTestInit == <<Handler({3}, TRUE)>>

(* interrupt_redirect_init(): one handler for all redirected interrupts.   *)
InterruptRedirectInit(b) ==
  IF b.redirected = {} THEN <<>>
  ELSE <<Handler(b.redirected, FALSE), Hypercall(13)>>

(* en_init() of either Ethernet driver.                                    *)
EnInit(b) ==
  IF ~b.phy THEN <<>>
  ELSE IF ~b.fastEthernet
  THEN <<Hypercall(4), Hypercall(7), Hypercall(5), Hypercall(6)>>
  ELSE <<Hypercall(4), Hypercall(7), Hypercall(5), Hypercall(6), Handler({153}, FALSE)>>

UartDriverInit(b) ==
  IF b.port = "pic32mz" THEN <<Hypercall(18), Handler({UART_IRQ_TX}, TRUE)>>
  ELSE <<Hypercall(18)>>

(* interrupt_init(): on baikal-t1 it clears the handlers.                  *)
InterruptInit(b) == IF b.port = "pic32mz" THEN <<>> ELSE <<[kind |-> "clear"]>>

(* start_timer().                                                          *)
StartTimerSteps(b) == <<Handler(IF b.port = "pic32mz" THEN {0} ELSE {4}, FALSE)>>

InitCall(d, b) ==
  CASE d = "inter-vm-comm" -> IntervmInit
    [] d = "interrupts" -> InterruptInit(b)
    [] d \in {"pic32mz-ethernet", "pic32mz-ethernet-shared"} -> EnInit(b)
    [] d = "pic32mz-interrupt-redirect" -> InterruptRedirectInit(b)
    [] d = "pic32mz-usb" -> UsbStart
    [] d = "pic32mz-puf-flash" -> FlashPufInit
    [] d = "pic32mz-timer-test" -> TimerTestInit
    [] d = "pic32mz-interrupt-latency-test" -> StartLatencyInit
    [] d = "performance-counter" -> PerformanceInit
    [] d = "reset" -> Sw1ButtonInit
    [] d = "t1-baikal-UART-test" -> T1UartTestInit
    [] d = "uart_driver" -> UartDriverInit(b)
    [] d = "virtual-io" -> VirtualIoInit
    [] d = "timer" -> StartTimerSteps(b)

-----------------------------------------------------------------------------
(* The last driver to register a code has it.                              *)
RegisterHypercall_MutantLast(s, d, code) ==
  IF code >= HCALL_TABLE_SIZE
  THEN [s EXCEPT !.failed = TRUE]
  ELSE [s EXCEPT !.hypercalls[code] = d]

(* register_hypercall() of driver d, which gives up on an error.           *)
RegisterHypercall(s, d, code) ==
  IF code >= HCALL_TABLE_SIZE \/ s.hypercalls[code] # NONE
  THEN [s EXCEPT !.failed = TRUE]
  ELSE [s EXCEPT !.hypercalls[code] = d]

(* f, with the value x for all lines.                                      *)
Overlaid(f, lines, x) ==
  [l \in lines \cup DOMAIN f |-> IF l \in lines THEN x ELSE f[l]]

(* Vectors are counted from that of the general exception.                 *)
RegisterInterrupt_MutantOffset(s, d, step) ==
  LET free == {i \in 0..(MAX_NUM_INTERRUPTS - 1) : s.handlers[i] = NONE}
      i == Min(free)
      OffSet(v) == [s EXCEPT !.vector = Overlaid(@, step.lines, v),
                             !.owner = Overlaid(@, step.lines, d)]
  IN IF free # {}
     THEN [OffSet(i) EXCEPT !.handlers[i] = d]
     ELSE IF step.checked THEN [s EXCEPT !.failed = TRUE] ELSE OffSet(0)

(* register_interrupt() of pic32mz: the first free handler.  The driver    *)
(* writes the vector to OFF(), 0 when there is no room.                    *)
RegisterInterrupt(s, d, step) ==
  LET free == {i \in 0..(MAX_NUM_INTERRUPTS - 1) : s.handlers[i] = NONE}
      i == Min(free)
      OffSet(v) == [s EXCEPT !.vector = Overlaid(@, step.lines, v),
                             !.owner = Overlaid(@, step.lines, d)]
  IN IF free # {}
     THEN [OffSet(i + 1) EXCEPT !.handlers[i] = d]
     ELSE IF step.checked THEN [s EXCEPT !.failed = TRUE] ELSE OffSet(0)

(* register_interrupt() of baikal-t1: the handler of interrupt n, taken at *)
(* vector n whatever is registered.                                        *)
RegisterInterruptT1(s, d, step) ==
  LET n == Max(step.lines)
      registered == n \in 1..63 /\ s.handlers[n] = NONE
      Claimed == [s EXCEPT !.vector = Overlaid(@, {n}, n), !.owner = Overlaid(@, {n}, d)]
  IN IF registered THEN [Claimed EXCEPT !.handlers[n] = d]
     ELSE IF step.checked THEN [s EXCEPT !.failed = TRUE] ELSE Claimed

ClearHandlers(s) ==
  [s EXCEPT !.handlers = [i \in DOMAIN @ |-> IF i = 0 THEN "exception" ELSE NONE]]

Perform(s, d, step) ==
  IF s.failed THEN s
  ELSE CASE step.kind = "hypercall" -> RegisterHypercall(s, d, step.code)
         [] step.kind = "clear" -> ClearHandlers(s)
         [] OTHER -> IF build.port = "pic32mz" THEN RegisterInterrupt(s, d, step)
                     ELSE RegisterInterruptT1(s, d, step)

(* The effect of the initialisation of driver d, up to where it gives up.  *)
Initialise(d) ==
  LET steps == InitCall(d, build)
      after[k \in 0..Len(steps)] ==
        IF k = 0
        THEN [hypercalls |-> hypercall_table, handlers |-> interrupt_handlers,
              vector |-> vector, owner |-> owner, failed |-> FALSE]
        ELSE Perform(after[k - 1], d, steps[k])
      s == after[Len(steps)]
  IN /\ hypercall_table' = s.hypercalls
     /\ interrupt_handlers' = s.handlers
     /\ vector' = s.vector
     /\ owner' = s.owner
     /\ failed' = IF s.failed THEN failed \cup {d} ELSE failed

(* drivers_initialization(): one turn of its loop.                         *)
InitialiseDriver ==
  /\ starting # <<>>
  /\ Initialise(Head(starting))
  /\ starting' = Tail(starting)
  /\ UNCHANGED <<build, running, io>>

(* start_timer(): the last to register, then interrupts are enabled.       *)
StartTimer ==
  /\ starting = <<>> /\ ~running
  /\ Initialise("timer")
  /\ running' = TRUE
  /\ UNCHANGED <<build, starting, io>>

-----------------------------------------------------------------------------
(* hypercall_execution(): the driver whose function runs.                  *)
HypercallExecution(code) ==
  IF code >= HCALL_TABLE_SIZE THEN NONE ELSE hypercall_table[code]

(* The code at the vectors of pic32mz, as the linker places it: handler i  *)
(* is called at Stub[i], and the gaps between are filled with zeros, which *)
(* execute as nop.  An interrupt taken at offset 0, or past the last       *)
(* handler, goes astray.                                                   *)
Stub == [i \in 0..5 |-> IF i < 4 THEN i + 1 ELSE i + 4]

TakenAt(v) ==
  LET ahead == {i \in DOMAIN Stub : Stub[i] >= v}
      i == CHOOSE i \in ahead : \A j \in ahead : Stub[i] <= Stub[j]
  IN IF v = 0 \/ ahead = {} THEN "astray" ELSE interrupt_handlers[i]

(* __interrupt_handler() of baikal-t1 with the number that the vector's    *)
(* code passes.                                                            *)
TakenAtT1(v) == interrupt_handlers[IF v = 39 THEN 37 ELSE v]

(* The driver whose handler runs when an interrupt is taken.               *)
InterruptTaken(line) ==
  IF build.port = "pic32mz" THEN TakenAt(vector[line]) ELSE TakenAtT1(vector[line])

(* The start of the range is not checked.                                  *)
Allowed_MutantStart(vm, a) ==
  \E d \in Mapped[vm] : Devices[d].start + Devices[d].size >= a

(* The address is in a device of the VM, whose size is the offset of its   *)
(* last register.                                                          *)
Allowed(vm, a) ==
  \E d \in Mapped[vm] : Devices[d].start <= a /\ Devices[d].start + Devices[d].size >= a

(* The hypercall of write_address(), which may be refused.                 *)
WriteAddress(vm, a) ==
  /\ running
  /\ io' = IF HypercallExecution(11) = "virtual-io" /\ Allowed(vm, a)
           THEN [io EXCEPT ![a] = vm] ELSE io
  /\ UNCHANGED <<build, starting, running, failed, tables>>

-----------------------------------------------------------------------------
DispatchInit ==
  /\ build \in Builds
  /\ starting = build.order
  /\ running = FALSE
  /\ failed = {}
  /\ hypercall_table = [c \in 0..(HCALL_TABLE_SIZE - 1) |-> NONE]
  /\ interrupt_handlers =
       [i \in 0..(IF build.port = "pic32mz" THEN MAX_NUM_INTERRUPTS - 1 ELSE 63) |-> NONE]
  /\ vector = <<>> /\ owner = <<>>
  /\ io = [a \in IoAddress |-> NONE]

DispatchNext ==
  \/ InitialiseDriver
  \/ StartTimer
  \/ \E vm \in DOMAIN Mapped, a \in IoAddress : WriteAddress(vm, a)

DispatchSpec == DispatchInit /\ [][DispatchNext]_dispatchVars

-----------------------------------------------------------------------------
(* The hypercalls that driver d offers.                                    *)
Offered(d) ==
  LET steps == InitCall(d, build)
  IN {steps[i].code : i \in {j \in DOMAIN steps : steps[j].kind = "hypercall"}}

(* Once the hypervisor runs, each hypercall reaches the driver that        *)
(* offers it, whatever was linked before and after: of two drivers for one *)
(* device exactly one starts, a driver that gave up is reached by none of  *)
(* its hypercalls, and a code that nobody offers, or beyond the table, is  *)
(* refused.                                                                *)
HypercallsReachTheirDriver ==
  running => \A c \in Code :
    {d \in ToSet(build.order) \ failed : c \in Offered(d)}
      = {HypercallExecution(c)} \ {NONE}

(* The addresses of a device's registers, from <device>_BASE on.           *)
Registers(d) == Devices[d].start..(Devices[d].start + Devices[d].size)

(* Once interrupts are enabled, each interrupt that a driver claimed runs  *)
(* the handler that the driver registered for it.                          *)
InterruptsReachTheirHandler ==
  running => \A line \in DOMAIN owner : InterruptTaken(line) = owner[line]

(* A register of a device, the last one included, is written only by       *)
(* guests that the device is mapped to, even where the registers of        *)
(* another device follow at once, and no other address is written.         *)
DevicesKeepToTheirGuests ==
  \A a \in IoAddress : io[a] # NONE =>
    /\ \E d \in DOMAIN Devices : a \in Registers(d)
    /\ \A d \in DOMAIN Devices : a \in Registers(d) => d \in Mapped[io[a]]
=============================================================================
