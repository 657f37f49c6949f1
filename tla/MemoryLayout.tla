---------------------------- MODULE MemoryLayout ----------------------------
(***************************************************************************)
(* The memory of the guests: how the configuration reader lays it out      *)
(* (src/platform/cfg_reader/genconf.c), how create_vm() loads the layout   *)
(* into the TLB of the processor (src/sys/kernel/vm.c), and how a          *)
(* hypercall reaches a buffer of its guest through the TLB entry kept for  *)
(* that (src/arch/mips/common/tlb.c).                                      *)
(*                                                                         *)
(* Addresses and sizes are counted in pages of 4 KB.  The build (one       *)
(* GenConfVM per virtual machine of the configuration file) is followed by *)
(* the boot (one CreateVM per machine) and then by hypercalls.             *)
(***************************************************************************)
EXTENDS Integers, Sequences

CONSTANTS
  PORTS,      \* the ports looked at, of "pic32mz" and "baikal_t1"
  RAM_END,    \* per port, the first page after the RAM of the board
  CODE_END,   \* per port, the first page after the flash of the board
  Asks,       \* per port, the entries of virtual_machines in the file
  MAX_VMS,    \* bound: virtual machines in one file
  Buffers     \* the buffers that guests pass to hypercalls

----------------------------------------------------------------------------
(* What the two builds of genconf are compiled with. *)

KSEG0   == 524288                    \* 0x80000000
KSEG1   == 655360                    \* 0xA0000000
PHYS    == 131072                    \* 512 MB: addr & 0x1FFFFFFF
PAGE    == 4096                      \* bytes of a page

\* VMS_DATA_INTERMEDIATE_BASE_ADDRESS and VMS_CODE_INTERMEDIATE_BASE_ADDRESS.
RAM_BASE  == [pic32mz |-> KSEG0 + 8, baikal_t1 |-> KSEG0 + 16]
CODE_BASE == [pic32mz |-> KSEG0 + 118792, baikal_t1 |-> KSEG0 + 16]

\* VMS_RAM_VIRTUAL_BASE_ADDRESS and VMS_CODE_VIRTUAL_BASE_ADDRESS.
RAM_VA  == KSEG0
CODE_VA == [pic32mz |-> KSEG0 + 118784, baikal_t1 |-> KSEG0]

TOTAL_TLB_ENTRIES == [pic32mz |-> 15, baikal_t1 |-> 63]

\* The index of the entry that every hypercall maps its buffer with.
HYPERCALL_INDEX == 15

PageSizes == {1, 4, 16, 64, 256, 1024, 4096, 65536}
MemSizes  == {1, 2, 4, 8, 16, 32, 64, 128, 256, 512, 1024, 2048, 4096, 8192}
MISSING   == 0     \* a property the file does not give, or not in MemSizes

MemoryMap == [base : Nat, size : MemSizes]
Ask == [ram : MemSizes \cup {MISSING}, flash : MemSizes \cup {MISSING},
        maps : Seq(MemoryMap)]

(* The board's memory lies in the cached window of the kernel, RAM below   *)
(* flash; a file for baikal-t1 asks for no flash, as none of src/platform  *)
(* does: a guest of that port runs in its RAM.                             *)
ASSUME LayoutAssumption ==
  /\ PORTS \subseteq {"pic32mz", "baikal_t1"}
  /\ MAX_VMS \in Nat
  /\ \A p \in PORTS : RAM_END[p] \in Nat /\ CODE_END[p] \in Nat
  /\ "pic32mz" \in PORTS => /\ RAM_END["pic32mz"] <= CODE_BASE["pic32mz"]
                            /\ CODE_END["pic32mz"] <= KSEG0 + PHYS
  /\ "baikal_t1" \in PORTS => /\ RAM_END["baikal_t1"] <= KSEG0 + PHYS
                              /\ \A a \in Asks["baikal_t1"] : a.flash = MISSING
  /\ \A p \in PORTS : Asks[p] \subseteq Ask
  /\ Buffers \subseteq [page : Nat, offset : 0 .. PAGE - 1, size : Nat \ {0}]

----------------------------------------------------------------------------
(* One TLB entry: process_tlb_entry(). *)

\* select_page_mask(): two pages of half the size if there are such pages.
IsDual(size)   == size \div 2 \in PageSizes
PageSize(size) == IF IsDual(size) THEN size \div 2 ELSE size

\* kseg0_addr_to_physical()
Phys(addr) == addr % PHYS

\* A mistake: the base is rounded down.
Aligned_MutantDown(page, base) == (base \div page) * page

\* calculate_mem_base()
Aligned(page, base) ==
  IF base % page = 0 THEN base ELSE ((base + page) \div page) * page

\* A mistake: the second half starts a whole size further.
Entry_MutantSize(size, base, va) ==
  [page |-> PageSize(size),
   lo0  |-> Phys(base),
   lo1  |-> IF IsDual(size) THEN Phys(base + size) ELSE 0,
   hi   |-> Phys(va)]

Entry(size, base, va) ==
  [page |-> PageSize(size),
   lo0  |-> Phys(base),
   lo1  |-> IF IsDual(size) THEN Phys(base + size \div 2) ELSE 0,
   hi   |-> Phys(va)]

\* A memory map is aligned up, its virtual address is taken as it stands.
MapEntry(m) == Entry(m.size, Aligned(PageSize(m.size), m.base), m.base)

----------------------------------------------------------------------------
VARIABLES
  port,             \* the port that is built
  phase,            \* "generating", "failed", "booting" or "running"
  confs,            \* VMCONF of config.h, with the row of vms.info
  vm_data_inter_addr,
  vm_code_inter_addr,
  total_tlb_entries,
  created,          \* machines create_vm() has been called for
  tlbindex,         \* static variable of create_vm()
  tlb,              \* the TLB of the processor
  mapped            \* the buffer the last hypercall mapped

generator == <<vm_data_inter_addr, vm_code_inter_addr, total_tlb_entries>>
vars == <<port, phase, confs, generator, created, tlbindex, tlb, mapped>>

Unused  == [guest |-> 0, page |-> 1, lo0 |-> 0, lo1 |-> 0, hi |-> 0]
Nothing == [vm |-> 0]

Init ==
  /\ port \in PORTS
  /\ phase = "generating"
  /\ confs = <<>>
  /\ vm_data_inter_addr = RAM_BASE[port]
  /\ vm_code_inter_addr = CODE_BASE[port]
  /\ total_tlb_entries = 0
  /\ created = 0
  /\ tlbindex = 0
  /\ tlb = [i \in 0 .. TOTAL_TLB_ENTRIES[port] |-> Unused]
  /\ mapped = Nothing

----------------------------------------------------------------------------
(* genconf *)

NumEntries(a) == Len(a.maps) + (IF port = "pic32mz" THEN 2 ELSE 1)

\* A mistake: the entries are not added up over the machines.
Accepted_MutantOneMachine(a) ==
  /\ NumEntries(a) <= TOTAL_TLB_ENTRIES[port]
  /\ a.ram # MISSING
  /\ a.flash = MISSING => port = "baikal_t1"

Accepted(a) ==
  /\ total_tlb_entries + NumEntries(a) <= TOTAL_TLB_ENTRIES[port]
  /\ a.ram # MISSING
  /\ a.flash = MISSING => port = "baikal_t1"

RamBase(a)   == Aligned(PageSize(a.ram), vm_data_inter_addr)
CodeStart(a) == IF a.flash = MISSING THEN vm_code_inter_addr
                ELSE Aligned(PageSize(a.flash), vm_code_inter_addr)

Conf(a) ==
  [asked           |-> a,
   num_tlb_entries |-> NumEntries(a),
   tlb             |-> <<Entry(a.ram, RamBase(a), RAM_VA)>>
                       \o (IF a.flash = MISSING THEN <<>>
                           ELSE <<Entry(a.flash, CodeStart(a), CODE_VA[port])>>)
                       \o [k \in DOMAIN a.maps |-> MapEntry(a.maps[k])],
   ram_base        |-> RamBase(a),
   address_start   |-> CodeStart(a)]

\* One turn of the loop of gen_conf_vms().
GenConfVM(a) ==
  /\ phase = "generating" /\ Len(confs) < MAX_VMS
  /\ Accepted(a)
  /\ confs' = Append(confs, Conf(a))
  /\ vm_data_inter_addr' = RamBase(a) + a.ram
  /\ vm_code_inter_addr' =
       CodeStart(a) + (IF port = "pic32mz" THEN a.flash ELSE a.ram)
  /\ total_tlb_entries' = total_tlb_entries + NumEntries(a)
  /\ UNCHANGED <<port, phase, created, tlbindex, tlb, mapped>>

\* An early return of gen_conf_vms(): the build stops.
RejectVM(a) ==
  /\ phase = "generating" /\ Len(confs) < MAX_VMS
  /\ ~Accepted(a)
  /\ phase' = "failed"
  /\ UNCHANGED <<port, confs, generator, created, tlbindex, tlb, mapped>>

\* The end of gen_conf_vms(): the hypervisor is built and started.
EndOfGeneration ==
  /\ phase = "generating" /\ confs # <<>>
  /\ phase' = "booting"
  /\ UNCHANGED <<port, confs, generator, created, tlbindex, tlb, mapped>>

----------------------------------------------------------------------------
(* create_vm() *)

\* tlbEntryWrite() for guest g: ENTRYHI_MASK drops the last bit of the page.
Written(g, e) == [guest |-> g, page |-> e.page, lo0 |-> e.lo0, lo1 |-> e.lo1,
                  hi |-> e.hi - (e.hi % 2)]

\* The machine gets the next guest id and the next num_tlb_entries entries.
CreateVM ==
  LET id == created + 1
      n  == confs[id].num_tlb_entries
  IN  /\ phase = "booting" /\ created < Len(confs)
      /\ tlb' = [i \in DOMAIN tlb |->
                   IF i \in tlbindex .. tlbindex + n - 1
                     THEN Written(id, confs[id].tlb[i - tlbindex + 1])
                     ELSE tlb[i]]
      /\ tlbindex' = tlbindex + n
      /\ created' = id
      /\ phase' = IF id = Len(confs) THEN "running" ELSE phase
      /\ UNCHANGED <<port, confs, generator, mapped>>

----------------------------------------------------------------------------
(* Hypercalls *)

\* A mistake: the second page is mapped for buffers of a page or more only.
BufferEntry_MutantOffset(id, b, kseg) ==
  LET base == confs[id].ram_base - KSEG0
      last == b.page + b.size \div PAGE
  IN  [page |-> 1,
       lo0  |-> base + b.page,
       lo1  |-> IF b.page < last THEN base + last ELSE 0,
       hi   |-> (confs[id].ram_base - kseg) % 1048576]

\* tlbCreateEntry(): the page of the buffer b in the RAM of machine id and,
\* if the end of b lies in another page, that page.
BufferEntry(id, b, kseg) ==
  LET base == confs[id].ram_base - KSEG0
      last == b.page + (b.offset + b.size) \div PAGE
  IN  [page |-> 1,
       lo0  |-> base + b.page,
       lo1  |-> IF b.page < last THEN base + last ELSE 0,
       hi   |-> (confs[id].ram_base - kseg) % 1048576]

MapBuffer(id, b, kseg) ==
  /\ phase = "running"
  /\ id \in 1 .. created
  /\ tlb' = [tlb EXCEPT ![HYPERCALL_INDEX] =
                           Written(0, BufferEntry(id, b, kseg))]
  /\ mapped' = [vm |-> id, buffer |-> b, at |-> BufferEntry(id, b, kseg).hi]
  /\ UNCHANGED <<port, phase, confs, generator, created, tlbindex>>

Next ==
  \/ \E a \in Asks[port] : GenConfVM(a) \/ RejectVM(a)
  \/ EndOfGeneration
  \/ CreateVM
  \/ \E id \in 1 .. MAX_VMS, b \in Buffers, kseg \in {KSEG0, KSEG1} :
       MapBuffer(id, b, kseg)

Spec == Init /\ [][Next]_vars

----------------------------------------------------------------------------
(* The translation done by the processor: an entry holds the two halves of *)
(* an aligned pair of its pages; a half whose entrylo is 0 is not valid.   *)

Half(e, v)   == (v \div e.page) % 2
Lo(e, v)     == IF Half(e, v) = 0 THEN e.lo0 ELSE e.lo1
Matches(e, v) == v \div (2 * e.page) = e.hi \div (2 * e.page)
Frame(e, v)  == (Lo(e, v) - (Lo(e, v) % e.page)) + (v % e.page)

\* The frames that page v of guest g (0: the hypervisor) is translated to.
Reached(g, v) ==
  {Frame(tlb[i], v) :
     i \in {j \in DOMAIN tlb : /\ tlb[j].guest = g
                               /\ Matches(tlb[j], v)
                               /\ Lo(tlb[j], v) # 0}}

\* All frames a guest can reach through an entry.
HalfFrames(lo, page) ==
  IF lo = 0 THEN {} ELSE (lo - (lo % page)) .. ((lo - (lo % page)) + (page - 1))
Frames(e) == HalfFrames(e.lo0, e.page) \cup HalfFrames(e.lo1, e.page)

----------------------------------------------------------------------------
(* Properties *)

TLBEntry == [page : PageSizes, lo0 : Nat, lo1 : Nat, hi : Nat]

TypeOK ==
  /\ port \in PORTS
  /\ phase \in {"generating", "failed", "booting", "running"}
  /\ confs \in Seq([asked : Ask, num_tlb_entries : Nat, tlb : Seq(TLBEntry),
                    ram_base : Nat, address_start : Nat])
  /\ vm_data_inter_addr \in Nat /\ vm_code_inter_addr \in Nat
  /\ total_tlb_entries \in 0 .. TOTAL_TLB_ENTRIES[port]
  /\ created \in 0 .. Len(confs)
  /\ tlbindex \in 0 .. total_tlb_entries
  /\ tlb \in [0 .. TOTAL_TLB_ENTRIES[port] ->
              [guest : Nat, page : PageSizes, lo0 : Nat, lo1 : Nat, hi : Nat]]

\* The board has the memory the file asks for.  Nothing in genconf looks.
BoardHolds ==
  /\ vm_data_inter_addr <= RAM_END[port]
  /\ port = "pic32mz" => vm_code_inter_addr <= CODE_END[port]

\* The entries of machine n for its RAM and its flash, as create_vm() has them.
Own(n) == {confs[n].tlb[k] : k \in 1 .. IF confs[n].asked.flash = MISSING
                                          THEN 1 ELSE 2}

\* The memory given to the machines, above what the hypervisor itself uses.
GuestMemory ==
  (RAM_BASE[port] - KSEG0 .. RAM_END[port] - KSEG0 - 1)
  \cup (IF port = "pic32mz"
         THEN CODE_BASE[port] - KSEG0 .. CODE_END[port] - KSEG0 - 1 ELSE {})

(* No machine reaches, through the entries of its RAM and its flash, a     *)
(* frame of another machine's RAM or flash or of the hypervisor's memory   *)
(* below the first machine: gen_conf_vms() carries the two addresses from  *)
(* machine to machine and process_tlb_entry() aligns them.                 *)
MemoriesAreSeparate ==
  BoardHolds =>
    \A m, n \in DOMAIN confs : \A d \in Own(m), e \in Own(n) :
      /\ Frames(d) \subseteq GuestMemory
      /\ m # n => Frames(d) \cap Frames(e) = {}

(* In a machine that create_vm() made, the RAM the guest is linked for     *)
(* (page 0 on) is the RAM the hypervisor knows as ram_base, and its flash  *)
(* is where scripts/genhex.sh puts the image, address_start of vms.info;   *)
(* each page is reached in one way.                                        *)
ImagesAndRAMAreMapped ==
  BoardHolds /\ total_tlb_entries <= HYPERCALL_INDEX =>
    \A n \in 1 .. created : LET c == confs[n] IN
      /\ \A k \in 0 .. c.asked.ram - 1 :
           Reached(n, k) = {Phys(c.ram_base) + k}
      /\ port = "pic32mz" => \A k \in 0 .. c.asked.flash - 1 :
           Reached(n, Phys(CODE_VA[port]) + k) = {Phys(c.address_start) + k}

(* A memory map whose base is aligned to a pair of its pages reaches the   *)
(* device it names at the device's own address, in all its pages.          *)
AlignedMapsAreIdentity ==
  total_tlb_entries <= HYPERCALL_INDEX =>
    \A n \in 1 .. created : \A j \in DOMAIN confs[n].asked.maps :
      LET m == confs[n].asked.maps[j] IN
        m.base % (2 * PageSize(m.size)) = 0 =>
          \A k \in 0 .. m.size - 1 :
            Reached(n, Phys(m.base) + k) = {Phys(m.base) + k}

(* A machine that was made finds everything its file names where it names  *)
(* it: RAM, image and memory maps, with entries within the limits of the   *)
(* TLB.                                                                    *)
MachinesAreMapped == TypeOK /\ ImagesAndRAMAreMapped /\ AlignedMapsAreIdentity

(* The pointer tlbCreateEntry() returns to a driver leads to the pages of  *)
(* the guest's buffer, for every buffer of at most a page and wherever it  *)
(* lies, when no machine has a RAM of a single page.                       *)
HypercallsReachTheGuest ==
  /\ BoardHolds /\ mapped # Nothing
  /\ \A n \in DOMAIN confs : confs[n].asked.ram # 1
  /\ mapped.buffer.size <= PAGE
  => \A k \in 0 .. (mapped.buffer.offset + mapped.buffer.size - 1) \div PAGE :
       Reached(0, mapped.at + k) =
         {Phys(confs[mapped.vm].ram_base) + mapped.buffer.page + k}

============================================================================
