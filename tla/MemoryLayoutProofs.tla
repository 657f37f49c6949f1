------------------------- MODULE MemoryLayoutProofs -------------------------
(***************************************************************************)
(* The guests' memories never meet and a driver's pointer leads to the     *)
(* guest's buffer, for every board, every configuration file and every     *)
(* number of machines.                                                     *)
(*                                                                         *)
(* The argument: the machines' regions are laid out one after the other    *)
(* (Regions, the inductive invariant), a TLB entry whose base is aligned   *)
(* to its page covers exactly its region (EntryCoversRegion), and Phys     *)
(* does not fold the memory of the board onto itself.                      *)
(*                                                                         *)
(* The entry of the last hypercall is the only valid entry of the          *)
(* hypervisor, and without a machine of one page every RAM starts at a     *)
(* pair of pages, so that the entry translates the buffer's first page and *)
(* the one after it to the guest's (HypercallInv).                         *)
(*                                                                         *)
(* Machines are loaded one after the other from entry 0 on, so that each   *)
(* entry of a machine but the one a hypercall may write is where an offset *)
(* says (Loaded); an entry whose area is aligned to a pair of its pages    *)
(* translates the area page by page (EntryTranslates) and, in a file that  *)
(* fits (FilesFit), no other entry of the machine matches them.            *)
(***************************************************************************)
EXTENDS MemoryLayout, TLAPS

ConfRecord == [asked : Ask, num_tlb_entries : Nat, tlb : Seq(TLBEntry),
               ram_base : Nat, address_start : Nat]

\* What one machine got: aligned regions, and the entries that map them.
Placed(p, c) ==
  /\ c.asked.ram \in MemSizes
  /\ c.ram_base >= RAM_BASE[p]
  /\ c.ram_base % PageSize(c.asked.ram) = 0
  /\ c.tlb[1] = Entry(c.asked.ram, c.ram_base, RAM_VA)
  /\ p = "baikal_t1" => c.asked.flash = MISSING
  /\ c.asked.flash # MISSING =>
       /\ c.address_start >= CODE_BASE[p]
       /\ c.address_start % PageSize(c.asked.flash) = 0
       /\ c.tlb[2] = Entry(c.asked.flash, c.address_start, CODE_VA[p])

\* Machine c lies below the addresses data and code.
Below(p, c, data, code) ==
  /\ c.ram_base + c.asked.ram <= data
  /\ p = "pic32mz" => c.address_start + c.asked.flash <= code

Regions ==
  /\ port \in PORTS
  /\ confs \in Seq(ConfRecord)
  /\ vm_data_inter_addr \in Nat /\ vm_data_inter_addr >= RAM_BASE[port]
  /\ vm_code_inter_addr \in Nat /\ vm_code_inter_addr >= CODE_BASE[port]
  /\ \A n \in 1 .. Len(confs) :
       /\ Placed(port, confs[n])
       /\ Below(port, confs[n], vm_data_inter_addr, vm_code_inter_addr)
  /\ \A m, n \in 1 .. Len(confs) : m < n =>
       Below(port, confs[m], confs[n].ram_base, confs[n].address_start)

----------------------------------------------------------------------------
(* Pages *)

(* select_page_mask() takes one page of the size or two of half of it.     *)
LEMMA PageOfSize ==
  ASSUME NEW size \in MemSizes
  PROVE  /\ PageSize(size) \in PageSizes
         /\ \/ IsDual(size) /\ size = 2 * PageSize(size)
               /\ size \div 2 = PageSize(size)
            \/ ~IsDual(size) /\ size = PageSize(size)
  BY DEF MemSizes, PageSize, IsDual, PageSizes

(* calculate_mem_base() rounds up to a page.                               *)
LEMMA AlignedUp ==
  ASSUME NEW page \in PageSizes, NEW base \in Nat
  PROVE  /\ Aligned(page, base) \in Nat
         /\ Aligned(page, base) >= base
         /\ Aligned(page, base) % page = 0
  BY DEF PageSizes, Aligned

(* Physical addresses in the kernel's window keep their alignment.         *)
LEMMA PhysAligned ==
  ASSUME NEW page \in PageSizes, NEW a \in Nat,
         KSEG0 <= a, a < KSEG0 + PHYS, a % page = 0
  PROVE  Phys(a) = a - KSEG0 /\ Phys(a) % page = 0
  BY DEF PageSizes, Phys, PHYS, KSEG0

(* A whole entry of an aligned region covers the region and nothing else.  *)
LEMMA EntryCoversRegion ==
  ASSUME NEW size \in MemSizes, NEW base \in Nat, NEW va,
         KSEG0 < base, base + size <= KSEG0 + PHYS,
         base % PageSize(size) = 0
  PROVE  Frames(Entry(size, base, va)) = base - KSEG0 .. base - KSEG0 + size - 1
<1> DEFINE page == PageSize(size)
           e    == Entry(size, base, va)
<1>1. page \in PageSizes /\ page \in Nat \ {0} /\ size \in Nat \ {0}
  BY PageOfSize DEF PageSizes, MemSizes
<1>2. KSEG0 \in Nat /\ PHYS \in Nat
  BY DEF KSEG0, PHYS
<1>3. e.page = page /\ e.lo0 = Phys(base)
  BY DEF Entry
<1>4. Phys(base) = base - KSEG0 /\ Phys(base) % page = 0 /\ Phys(base) # 0
  BY <1>1, <1>2, PhysAligned
<1>5. HalfFrames(e.lo0, e.page) = base - KSEG0 .. base - KSEG0 + page - 1
  BY <1>1, <1>2, <1>3, <1>4 DEF HalfFrames
<1>6. CASE ~IsDual(size)
  <2>1. size = page /\ e.lo1 = 0
    BY <1>6, PageOfSize DEF Entry
  <2>2. HalfFrames(e.lo1, e.page) = {}
    BY <2>1 DEF HalfFrames
  <2> QED BY <1>5, <2>1, <2>2 DEF Frames
<1>7. CASE IsDual(size)
  <2>1. size = 2 * page /\ e.lo1 = Phys(base + page)
    BY <1>7, PageOfSize DEF Entry
  <2>2. (base + page) % page = 0
    BY <1>1 DEF PageSizes
  <2>3. /\ Phys(base + page) = base + page - KSEG0
        /\ Phys(base + page) % page = 0 /\ Phys(base + page) # 0
    BY <1>1, <1>2, <2>1, <2>2, PhysAligned
  <2>4. HalfFrames(e.lo1, e.page)
          = base + page - KSEG0 .. base + page - KSEG0 + page - 1
    BY <1>1, <1>2, <1>3, <2>1, <2>3 DEF HalfFrames
  <2> HIDE DEF page, e
  <2>5. (base - KSEG0 .. base - KSEG0 + page - 1)
          \cup (base + page - KSEG0 .. base + page - KSEG0 + page - 1)
        = base - KSEG0 .. base - KSEG0 + size - 1
    BY <1>1, <1>2, <2>1
  <2> QED BY <1>5, <2>4, <2>5 DEF Frames, e
<1> QED BY <1>6, <1>7

----------------------------------------------------------------------------
(* Regions imply separation *)

RAMFrames(c) == c.ram_base - KSEG0 .. c.ram_base - KSEG0 + c.asked.ram - 1
CodeFrames(c) ==
  c.address_start - KSEG0 .. c.address_start - KSEG0 + c.asked.flash - 1

(* The numbers of a machine of the file.                                   *)
LEMMA ConfTypes ==
  ASSUME Regions, NEW n \in 1 .. Len(confs)
  PROVE  /\ confs[n].ram_base \in Nat /\ confs[n].address_start \in Nat
         /\ confs[n].asked.ram \in Nat /\ confs[n].asked.flash \in Nat
         /\ confs[n].asked.flash \in MemSizes \cup {MISSING}
<1>1. confs[n] \in ConfRecord
  BY DEF Regions
<1>2. confs[n].asked \in Ask
  BY <1>1 DEF ConfRecord
<1>3. MemSizes \cup {MISSING} \subseteq Nat
  BY DEF MemSizes, MISSING
<1> QED BY <1>1, <1>2, <1>3 DEF ConfRecord, Ask

(* The entries of one machine cover its regions, inside the board's memory *)
LEMMA OwnFrames ==
  ASSUME Regions, BoardHolds, NEW n \in 1 .. Len(confs)
  PROVE  LET c == confs[n] IN
         /\ Frames(c.tlb[1]) = RAMFrames(c)
         /\ c.ram_base >= RAM_BASE[port]
         /\ c.ram_base + c.asked.ram <= RAM_END[port]
         /\ c.asked.flash # MISSING =>
              /\ port = "pic32mz"
              /\ Frames(c.tlb[2]) = CodeFrames(c)
              /\ c.address_start >= CODE_BASE[port]
              /\ c.address_start + c.asked.flash <= CODE_END[port]
<1> DEFINE c == confs[n]
<1>1. /\ c.ram_base \in Nat /\ c.address_start \in Nat
      /\ c.asked.ram \in Nat /\ c.asked.flash \in Nat
      /\ c.asked.flash \in MemSizes \cup {MISSING}
  BY ConfTypes
<1>2. /\ Placed(port, c)
      /\ Below(port, c, vm_data_inter_addr, vm_code_inter_addr)
      /\ vm_data_inter_addr \in Nat /\ vm_code_inter_addr \in Nat
      /\ port \in PORTS
  BY DEF Regions
<1>3. port \in {"pic32mz", "baikal_t1"}
  BY <1>2, LayoutAssumption
<1>4. /\ RAM_END[port] \in Nat /\ CODE_END[port] \in Nat
      /\ RAM_END[port] <= KSEG0 + PHYS
      /\ port = "pic32mz" => CODE_END[port] <= KSEG0 + PHYS
  BY <1>2, <1>3, LayoutAssumption DEF CODE_BASE, KSEG0, PHYS
<1>5. /\ RAM_BASE[port] \in Nat /\ CODE_BASE[port] \in Nat
      /\ KSEG0 < RAM_BASE[port] /\ KSEG0 < CODE_BASE[port] /\ KSEG0 \in Nat
      /\ PHYS \in Nat
  BY <1>3 DEF RAM_BASE, CODE_BASE, KSEG0, PHYS
<1> HIDE DEF c
<1>6. /\ c.ram_base >= RAM_BASE[port]
      /\ c.ram_base + c.asked.ram <= RAM_END[port]
  BY <1>1, <1>2, <1>4 DEF Placed, Below, BoardHolds
<1>7. Frames(c.tlb[1]) = RAMFrames(c)
  <2>1. /\ c.asked.ram \in MemSizes /\ KSEG0 < c.ram_base
        /\ c.ram_base + c.asked.ram <= KSEG0 + PHYS
        /\ c.ram_base % PageSize(c.asked.ram) = 0
        /\ c.tlb[1] = Entry(c.asked.ram, c.ram_base, RAM_VA)
    BY <1>1, <1>2, <1>4, <1>5, <1>6 DEF Placed
  <2> QED BY <1>1, <2>1, EntryCoversRegion DEF RAMFrames
<1>8. ASSUME c.asked.flash # MISSING
      PROVE  /\ port = "pic32mz"
             /\ Frames(c.tlb[2]) = CodeFrames(c)
             /\ c.address_start >= CODE_BASE[port]
             /\ c.address_start + c.asked.flash <= CODE_END[port]
  <2>1. port = "pic32mz"
    BY <1>2, <1>3, <1>8 DEF Placed
  <2>2. /\ c.address_start >= CODE_BASE[port]
        /\ c.address_start + c.asked.flash <= CODE_END[port]
    BY <1>1, <1>2, <1>4, <1>8, <2>1 DEF Placed, Below, BoardHolds
  <2>3. /\ c.asked.flash \in MemSizes /\ KSEG0 < c.address_start
        /\ c.address_start + c.asked.flash <= KSEG0 + PHYS
        /\ c.address_start % PageSize(c.asked.flash) = 0
        /\ c.tlb[2] = Entry(c.asked.flash, c.address_start, CODE_VA[port])
    BY <1>1, <1>2, <1>4, <1>5, <1>8, <2>1, <2>2 DEF Placed
  <2> QED BY <1>1, <2>1, <2>2, <2>3, EntryCoversRegion DEF CodeFrames
<1> QED BY <1>6, <1>7, <1>8 DEF c

(* Two entries of two machines cover frames that do not meet.              *)
LEMMA RegionsSeparate ==
  ASSUME Regions PROVE MemoriesAreSeparate
<1> SUFFICES ASSUME BoardHolds,
                    NEW m \in DOMAIN confs, NEW n \in DOMAIN confs,
                    NEW d \in Own(m), NEW e \in Own(n)
             PROVE  /\ Frames(d) \subseteq GuestMemory
                    /\ m # n => Frames(d) \cap Frames(e) = {}
  BY DEF MemoriesAreSeparate
<1> DEFINE a == confs[m]
           b == confs[n]
           InRAM(f, c) == /\ RAM_BASE[port] <= f + KSEG0
                          /\ f + KSEG0 < RAM_END[port]
                          /\ c.ram_base <= f + KSEG0
                          /\ f + KSEG0 < c.ram_base + c.asked.ram
           InCode(f, c) == /\ CODE_BASE[port] <= f + KSEG0
                           /\ f + KSEG0 < CODE_END[port]
                           /\ c.address_start <= f + KSEG0
                           /\ f + KSEG0 < c.address_start + c.asked.flash
<1>1. m \in 1 .. Len(confs) /\ n \in 1 .. Len(confs) /\ Len(confs) \in Nat
  BY DEF Regions
<1>2. /\ port \in {"pic32mz", "baikal_t1"}
      /\ RAM_END[port] \in Nat /\ CODE_END[port] \in Nat
      /\ port = "pic32mz" => RAM_END[port] <= CODE_BASE[port]
  BY LayoutAssumption DEF Regions
<1>3. RAM_BASE[port] \in Nat /\ CODE_BASE[port] \in Nat /\ KSEG0 \in Nat
  BY <1>2 DEF RAM_BASE, CODE_BASE, KSEG0
<1>4. /\ a.ram_base \in Nat /\ a.address_start \in Nat
      /\ a.asked.ram \in Nat /\ a.asked.flash \in Nat
      /\ b.ram_base \in Nat /\ b.address_start \in Nat
      /\ b.asked.ram \in Nat /\ b.asked.flash \in Nat
  BY <1>1, ConfTypes
<1>5. /\ a.ram_base >= RAM_BASE[port]
      /\ a.ram_base + a.asked.ram <= RAM_END[port]
      /\ b.ram_base >= RAM_BASE[port]
      /\ b.ram_base + b.asked.ram <= RAM_END[port]
  BY <1>1, OwnFrames
<1>6. \/ Frames(d) = RAMFrames(a)
      \/ /\ port = "pic32mz" /\ Frames(d) = CodeFrames(a)
         /\ a.address_start >= CODE_BASE[port]
         /\ a.address_start + a.asked.flash <= CODE_END[port]
  BY <1>1, OwnFrames DEF Own
<1>7. \/ Frames(e) = RAMFrames(b)
      \/ /\ port = "pic32mz" /\ Frames(e) = CodeFrames(b)
         /\ b.address_start >= CODE_BASE[port]
         /\ b.address_start + b.asked.flash <= CODE_END[port]
  BY <1>1, OwnFrames DEF Own
<1>8. m # n =>
        \/ Below(port, a, b.ram_base, b.address_start)
        \/ Below(port, b, a.ram_base, a.address_start)
  <2>1. m < n \/ n < m \/ m = n
    BY <1>1
  <2> QED BY <1>1, <2>1 DEF Regions
<1> HIDE DEF a, b
<1>9. ASSUME NEW f \in Frames(d)
      PROVE  /\ f \in Int
             /\ \/ InRAM(f, a)
                \/ port = "pic32mz" /\ InCode(f, a)
  <2>1. CASE f \in RAMFrames(a)
    BY <1>2, <1>3, <1>4, <1>5, <2>1 DEF RAMFrames, InRAM
  <2>2. CASE /\ port = "pic32mz" /\ f \in CodeFrames(a)
             /\ a.address_start >= CODE_BASE[port]
             /\ a.address_start + a.asked.flash <= CODE_END[port]
    BY <1>2, <1>3, <1>4, <2>2 DEF CodeFrames, InCode
  <2> QED BY <1>6, <1>9, <2>1, <2>2
<1>10. ASSUME NEW f \in Frames(e)
       PROVE  \/ InRAM(f, b)
              \/ port = "pic32mz" /\ InCode(f, b)
  <2>1. CASE f \in RAMFrames(b)
    BY <1>2, <1>3, <1>4, <1>5, <2>1 DEF RAMFrames, InRAM
  <2>2. CASE /\ port = "pic32mz" /\ f \in CodeFrames(b)
             /\ b.address_start >= CODE_BASE[port]
             /\ b.address_start + b.asked.flash <= CODE_END[port]
    BY <1>2, <1>3, <1>4, <2>2 DEF CodeFrames, InCode
  <2> QED BY <1>7, <1>10, <2>1, <2>2
<1>11. ASSUME NEW f \in Frames(d) PROVE f \in GuestMemory
  BY <1>2, <1>3, <1>4, <1>9 DEF GuestMemory, InRAM, InCode
<1>12. ASSUME m # n, NEW f \in Frames(d), f \in Frames(e) PROVE FALSE
  <2>1. f \in Int /\ (InRAM(f, a) \/ (port = "pic32mz" /\ InCode(f, a)))
    BY <1>12, <1>9
  <2>2. InRAM(f, b) \/ (port = "pic32mz" /\ InCode(f, b))
    BY <1>12, <1>10
  <2>3. CASE Below(port, a, b.ram_base, b.address_start)
    BY <1>2, <1>3, <1>4, <2>1, <2>2, <2>3 DEF InRAM, InCode, Below
  <2>4. CASE Below(port, b, a.ram_base, a.address_start)
    BY <1>2, <1>3, <1>4, <2>1, <2>2, <2>4 DEF InRAM, InCode, Below
  <2> QED BY <1>8, <1>12, <2>3, <2>4
<1> QED BY <1>11, <1>12

----------------------------------------------------------------------------
(* The regions of one more machine *)

LEMMA EntryType ==
  ASSUME NEW size \in MemSizes, NEW base \in Nat, NEW va \in Nat
  PROVE  Entry(size, base, va) \in TLBEntry
<1>1. /\ PageSize(size) \in PageSizes /\ size \div 2 \in Nat
      /\ PageSizes \subseteq Nat
  BY PageOfSize DEF MemSizes, PageSizes
<1>2. \A x \in Nat : Phys(x) \in Nat
  BY DEF Phys, PHYS
<1> QED BY <1>1, <1>2 DEF Entry, TLBEntry

LEMMA MapEntryType ==
  ASSUME NEW m \in MemoryMap PROVE MapEntry(m) \in TLBEntry
<1>1. m.size \in MemSizes /\ m.base \in Nat
  BY DEF MemoryMap
<1>2. Aligned(PageSize(m.size), m.base) \in Nat
  BY <1>1, PageOfSize, AlignedUp
<1> QED BY <1>1, <1>2, EntryType DEF MapEntry

(* The first entries of the list that process_tlb_entry() writes.          *)
LEMMA FirstEntries ==
  ASSUME NEW d \in TLBEntry, NEW s \in Seq(TLBEntry), NEW r \in Seq(TLBEntry)
  PROVE  /\ <<d>> \o s \o r \in Seq(TLBEntry)
         /\ (<<d>> \o s \o r)[1] = d
         /\ \A e \in TLBEntry : s = <<e>> => (<<d>> \o s \o r)[2] = e
<1> DEFINE w == <<d>> \o s
           z == w \o r
<1>1. /\ w \in Seq(TLBEntry) /\ Len(w) = 1 + Len(s)
      /\ w[1] = d /\ Len(s) \in Nat
  OBVIOUS
<1>2. ASSUME NEW e \in TLBEntry, s = <<e>> PROVE w[2] = e /\ Len(s) = 1
  BY <1>2
<1> HIDE DEF w
<1>3. z \in Seq(TLBEntry) /\ \A i \in 1 .. Len(w) : z[i] = w[i]
  BY <1>1
<1> HIDE DEF z
<1>4. z[1] = d
  BY <1>1, <1>3
<1>5. ASSUME NEW e \in TLBEntry, s = <<e>> PROVE z[2] = e
  BY <1>1, <1>2, <1>3, <1>5
<1> QED BY <1>3, <1>4, <1>5 DEF w, z

(* What one turn of the loop writes for the machine a.                     *)
LEMMA ConfPlaced ==
  ASSUME Regions, NEW a \in Asks[port], Accepted(a)
  PROVE  /\ Conf(a) \in ConfRecord
         /\ Placed(port, Conf(a))
         /\ Conf(a).asked = a
         /\ Conf(a).ram_base = RamBase(a)
         /\ Conf(a).address_start = CodeStart(a)
         /\ a.ram \in Nat /\ a.flash \in Nat
         /\ RamBase(a) \in Nat /\ RamBase(a) >= vm_data_inter_addr
         /\ CodeStart(a) \in Nat /\ CodeStart(a) >= vm_code_inter_addr
<1>1. /\ port \in {"pic32mz", "baikal_t1"} /\ a \in Ask
      /\ port = "baikal_t1" => a.flash = MISSING
  BY LayoutAssumption DEF Regions
<1>2. /\ a.ram \in MemSizes /\ a.ram \in Nat /\ a.flash \in Nat
      /\ a.flash # MISSING => a.flash \in MemSizes
      /\ a.maps \in Seq(MemoryMap)
  BY <1>1 DEF Ask, Accepted, MemSizes, MISSING
<1>3. vm_data_inter_addr \in Nat /\ vm_code_inter_addr \in Nat
  BY DEF Regions
<1>4. /\ RamBase(a) \in Nat /\ RamBase(a) >= vm_data_inter_addr
      /\ RamBase(a) % PageSize(a.ram) = 0
  BY <1>2, <1>3, PageOfSize, AlignedUp DEF RamBase
<1>5. /\ CodeStart(a) \in Nat /\ CodeStart(a) >= vm_code_inter_addr
      /\ a.flash # MISSING => CodeStart(a) % PageSize(a.flash) = 0
  <2>1. CASE a.flash = MISSING
    BY <1>3, <2>1 DEF CodeStart
  <2>2. CASE a.flash # MISSING
    BY <1>2, <1>3, <2>2, PageOfSize, AlignedUp DEF CodeStart
  <2> QED BY <2>1, <2>2
<1>6. NumEntries(a) \in Nat
  <2>1. Len(a.maps) \in Nat
    BY <1>2
  <2> DEFINE l == Len(a.maps)
  <2> HIDE DEF l
  <2>2. NumEntries(a) = l + (IF port = "pic32mz" THEN 2 ELSE 1)
    BY DEF NumEntries, l
  <2>3. CASE port = "pic32mz"
    BY <2>1, <2>2, <2>3 DEF l
  <2>4. CASE port # "pic32mz"
    BY <2>1, <2>2, <2>4 DEF l
  <2> QED BY <2>3, <2>4
<1> DEFINE d == Entry(a.ram, RamBase(a), RAM_VA)
           f == Entry(a.flash, CodeStart(a), CODE_VA[port])
           s == IF a.flash = MISSING THEN <<>> ELSE <<f>>
           r == [k \in DOMAIN a.maps |-> MapEntry(a.maps[k])]
<1>7. RAM_VA \in Nat /\ CODE_VA[port] \in Nat
  BY <1>1 DEF RAM_VA, CODE_VA, KSEG0
<1>8. d \in TLBEntry /\ (a.flash # MISSING => f \in TLBEntry)
  BY <1>2, <1>4, <1>5, <1>7, EntryType
<1>9. r \in Seq(TLBEntry)
  BY <1>2, MapEntryType
<1>10. s \in Seq(TLBEntry)
  BY <1>8
<1>11. Conf(a) = [asked |-> a, num_tlb_entries |-> NumEntries(a),
                  tlb |-> <<d>> \o s \o r, ram_base |-> RamBase(a),
                  address_start |-> CodeStart(a)]
  BY DEF Conf
<1> HIDE DEF d, f, s, r
<1>12. /\ <<d>> \o s \o r \in Seq(TLBEntry)
       /\ (<<d>> \o s \o r)[1] = d
       /\ \A e \in TLBEntry : s = <<e>> => (<<d>> \o s \o r)[2] = e
  BY <1>8, <1>9, <1>10, FirstEntries
<1>13. a.flash # MISSING => (<<d>> \o s \o r)[2] = f
  BY <1>8, <1>12 DEF s
<1>14. Conf(a) \in ConfRecord
  BY <1>1, <1>4, <1>5, <1>6, <1>11, <1>12 DEF ConfRecord
<1>15. /\ RAM_BASE[port] \in Nat /\ CODE_BASE[port] \in Nat
       /\ vm_data_inter_addr >= RAM_BASE[port]
       /\ vm_code_inter_addr >= CODE_BASE[port]
  BY <1>1 DEF Regions, RAM_BASE, CODE_BASE, KSEG0
<1>16. RamBase(a) >= RAM_BASE[port] /\ CodeStart(a) >= CODE_BASE[port]
  BY <1>3, <1>4, <1>5, <1>15
<1>17. Placed(port, Conf(a))
  <2>1. /\ Conf(a).asked = a /\ Conf(a).ram_base = RamBase(a)
        /\ Conf(a).address_start = CodeStart(a)
        /\ Conf(a).tlb = <<d>> \o s \o r
    BY <1>11
  <2>2. Conf(a).tlb[1] = Entry(a.ram, RamBase(a), RAM_VA)
    BY <1>12, <2>1 DEF d
  <2>3. a.flash # MISSING =>
          Conf(a).tlb[2] = Entry(a.flash, CodeStart(a), CODE_VA[port])
    BY <1>13, <2>1 DEF f
  <2> QED BY <1>1, <1>2, <1>4, <1>5, <1>16, <2>1, <2>2, <2>3 DEF Placed
<1> QED BY <1>2, <1>4, <1>5, <1>11, <1>14, <1>17

----------------------------------------------------------------------------
(* The invariant *)

LEMMA InitRegions == Init => Regions
<1> SUFFICES ASSUME Init PROVE Regions
  OBVIOUS
<1>1. port \in PORTS /\ port \in {"pic32mz", "baikal_t1"}
  BY LayoutAssumption DEF Init
<1>2. RAM_BASE[port] \in Nat /\ CODE_BASE[port] \in Nat
  BY <1>1 DEF RAM_BASE, CODE_BASE, KSEG0
<1>3. confs = <<>> /\ Len(confs) = 0
  BY DEF Init
<1>4. /\ vm_data_inter_addr = RAM_BASE[port]
      /\ vm_code_inter_addr = CODE_BASE[port]
  BY DEF Init
<1> QED BY <1>1, <1>2, <1>3, <1>4 DEF Regions

(* A turn of the loop puts its machine after all the others.               *)
LEMMA GenConfVMKeepsRegions ==
  ASSUME Regions, NEW a \in Asks[port], GenConfVM(a)
  PROVE  Regions'
<1> DEFINE c == Conf(a)
           N == Len(confs)
<1>1. /\ Accepted(a) /\ port' = port
      /\ confs' = Append(confs, c)
      /\ vm_data_inter_addr' = RamBase(a) + a.ram
      /\ vm_code_inter_addr' =
           CodeStart(a) + (IF port = "pic32mz" THEN a.flash ELSE a.ram)
  BY DEF GenConfVM
<1>2. /\ c \in ConfRecord /\ Placed(port, c) /\ c.asked = a
      /\ c.ram_base = RamBase(a) /\ c.address_start = CodeStart(a)
      /\ a.ram \in Nat /\ a.flash \in Nat
      /\ RamBase(a) \in Nat /\ RamBase(a) >= vm_data_inter_addr
      /\ CodeStart(a) \in Nat /\ CodeStart(a) >= vm_code_inter_addr
  BY <1>1, ConfPlaced
<1>3. /\ port \in PORTS /\ confs \in Seq(ConfRecord)
      /\ vm_data_inter_addr \in Nat /\ vm_data_inter_addr >= RAM_BASE[port]
      /\ vm_code_inter_addr \in Nat /\ vm_code_inter_addr >= CODE_BASE[port]
      /\ \A n \in 1 .. N :
           /\ Placed(port, confs[n])
           /\ Below(port, confs[n], vm_data_inter_addr, vm_code_inter_addr)
      /\ \A m, n \in 1 .. N : m < n =>
           Below(port, confs[m], confs[n].ram_base, confs[n].address_start)
      /\ RAM_BASE[port] \in Nat /\ CODE_BASE[port] \in Nat
  BY LayoutAssumption DEF Regions, RAM_BASE, CODE_BASE, KSEG0
<1> HIDE DEF c
<1>4. /\ confs' \in Seq(ConfRecord) /\ Len(confs') = N + 1 /\ N \in Nat
      /\ \A n \in 1 .. N : confs'[n] = confs[n]
      /\ confs'[N + 1] = c
  BY <1>1, <1>2, <1>3
<1> HIDE DEF N
<1>5. /\ vm_data_inter_addr' \in Nat
      /\ vm_data_inter_addr' >= RamBase(a) + a.ram
      /\ vm_code_inter_addr' \in Nat
      /\ vm_code_inter_addr' >= CodeStart(a)
      /\ port = "pic32mz" => vm_code_inter_addr' = CodeStart(a) + a.flash
  BY <1>1, <1>2
<1>6. /\ vm_data_inter_addr' >= RAM_BASE[port]
      /\ vm_code_inter_addr' >= CODE_BASE[port]
  BY <1>2, <1>3, <1>5
<1>7. ASSUME NEW n \in 1 .. N
      PROVE  /\ Below(port, confs[n], c.ram_base, c.address_start)
             /\ Below(port, confs[n], vm_data_inter_addr', vm_code_inter_addr')
  <2>1. /\ confs[n].ram_base \in Nat /\ confs[n].address_start \in Nat
        /\ confs[n].asked.ram \in Nat /\ confs[n].asked.flash \in Nat
    BY ConfTypes DEF N
  <2>2. Below(port, confs[n], vm_data_inter_addr, vm_code_inter_addr)
    BY <1>3
  <2>3. /\ confs[n].ram_base + confs[n].asked.ram <= vm_data_inter_addr
        /\ port = "pic32mz" =>
             confs[n].address_start + confs[n].asked.flash <= vm_code_inter_addr
    BY <2>2 DEF Below
  <2>4. vm_data_inter_addr \in Nat /\ vm_code_inter_addr \in Nat
    BY <1>3
  <2> DEFINE k == confs[n]
  <2> HIDE DEF k
  <2>5. /\ k.ram_base + k.asked.ram <= RamBase(a)
        /\ port = "pic32mz" => k.address_start + k.asked.flash <= CodeStart(a)
    BY <1>2, <2>1, <2>3, <2>4 DEF k
  <2>6. Below(port, confs[n], c.ram_base, c.address_start)
    BY <1>2, <2>5 DEF Below, k
  <2>7. Below(port, confs[n], vm_data_inter_addr', vm_code_inter_addr')
    BY <1>2, <1>5, <2>1, <2>5 DEF Below, k
  <2> QED BY <2>6, <2>7
<1>8. Below(port, c, vm_data_inter_addr', vm_code_inter_addr')
  BY <1>2, <1>5 DEF Below
<1>9. ASSUME NEW n \in 1 .. N + 1
      PROVE  /\ Placed(port, confs'[n])
             /\ Below(port, confs'[n], vm_data_inter_addr', vm_code_inter_addr')
  <2>1. CASE n = N + 1
    BY <1>2, <1>4, <1>8, <2>1
  <2>2. CASE n \in 1 .. N
    BY <1>3, <1>4, <1>7, <2>2
  <2> QED BY <1>4, <2>1, <2>2
<1>10. ASSUME NEW m \in 1 .. N + 1, NEW n \in 1 .. N + 1, m < n
       PROVE  Below(port, confs'[m], confs'[n].ram_base, confs'[n].address_start)
  <2>1. m \in 1 .. N
    BY <1>4, <1>10
  <2>2. CASE n = N + 1
    BY <1>4, <1>7, <2>1, <2>2
  <2>3. CASE n \in 1 .. N
    BY <1>3, <1>4, <1>10, <2>1, <2>3
  <2> QED BY <1>4, <2>2, <2>3
<1> QED BY <1>1, <1>3, <1>4, <1>5, <1>6, <1>9, <1>10 DEF Regions

LEMMA StepKeepsRegions == Regions /\ [Next]_vars => Regions'
<1> SUFFICES ASSUME Regions, [Next]_vars PROVE Regions'
  OBVIOUS
<1>1. ASSUME NEW a \in Asks[port], GenConfVM(a) PROVE Regions'
  BY <1>1, GenConfVMKeepsRegions
<1>2. ASSUME UNCHANGED <<port, confs, vm_data_inter_addr, vm_code_inter_addr>>
      PROVE  Regions'
  BY <1>2 DEF Regions
<1>3. ASSUME NEW a \in Asks[port], RejectVM(a) PROVE Regions'
  BY <1>2, <1>3 DEF RejectVM, generator
<1>4. CASE EndOfGeneration
  BY <1>2, <1>4 DEF EndOfGeneration, generator
<1>5. CASE CreateVM
  BY <1>2, <1>5 DEF CreateVM, generator
<1>6. ASSUME NEW id, NEW b, NEW kseg, MapBuffer(id, b, kseg) PROVE Regions'
  BY <1>2, <1>6 DEF MapBuffer, generator
<1>7. CASE UNCHANGED vars
  BY <1>2, <1>7 DEF vars, generator
<1> QED BY <1>1, <1>3, <1>4, <1>5, <1>6, <1>7 DEF Next

(* No machine reaches the memory of another one or of the hypervisor: what *)
(* gen_conf_vms() and process_tlb_entry() lay out, for every board, file   *)
(* and number of machines.                                                 *)
THEOREM SeparateMemories == Spec => []MemoriesAreSeparate
<1>1. Init => Regions
  BY InitRegions
<1>2. Regions /\ [Next]_vars => Regions'
  BY StepKeepsRegions
<1>3. Regions => MemoriesAreSeparate
  BY RegionsSeparate
<1> QED BY <1>1, <1>2, <1>3, PTL DEF Spec


----------------------------------------------------------------------------
(* Hypercalls                                                              *)

(* Without a machine of one page, every RAM starts at a pair of pages.     *)
PairsOfPages ==
  (\A n \in DOMAIN confs : confs[n].asked.ram # 1) =>
    /\ vm_data_inter_addr % 2 = 0
    /\ \A n \in 1 .. Len(confs) : confs[n].ram_base % 2 = 0

(* The hypervisor's own entries are not valid but the one of the last      *)
(* hypercall.                                                              *)
BufferIsMapped ==
  /\ DOMAIN tlb = 0 .. TOTAL_TLB_ENTRIES[port]
  /\ \A j \in DOMAIN tlb \ {HYPERCALL_INDEX} :
       tlb[j].guest = 0 => tlb[j].lo0 = 0 /\ tlb[j].lo1 = 0
  /\ created \in 0 .. Len(confs)
  /\ mapped = Nothing \/
       /\ phase = "running"
       /\ \E id \in 1 .. Len(confs), b \in Buffers, kseg \in {KSEG0, KSEG1} :
            /\ tlb[HYPERCALL_INDEX] = Written(0, BufferEntry(id, b, kseg))
            /\ mapped = [vm |-> id, buffer |-> b, at |-> BufferEntry(id, b, kseg).hi]

HypercallInv == Regions /\ PairsOfPages /\ BufferIsMapped

LEMMA EvenSum ==
  ASSUME NEW x \in Nat, NEW y \in Nat, x % 2 = 0, y % 2 = 0
  PROVE  (x + y) % 2 = 0
  OBVIOUS

LEMMA EndOfBuffer ==
  ASSUME NEW offset \in 0 .. PAGE - 1, NEW size \in 1 .. PAGE,
         NEW k \in 0 .. (offset + size - 1) \div PAGE
  PROVE  k \in {0, 1} /\ (k = 1 => (offset + size) \div PAGE = 1)
<1>1. (offset + size - 1) \div PAGE \in {0, 1}
  BY SMTT(20) DEF PAGE
<1>2. CASE k = 0
  BY <1>2
<1>3. CASE k = 1
  <2>1. (offset + size - 1) \div PAGE = 1
    BY <1>1, <1>3, SMTT(20)
  <2>2. offset + size - 1 >= PAGE /\ offset + size <= 2 * PAGE - 1
    BY <2>1, SMTT(20) DEF PAGE
  <2>3. (offset + size) \div PAGE = 1
    BY <2>2, SMTT(20) DEF PAGE
  <2>4. QED
    BY <1>3, <2>3
<1>4. QED
  BY <1>1, <1>2, <1>3

LEMMA RamInWindow ==
  ASSUME NEW ram \in Nat, NEW size \in MemSizes, NEW end \in Nat,
         ram + size <= end, end <= KSEG0 + PHYS, ram > KSEG0
  PROVE  KSEG0 < ram /\ ram < KSEG0 + PHYS
  BY SMTT(20) DEF KSEG0, PHYS, MemSizes

LEMMA AlignedEven ==
  ASSUME NEW size \in MemSizes, size # 1, NEW base \in Nat, base % 2 = 0
  PROVE  Aligned(PageSize(size), base) % 2 = 0 /\ size % 2 = 0
<1>1. size % 2 = 0
  BY DEF MemSizes
<1>2. \A page \in PageSizes : Aligned(page, base) % 2 = 0
  <2> TAKE page \in PageSizes
  <2>1. CASE page = 1
    BY <2>1 DEF Aligned
  <2>2. CASE page # 1
    <3>1. Aligned(page, base) \in Nat /\ Aligned(page, base) % page = 0
      BY AlignedUp
    <3> DEFINE a == Aligned(page, base)
    <3> HIDE DEF a
    <3>2. QED
      BY <2>2, <3>1 DEF PageSizes, a
  <2>3. QED
    BY <2>1, <2>2
<1>3. QED
  BY <1>1, <1>2, PageOfSize

(* The pages of a buffer are a pair or one half of it.                     *)
LEMMA BufferTranslated ==
  ASSUME NEW id, confs[id].ram_base \in Nat, confs[id].ram_base > KSEG0,
         confs[id].ram_base % 2 = 0,
         NEW b \in Buffers, b.size <= PAGE, NEW kseg \in {KSEG0, KSEG1},
         NEW k \in 0 .. (b.offset + b.size - 1) \div PAGE
  PROVE  LET e == Written(0, BufferEntry(id, b, kseg))
             v == BufferEntry(id, b, kseg).hi + k
             frame == (confs[id].ram_base - KSEG0) + b.page + k
         IN  Matches(e, v) /\ Lo(e, v) = frame /\ frame # 0 /\ Frame(e, v) = frame
<1> DEFINE ram == confs[id].ram_base
           base == ram - KSEG0
           at == (ram - kseg) % 1048576
           e == Written(0, BufferEntry(id, b, kseg))
           last == b.page + (b.offset + b.size) \div PAGE
<1>1. /\ b.page \in Nat /\ b.offset \in 0 .. PAGE - 1 /\ b.size \in 1 .. PAGE
      /\ ram \in Nat /\ ram > KSEG0 /\ ram % 2 = 0
  <2>1. b \in [page : Nat, offset : 0 .. PAGE - 1, size : Nat \ {0}]
    BY LayoutAssumption
  <2>2. PAGE \in Nat
    BY SMTT(20) DEF PAGE
  <2>3. QED
    BY <2>1, <2>2
<1> HIDE DEF ram
<1>2. base \in Nat /\ base > 0
  BY <1>1, SMTT(20) DEF KSEG0
<1>3. at \in Nat /\ at % 2 = 0
  BY <1>1, SMTT(20) DEF KSEG0, KSEG1
<1>4. k \in {0, 1} /\ (k = 1 => last = b.page + 1)
  BY <1>1, EndOfBuffer
<1>5. /\ e.page = 1 /\ e.lo0 = base + b.page /\ e.hi = at - (at % 2)
      /\ e.lo1 = IF b.page < last THEN base + last ELSE 0
      /\ BufferEntry(id, b, kseg).hi = at
  BY SMTT(20) DEF Written, BufferEntry, ram
<1> HIDE DEF at, base, last, e
<1>6. e.hi = at
  BY <1>3, <1>5
<1>7. Matches(e, at + k)
  BY <1>3, <1>4, <1>5, <1>6 DEF Matches
<1>8. Half(e, at + k) = k
  BY <1>3, <1>4, <1>5 DEF Half
<1>9. Lo(e, at + k) = base + b.page + k
  BY <1>1, <1>2, <1>4, <1>5, <1>8 DEF Lo
<1>10. Frame(e, at + k) = base + b.page + k
  <2>1. base + b.page + k \in Nat /\ at + k \in Nat
    BY <1>1, <1>2, <1>3, <1>4
  <2>2. QED
    BY <1>5, <1>9, <2>1 DEF Frame
<1>11. base + b.page + k # 0
  BY <1>1, <1>2, <1>4
<1>12. QED
  BY <1>5, <1>7, <1>9, <1>10, <1>11 DEF e, base, ram

LEMMA GuestReached ==
  ASSUME HypercallInv
  PROVE  HypercallsReachTheGuest
<1> SUFFICES ASSUME BoardHolds, mapped # Nothing,
                    \A n \in DOMAIN confs : confs[n].asked.ram # 1,
                    mapped.buffer.size <= PAGE,
                    NEW k \in 0 .. (mapped.buffer.offset + mapped.buffer.size - 1) \div PAGE
             PROVE  Reached(0, mapped.at + k) =
                      {Phys(confs[mapped.vm].ram_base) + mapped.buffer.page + k}
  BY DEF HypercallsReachTheGuest
<1>1. PICK id \in 1 .. Len(confs), b \in Buffers, kseg \in {KSEG0, KSEG1} :
        /\ tlb[HYPERCALL_INDEX] = Written(0, BufferEntry(id, b, kseg))
        /\ mapped = [vm |-> id, buffer |-> b, at |-> BufferEntry(id, b, kseg).hi]
  BY DEF HypercallInv, BufferIsMapped
<1> DEFINE ram == confs[id].ram_base
           v == BufferEntry(id, b, kseg).hi + k
           frame == (ram - KSEG0) + b.page + k
<1>2. /\ ram \in Nat /\ ram >= RAM_BASE[port] /\ ram + confs[id].asked.ram <= RAM_END[port]
      /\ confs[id].asked.ram \in MemSizes /\ ram % 2 = 0
  BY <1>1, ConfTypes, OwnFrames DEF HypercallInv, PairsOfPages, Regions, Placed
<1>3. port \in {"pic32mz", "baikal_t1"} /\ port \in PORTS
  BY LayoutAssumption DEF HypercallInv, Regions
<1>4. /\ RAM_END[port] \in Nat /\ RAM_END[port] <= KSEG0 + PHYS
      /\ RAM_BASE[port] \in Nat /\ RAM_BASE[port] > KSEG0
      /\ HYPERCALL_INDEX \in 0 .. TOTAL_TLB_ENTRIES[port]
  BY <1>3, LayoutAssumption, SMTT(20)
     DEF CODE_BASE, RAM_BASE, KSEG0, PHYS, TOTAL_TLB_ENTRIES, HYPERCALL_INDEX
<1> HIDE DEF ram
<1>5. Phys(ram) = ram - KSEG0
  <2>1. KSEG0 < ram /\ ram < KSEG0 + PHYS
    <3>1. ram > KSEG0
      <4>1. KSEG0 \in Nat
        BY DEF KSEG0
      <4>2. QED
        BY <1>2, <1>4, <4>1
    <3> DEFINE size == confs[id].asked.ram
               end  == RAM_END[port]
    <3>2. size \in MemSizes /\ end \in Nat /\ ram + size <= end /\ end <= KSEG0 + PHYS
      BY <1>2, <1>4
    <3>3. ram \in Nat
      BY <1>2
    <3> HIDE DEF size, end
    <3>4. QED
      BY <3>1, <3>2, <3>3, RamInWindow
  <2>2. QED
    BY <1>2, <2>1, SMTT(20) DEF Phys, KSEG0, PHYS
<1>6. /\ Matches(tlb[HYPERCALL_INDEX], v) /\ Lo(tlb[HYPERCALL_INDEX], v) # 0
      /\ Frame(tlb[HYPERCALL_INDEX], v) = frame
      /\ tlb[HYPERCALL_INDEX].guest = 0
  <2>1. b.size <= PAGE /\ k \in 0 .. (b.offset + b.size - 1) \div PAGE
    BY <1>1
  <2>2. ram > KSEG0
    BY <1>2, <1>4, SMTT(20) DEF KSEG0
  <2>3. LET e == Written(0, BufferEntry(id, b, kseg))
        IN  Matches(e, v) /\ Lo(e, v) = frame /\ frame # 0 /\ Frame(e, v) = frame
    BY <1>2, <2>1, <2>2, BufferTranslated DEF ram
  <2>4. QED
    BY <1>1, <2>3 DEF Written
<1>7. \A j \in DOMAIN tlb : j # HYPERCALL_INDEX /\ tlb[j].guest = 0 => Lo(tlb[j], v) = 0
  BY DEF HypercallInv, BufferIsMapped, Lo
<1>8. HYPERCALL_INDEX \in DOMAIN tlb
  BY <1>4 DEF HypercallInv, BufferIsMapped
<1> HIDE DEF v, frame
<1>9. Reached(0, v) = {frame}
  BY <1>6, <1>7, <1>8 DEF Reached
<1>10. QED
  BY <1>1, <1>5, <1>9 DEF v, frame, ram

LEMMA InitHypercalls == Init => HypercallInv
<1> SUFFICES ASSUME Init PROVE HypercallInv
  OBVIOUS
<1>1. Regions
  BY InitRegions
<1>2. PairsOfPages
  BY <1>1, LayoutAssumption, SMTT(20) DEF Regions, Init, PairsOfPages, RAM_BASE, KSEG0
<1>3. BufferIsMapped
  BY DEF Init, BufferIsMapped, Unused
<1>4. QED
  BY <1>1, <1>2, <1>3 DEF HypercallInv

LEMMA GenConfVMKeepsHypercalls ==
  ASSUME HypercallInv, NEW a \in Asks[port], GenConfVM(a)
  PROVE  PairsOfPages' /\ BufferIsMapped'
<1> DEFINE N == Len(confs)
<1>1. /\ Accepted(a) /\ confs' = Append(confs, Conf(a))
      /\ vm_data_inter_addr' = RamBase(a) + a.ram
      /\ UNCHANGED <<port, phase, created, tlb, mapped>> /\ phase = "generating"
  BY DEF GenConfVM
<1>2. /\ Conf(a) \in ConfRecord /\ Placed(port, Conf(a)) /\ Conf(a).asked = a
      /\ Conf(a).ram_base = RamBase(a) /\ RamBase(a) \in Nat /\ a.ram \in Nat
  BY <1>1, ConfPlaced DEF HypercallInv
<1>3. /\ confs \in Seq(ConfRecord) /\ N \in Nat /\ vm_data_inter_addr \in Nat
      /\ a.ram \in MemSizes
  BY <1>2 DEF HypercallInv, Regions, Placed
<1>4. /\ Len(confs') = N + 1 /\ confs'[N + 1] = Conf(a)
      /\ \A n \in 1 .. N : confs'[n] = confs[n]
      /\ DOMAIN confs' = 1 .. N + 1 /\ DOMAIN confs = 1 .. N
  BY <1>1, <1>2, <1>3
<1> HIDE DEF N
<1>5. PairsOfPages'
  <2> SUFFICES ASSUME \A n \in 1 .. N + 1 : confs'[n].asked.ram # 1
               PROVE  /\ vm_data_inter_addr' % 2 = 0
                      /\ \A n \in 1 .. N + 1 : confs'[n].ram_base % 2 = 0
    BY <1>4 DEF PairsOfPages
  <2>1. /\ \A n \in 1 .. N : confs[n].asked.ram # 1
        /\ a.ram # 1
    BY <1>2, <1>3, <1>4
  <2>2. /\ vm_data_inter_addr % 2 = 0
        /\ \A n \in 1 .. N : confs[n].ram_base % 2 = 0
    BY <1>4, <2>1 DEF HypercallInv, PairsOfPages, N
  <2>3. RamBase(a) % 2 = 0 /\ a.ram % 2 = 0
    BY <1>3, <2>1, <2>2, AlignedEven DEF RamBase
  <2>4. vm_data_inter_addr' % 2 = 0
    BY <1>1, <1>2, <2>3, EvenSum
  <2>5. QED
    BY <1>2, <1>3, <1>4, <2>2, <2>3, <2>4
<1>6. mapped' = Nothing
  BY <1>1 DEF HypercallInv, BufferIsMapped
<1>7. created' \in 0 .. Len(confs')
  BY <1>1, <1>3, <1>4 DEF HypercallInv, BufferIsMapped, N
<1>8. QED
  BY <1>1, <1>5, <1>6, <1>7 DEF HypercallInv, BufferIsMapped

LEMMA CreateVMKeepsHypercalls ==
  ASSUME HypercallInv, CreateVM
  PROVE  BufferIsMapped'
<1> DEFINE id == created + 1
           n == confs[id].num_tlb_entries
<1>1. /\ phase = "booting" /\ created < Len(confs) /\ created' = id
      /\ tlb' = [i \in DOMAIN tlb |->
                   IF i \in tlbindex .. tlbindex + n - 1
                     THEN Written(id, confs[id].tlb[i - tlbindex + 1])
                     ELSE tlb[i]]
      /\ UNCHANGED <<port, confs, mapped>>
  BY DEF CreateVM
<1>2. Len(confs) \in Nat /\ created \in 0 .. Len(confs)
  BY DEF HypercallInv, BufferIsMapped, Regions
<1>3. created' \in 0 .. Len(confs') /\ id # 0
  BY <1>1, <1>2
<1>4. mapped' = Nothing
  BY <1>1 DEF HypercallInv, BufferIsMapped
<1> HIDE DEF id, n
<1>5. ASSUME NEW j \in DOMAIN tlb \ {HYPERCALL_INDEX}, tlb'[j].guest = 0
      PROVE  tlb'[j].lo0 = 0 /\ tlb'[j].lo1 = 0
  <2>1. CASE tlb'[j] = tlb[j]
    BY <1>5, <2>1 DEF HypercallInv, BufferIsMapped
  <2>2. CASE tlb'[j] = Written(id, confs[id].tlb[j - tlbindex + 1])
    BY <1>3, <1>5, <2>2 DEF Written
  <2>3. QED
    BY <1>1, <2>1, <2>2
<1>6. DOMAIN tlb' = DOMAIN tlb
  BY <1>1
<1>7. QED
  BY <1>1, <1>3, <1>4, <1>5, <1>6 DEF HypercallInv, BufferIsMapped

LEMMA MapBufferKeepsHypercalls ==
  ASSUME HypercallInv, NEW id \in 1 .. MAX_VMS, NEW b \in Buffers,
         NEW kseg \in {KSEG0, KSEG1}, MapBuffer(id, b, kseg)
  PROVE  BufferIsMapped'
<1>1. /\ phase = "running" /\ id \in 1 .. created
      /\ tlb' = [tlb EXCEPT ![HYPERCALL_INDEX] = Written(0, BufferEntry(id, b, kseg))]
      /\ mapped' = [vm |-> id, buffer |-> b, at |-> BufferEntry(id, b, kseg).hi]
      /\ UNCHANGED <<port, phase, confs, created>>
  BY DEF MapBuffer
<1>2. id \in 1 .. Len(confs) /\ created \in 0 .. Len(confs)
  <2>1. Len(confs) \in Nat /\ created \in 0 .. Len(confs)
    BY DEF HypercallInv, BufferIsMapped, Regions
  <2>2. QED
    BY <1>1, <2>1
<1>3. HYPERCALL_INDEX \in DOMAIN tlb
  <2>1. port \in {"pic32mz", "baikal_t1"}
    BY LayoutAssumption DEF HypercallInv, Regions
  <2>2. QED
    BY <2>1 DEF HypercallInv, BufferIsMapped, TOTAL_TLB_ENTRIES, HYPERCALL_INDEX
<1>4. /\ DOMAIN tlb' = DOMAIN tlb
      /\ tlb'[HYPERCALL_INDEX] = Written(0, BufferEntry(id, b, kseg))
      /\ \A j \in DOMAIN tlb \ {HYPERCALL_INDEX} : tlb'[j] = tlb[j]
  BY <1>1, <1>3
<1>5. BufferEntry(id, b, kseg)' = BufferEntry(id, b, kseg)
  BY <1>1 DEF BufferEntry
<1>6. \A j \in DOMAIN tlb' \ {HYPERCALL_INDEX} :
        tlb'[j].guest = 0 => tlb'[j].lo0 = 0 /\ tlb'[j].lo1 = 0
  BY <1>4 DEF HypercallInv, BufferIsMapped
<1>7. \E i \in 1 .. Len(confs'), c \in Buffers, s \in {KSEG0, KSEG1} :
            /\ tlb'[HYPERCALL_INDEX] = Written(0, BufferEntry(i, c, s)')
            /\ mapped' = [vm |-> i, buffer |-> c, at |-> BufferEntry(i, c, s)'.hi]
  BY <1>1, <1>2, <1>4, <1>5
<1>8. QED
  BY <1>1, <1>2, <1>4, <1>6, <1>7 DEF HypercallInv, BufferIsMapped

(* A driver's pointer leads to the guest's buffer, for every board, file,  *)
(* buffer of at most a page and both kernel segments.                      *)
THEOREM HypercallsReach == Spec => []HypercallsReachTheGuest
<1>1. Init => HypercallInv
  BY InitHypercalls
<1>2. HypercallInv /\ [Next]_vars => HypercallInv'
  <2> SUFFICES ASSUME HypercallInv, [Next]_vars PROVE HypercallInv'
    OBVIOUS
  <2>1. Regions'
    BY StepKeepsRegions DEF HypercallInv
  <2>2. ASSUME UNCHANGED <<confs, vm_data_inter_addr>> PROVE PairsOfPages'
    BY <2>2 DEF HypercallInv, PairsOfPages
  <2>3. ASSUME UNCHANGED <<port, confs, created, tlb, mapped>>,
               phase' = phase \/ mapped = Nothing
        PROVE  BufferIsMapped'
    <3>1. CASE mapped = Nothing
      BY <2>3, <3>1 DEF HypercallInv, BufferIsMapped
    <3>2. CASE mapped # Nothing
      <4>1. phase = "running" /\ phase' = "running"
        BY <2>3, <3>2 DEF HypercallInv, BufferIsMapped
      <4>2. PICK id \in 1 .. Len(confs), b \in Buffers, kseg \in {KSEG0, KSEG1} :
              /\ tlb[HYPERCALL_INDEX] = Written(0, BufferEntry(id, b, kseg))
              /\ mapped = [vm |-> id, buffer |-> b, at |-> BufferEntry(id, b, kseg).hi]
        BY <3>2 DEF HypercallInv, BufferIsMapped
      <4>3. BufferEntry(id, b, kseg)' = BufferEntry(id, b, kseg)
        BY <2>3 DEF BufferEntry
      <4>4. \E i \in 1 .. Len(confs'), c \in Buffers, s \in {KSEG0, KSEG1} :
              /\ tlb'[HYPERCALL_INDEX] = Written(0, BufferEntry(i, c, s)')
              /\ mapped' = [vm |-> i, buffer |-> c, at |-> BufferEntry(i, c, s)'.hi]
        BY <2>3, <4>2, <4>3
      <4>5. QED
        BY <2>3, <4>1, <4>4 DEF HypercallInv, BufferIsMapped
    <3>3. QED
      BY <3>1, <3>2
  <2>4. ASSUME NEW a \in Asks[port], GenConfVM(a) PROVE PairsOfPages' /\ BufferIsMapped'
    BY <2>4, GenConfVMKeepsHypercalls
  <2>5. phase \in {"generating", "booting"} => mapped = Nothing
    BY DEF HypercallInv, BufferIsMapped
  <2>6. ASSUME NEW a \in Asks[port], RejectVM(a) PROVE PairsOfPages' /\ BufferIsMapped'
    BY <2>2, <2>3, <2>5, <2>6 DEF RejectVM, generator
  <2>7. CASE EndOfGeneration
    BY <2>1, <2>2, <2>3, <2>5, <2>7 DEF EndOfGeneration, generator, HypercallInv
  <2>8. CASE CreateVM
    BY <2>1, <2>2, <2>8, CreateVMKeepsHypercalls DEF CreateVM, generator, HypercallInv
  <2>9. ASSUME NEW id \in 1 .. MAX_VMS, NEW b \in Buffers, NEW kseg \in {KSEG0, KSEG1},
               MapBuffer(id, b, kseg)
        PROVE  PairsOfPages' /\ BufferIsMapped'
    BY <2>2, <2>9, MapBufferKeepsHypercalls DEF MapBuffer, generator
  <2>10. CASE UNCHANGED vars
    BY <2>1, <2>2, <2>3, <2>10 DEF vars, generator, HypercallInv
  <2>11. QED
    BY <2>1, <2>4, <2>6, <2>7, <2>8, <2>9, <2>10 DEF Next, HypercallInv
<1>3. HypercallInv => HypercallsReachTheGuest
  BY GuestReached
<1>4. QED
  BY <1>1, <1>2, <1>3, PTL DEF Spec

----------------------------------------------------------------------------
(* Machines and their entries                                              *)

\* Entries of a machine before those of its memory maps.
OwnEntries(a) == IF a.flash = MISSING THEN 1 ELSE 2

\* What entry k of a machine is asked to map, and where.
Area(p, a, k) ==
  IF k = 1 THEN [size |-> a.ram, va |-> RAM_VA]
  ELSE IF k = 2 /\ a.flash # MISSING THEN [size |-> a.flash, va |-> CODE_VA[p]]
  ELSE [size |-> a.maps[k - OwnEntries(a)].size, va |-> a.maps[k - OwnEntries(a)].base]

Base(c, k) ==
  IF k = 1 THEN c.ram_base
  ELSE IF k = 2 /\ c.asked.flash # MISSING THEN c.address_start
  ELSE LET m == c.asked.maps[k - OwnEntries(c.asked)]
       IN  Aligned(PageSize(m.size), m.base)

\* Page v lies in the pair of pages that an area is mapped with.
InPair(r, v) ==
  v \div (2 * PageSize(r.size)) = Phys(r.va) \div (2 * PageSize(r.size))

(* What a file has to respect for its machines to find everything: no two  *)
(* areas of a machine share a pair of pages, which the processor forbids,  *)
(* and 0x9D000000, where the image is linked, is aligned to a pair of its  *)
(* pages, as it is for images below 16 MB.                                 *)
FilesFit ==
  \A p \in PORTS : \A a \in {b \in Asks[p] : b.ram # MISSING} :
    /\ a.flash # MISSING => Phys(CODE_VA[p]) % (2 * PageSize(a.flash)) = 0
    /\ \A k, l \in 1 .. Len(a.maps) + OwnEntries(a) : k # l =>
         \A v \in Nat : ~ (InPair(Area(p, a, k), v) /\ InPair(Area(p, a, l), v))

\* The row of VMCONF that was made for a machine of the file.
IsConf(p, c) ==
  /\ c.asked \in {a \in Asks[p] : a.ram # MISSING}
  /\ p = "pic32mz" => c.asked.flash # MISSING
  /\ c.num_tlb_entries = Len(c.asked.maps) + OwnEntries(c.asked)
  /\ Len(c.tlb) = c.num_tlb_entries
  /\ \A k \in 1 .. c.num_tlb_entries :
       LET r == Area(p, c.asked, k)
       IN  c.tlb[k] = Entry(r.size, Base(c, k), r.va)

\* off[n]: the first TLB entry after those of the first n machines.
Loaded(off) ==
  /\ off \in [0 .. Len(confs) -> Nat]
  /\ off[0] = 0 /\ off[Len(confs)] = total_tlb_entries
  /\ tlbindex = off[created]
  /\ \A n \in 1 .. Len(confs) : off[n] = off[n - 1] + confs[n].num_tlb_entries
  /\ \A m, n \in 0 .. Len(confs) : m <= n => off[m] <= off[n]
  /\ \A n \in 1 .. created : \A k \in 1 .. confs[n].num_tlb_entries :
       LET j == off[n - 1] + k - 1 IN
       j # HYPERCALL_INDEX => tlb[j] = Written(n, confs[n].tlb[k])
  /\ \A j \in DOMAIN tlb : tlb[j].guest # 0 =>
       /\ tlb[j].guest \in 1 .. created
       /\ \E k \in 1 .. confs[tlb[j].guest].num_tlb_entries :
            tlb[j] = Written(tlb[j].guest, confs[tlb[j].guest].tlb[k])

MapInv ==
  /\ Regions /\ TypeOK
  /\ \A n \in 1 .. Len(confs) : IsConf(port, confs[n])
  /\ \E off : Loaded(off)

----------------------------------------------------------------------------
(* Pairs of pages                                                          *)

LEMMA PairPages ==
  ASSUME NEW p \in PageSizes, NEW x \in Nat, x % (2 * p) = 0, NEW k \in 0 .. 2 * p - 1
  PROVE  /\ x % 2 = 0
         /\ (x + k) \div (2 * p) = x \div (2 * p)
         /\ ((x + k) \div p) % 2 = IF k < p THEN 0 ELSE 1
         /\ (x + k) % p = IF k < p THEN k ELSE k - p
  BY SMTT(60) DEF PageSizes

LEMMA PairOf ==
  ASSUME NEW p \in PageSizes, NEW q \in Nat, NEW k \in 0 .. 2 * p - 1
  PROVE  (2 * p * q + k) \div (2 * p) = q
  BY SMTT(60) DEF PageSizes

PairSizes == {2, 8, 32, 128, 512, 2048, 8192, 131072}

LEMMA Division ==
  ASSUME NEW d \in PairSizes, NEW x \in Nat
  PROVE  x \div d \in Nat /\ x % d \in 0 .. d - 1 /\ x = d * (x \div d) + (x % d)
  BY SMTT(60) DEF PairSizes

LEMMA SamePair ==
  ASSUME NEW p \in PageSizes, NEW x \in Nat
  PROVE  (x - (x % 2)) \div (2 * p) = x \div (2 * p)
<1> DEFINE d == 2 * p
           q == x \div d
           k == x % d
<1>1. q \in Nat /\ k \in 0 .. 2 * p - 1 /\ x = 2 * p * q + k
  <2>1. d \in PairSizes
    BY DEF PageSizes, PairSizes
  <2>2. d = 2 * p
    OBVIOUS
  <2> HIDE DEF d
  <2>3. q \in Nat /\ k \in 0 .. d - 1 /\ x = d * q + k
    BY <2>1, Division
  <2>4. QED
    BY <2>2, <2>3
<1> HIDE DEF q, k
<1>2. x % 2 = k % 2
  BY <1>1, SMTT(60) DEF PageSizes
<1>3. k - (k % 2) \in 0 .. 2 * p - 1
  BY <1>1, SMTT(60) DEF PageSizes
<1>4. x - (x % 2) = 2 * p * q + (k - (k % 2))
  <2> DEFINE z == 2 * p * q
  <2>1. z \in Nat
    BY <1>1 DEF PageSizes
  <2> HIDE DEF z
  <2>2. x = z + k /\ k \in Nat
    BY <1>1 DEF z, PageSizes
  <2>3. x - (x % 2) = z + (k - (k % 2))
    BY <1>2, <2>1, <2>2
  <2>4. QED
    BY <2>3 DEF z
<1>5. QED
  BY <1>1, <1>3, <1>4, PairOf DEF q

LEMMA PhysKeepsPairs ==
  ASSUME NEW p \in PageSizes, NEW x \in Nat, x % (2 * p) = 0
  PROVE  /\ Phys(x) \in Nat /\ Phys(x) % (2 * p) = 0 /\ Phys(x) % p = 0
         /\ Phys(x + p) = Phys(x) + p
         /\ x % p = 0
  BY SMTT(60) DEF PageSizes, Phys, PHYS

(* The virtual pages of an area that starts at a pair of its pages are     *)
(* translated to the frames from its base on.                              *)
LEMMA EntryTranslates ==
  ASSUME NEW g, NEW size \in MemSizes, NEW base \in Nat, NEW va \in Nat,
         Phys(va) % (2 * PageSize(size)) = 0,
         Phys(base) # 0, Phys(base) % PageSize(size) = 0,
         IsDual(size) => Phys(base + PageSize(size)) = Phys(base) + PageSize(size),
         NEW k \in 0 .. size - 1
  PROVE  LET e == Written(g, Entry(size, base, va))
             v == Phys(va) + k
         IN  Matches(e, v) /\ Lo(e, v) # 0 /\ Frame(e, v) = Phys(base) + k
<1> DEFINE p == PageSize(size)
           x == Phys(va)
           f == Phys(base)
           e == Written(g, Entry(size, base, va))
           v == x + k
<1>1. /\ p \in PageSizes /\ x \in Nat /\ f \in Nat /\ f # 0 /\ f % p = 0
      /\ x % (2 * p) = 0
  BY PageOfSize DEF Phys, PHYS
<1>2. k \in 0 .. 2 * p - 1 /\ (~IsDual(size) => k < p) /\ p \in Nat \ {0}
  BY PageOfSize DEF PageSizes
<1>3. /\ e.page = p /\ e.lo0 = f /\ e.hi = x - (x % 2)
      /\ IsDual(size) => e.lo1 = f + p
  BY PageOfSize DEF Written, Entry
<1> HIDE DEF p, x, f, e
<1>4. /\ x % 2 = 0
      /\ v \div (2 * p) = x \div (2 * p)
      /\ (v \div p) % 2 = IF k < p THEN 0 ELSE 1
      /\ v % p = IF k < p THEN k ELSE k - p
  BY <1>1, <1>2, PairPages
<1>5. e.hi = x /\ v \in Nat
  BY <1>1, <1>2, <1>3, <1>4
<1> HIDE DEF v
<1>6. Matches(e, v)
  BY <1>3, <1>4, <1>5 DEF Matches
<1>7. Lo(e, v) = IF k < p THEN f ELSE f + p
  <2>1. CASE k < p
    BY <1>3, <1>4, <2>1 DEF Lo, Half
  <2>2. CASE ~(k < p)
    BY <1>2, <1>3, <1>4, <2>2 DEF Lo, Half
  <2>3. QED
    BY <2>1, <2>2
<1>8. Lo(e, v) # 0
  BY <1>1, <1>2, <1>7
<1>9. Lo(e, v) % p = 0
  <2>1. (f + p) % p = 0
    BY <1>1 DEF PageSizes
  <2>2. QED
    BY <1>1, <1>7, <2>1
<1>10. Frame(e, v) = f + k
  <2>1. Frame(e, v) = (Lo(e, v) - 0) + (v % p)
    BY <1>3, <1>9 DEF Frame
  <2>2. QED
    BY <1>1, <1>2, <1>4, <1>7, <2>1
<1>11. QED
  BY <1>6, <1>8, <1>10 DEF e, v, x, f

(* An entry matches the pages of its area's pair and no other.             *)
LEMMA MatchesItsPair ==
  ASSUME NEW g, NEW size \in MemSizes, NEW base, NEW va \in Nat, NEW v \in Nat
  PROVE  LET r == [size |-> size, va |-> va]
         IN  Matches(Written(g, Entry(size, base, va)), v) <=> InPair(r, v)
<1> DEFINE p == PageSize(size)
           x == Phys(va)
           e == Written(g, Entry(size, base, va))
<1>1. p \in PageSizes /\ x \in Nat
  BY PageOfSize DEF Phys, PHYS
<1>2. e.page = p /\ e.hi = x - (x % 2)
  BY DEF Written, Entry
<1> HIDE DEF p, x, e
<1>3. Matches(e, v) <=> v \div (2 * p) = x \div (2 * p)
  BY <1>1, <1>2, SamePair DEF Matches
<1>4. QED
  BY <1>3 DEF InPair, p, x, e

----------------------------------------------------------------------------
(* The pages of a machine                                                  *)

LEMMA ConfRecords ==
  ASSUME Regions, NEW n \in 1 .. Len(confs)
  PROVE  /\ confs[n] \in ConfRecord
         /\ confs[n].num_tlb_entries \in Nat
         /\ confs[n].asked.maps \in Seq(MemoryMap)
         /\ Len(confs[n].asked.maps) \in Nat
         /\ DOMAIN confs[n].asked.maps = 1 .. Len(confs[n].asked.maps)
         /\ confs[n].tlb \in Seq(TLBEntry)
<1>1. confs[n] \in ConfRecord
  BY DEF Regions
<1>2. confs[n].asked \in Ask /\ confs[n].num_tlb_entries \in Nat /\ confs[n].tlb \in Seq(TLBEntry)
  BY <1>1 DEF ConfRecord
<1>3. confs[n].asked.maps \in Seq(MemoryMap)
  BY <1>2 DEF Ask
<1>4. QED
  BY <1>1, <1>2, <1>3

LEMMA AreaTypes ==
  ASSUME Regions, NEW n \in 1 .. Len(confs), IsConf(port, confs[n]),
         NEW k \in 1 .. confs[n].num_tlb_entries
  PROVE  LET a == confs[n].asked IN
         /\ Area(port, a, k).size \in MemSizes /\ Area(port, a, k).va \in Nat
         /\ Base(confs[n], k) \in Nat
<1> DEFINE c == confs[n]
           a == c.asked
           j == k - OwnEntries(a)
<1>1. /\ c.ram_base \in Nat /\ c.address_start \in Nat
      /\ a.flash \in MemSizes \cup {MISSING} /\ a.ram \in MemSizes
  BY ConfTypes DEF Regions, Placed
<1>2. a.maps \in Seq(MemoryMap)
  BY ConfRecords
<1>3. c.num_tlb_entries = Len(a.maps) + OwnEntries(a)
  BY DEF IsConf
<1>4. port \in {"pic32mz", "baikal_t1"}
  BY LayoutAssumption DEF Regions
<1>5. RAM_VA \in Nat /\ CODE_VA[port] \in Nat
  BY <1>4 DEF RAM_VA, CODE_VA, KSEG0
<1>6. k \in 1 .. Len(a.maps) + OwnEntries(a) /\ Len(a.maps) \in Nat
  BY <1>2, <1>3
<1> HIDE DEF c, a
<1>7. CASE k = 1
  BY <1>1, <1>5, <1>7 DEF Area, Base, c, a
<1>8. CASE k = 2 /\ a.flash # MISSING
  BY <1>1, <1>5, <1>8 DEF Area, Base, c, a
<1>9. CASE k # 1 /\ ~(k = 2 /\ a.flash # MISSING)
  <2>1. j \in 1 .. Len(a.maps)
    <3> DEFINE len == Len(a.maps)
               own == OwnEntries(a)
    <3>1. own \in {1, 2} /\ (own = 2 <=> a.flash # MISSING)
      BY DEF OwnEntries
    <3>2. len \in Nat /\ k \in 1 .. len + own /\ k # 1 /\ ~(k = 2 /\ own = 2)
      BY <1>6, <1>9, <3>1
    <3> HIDE DEF len, own
    <3>3. k - own \in 1 .. len
      BY <3>1, <3>2
    <3>4. QED
      BY <3>3 DEF len, own
  <2> DEFINE m == a.maps[j]
  <2>2. m \in MemoryMap
    BY <1>2, <2>1
  <2> HIDE DEF j
  <2>3. m.base \in Nat /\ m.size \in MemSizes
    BY <2>2 DEF MemoryMap
  <2>4. Area(port, a, k) = [size |-> m.size, va |-> m.base]
    BY <1>9 DEF Area, j
  <2>5. Base(c, k) = Aligned(PageSize(m.size), m.base)
    BY <1>9 DEF Base, a, j
  <2>6. Base(c, k) \in Nat
    BY <2>3, <2>5, PageOfSize, AlignedUp
  <2>7. QED
    BY <2>3, <2>4, <2>6 DEF a, c
<1>10. QED
  BY <1>7, <1>8, <1>9

(* Each entry matches its own pages, and one entry each page.              *)
LEMMA AreaIsReached ==
  ASSUME FilesFit, MapInv, total_tlb_entries <= HYPERCALL_INDEX,
         NEW n \in 1 .. created, NEW k \in 1 .. confs[n].num_tlb_entries,
         NEW size \in MemSizes, NEW va \in Nat, NEW base \in Nat,
         Area(port, confs[n].asked, k) = [size |-> size, va |-> va],
         Base(confs[n], k) = base,
         Phys(va) % (2 * PageSize(size)) = 0,
         Phys(base) # 0, Phys(base) % PageSize(size) = 0,
         IsDual(size) => Phys(base + PageSize(size)) = Phys(base) + PageSize(size),
         NEW i \in 0 .. size - 1
  PROVE  Reached(n, Phys(va) + i) = {Phys(base) + i}
<1> DEFINE c == confs[n]
           v == Phys(va) + i
           e == Written(n, Entry(size, base, va))
<1>1. /\ n \in 1 .. Len(confs) /\ Len(confs) \in Nat /\ created \in 0 .. Len(confs)
      /\ IsConf(port, c) /\ Regions
      /\ total_tlb_entries \in 0 .. TOTAL_TLB_ENTRIES[port]
      /\ DOMAIN tlb = 0 .. TOTAL_TLB_ENTRIES[port]
      /\ port \in PORTS
  <2>1. /\ Len(confs) \in Nat /\ created \in 0 .. Len(confs) /\ Regions
        /\ total_tlb_entries \in 0 .. TOTAL_TLB_ENTRIES[port]
        /\ DOMAIN tlb = 0 .. TOTAL_TLB_ENTRIES[port] /\ port \in PORTS
    BY DEF MapInv, TypeOK
  <2>2. n \in 1 .. Len(confs)
    BY <2>1
  <2>3. QED
    BY <2>1, <2>2 DEF MapInv
<1>2. PICK off : Loaded(off)
  BY DEF MapInv
<1>3. v \in Nat
  BY DEF Phys, PHYS, MemSizes
<1>4. Matches(e, v) /\ Lo(e, v) # 0 /\ Frame(e, v) = Phys(base) + i
  BY EntryTranslates
<1>5. c.tlb[k] = Entry(size, base, va)
  BY <1>1 DEF IsConf
<1>6. InPair(Area(port, c.asked, k), v)
  BY <1>3, <1>4, MatchesItsPair
<1>7. ASSUME NEW l \in 1 .. c.num_tlb_entries, Matches(Written(n, c.tlb[l]), v)
      PROVE  l = k
  <2> DEFINE r == Area(port, c.asked, l)
             b == Base(c, l)
  <2>1. r.size \in MemSizes /\ r.va \in Nat
    BY <1>1, AreaTypes
  <2>2. c.tlb[l] = Entry(r.size, b, r.va)
    BY <1>1 DEF IsConf
  <2> HIDE DEF b, r, v
  <2>3. InPair([size |-> r.size, va |-> r.va], v)
    BY <1>3, <1>7, <2>1, <2>2, MatchesItsPair
  <2>4. InPair(r, v)
    BY <2>3 DEF InPair
  <2>5. /\ c.asked \in {a \in Asks[port] : a.ram # MISSING}
        /\ c.num_tlb_entries = Len(c.asked.maps) + OwnEntries(c.asked)
    BY <1>1 DEF IsConf
  <2>6. k # l => ~(InPair(Area(port, c.asked, k), v) /\ InPair(r, v))
    BY <1>1, <1>3, <2>5 DEF FilesFit, r
  <2>7. QED
    BY <1>6, <2>4, <2>6
<1>8. ASSUME NEW j \in DOMAIN tlb, tlb[j].guest = n, Matches(tlb[j], v)
      PROVE  tlb[j] = e
  <2>1. n # 0
    BY <1>1
  <2>2. PICK l \in 1 .. c.num_tlb_entries : tlb[j] = Written(n, c.tlb[l])
    BY <1>2, <1>8, <2>1 DEF Loaded
  <2>3. l = k
    BY <1>7, <1>8, <2>2
  <2>4. QED
    BY <1>5, <2>2, <2>3
<1>9. \E j \in DOMAIN tlb : tlb[j] = e
  <2> DEFINE j == off[n - 1] + k - 1
  <2>1. /\ n - 1 \in 0 .. Len(confs) /\ n \in 0 .. Len(confs)
        /\ Len(confs) \in 0 .. Len(confs) /\ n <= Len(confs)
    BY <1>1
  <2>2. /\ off[n - 1] \in Nat /\ off[n] \in Nat /\ off[n] <= total_tlb_entries
        /\ off[n] = off[n - 1] + c.num_tlb_entries
    BY <1>1, <1>2, <2>1 DEF Loaded
  <2>3. c.num_tlb_entries \in Nat
    BY <1>1, ConfRecords
  <2>4. j \in 0 .. total_tlb_entries - 1
    <3> DEFINE o == off[n - 1]
               num == c.num_tlb_entries
               total == total_tlb_entries
    <3>1. o \in Nat /\ num \in Nat /\ o + num <= total /\ k \in 1 .. num
      BY <2>2, <2>3
    <3>2. total \in Nat
      BY <1>1
    <3> HIDE DEF o, num, total
    <3>3. o + k - 1 \in 0 .. total - 1
      BY <3>1, <3>2
    <3>4. QED
      BY <3>3 DEF o, total
  <2>5. HYPERCALL_INDEX \in Nat /\ TOTAL_TLB_ENTRIES[port] \in Nat
    BY <1>1, LayoutAssumption DEF HYPERCALL_INDEX, TOTAL_TLB_ENTRIES
  <2>6. j \in DOMAIN tlb /\ j # HYPERCALL_INDEX
    BY <1>1, <2>4, <2>5
  <2>7. tlb[j] = Written(n, c.tlb[k])
    BY <1>2, <2>6 DEF Loaded
  <2>8. QED
    BY <1>5, <2>6, <2>7
<1>10. e.guest = n
  BY DEF Written
<1> HIDE DEF e, v
<1>11. Reached(n, v) = {Frame(e, v)}
  BY <1>4, <1>8, <1>9, <1>10 DEF Reached
<1>12. QED
  BY <1>4, <1>11 DEF v

(* A region of the board's memory that an entry can map.                   *)
LEMMA RegionTranslates ==
  ASSUME NEW size \in MemSizes, NEW base \in Nat, KSEG0 < base,
         base + size <= KSEG0 + PHYS, base % PageSize(size) = 0
  PROVE  /\ Phys(base) # 0 /\ Phys(base) % PageSize(size) = 0
         /\ IsDual(size) =>
              Phys(base + PageSize(size)) = Phys(base) + PageSize(size)
<1> DEFINE p == PageSize(size)
<1>1. p \in PageSizes /\ p \in Nat \ {0} /\ size \in Nat \ {0}
  BY PageOfSize DEF PageSizes, MemSizes
<1>2. KSEG0 \in Nat /\ PHYS \in Nat
  BY DEF KSEG0, PHYS
<1>3. Phys(base) = base - KSEG0 /\ Phys(base) % p = 0 /\ Phys(base) # 0
  BY <1>1, <1>2, PhysAligned
<1>4. ASSUME IsDual(size) PROVE Phys(base + p) = Phys(base) + p
  <2>1. size = 2 * p
    BY <1>4, PageOfSize
  <2>2. (base + p) % p = 0
    BY <1>1 DEF PageSizes
  <2> HIDE DEF p
  <2>3. base + p \in Nat /\ KSEG0 <= base + p /\ base + p < KSEG0 + PHYS
    BY <1>1, <1>2, <2>1
  <2>4. Phys(base + p) = base + p - KSEG0
    <3> DEFINE b == base + p
    <3>1. b \in Nat /\ KSEG0 <= b /\ b < KSEG0 + PHYS /\ b % p = 0 /\ p \in PageSizes
      BY <1>1, <2>2, <2>3
    <3> HIDE DEF b
    <3>2. Phys(b) = b - KSEG0
      BY <3>1, PhysAligned
    <3>3. QED
      BY <1>1, <1>2, <3>2 DEF b
  <2>5. QED
    BY <1>1, <1>2, <1>3, <2>4
<1>5. QED
  BY <1>3, <1>4

LEMMA ImagesMapped ==
  ASSUME FilesFit, MapInv
  PROVE  ImagesAndRAMAreMapped
<1> SUFFICES ASSUME BoardHolds, total_tlb_entries <= HYPERCALL_INDEX,
                    NEW n \in 1 .. created
             PROVE  LET c == confs[n] IN
                    /\ \A i \in 0 .. c.asked.ram - 1 : Reached(n, i) = {Phys(c.ram_base) + i}
                    /\ port = "pic32mz" => \A i \in 0 .. c.asked.flash - 1 :
                         Reached(n, Phys(CODE_VA[port]) + i) = {Phys(c.address_start) + i}
  BY DEF ImagesAndRAMAreMapped
<1> DEFINE c == confs[n]
<1>1. n \in 1 .. Len(confs) /\ Regions /\ IsConf(port, c)
  <2>1. Len(confs) \in Nat /\ created \in 0 .. Len(confs) /\ Regions
    BY DEF MapInv, TypeOK
  <2>2. n \in 1 .. Len(confs)
    BY <2>1
  <2>3. QED
    BY <2>1, <2>2 DEF MapInv
<1>2. port \in {"pic32mz", "baikal_t1"} /\ port \in PORTS
  BY <1>1, LayoutAssumption DEF Regions
<1>3. /\ RAM_END[port] \in Nat /\ CODE_END[port] \in Nat
      /\ RAM_END[port] <= KSEG0 + PHYS
      /\ port = "pic32mz" => CODE_END[port] <= KSEG0 + PHYS
  BY <1>2, LayoutAssumption DEF CODE_BASE, KSEG0, PHYS
<1>4. /\ RAM_BASE[port] \in Nat /\ CODE_BASE[port] \in Nat
      /\ KSEG0 < RAM_BASE[port] /\ KSEG0 < CODE_BASE[port] /\ KSEG0 \in Nat
      /\ PHYS \in Nat
  BY <1>2 DEF RAM_BASE, CODE_BASE, KSEG0, PHYS
<1>5. /\ c.ram_base \in Nat /\ c.address_start \in Nat
      /\ c.asked.ram \in Nat /\ c.asked.flash \in Nat
      /\ c.asked.flash \in MemSizes \cup {MISSING}
  BY <1>1, ConfTypes
<1>6. Placed(port, c)
  BY <1>1 DEF Regions
<1>7. /\ c.ram_base >= RAM_BASE[port]
      /\ c.ram_base + c.asked.ram <= RAM_END[port]
      /\ c.asked.flash # MISSING =>
           /\ c.address_start >= CODE_BASE[port]
           /\ c.address_start + c.asked.flash <= CODE_END[port]
  BY <1>1, OwnFrames
<1>8. c.num_tlb_entries \in Nat /\ c.num_tlb_entries >= 1
      /\ (c.asked.flash # MISSING => c.num_tlb_entries >= 2)
  <2> DEFINE len == Len(c.asked.maps)
             own == OwnEntries(c.asked)
  <2>1. len \in Nat
    BY <1>1, ConfRecords
  <2>2. own \in {1, 2} /\ (c.asked.flash # MISSING => own = 2)
    BY DEF OwnEntries
  <2>3. c.num_tlb_entries = len + own
    BY <1>1 DEF IsConf
  <2> HIDE DEF len, own
  <2>4. QED
    BY <2>1, <2>2, <2>3
<1>9. ASSUME NEW i \in 0 .. c.asked.ram - 1
      PROVE  Reached(n, i) = {Phys(c.ram_base) + i}
  <2> DEFINE size == c.asked.ram
             base == c.ram_base
             va   == RAM_VA
             k    == 1
  <2>1. /\ size \in MemSizes /\ base \in Nat /\ base % PageSize(size) = 0
        /\ size \in Nat
    BY <1>5, <1>6 DEF Placed
  <2>2. KSEG0 < base /\ base + size <= KSEG0 + PHYS
    BY <1>3, <1>4, <1>5, <1>7
  <2>3. Phys(va) = 0 /\ va \in Nat
    BY DEF Phys, RAM_VA, KSEG0, PHYS
  <2>4. 0 % (2 * PageSize(size)) = 0
    BY <2>1, PageOfSize DEF PageSizes
  <2>5. /\ Area(port, c.asked, k) = [size |-> size, va |-> va]
        /\ Base(c, k) = base
    BY DEF Area, Base
  <2>6. k \in 1 .. c.num_tlb_entries
    BY <1>8
  <2>7. /\ Phys(base) # 0 /\ Phys(base) % PageSize(size) = 0
        /\ IsDual(size) =>
             Phys(base + PageSize(size)) = Phys(base) + PageSize(size)
    BY <2>1, <2>2, RegionTranslates
  <2>8. Reached(n, Phys(va) + i) = {Phys(base) + i}
    <3> HIDE DEF size, base, va, k
    <3>1. i \in 0 .. size - 1
      BY <1>9 DEF size
    <3>2. Phys(va) % (2 * PageSize(size)) = 0
      BY <2>3, <2>4
    <3>3. va \in Nat
      BY <2>3
    <3>4. QED
      BY <2>1, <2>5, <2>6, <2>7, <3>1, <3>2, <3>3, AreaIsReached
  <2>9. Phys(va) + i = i
    BY <1>5, <1>9, <2>3
  <2>10. QED
    BY <2>8, <2>9
<1>10. ASSUME port = "pic32mz", NEW i \in 0 .. c.asked.flash - 1
       PROVE  Reached(n, Phys(CODE_VA[port]) + i) = {Phys(c.address_start) + i}
  <2> DEFINE size == c.asked.flash
             base == c.address_start
             va   == CODE_VA[port]
  <2>1. size # MISSING
    BY <1>1, <1>10 DEF IsConf
  <2>2. /\ size \in MemSizes /\ base \in Nat /\ base % PageSize(size) = 0
        /\ size \in Nat
    BY <1>5, <1>6, <2>1 DEF Placed
  <2>3. KSEG0 < base /\ base + size <= KSEG0 + PHYS
    BY <1>3, <1>4, <1>5, <1>7, <1>10, <2>1
  <2>4. va \in Nat
    BY <1>10 DEF CODE_VA, KSEG0
  <2>5. Phys(va) % (2 * PageSize(size)) = 0
    <3>1. c.asked \in {a \in Asks[port] : a.ram # MISSING}
      BY <1>1 DEF IsConf
    <3>2. QED
      BY <1>2, <2>1, <3>1 DEF FilesFit
  <2>6. /\ Area(port, c.asked, 2) = [size |-> size, va |-> va]
        /\ Base(c, 2) = base
    BY <2>1 DEF Area, Base
  <2>7. 2 \in 1 .. c.num_tlb_entries
    BY <1>8, <2>1
  <2>8. /\ Phys(base) # 0 /\ Phys(base) % PageSize(size) = 0
        /\ IsDual(size) =>
             Phys(base + PageSize(size)) = Phys(base) + PageSize(size)
    BY <2>2, <2>3, RegionTranslates
  <2>9. i \in 0 .. size - 1
    BY <1>10
  <2> HIDE DEF size, base, va
  <2>10. Reached(n, Phys(va) + i) = {Phys(base) + i}
    BY <2>2, <2>4, <2>5, <2>6, <2>7, <2>8, <2>9, AreaIsReached
  <2>11. QED
    BY <2>10 DEF va, base
<1>11. QED
  BY <1>9, <1>10

(* A map whose base is a pair of its pages is not moved by genconf.        *)
LEMMA MapsIdentity ==
  ASSUME FilesFit, MapInv
  PROVE  AlignedMapsAreIdentity
<1> SUFFICES ASSUME total_tlb_entries <= HYPERCALL_INDEX,
                    NEW n \in 1 .. created,
                    NEW j \in DOMAIN confs[n].asked.maps,
                    confs[n].asked.maps[j].base
                      % (2 * PageSize(confs[n].asked.maps[j].size)) = 0,
                    NEW i \in 0 .. confs[n].asked.maps[j].size - 1
             PROVE  Reached(n, Phys(confs[n].asked.maps[j].base) + i)
                      = {Phys(confs[n].asked.maps[j].base) + i}
  BY DEF AlignedMapsAreIdentity
<1> DEFINE c == confs[n]
           a == c.asked
           size == a.maps[j].size
           base == a.maps[j].base
           own == OwnEntries(a)
           k == own + j
<1>1. n \in 1 .. Len(confs) /\ Regions /\ IsConf(port, c) /\ port \in PORTS
  <2>1. Len(confs) \in Nat /\ created \in 0 .. Len(confs) /\ Regions /\ port \in PORTS
    BY DEF MapInv, TypeOK
  <2>2. n \in 1 .. Len(confs)
    BY <2>1
  <2>3. QED
    BY <2>1, <2>2 DEF MapInv
<1>2. /\ a.maps[j] \in MemoryMap /\ Len(a.maps) \in Nat
      /\ j \in 1 .. Len(a.maps)
  BY <1>1, ConfRecords
<1>3. size \in MemSizes /\ base \in Nat
  BY <1>2 DEF MemoryMap
<1>4. own \in {1, 2} /\ (own = 2 <=> a.flash # MISSING)
  BY DEF OwnEntries
<1>5. c.num_tlb_entries = Len(a.maps) + own /\ a \in {b \in Asks[port] : b.ram # MISSING}
  BY <1>1 DEF IsConf
<1>6. /\ k \in 1 .. Len(a.maps) + own /\ 1 \in 1 .. Len(a.maps) + own
      /\ k # 1 /\ ~(k = 2 /\ own = 2) /\ k - own = j
  <2> DEFINE len == Len(a.maps)
  <2>1. len \in Nat /\ j \in 1 .. len
    BY <1>2
  <2> HIDE DEF len, own
  <2>2. QED
    BY <1>4, <2>1 DEF len
<1>7. base % (2 * PageSize(size)) = 0 /\ i \in 0 .. size - 1
  OBVIOUS
<1>8. PageSize(size) \in PageSizes
  BY <1>3, PageOfSize
<1>9. /\ Area(port, a, k) = [size |-> size, va |-> base]
      /\ Area(port, a, 1).va = RAM_VA
      /\ Base(c, k) = Aligned(PageSize(size), base)
  BY <1>4, <1>6 DEF Area, Base
<1> HIDE DEF size, base, own, k, a, c
<1>10. /\ Phys(base) % (2 * PageSize(size)) = 0 /\ Phys(base) % PageSize(size) = 0
       /\ Phys(base + PageSize(size)) = Phys(base) + PageSize(size)
       /\ base % PageSize(size) = 0
  BY <1>3, <1>7, <1>8, PhysKeepsPairs
<1>11. Base(c, k) = base
  BY <1>9, <1>10 DEF Aligned
<1>12. Phys(base) # 0
  <2> SUFFICES ASSUME Phys(base) = 0 PROVE FALSE
    OBVIOUS
  <2>1. InPair(Area(port, a, k), 0)
    BY <1>9 DEF InPair
  <2>2. InPair(Area(port, a, 1), 0)
    <3>1. Phys(RAM_VA) = 0
      BY DEF Phys, RAM_VA, KSEG0, PHYS
    <3>2. QED
      BY <1>9, <3>1 DEF InPair
  <2>3. QED
    BY <1>1, <1>5, <1>6, <2>1, <2>2 DEF FilesFit, own
<1>13. k \in 1 .. c.num_tlb_entries
  BY <1>5, <1>6
<1>14. Reached(n, Phys(base) + i) = {Phys(base) + i}
  BY <1>3, <1>7, <1>9, <1>10, <1>11, <1>12, <1>13, AreaIsReached DEF c, a
<1>15. QED
  BY <1>14 DEF base, a, c

----------------------------------------------------------------------------
(* Every step keeps the machines' entries                                  *)

(* The last entries of the list that process_tlb_entry() writes.           *)
LEMMA LastEntries ==
  ASSUME NEW d \in TLBEntry, NEW s \in Seq(TLBEntry), NEW r \in Seq(TLBEntry)
  PROVE  /\ Len(<<d>> \o s \o r) = 1 + Len(s) + Len(r)
         /\ \A j \in 1 .. Len(r) : (<<d>> \o s \o r)[1 + Len(s) + j] = r[j]
<1> DEFINE w == <<d>> \o s
           z == w \o r
<1>1. w \in Seq(TLBEntry) /\ Len(w) = 1 + Len(s) /\ Len(s) \in Nat /\ Len(r) \in Nat
  OBVIOUS
<1> HIDE DEF w
<1>2. Len(z) = Len(w) + Len(r) /\ \A j \in 1 .. Len(r) : z[Len(w) + j] = r[j]
  BY <1>1
<1> HIDE DEF z
<1>3. QED
  BY <1>1, <1>2 DEF w, z

LEMMA ConfIsConf ==
  ASSUME Regions, NEW a \in Asks[port], Accepted(a)
  PROVE  IsConf(port, Conf(a))
<1>1. /\ port \in {"pic32mz", "baikal_t1"} /\ a \in Ask
      /\ port = "baikal_t1" => a.flash = MISSING
      /\ port = "pic32mz" => a.flash # MISSING
      /\ a.ram # MISSING
  BY LayoutAssumption DEF Regions, Accepted
<1>2. /\ a.ram \in MemSizes
      /\ a.flash # MISSING => a.flash \in MemSizes
      /\ a.maps \in Seq(MemoryMap) /\ Len(a.maps) \in Nat
      /\ DOMAIN a.maps = 1 .. Len(a.maps)
  BY <1>1 DEF Ask, Accepted
<1>3. RamBase(a) \in Nat /\ CodeStart(a) \in Nat
  BY ConfPlaced
<1> DEFINE d == Entry(a.ram, RamBase(a), RAM_VA)
           f == Entry(a.flash, CodeStart(a), CODE_VA[port])
           s == IF a.flash = MISSING THEN <<>> ELSE <<f>>
           r == [k \in DOMAIN a.maps |-> MapEntry(a.maps[k])]
           z == <<d>> \o s \o r
           own == OwnEntries(a)
           len == Len(a.maps)
<1>4. RAM_VA \in Nat /\ CODE_VA[port] \in Nat
  BY <1>1 DEF RAM_VA, CODE_VA, KSEG0
<1>5. d \in TLBEntry /\ (a.flash # MISSING => f \in TLBEntry)
  BY <1>2, <1>3, <1>4, EntryType
<1>6. r \in Seq(TLBEntry) /\ Len(r) = len /\ \A j \in 1 .. len : r[j] = MapEntry(a.maps[j])
  BY <1>2, MapEntryType
<1>7. s \in Seq(TLBEntry) /\ 1 + Len(s) = own /\ own \in {1, 2}
      /\ (own = 2 <=> a.flash # MISSING)
  BY <1>5 DEF OwnEntries
<1>8. /\ Conf(a).asked = a /\ Conf(a).num_tlb_entries = NumEntries(a)
      /\ Conf(a).tlb = z /\ Conf(a).ram_base = RamBase(a)
      /\ Conf(a).address_start = CodeStart(a)
  BY DEF Conf
<1>9. NumEntries(a) = len + own
  BY <1>1, <1>7 DEF NumEntries, OwnEntries
<1>10. a.flash # MISSING => s = <<f>>
  OBVIOUS
<1> HIDE DEF d, f, s, r, own, len
<1>11. /\ z[1] = d /\ \A e \in TLBEntry : s = <<e>> => z[2] = e
  <2>1. d \in TLBEntry /\ s \in Seq(TLBEntry) /\ r \in Seq(TLBEntry)
    BY <1>5, <1>6, <1>7
  <2>2. /\ <<d>> \o s \o r \in Seq(TLBEntry)
        /\ (<<d>> \o s \o r)[1] = d
        /\ \A e \in TLBEntry : s = <<e>> => (<<d>> \o s \o r)[2] = e
    BY <2>1, FirstEntries
  <2>3. QED
    BY <2>2
<1>12. /\ Len(z) = 1 + Len(s) + Len(r)
       /\ \A j \in 1 .. Len(r) : z[1 + Len(s) + j] = r[j]
  BY <1>5, <1>6, <1>7, LastEntries
<1> HIDE DEF z
<1>13. len \in Nat
  BY <1>2 DEF len
<1>14. Len(z) = len + own /\ \A j \in 1 .. len : z[own + j] = MapEntry(a.maps[j])
  BY <1>6, <1>7, <1>12, <1>13
<1>15. ASSUME NEW k \in 1 .. len + own
       PROVE  LET q == Area(port, a, k)
              IN  z[k] = Entry(q.size, Base(Conf(a), k), q.va)
  <2>1. CASE k = 1
    BY <1>8, <1>11, <2>1 DEF Area, Base, d
  <2>2. CASE k = 2 /\ a.flash # MISSING
    <3>1. z[2] = f
      BY <1>5, <1>10, <1>11, <2>2
    <3>2. QED
      BY <1>8, <2>2, <3>1 DEF Area, Base, f
  <2>3. CASE k # 1 /\ ~(k = 2 /\ a.flash # MISSING)
    <3> DEFINE j == k - own
    <3>1. j \in 1 .. len /\ own + j = k
      BY <1>7, <1>13, <2>3
    <3>2. z[k] = MapEntry(a.maps[j])
      BY <1>14, <3>1
    <3> HIDE DEF j
    <3>3. Area(port, a, k) = [size |-> a.maps[j].size, va |-> a.maps[j].base]
      BY <2>3 DEF Area, j, own
    <3>4. Base(Conf(a), k) = Aligned(PageSize(a.maps[j].size), a.maps[j].base)
      BY <1>8, <2>3 DEF Base, j, own
    <3>5. QED
      BY <3>2, <3>3, <3>4 DEF MapEntry
  <2>4. QED
    BY <2>1, <2>2, <2>3
<1>16. QED
  BY <1>1, <1>8, <1>9, <1>14, <1>15 DEF IsConf, own, len

LEMMA InitMaps == Init => MapInv
<1> SUFFICES ASSUME Init PROVE MapInv
  OBVIOUS
<1>1. Regions
  BY InitRegions
<1>2. /\ confs = <<>> /\ Len(confs) = 0 /\ created = 0 /\ tlbindex = 0
      /\ total_tlb_entries = 0 /\ phase = "generating"
      /\ tlb = [i \in 0 .. TOTAL_TLB_ENTRIES[port] |-> Unused]
      /\ port \in {"pic32mz", "baikal_t1"}
  BY LayoutAssumption DEF Init
<1>3. TOTAL_TLB_ENTRIES[port] \in Nat
  BY <1>2 DEF TOTAL_TLB_ENTRIES
<1>4. Unused \in [guest : Nat, page : PageSizes, lo0 : Nat, lo1 : Nat, hi : Nat]
  BY DEF Unused, PageSizes
<1>5. /\ created \in 0 .. Len(confs) /\ tlbindex \in 0 .. total_tlb_entries
      /\ total_tlb_entries \in 0 .. TOTAL_TLB_ENTRIES[port]
      /\ tlb \in [0 .. TOTAL_TLB_ENTRIES[port] ->
                    [guest : Nat, page : PageSizes, lo0 : Nat, lo1 : Nat, hi : Nat]]
  BY <1>2, <1>3, <1>4
<1>6. TypeOK
  BY <1>1, <1>2, <1>5 DEF TypeOK, Regions, ConfRecord
<1>7. Loaded([n \in 0 .. 0 |-> 0])
  BY <1>2 DEF Loaded, Unused
<1>8. QED
  BY <1>1, <1>2, <1>6, <1>7 DEF MapInv

LEMMA GenConfVMKeepsMaps ==
  ASSUME MapInv, NEW a \in Asks[port], GenConfVM(a)
  PROVE  MapInv'
<1> DEFINE N == Len(confs)
           num == NumEntries(a)
<1>1. /\ Accepted(a) /\ confs' = Append(confs, Conf(a)) /\ phase = "generating"
      /\ total_tlb_entries' = total_tlb_entries + num
      /\ UNCHANGED <<port, phase, created, tlbindex, tlb, mapped>>
  BY DEF GenConfVM
<1>2. Regions /\ TypeOK
  BY DEF MapInv
<1>3. Regions'
  BY <1>2, GenConfVMKeepsRegions
<1>4. /\ Conf(a) \in ConfRecord /\ IsConf(port, Conf(a))
      /\ Conf(a).num_tlb_entries = num
  BY <1>1, <1>2, ConfPlaced, ConfIsConf DEF Conf
<1>5. /\ confs \in Seq(ConfRecord) /\ N \in Nat /\ num \in Nat
  BY <1>2, <1>4 DEF Regions, ConfRecord
<1>6. /\ Len(confs') = N + 1 /\ confs'[N + 1] = Conf(a)
      /\ \A n \in 1 .. N : confs'[n] = confs[n]
  BY <1>1, <1>4, <1>5
<1> HIDE DEF N, num
<1>7. /\ created \in 0 .. N /\ tlbindex \in 0 .. total_tlb_entries
      /\ total_tlb_entries \in Nat /\ total_tlb_entries \in 0 .. TOTAL_TLB_ENTRIES[port]
  BY <1>2 DEF TypeOK, N
<1>8. TypeOK'
  <2>1. TOTAL_TLB_ENTRIES[port] \in Nat
    BY <1>2, LayoutAssumption DEF Regions, TOTAL_TLB_ENTRIES
  <2>2. total_tlb_entries + num <= TOTAL_TLB_ENTRIES[port]
    BY <1>1 DEF Accepted, num
  <2>3. /\ total_tlb_entries' \in 0 .. TOTAL_TLB_ENTRIES'[port']
        /\ tlbindex' \in 0 .. total_tlb_entries'
        /\ created' \in 0 .. Len(confs')
    BY <1>1, <1>5, <1>6, <1>7, <2>1, <2>2 DEF TOTAL_TLB_ENTRIES
  <2>4. QED
    BY <1>1, <1>2, <1>3, <2>3 DEF TypeOK, Regions, ConfRecord, TOTAL_TLB_ENTRIES
<1>9. \A n \in 1 .. Len(confs') : IsConf(port', confs'[n])
  <2>1. \A n \in 1 .. N : IsConf(port, confs[n])
    BY DEF MapInv, N
  <2> SUFFICES ASSUME NEW n \in 1 .. N + 1 PROVE IsConf(port, confs'[n])
    BY <1>1, <1>6
  <2>2. n \in 1 .. N \/ n = N + 1
    BY <1>5
  <2>3. QED
    BY <1>4, <1>6, <2>1, <2>2
<1>10. PICK off : Loaded(off)
  BY DEF MapInv
<1>11. /\ off \in [0 .. N -> Nat] /\ off[0] = 0 /\ off[N] = total_tlb_entries
       /\ tlbindex = off[created]
       /\ \A n \in 1 .. N : off[n] = off[n - 1] + confs[n].num_tlb_entries
       /\ \A m, n \in 0 .. N : m <= n => off[m] <= off[n]
  BY <1>10 DEF Loaded, N
<1>12. PICK next \in [0 .. N + 1 -> Nat] :
         /\ \A n \in 0 .. N : next[n] = off[n] /\ off[n] \in Nat
         /\ next[N + 1] = off[N] + num /\ off[N] \in Nat
  <2> DEFINE f == [n \in 0 .. N + 1 |-> IF n <= N THEN off[n] ELSE off[N] + num]
  <2>1. f \in [0 .. N + 1 -> Nat]
    BY <1>5, <1>11
  <2>2. /\ \A n \in 0 .. N : f[n] = off[n] /\ off[n] \in Nat
        /\ f[N + 1] = off[N] + num /\ off[N] \in Nat
    BY <1>5, <1>11
  <2>3. QED
    BY <2>1, <2>2
<1>13. Loaded(next)'
  <2>1. next \in [0 .. Len(confs') -> Nat]
    BY <1>6, <1>12
  <2>2. next[0] = 0 /\ next[Len(confs')] = total_tlb_entries'
    BY <1>1, <1>5, <1>6, <1>11, <1>12
  <2>3. tlbindex' = next[created']
    BY <1>1, <1>7, <1>11, <1>12
  <2>4. ASSUME NEW n \in 1 .. N + 1
        PROVE  next[n] = next[n - 1] + confs'[n].num_tlb_entries
    <3>1. CASE n \in 1 .. N
      <4>1. n - 1 \in 0 .. N /\ n \in 0 .. N
        BY <1>5, <3>1
      <4>2. QED
        BY <1>6, <1>11, <1>12, <3>1, <4>1
    <3>2. CASE n = N + 1
      <4>1. n - 1 = N /\ N \in 0 .. N
        BY <1>5, <3>2
      <4>2. QED
        BY <1>4, <1>6, <1>12, <3>2, <4>1
    <3>3. QED
      BY <1>5, <3>1, <3>2
  <2>5. ASSUME NEW m \in 0 .. N + 1, NEW n \in 0 .. N + 1, m <= n
        PROVE  next[m] <= next[n]
    <3>1. CASE n \in 0 .. N
      <4>1. m \in 0 .. N
        BY <1>5, <2>5, <3>1
      <4>2. QED
        BY <1>11, <1>12, <2>5, <3>1, <4>1
    <3>2. CASE n = N + 1 /\ m \in 0 .. N
      <4>1. N \in 0 .. N /\ m <= N
        BY <1>5, <3>2
      <4>2. off[m] <= off[N] /\ off[m] \in Nat
        BY <1>11, <1>12, <3>2, <4>1
      <4>3. QED
        BY <1>5, <1>12, <3>2, <4>2
    <3>3. CASE m = N + 1 /\ n = N + 1
      BY <1>5, <1>12, <3>3
    <3>4. QED
      BY <1>5, <2>5, <3>1, <3>2, <3>3
  <2>6. ASSUME NEW n \in 1 .. created, NEW k \in 1 .. confs'[n].num_tlb_entries,
               next[n - 1] + k - 1 # HYPERCALL_INDEX
        PROVE  tlb[next[n - 1] + k - 1] = Written(n, confs'[n].tlb[k])
    <3>1. n \in 1 .. N /\ n - 1 \in 0 .. N
      BY <1>5, <1>7
    <3>2. confs'[n] = confs[n] /\ next[n - 1] = off[n - 1]
      BY <1>6, <1>12, <3>1
    <3>3. QED
      BY <1>10, <2>6, <3>2 DEF Loaded
  <2>7. ASSUME NEW j \in DOMAIN tlb, tlb[j].guest # 0
        PROVE  /\ tlb[j].guest \in 1 .. created
               /\ \E k \in 1 .. confs'[tlb[j].guest].num_tlb_entries :
                    tlb[j] = Written(tlb[j].guest, confs'[tlb[j].guest].tlb[k])
    <3>1. /\ tlb[j].guest \in 1 .. created
          /\ \E k \in 1 .. confs[tlb[j].guest].num_tlb_entries :
               tlb[j] = Written(tlb[j].guest, confs[tlb[j].guest].tlb[k])
      BY <1>10, <2>7 DEF Loaded
    <3>2. tlb[j].guest \in 1 .. N
      BY <1>5, <1>7, <3>1
    <3>3. QED
      BY <1>6, <3>1, <3>2
  <2>8. QED
    BY <1>1, <1>6, <2>1, <2>2, <2>3, <2>4, <2>5, <2>6, <2>7 DEF Loaded, Written
<1>14. QED
  BY <1>3, <1>8, <1>9, <1>13 DEF MapInv

TLBRow == [guest : Nat, page : PageSizes, lo0 : Nat, lo1 : Nat, hi : Nat]

LEMMA WrittenType ==
  ASSUME NEW g \in Nat, NEW e \in TLBEntry
  PROVE  Written(g, e) \in TLBRow
<1>1. e.page \in PageSizes /\ e.lo0 \in Nat /\ e.lo1 \in Nat /\ e.hi \in Nat
  BY DEF TLBEntry
<1>2. e.hi - (e.hi % 2) \in Nat
  BY <1>1
<1>3. QED
  BY <1>1, <1>2 DEF Written, TLBRow

LEMMA CreateVMKeepsMaps ==
  ASSUME MapInv, CreateVM
  PROVE  MapInv'
<1> DEFINE id == created + 1
           N == Len(confs)
           num == confs[id].num_tlb_entries
           top == TOTAL_TLB_ENTRIES[port]
<1>1. /\ phase = "booting" /\ created < N
      /\ tlb' = [i \in DOMAIN tlb |->
                   IF i \in tlbindex .. tlbindex + num - 1
                     THEN Written(id, confs[id].tlb[i - tlbindex + 1])
                     ELSE tlb[i]]
      /\ tlbindex' = tlbindex + num /\ created' = id
      /\ phase' \in {"booting", "running"}
      /\ UNCHANGED <<port, confs, vm_data_inter_addr, vm_code_inter_addr,
                     total_tlb_entries, mapped>>
  BY DEF CreateVM, generator
<1>2. Regions /\ TypeOK /\ \A n \in 1 .. N : IsConf(port, confs[n])
  BY DEF MapInv
<1>3. Regions'
  BY <1>1, <1>2 DEF Regions
<1>4. PICK off : Loaded(off)
  BY DEF MapInv
<1>5. /\ N \in Nat /\ created \in 0 .. N
      /\ total_tlb_entries \in Nat /\ total_tlb_entries <= top
      /\ DOMAIN tlb = 0 .. top /\ tlb \in [0 .. top -> TLBRow]
      /\ top \in Nat
  <2>1. top \in Nat
    BY <1>2, LayoutAssumption DEF Regions, TOTAL_TLB_ENTRIES
  <2>2. QED
    BY <1>2, <2>1 DEF TypeOK, TLBRow
<1>6. id \in 1 .. N /\ id - 1 = created /\ id # 0
  BY <1>1, <1>5
<1>7. num \in Nat /\ confs[id].tlb \in Seq(TLBEntry) /\ Len(confs[id].tlb) = num
  <2>1. IsConf(port, confs[id])
    BY <1>2, <1>6
  <2>2. QED
    BY <1>2, <1>6, <2>1, ConfRecords DEF IsConf
<1>8. /\ \A n \in 0 .. N : off[n] \in Nat /\ off[n] <= total_tlb_entries
      /\ \A m, n \in 0 .. N : m <= n => off[m] <= off[n]
      /\ \A n \in 1 .. N : off[n] = off[n - 1] + confs[n].num_tlb_entries
      /\ tlbindex = off[created] /\ off[id] = off[created] + num
  <2>1. N \in 0 .. N /\ off[N] = total_tlb_entries /\ off \in [0 .. N -> Nat]
    BY <1>4, <1>5 DEF Loaded
  <2>2. /\ \A m, n \in 0 .. N : m <= n => off[m] <= off[n]
        /\ tlbindex = off[created]
        /\ \A n \in 1 .. N : off[n] = off[n - 1] + confs[n].num_tlb_entries
    BY <1>4 DEF Loaded
  <2>3. \A n \in 0 .. N : off[n] <= total_tlb_entries
    BY <1>5, <2>1, <2>2
  <2>4. off[id] = off[id - 1] + num
    BY <1>6, <2>2
  <2>5. QED
    BY <1>6, <2>1, <2>2, <2>3, <2>4
<1>9. \A n \in 1 .. N : confs[n].num_tlb_entries \in Nat
  BY <1>2, ConfRecords
<1> HIDE DEF id, N, num, top
<1>10. tlbindex \in Nat /\ tlbindex + num <= total_tlb_entries
  BY <1>5, <1>6, <1>8 DEF id
<1>11. TypeOK'
  <2>1. ASSUME NEW i \in 0 .. top PROVE tlb'[i] \in TLBRow
    <3>1. CASE i \in tlbindex .. tlbindex + num - 1
      <4>1. i - tlbindex + 1 \in 1 .. num
        BY <1>7, <1>10, <3>1
      <4>2. confs[id].tlb[i - tlbindex + 1] \in TLBEntry
        BY <1>7, <4>1
      <4>3. id \in Nat
        BY <1>5, <1>6
      <4>4. tlb'[i] = Written(id, confs[id].tlb[i - tlbindex + 1])
        BY <1>1, <1>5, <3>1
      <4>5. QED
        BY <4>2, <4>3, <4>4, WrittenType
    <3>2. CASE i \notin tlbindex .. tlbindex + num - 1
      BY <1>1, <1>5, <3>2
    <3>3. QED
      BY <3>1, <3>2
  <2>2. tlb' \in [0 .. top -> TLBRow]
    BY <1>1, <1>5, <2>1
  <2>3. /\ created' \in 0 .. Len(confs') /\ tlbindex' \in 0 .. total_tlb_entries'
        /\ total_tlb_entries' \in 0 .. top
    BY <1>1, <1>5, <1>6, <1>7, <1>10 DEF N
  <2>4. TOTAL_TLB_ENTRIES[port'] = top
    BY <1>1 DEF top
  <2>5. QED
    BY <1>1, <1>3, <2>2, <2>3, <2>4 DEF TypeOK, Regions, ConfRecord, TLBRow
<1>12. Loaded(off)'
  <2>1. /\ off \in [0 .. N -> Nat] /\ off[0] = 0 /\ off[N] = total_tlb_entries
    BY <1>4 DEF Loaded, N
  <2>2. tlbindex' = off[created']
    BY <1>1, <1>8
  <2>3. ASSUME NEW n \in 1 .. created', NEW k \in 1 .. confs[n].num_tlb_entries,
               off[n - 1] + k - 1 # HYPERCALL_INDEX
        PROVE  tlb'[off[n - 1] + k - 1] = Written(n, confs[n].tlb[k])
    <3> DEFINE j == off[n - 1] + k - 1
    <3>1. n \in 1 .. N /\ n - 1 \in 0 .. N /\ n \in 0 .. N
      BY <1>1, <1>5, <1>6
    <3>2. /\ confs[n].num_tlb_entries \in Nat /\ off[n - 1] \in Nat
          /\ off[n] \in Nat /\ off[n] <= total_tlb_entries
          /\ off[n] = off[n - 1] + confs[n].num_tlb_entries
      BY <1>8, <1>9, <3>1
    <3>3. j \in Nat /\ j < off[n] /\ j >= off[n - 1]
      BY <3>2
    <3>4. j \in DOMAIN tlb
      BY <1>5, <3>2, <3>3
    <3>5. CASE n = id
      <4>1. n - 1 = created /\ off[n - 1] = tlbindex /\ confs[n].num_tlb_entries = num
        BY <1>6, <1>8, <3>5 DEF num
      <4>2. j \in tlbindex .. tlbindex + num - 1 /\ j - tlbindex + 1 = k
        BY <1>7, <1>10, <3>3, <4>1
      <4>3. QED
        BY <1>1, <3>4, <3>5, <4>2
    <3>6. CASE n # id
      <4>1. n \in 1 .. created /\ n <= created /\ created \in 0 .. N
        BY <1>1, <1>5, <1>6, <3>6
      <4>2. off[n] <= tlbindex
        BY <1>8, <3>1, <4>1
      <4>3. j \notin tlbindex .. tlbindex + num - 1
        BY <1>7, <1>10, <3>2, <3>3, <4>2
      <4>4. tlb'[j] = tlb[j]
        BY <1>1, <3>4, <4>3
      <4>5. tlb[j] = Written(n, confs[n].tlb[k])
        BY <1>4, <2>3, <4>1 DEF Loaded
      <4>6. QED
        BY <4>4, <4>5
    <3>7. QED
      BY <3>5, <3>6
  <2>4. ASSUME NEW j \in DOMAIN tlb', tlb'[j].guest # 0
        PROVE  /\ tlb'[j].guest \in 1 .. created'
               /\ \E k \in 1 .. confs[tlb'[j].guest].num_tlb_entries :
                    tlb'[j] = Written(tlb'[j].guest, confs[tlb'[j].guest].tlb[k])
    <3>1. j \in DOMAIN tlb
      BY <1>1
    <3>2. CASE j \in tlbindex .. tlbindex + num - 1
      <4>1. tlb'[j] = Written(id, confs[id].tlb[j - tlbindex + 1])
        BY <1>1, <3>1, <3>2
      <4>2. tlb'[j].guest = id
        BY <4>1 DEF Written
      <4>3. j - tlbindex + 1 \in 1 .. num
        BY <1>7, <1>10, <3>2
      <4>4. id \in 1 .. created'
        BY <1>1, <1>5, <1>6
      <4>5. QED
        BY <4>1, <4>2, <4>3, <4>4 DEF num
    <3>3. CASE j \notin tlbindex .. tlbindex + num - 1
      <4>1. tlb'[j] = tlb[j]
        BY <1>1, <3>1, <3>3
      <4>2. /\ tlb[j].guest \in 1 .. created
            /\ \E k \in 1 .. confs[tlb[j].guest].num_tlb_entries :
                 tlb[j] = Written(tlb[j].guest, confs[tlb[j].guest].tlb[k])
        BY <1>4, <2>4, <3>1, <4>1 DEF Loaded
      <4>3. tlb[j].guest \in 1 .. created'
        BY <1>1, <1>5, <4>2 DEF id
      <4>4. QED
        BY <4>1, <4>2, <4>3
    <3>4. QED
      BY <3>2, <3>3
  <2>5. Len(confs') = N /\ total_tlb_entries' = total_tlb_entries /\ confs' = confs
    BY <1>1 DEF N
  <2>6. QED
    BY <1>8, <2>1, <2>2, <2>3, <2>4, <2>5 DEF Loaded
<1>13. \A n \in 1 .. Len(confs') : IsConf(port', confs'[n])
  BY <1>1, <1>2 DEF N
<1>14. QED
  BY <1>3, <1>11, <1>12, <1>13 DEF MapInv

LEMMA MapBufferKeepsMaps ==
  ASSUME MapInv, NEW id \in 1 .. MAX_VMS, NEW b \in Buffers,
         NEW kseg \in {KSEG0, KSEG1}, MapBuffer(id, b, kseg)
  PROVE  MapInv'
<1> DEFINE e == BufferEntry(id, b, kseg)
           top == TOTAL_TLB_ENTRIES[port]
<1>1. /\ phase = "running" /\ id \in 1 .. created
      /\ tlb' = [tlb EXCEPT ![HYPERCALL_INDEX] = Written(0, e)]
      /\ UNCHANGED <<port, phase, confs, vm_data_inter_addr, vm_code_inter_addr,
                     total_tlb_entries, created, tlbindex>>
  BY DEF MapBuffer, generator
<1>2. /\ Regions /\ TypeOK
      /\ \A n \in 1 .. Len(confs) : IsConf(port, confs[n])
  BY DEF MapInv
<1>3. Regions'
  BY <1>1, <1>2 DEF Regions
<1>4. \A n \in 1 .. Len(confs') : IsConf(port', confs'[n])
  BY <1>1, <1>2
<1>5. id \in 1 .. Len(confs)
  <2>1. Len(confs) \in Nat /\ created \in 0 .. Len(confs)
    BY <1>2 DEF TypeOK
  <2>2. QED
    BY <1>1, <2>1
<1>6. e \in TLBEntry
  <2> DEFINE ram == confs[id].ram_base
             base == ram - KSEG0
             last == b.page + (b.offset + b.size) \div PAGE
             at == (ram - kseg) % 1048576
  <2>1. b.page \in Nat /\ b.offset \in Nat /\ b.size \in Nat
    <3>1. b \in [page : Nat, offset : 0 .. PAGE - 1, size : Nat \ {0}] /\ PAGE \in Nat
      BY LayoutAssumption DEF PAGE
    <3>2. QED
      BY <3>1
  <2>2. ram \in Nat /\ ram >= RAM_BASE[port]
    BY <1>2, <1>5, ConfTypes DEF Regions, Placed
  <2>3. RAM_BASE[port] \in Nat /\ RAM_BASE[port] >= KSEG0 /\ KSEG0 \in Nat
    BY <1>2, LayoutAssumption DEF Regions, RAM_BASE, KSEG0
  <2> HIDE DEF ram
  <2>4. base \in Nat
    BY <2>2, <2>3
  <2>5. last \in Nat
    BY <2>1, SMTT(20) DEF PAGE
  <2>6. at \in Nat
    BY <2>2, SMTT(20) DEF KSEG0, KSEG1
  <2>7. e = [page |-> 1, lo0 |-> base + b.page,
             lo1 |-> IF b.page < last THEN base + last ELSE 0, hi |-> at]
    BY DEF BufferEntry, ram
  <2>8. 1 \in PageSizes
    BY DEF PageSizes
  <2> HIDE DEF base, last, at, e
  <2>9. base + b.page \in Nat /\ base + last \in Nat
    BY <2>1, <2>4, <2>5
  <2>10. QED
    BY <2>6, <2>7, <2>8, <2>9 DEF TLBEntry
<1> HIDE DEF e
<1>7. Written(0, e) \in TLBRow /\ Written(0, e).guest = 0
  BY <1>6, WrittenType DEF Written
<1>8. /\ tlb \in [0 .. top -> TLBRow] /\ top = TOTAL_TLB_ENTRIES[port']
  BY <1>1, <1>2 DEF TypeOK, TLBRow
<1> HIDE DEF top
<1>9. /\ tlb' \in [0 .. top -> TLBRow] /\ DOMAIN tlb' = DOMAIN tlb
      /\ \A j \in DOMAIN tlb : j # HYPERCALL_INDEX => tlb'[j] = tlb[j]
      /\ \A j \in DOMAIN tlb : tlb'[j].guest # 0 => tlb'[j] = tlb[j]
  BY <1>1, <1>7, <1>8
<1>10. TypeOK'
  BY <1>1, <1>2, <1>8, <1>9 DEF TypeOK, TLBRow
<1>11. PICK off : Loaded(off)
  BY DEF MapInv
<1>12. ASSUME NEW n \in 1 .. created, NEW k \in 1 .. confs[n].num_tlb_entries
       PROVE  off[n - 1] + k - 1 \in DOMAIN tlb
  <2> DEFINE N == Len(confs)
  <2>1. /\ N \in Nat /\ created \in 0 .. N /\ top \in Nat
        /\ total_tlb_entries \in Nat /\ total_tlb_entries <= top
    <3>1. top \in Nat
      BY <1>2, LayoutAssumption DEF Regions, TOTAL_TLB_ENTRIES, top
    <3>2. QED
      BY <1>2, <3>1 DEF TypeOK, top
  <2>2. /\ off \in [0 .. N -> Nat] /\ off[N] = total_tlb_entries
        /\ \A l, m \in 0 .. N : l <= m => off[l] <= off[m]
        /\ \A m \in 1 .. N : off[m] = off[m - 1] + confs[m].num_tlb_entries
    BY <1>11 DEF Loaded
  <2>3. n \in 1 .. N /\ n - 1 \in 0 .. N /\ n \in 0 .. N /\ N \in 0 .. N /\ n <= N
    BY <2>1
  <2>4. confs[n].num_tlb_entries \in Nat
    BY <1>2, <2>3, ConfRecords
  <2>5. /\ off[n - 1] \in Nat /\ off[n] <= total_tlb_entries
        /\ off[n] = off[n - 1] + confs[n].num_tlb_entries
    BY <2>2, <2>3
  <2>6. off[n - 1] + k - 1 \in 0 .. top
    BY <2>1, <2>4, <2>5
  <2>7. QED
    BY <1>8, <2>6
<1>13. Loaded(off)'
  <2>1. ASSUME NEW n \in 1 .. created, NEW k \in 1 .. confs[n].num_tlb_entries,
               off[n - 1] + k - 1 # HYPERCALL_INDEX
        PROVE  tlb'[off[n - 1] + k - 1] = Written(n, confs[n].tlb[k])
    <3>1. tlb[off[n - 1] + k - 1] = Written(n, confs[n].tlb[k])
      BY <1>11, <2>1 DEF Loaded
    <3>2. QED
      BY <1>9, <1>12, <2>1, <3>1
  <2>2. ASSUME NEW j \in DOMAIN tlb', tlb'[j].guest # 0
        PROVE  /\ tlb'[j].guest \in 1 .. created
               /\ \E k \in 1 .. confs[tlb'[j].guest].num_tlb_entries :
                    tlb'[j] = Written(tlb'[j].guest, confs[tlb'[j].guest].tlb[k])
    <3>1. j \in DOMAIN tlb /\ tlb'[j] = tlb[j]
      BY <1>9, <2>2
    <3>2. QED
      BY <1>11, <2>2, <3>1 DEF Loaded
  <2>3. /\ off \in [0 .. Len(confs) -> Nat]
        /\ off[0] = 0 /\ off[Len(confs)] = total_tlb_entries
        /\ tlbindex = off[created]
        /\ \A n \in 1 .. Len(confs) : off[n] = off[n - 1] + confs[n].num_tlb_entries
        /\ \A m, n \in 0 .. Len(confs) : m <= n => off[m] <= off[n]
    BY <1>11 DEF Loaded
  <2>4. /\ confs' = confs /\ created' = created /\ tlbindex' = tlbindex
        /\ total_tlb_entries' = total_tlb_entries
    BY <1>1
  <2>5. QED
    BY <2>1, <2>2, <2>3, <2>4 DEF Loaded
<1>14. QED
  BY <1>3, <1>4, <1>10, <1>13 DEF MapInv

(* A machine finds its RAM, its image and its aligned maps where its file  *)
(* names them, for every board, number of machines and file that fits.     *)
THEOREM MachinesMapped ==
  ASSUME FilesFit
  PROVE  Spec => []MachinesAreMapped
<1>1. Init => MapInv
  BY InitMaps
<1>2. MapInv /\ [Next]_vars => MapInv'
  <2> SUFFICES ASSUME MapInv, [Next]_vars PROVE MapInv'
    OBVIOUS
  <2>1. ASSUME UNCHANGED <<port, confs, vm_data_inter_addr, vm_code_inter_addr,
                           total_tlb_entries, created, tlbindex, tlb>>,
               phase' \in {phase, "failed", "booting"}
        PROVE  MapInv'
    <3>1. Regions'
      BY <2>1 DEF MapInv, Regions
    <3>2. TypeOK'
      BY <2>1 DEF MapInv, TypeOK
    <3>3. PICK off : Loaded(off)
      BY DEF MapInv
    <3>4. Loaded(off)'
      BY <2>1, <3>3 DEF Loaded
    <3>5. \A n \in 1 .. Len(confs') : IsConf(port', confs'[n])
      BY <2>1 DEF MapInv
    <3>6. QED
      BY <3>1, <3>2, <3>4, <3>5 DEF MapInv
  <2>2. ASSUME NEW a \in Asks[port], GenConfVM(a) PROVE MapInv'
    BY <2>2, GenConfVMKeepsMaps
  <2>3. ASSUME NEW a \in Asks[port], RejectVM(a) PROVE MapInv'
    BY <2>1, <2>3 DEF RejectVM, generator
  <2>4. CASE EndOfGeneration
    BY <2>1, <2>4 DEF EndOfGeneration, generator
  <2>5. CASE CreateVM
    BY <2>5, CreateVMKeepsMaps
  <2>6. ASSUME NEW id \in 1 .. MAX_VMS, NEW b \in Buffers, NEW kseg \in {KSEG0, KSEG1},
               MapBuffer(id, b, kseg)
        PROVE  MapInv'
    BY <2>6, MapBufferKeepsMaps
  <2>7. CASE UNCHANGED vars
    BY <2>1, <2>7 DEF vars, generator
  <2>8. QED
    BY <2>2, <2>3, <2>4, <2>5, <2>6, <2>7 DEF Next
<1>3. MapInv => MachinesAreMapped
  BY ImagesMapped, MapsIdentity DEF MapInv, MachinesAreMapped
<1>4. QED
  BY <1>1, <1>2, <1>3, PTL DEF Spec
=============================================================================
