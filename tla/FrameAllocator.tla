--------------------------- MODULE FrameAllocator ---------------------------
(***************************************************************************)
(* Physical frames: the memory map the boot loader reports                 *)
(* (multiboot_shit), the bitmap built from it (setup_bitmap) and the       *)
(* allocator that scans it (alloc_frame).  Addresses are numbers, 32-bit   *)
(* ones below Space; widths and sizes are constants so that a small        *)
(* memory has the shape of the real one.                                   *)
(***************************************************************************)
EXTENDS Naturals, FiniteSets

CONSTANTS PageSize,      \* 4096
          PerByte,       \* pages to a byte of the bitmap: 8
          BitmapSize,    \* bytes of the bitmap: BITMAP_SIZE
          KernelOffset,  \* where the kernel's window begins: 0xC0000000
          kernel_start,  \* value of the linker's symbol: 0x100000
          kernel_end,    \* value of the linker's symbol: KernelOffset + ...
          Low,           \* the bottom that is never handed out: 0x4000
          MemoryMaps     \* memory maps a boot loader may report

Pages == PerByte * BitmapSize
Space == PageSize * Pages

\* uint32_t arithmetic.
U32(x) == x % Space

virt_to_phys(v) == U32(v + Space - KernelOffset)

Region == [base : Nat, length : Nat]

ASSUME SizesAssumption ==
    /\ PageSize \in Nat \ {0} /\ PerByte \in Nat \ {0} /\ BitmapSize \in Nat \ {0}
    /\ KernelOffset \in 0 .. Space - 1
    /\ Low \in 0 .. Space - PageSize

\* The linker script gives kernel_start its physical address, not in the first
\* page and below the kernel's window, and kernel_end its virtual one.
ASSUME KernelAssumption ==
    /\ kernel_start \in PageSize .. KernelOffset - 1
    /\ kernel_end \in KernelOffset + kernel_start .. Space - 1

\* Available memory does not begin inside the last page below 4 GiB, which
\* holds the firmware.
ASSUME MapsAssumption ==
    /\ MemoryMaps \subseteq SUBSET Region
    /\ \A map \in MemoryMaps : \A r \in map :
           r.base \notin Space - PageSize + 1 .. Space - 1

VARIABLES phase,         \* "boot", "bitmap" or "ready"
          free_regions,  \* the available regions found in the memory map
          used,          \* the pages whose bit in the bitmap is 1
          frame,         \* the page alloc_frame returned last; 0 if it found none
          given,         \* history: the pages it has returned
          count          \* history: how many times it has returned one

vars == <<phase, free_regions, used, frame, given, count>>

AllPages == 0 .. Pages - 1

\* boot.c and paging.c leave the bitmap zero until setup_bitmap fills it.
Init ==
    /\ phase = "boot" /\ free_regions = {} /\ used = {}
    /\ frame = 0 /\ given = {} /\ count = 0

\* The other kinds of memory the map names are dropped.
multiboot_shit ==
    /\ phase = "boot"
    /\ \E map \in MemoryMaps : free_regions' = map
    /\ phase' = "bitmap"
    /\ UNCHANGED <<used, frame, given, count>>

(***************************************************************************)
(* set_region_status.  Both sums are uint32_t and wrap.                    *)
(***************************************************************************)
PageOf(address) == address \div PageSize

Reserved(base, length) ==
    PageOf(base) .. PageOf(U32(base + length + PageSize - 1)) - 1

\* Mutant of Freed: a page that is only partly free counts.
FreedPartly(base, length) ==
    PageOf(base) .. PageOf(U32(base + length + PageSize - 1)) - 1
Freed(base, length) ==
    PageOf(U32(base + PageSize - 1)) .. PageOf(U32(base + length)) - 1

\* setup_bitmap cuts a region at 4 GiB.
Cut(r) == IF r.base + r.length > Space THEN Space - r.base ELSE r.length

FreedBy(r) == IF r.base < Space THEN Freed(r.base, U32(Cut(r))) ELSE {}

KernelReserved ==
    LET k_phys_start == virt_to_phys(kernel_start)
        k_phys_end == virt_to_phys(kernel_end)
    IN  Reserved(k_phys_start, U32(k_phys_end + Space - k_phys_start))

setup_bitmap ==
    /\ phase = "bitmap"
    /\ used' = (AllPages \ UNION {FreedBy(r) : r \in free_regions})
                 \cup KernelReserved \cup Reserved(0, Low)
    /\ phase' = "ready"
    /\ UNCHANGED <<free_regions, frame, given, count>>

(***************************************************************************)
(* alloc_frame: the lowest free page from the byte of the bitmap that      *)
(* covers the kernel's end on.  Nothing ever gives a frame back.           *)
(***************************************************************************)
\* Mutant of start_byte: the scan begins at the bottom of memory.
start_byteZero == 0
start_byte == PageOf(virt_to_phys(kernel_end)) \div PerByte

Found == {p \in AllPages \ used : p >= start_byte * PerByte}

Marked(p) == used \cup {p}

Alloc ==
    /\ phase = "ready"
    /\ \E p \in Found :
           /\ \A q \in Found : p <= q
           /\ frame' = p /\ given' = given \cup {p}
           /\ used' = Marked(p)
    /\ count' = count + 1
    /\ UNCHANGED <<phase, free_regions>>

\* The callers do not look at the 0 that says there is none.
AllocNothing ==
    /\ phase = "ready" /\ Found = {}
    /\ frame' = 0
    /\ UNCHANGED <<phase, free_regions, used, given, count>>

alloc_frame == Alloc \/ AllocNothing

Next == multiboot_shit \/ setup_bitmap \/ alloc_frame

Spec == Init /\ [][Next]_vars

(***************************************************************************)
(* Properties.                                                             *)
(***************************************************************************)
TypeOK ==
    /\ phase \in {"boot", "bitmap", "ready"}
    /\ free_regions \subseteq Region
    /\ used \subseteq AllPages /\ given \subseteq AllPages
    /\ frame \in AllPages /\ count \in Nat

\* No frame is handed out twice: as many frames as alloc_frame has returned.
NoFrameTwice == Cardinality(given) = count

\* A page lies wholly inside a region of the memory map.
Inside(p, r) ==
    r.base <= p * PageSize /\ (p + 1) * PageSize <= r.base + r.length

\* The bitmap, for every memory map, against what it should say, without
\* wrapping arithmetic: a page is free exactly when it lies inside an available
\* region, above the low pages, and has not been handed out.  A region that
\* reaches 4 GiB is the exception: its end wraps to 0 and none of it is freed.
\* The pages of the kernel are none: virt_to_phys(&kernel_start) is taken of an
\* address that is physical already, and what gets reserved is empty.
BitmapExact ==
    phase = "ready" =>
        AllPages \ used =
            {p \in AllPages \ given :
                /\ p * PageSize >= Low
                /\ \E r \in free_regions : Inside(p, r) /\ r.base + r.length < Space}

\* The pages the kernel occupies, from 1 MiB to kernel_end.
KernelPages == {p \in AllPages : /\ (p + 1) * PageSize > kernel_start
                                 /\ p * PageSize < kernel_end - KernelOffset}

\* "Kernel must not be allocated".
KernelNotAllocated == given \cap KernelPages = {}

\* What the kernel keeps at fixed addresses below its image, the GDT at
\* 0x50000 and the screen, is not reserved in the bitmap: the scan never
\* gets to it.  The same holds for the first page of the image, where the
\* keyboard buffer is.
FixedNotAllocated ==
    kernel_end - KernelOffset >= kernel_start + PerByte * PageSize =>
        \A p \in given : p * PageSize > kernel_start

(***************************************************************************)
(* The inductive invariant behind them: a frame that was handed out is     *)
(* marked in the bitmap and was found by the scan.                         *)
(***************************************************************************)
GivenMarked ==
    /\ IsFiniteSet(given)
    /\ phase # "ready" => given = {}
    /\ given \subseteq used
    /\ \A p \in given : p >= start_byte * PerByte
    /\ phase # "boot" => free_regions \in MemoryMaps

IInv == TypeOK /\ GivenMarked /\ NoFrameTwice /\ BitmapExact
==============================================================================
