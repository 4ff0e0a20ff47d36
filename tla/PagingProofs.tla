---------------------------- MODULE PagingProofs ----------------------------
(* What FrameAllocator, BootMemory and Paging guarantee for every size of   *)
(* memory and of table, every place of the kernel and its tables, every     *)
(* memory map and every list of tags.                                       *)
EXTENDS Paging, BootMemory, FiniteSetTheorems, SequenceTheorems, WellFoundedInduction, TLAPS

(***************************************************************************)
(* The frame allocator.  Rounding to pages, up and down.                   *)
(***************************************************************************)

\* Division rounds down.
LEMMA DivFacts ==
    ASSUME NEW n \in Nat, NEW d \in Nat, d > 0
    PROVE  n \div d \in Nat /\ (n \div d) * d <= n /\ n < (n \div d) * d + d
<1> QED
  BY SMT

\* A page at or above the quotient rounded up begins at or above n.
LEMMA RoundUp ==
    ASSUME NEW n \in Nat, NEW p \in Nat, NEW d \in Nat, d > 0
    PROVE  p >= (n + d - 1) \div d <=> n <= p * d
<1> QED
  BY SMT

\* A page below the quotient rounded down ends at or below n.
LEMMA RoundDown ==
    ASSUME NEW n \in Nat, NEW p \in Nat, NEW d \in Nat, d > 0
    PROVE  p <= (n \div d) - 1 <=> (p + 1) * d <= n
<1> QED
  BY SMT

\* Rounding down respects the order.
LEMMA DivMonotone ==
    ASSUME NEW m \in Nat, NEW n \in Nat, NEW d \in Nat, d > 0, m <= n
    PROVE  m \div d <= n \div d
<1> QED
  BY SMT

\* Products respect the order.
LEMMA TimesMonotone ==
    ASSUME NEW p \in Nat, NEW q \in Nat, NEW d \in Nat, p <= q
    PROVE  p * d <= q * d
<1> QED
  BY SMT

(***************************************************************************)
(* 32-bit arithmetic.                                                      *)
(***************************************************************************)

\* The sizes are positive numbers.
LEMMA Sizes == /\ PageSize \in Nat /\ PageSize > 0 /\ PerByte \in Nat /\ PerByte > 0
               /\ Pages \in Nat /\ Pages > 0 /\ Space \in Nat /\ Space > 0
               /\ Space = PageSize * Pages /\ Space >= PageSize
<1>1. PageSize \in Nat /\ PageSize > 0 /\ PerByte \in Nat /\ PerByte > 0
      /\ BitmapSize \in Nat /\ BitmapSize > 0
  BY SizesAssumption
<1>2. Pages \in Nat /\ Pages > 0
  BY <1>1, SMT DEF Pages
<1> QED
  BY <1>1, <1>2, SMT DEF Space

\* A number below 2^32 is kept, one below twice that wraps once.
LEMMA Wrapping ==
    ASSUME NEW x \in Nat
    PROVE  /\ x < Space => U32(x) = x
           /\ x >= Space /\ x < Space + Space => U32(x) = x - Space
           /\ U32(x) \in Nat /\ U32(x) < Space
<1> QED
  BY Sizes, SMT DEF U32

\* Every 32-bit address lies in a page that the bitmap has a bit for.
LEMMA PageInBitmap ==
    ASSUME NEW x \in Nat, x < Space PROVE PageOf(x) \in AllPages
<1>1. x < Pages * PageSize
  BY Sizes, SMT
<1>2. PageOf(x) \in Nat /\ PageOf(x) * PageSize <= x
  BY Sizes, DivFacts DEF PageOf
<1>3. PageOf(x) < Pages
  BY <1>1, <1>2, Sizes, SMT
<1> QED
  BY <1>2, <1>3, Sizes DEF AllPages

\* The ranges set_region_status walks lie in the bitmap.
LEMMA RangesInBitmap ==
    ASSUME NEW base \in Nat, NEW length \in Nat, base < Space
    PROVE  Freed(base, length) \subseteq AllPages /\ Reserved(base, length) \subseteq AllPages
<1>1. /\ PageOf(base) \in AllPages
      /\ PageOf(U32(base + PageSize - 1)) \in AllPages
      /\ PageOf(U32(base + length)) \in AllPages
      /\ PageOf(U32(base + length + PageSize - 1)) \in AllPages
  <2>1. base + PageSize - 1 \in Nat /\ base + length \in Nat
        /\ base + length + PageSize - 1 \in Nat
    BY Sizes
  <2> QED
    BY <2>1, Wrapping, PageInBitmap
<1> QED
  BY <1>1, Sizes DEF Freed, Reserved, AllPages

(***************************************************************************)
(* What setup_bitmap computes.                                             *)
(***************************************************************************)

\* Reserving the kernel reserves nothing: virt_to_phys(&kernel_start) is near
\* the top of memory, virt_to_phys(&kernel_end) near the bottom.
LEMMA NothingReserved == KernelReserved = {}
<1> DEFINE ks == virt_to_phys(kernel_start)
           ke == virt_to_phys(kernel_end)
           length == U32(ke + Space - ks)
<1>1. /\ KernelOffset \in Nat /\ kernel_start \in Nat /\ kernel_end \in Nat
      /\ PageSize <= kernel_start /\ kernel_start < KernelOffset
      /\ KernelOffset <= kernel_end /\ kernel_end < Space
  BY Sizes, SizesAssumption, KernelAssumption
<1>2. ks = kernel_start + Space - KernelOffset
  BY <1>1, Sizes, Wrapping DEF virt_to_phys
<1>3. ke = kernel_end - KernelOffset
  BY <1>1, Sizes, Wrapping DEF virt_to_phys
<1>4. length = ke + Space - ks
  BY <1>1, <1>2, <1>3, Sizes, Wrapping
<1> HIDE DEF ks, ke, length
<1>5. /\ ks \in Nat /\ ke \in Nat /\ ks + length + PageSize - 1 = Space + (ke + PageSize - 1)
      /\ ke + PageSize - 1 \in Nat /\ ke + PageSize - 1 < Space
      /\ ke + PageSize - 1 <= ks
  BY <1>1, <1>2, <1>3, <1>4, Sizes
<1>6. U32(ks + length + PageSize - 1) = ke + PageSize - 1
  BY <1>5, Sizes, Wrapping
<1>7. PageOf(ke + PageSize - 1) <= PageOf(ks)
  BY <1>5, Sizes, DivMonotone DEF PageOf
<1>8. PageOf(ks) \in Nat /\ PageOf(ke + PageSize - 1) \in Nat
  BY <1>5, Sizes, DivFacts DEF PageOf
<1>9. Reserved(ks, length) = {}
  BY <1>6, <1>7, <1>8 DEF Reserved
<1> QED
  BY <1>9 DEF KernelReserved, ks, ke, length

\* Reserving the bottom reserves the pages that begin below Low.
LEMMA BottomReserved ==
    ASSUME NEW p \in AllPages
    PROVE  p \in Reserved(0, Low) <=> p * PageSize < Low
<1>1. Low \in Nat /\ Low + PageSize - 1 \in Nat /\ Low + PageSize - 1 < Space /\ p \in Nat
  BY Sizes, SizesAssumption DEF AllPages
<1>2. U32(0 + Low + PageSize - 1) = Low + PageSize - 1
  BY <1>1, Wrapping
<1>3. PageOf(0) = 0
  BY Sizes, SMT DEF PageOf
<1>4. PageOf(Low + PageSize - 1) \in Nat
  BY <1>1, Sizes, DivFacts DEF PageOf
<1>5. p >= PageOf(Low + PageSize - 1) <=> Low <= p * PageSize
  BY <1>1, Sizes, RoundUp DEF PageOf
<1>6. p * PageSize \in Nat
  BY <1>1, Sizes, SMT
<1> QED
  BY <1>1, <1>2, <1>3, <1>4, <1>5, <1>6 DEF Reserved

\* A region of a memory map frees the pages that lie inside it, and none when
\* it reaches the end of the 32-bit space.
LEMMA RegionFreed ==
    ASSUME NEW r \in Region, r.base \notin Space - PageSize + 1 .. Space - 1,
           NEW p \in AllPages
    PROVE  p \in FreedBy(r) <=> Inside(p, r) /\ r.base + r.length < Space
<1>1. r.base \in Nat /\ r.length \in Nat /\ p \in Nat
  BY DEF Region, AllPages
<1>2. CASE r.base >= Space
  BY <1>1, <1>2, Sizes DEF FreedBy
<1>3. CASE r.base < Space
  <2>1. /\ r.base + PageSize - 1 \in Nat /\ r.base + PageSize - 1 < Space
        /\ U32(r.base + PageSize - 1) = r.base + PageSize - 1
    BY <1>1, <1>3, Sizes, Wrapping
  <2>2. PageOf(r.base + PageSize - 1) \in Nat
    BY <2>1, Sizes, DivFacts DEF PageOf
  <2>3. CASE r.base + r.length >= Space
    <3>1. U32(r.base + U32(Cut(r))) = 0
      <4>1. Cut(r) = Space - r.base
        BY <1>1, <1>3, <2>3, Sizes DEF Cut
      <4>2. CASE r.base = 0
        <5>1. U32(Cut(r)) = 0
          BY <4>1, <4>2, Sizes, Wrapping
        <5> QED
          BY <4>2, <5>1, Sizes, Wrapping
      <4>3. CASE r.base > 0
        <5>1. U32(Cut(r)) = Space - r.base
          BY <1>1, <1>3, <4>1, <4>3, Sizes, Wrapping
        <5> QED
          BY <1>1, <1>3, <5>1, Sizes, Wrapping
      <4> QED
        BY <1>1, <4>2, <4>3
    <3>2. PageOf(0) = 0
      BY Sizes, SMT DEF PageOf
    <3>3. Freed(r.base, U32(Cut(r))) = {}
      BY <2>1, <2>2, <3>1, <3>2 DEF Freed
    <3> QED
      BY <1>1, <1>3, <2>3, <3>3, Sizes DEF FreedBy
  <2>4. CASE r.base + r.length < Space
    <3>1. U32(r.base + U32(Cut(r))) = r.base + r.length
      BY <1>1, <2>4, Sizes, Wrapping DEF Cut
    <3>2. p >= PageOf(r.base + PageSize - 1) <=> r.base <= p * PageSize
      BY <1>1, Sizes, RoundUp DEF PageOf
    <3>3. p <= PageOf(r.base + r.length) - 1 <=> (p + 1) * PageSize <= r.base + r.length
      BY <1>1, Sizes, RoundDown DEF PageOf
    <3>4. PageOf(r.base + r.length) \in Nat
      BY <1>1, Sizes, DivFacts DEF PageOf
    <3>5. p \in Freed(r.base, U32(Cut(r))) <=> Inside(p, r)
      BY <1>1, <2>1, <2>2, <3>1, <3>2, <3>3, <3>4 DEF Freed, Inside
    <3> QED
      BY <1>3, <2>4, <3>5 DEF FreedBy
  <2> QED
    BY <1>1, <2>3, <2>4, Sizes
<1> QED
  BY <1>1, <1>2, <1>3, Sizes

\* The bitmap as setup_bitmap leaves it, for every memory map.
LEMMA BitmapBuilt ==
    ASSUME free_regions \in MemoryMaps, setup_bitmap
    PROVE  /\ used' \subseteq AllPages
           /\ AllPages \ used' =
                {p \in AllPages :
                    /\ p * PageSize >= Low
                    /\ \E r \in free_regions :
                           Inside(p, r) /\ r.base + r.length < Space}
<1>1. used' = (AllPages \ UNION {FreedBy(r) : r \in free_regions})
                \cup Reserved(0, Low)
  BY NothingReserved DEF setup_bitmap
<1>2. Reserved(0, Low) \subseteq AllPages
  BY Sizes, SizesAssumption, RangesInBitmap
<1>3. ASSUME NEW r \in free_regions
      PROVE  r \in Region /\ r.base \notin Space - PageSize + 1 .. Space - 1
  BY MapsAssumption
<1>4. ASSUME NEW p \in AllPages
      PROVE  p \notin used' <=>
                /\ p * PageSize >= Low
                /\ \E r \in free_regions : Inside(p, r) /\ r.base + r.length < Space
  <2>1. p \in UNION {FreedBy(r) : r \in free_regions} <=>
          \E r \in free_regions : Inside(p, r) /\ r.base + r.length < Space
    BY <1>3, RegionFreed
  <2>2. p * PageSize \in Nat /\ Low \in Nat
    BY Sizes, SizesAssumption, SMT DEF AllPages
  <2>3. p \notin Reserved(0, Low) <=> p * PageSize >= Low
    BY <2>2, BottomReserved
  <2> QED
    BY <1>1, <2>1, <2>3
<1> QED
  BY <1>1, <1>2, <1>4

(***************************************************************************)
(* The invariant.                                                          *)
(***************************************************************************)

\* At boot nothing is handed out.
LEMMA InitIInv == Init => IInv
<1> SUFFICES ASSUME Init PROVE IInv
  OBVIOUS
<1> USE DEF Init
<1>1. TypeOK
  BY Sizes DEF TypeOK, AllPages
<1>2. IsFiniteSet({}) /\ Cardinality({}) = 0
  BY FS_EmptySet
<1>3. GivenMarked /\ NoFrameTwice /\ BitmapExact
  BY <1>2 DEF GivenMarked, NoFrameTwice, BitmapExact
<1> QED
  BY <1>1, <1>3 DEF IInv

\* The boot's two steps.
LEMMA BootIInv == IInv /\ (multiboot_shit \/ setup_bitmap) => IInv'
<1> SUFFICES ASSUME IInv, multiboot_shit \/ setup_bitmap PROVE IInv'
  OBVIOUS
<1> USE DEF IInv
<1>1. CASE multiboot_shit
  BY <1>1, MapsAssumption
  DEF multiboot_shit, TypeOK, GivenMarked, NoFrameTwice, BitmapExact
<1>2. CASE setup_bitmap
  <2>1. /\ phase = "bitmap" /\ phase' = "ready" /\ given = {}
        /\ free_regions \in MemoryMaps
        /\ UNCHANGED <<free_regions, frame, given, count>>
    BY <1>2 DEF setup_bitmap, GivenMarked
  <2>2. BitmapExact' /\ used' \subseteq AllPages
    BY <1>2, <2>1, BitmapBuilt DEF BitmapExact
  <2>3. TypeOK' /\ GivenMarked' /\ NoFrameTwice'
    BY <2>1, <2>2 DEF TypeOK, GivenMarked, NoFrameTwice
  <2> QED
    BY <2>2, <2>3
<1> QED
  BY <1>1, <1>2

\* alloc_frame.
LEMMA AllocIInv == IInv /\ alloc_frame => IInv'
<1> SUFFICES ASSUME IInv, alloc_frame PROVE IInv'
  OBVIOUS
<1> USE DEF IInv
<1>1. CASE AllocNothing
  BY <1>1, Sizes
  DEF AllocNothing, TypeOK, GivenMarked, NoFrameTwice, BitmapExact, AllPages
<1>2. CASE Alloc
  <2>1. PICK p \in Found : /\ frame' = p /\ given' = given \cup {p}
                           /\ used' = used \cup {p}
    BY <1>2 DEF Alloc, Marked
  <2>2. /\ phase = "ready" /\ phase' = phase /\ count' = count + 1
        /\ free_regions' = free_regions
    BY <1>2 DEF Alloc
  <2>3. p \in AllPages /\ p \notin used /\ p \notin given /\ p >= start_byte * PerByte
    BY DEF Found, GivenMarked
  <2>4. TypeOK'
    BY <2>1, <2>2, <2>3 DEF TypeOK
  <2>5. IsFiniteSet(given') /\ Cardinality(given') = Cardinality(given) + 1
    BY <2>1, <2>3, FS_AddElement DEF GivenMarked
  <2>6. GivenMarked' /\ NoFrameTwice'
    BY <2>1, <2>2, <2>3, <2>5 DEF GivenMarked, NoFrameTwice
  <2>7. BitmapExact'
    BY <2>1, <2>2, <2>3 DEF BitmapExact
  <2> QED
    BY <2>4, <2>6, <2>7
<1> QED
  BY <1>1, <1>2 DEF alloc_frame

\* IInv is inductive.
LEMMA StepIInv == IInv /\ [Next]_vars => IInv'
<1>1. IInv /\ UNCHANGED vars => IInv'
  BY DEF vars, IInv, TypeOK, GivenMarked, NoFrameTwice, BitmapExact
<1> QED
  BY <1>1, BootIInv, AllocIInv DEF Next

\* Every reachable state satisfies IInv.
THEOREM Inductive == Spec => []IInv
<1> QED
  BY InitIInv, StepIInv, PTL DEF Spec

(***************************************************************************)
(* The theorems.                                                           *)
(***************************************************************************)

\* set_region_status and alloc_frame never touch a bit outside the bitmap.
THEOREM TypeCorrect == Spec => []TypeOK
<1>1. IInv => TypeOK
  BY DEF IInv
<1> QED
  BY <1>1, Inductive, PTL

\* No frame is handed out twice.
THEOREM Unique == Spec => []NoFrameTwice
<1>1. IInv => NoFrameTwice
  BY DEF IInv
<1> QED
  BY <1>1, Inductive, PTL

\* For every memory map the bitmap says free exactly of the pages it should:
\* the 32-bit arithmetic of set_region_status is right but for regions that
\* reach 4 GiB, and the kernel's pages are not reserved.
THEOREM Exact == Spec => []BitmapExact
<1>1. IInv => BitmapExact
  BY DEF IInv
<1> QED
  BY <1>1, Inductive, PTL

\* The image's end begins a byte of the bitmap.
Aligned == start_byte * PerByte * PageSize = kernel_end - KernelOffset

\* No frame of the kernel was handed out when its end begins a byte of the
\* bitmap.
LEMMA KernelApart == ASSUME Aligned, IInv PROVE KernelNotAllocated
<1> SUFFICES ASSUME NEW p \in given, p \in KernelPages PROVE FALSE
  BY DEF KernelNotAllocated
<1>1. start_byte \in Nat
  <2>1. virt_to_phys(kernel_end) \in Nat
    BY Sizes, SizesAssumption, KernelAssumption, Wrapping DEF virt_to_phys
  <2>2. PageOf(virt_to_phys(kernel_end)) \in Nat
    BY <2>1, Sizes, DivFacts DEF PageOf
  <2> QED
    BY <2>2, Sizes, DivFacts DEF start_byte
<1>2. start_byte * PerByte \in Nat /\ start_byte * PerByte <= p /\ p \in Nat
  BY <1>1, Sizes, SMT DEF IInv, GivenMarked, KernelPages, AllPages
<1>3. (start_byte * PerByte) * PageSize <= p * PageSize
  BY <1>2, Sizes, TimesMonotone
<1>4. p * PageSize < kernel_end - KernelOffset
  BY DEF KernelPages
<1>5. /\ p * PageSize \in Nat /\ kernel_end \in Nat /\ KernelOffset \in Nat
  BY <1>2, Sizes, SizesAssumption, KernelAssumption, SMT
<1> QED
  BY <1>3, <1>4, <1>5 DEF Aligned

\* The kernel's frames are safe when its end begins a byte of the bitmap, and
\* only the place where the scan begins makes them so.
THEOREM KernelSafe == ASSUME Aligned PROVE Spec => []KernelNotAllocated
<1> QED
  BY KernelApart, Inductive, PTL

\* What is at fixed places below the image, and the keyboard buffer in its
\* first page, is never handed out, although the bitmap says it is free.
THEOREM FixedSafe == Spec => []FixedNotAllocated
<1>1. IInv => FixedNotAllocated
  <2> DEFINE end == kernel_end - KernelOffset
             q == PageOf(virt_to_phys(kernel_end))
  <2> SUFFICES ASSUME IInv, end >= kernel_start + PerByte * PageSize, NEW p \in given
               PROVE  p * PageSize > kernel_start
    BY DEF FixedNotAllocated
  <2>1. virt_to_phys(kernel_end) = end /\ end \in Nat /\ kernel_start \in Nat
    BY Sizes, SizesAssumption, KernelAssumption, Wrapping DEF virt_to_phys
  <2>2. q \in Nat /\ end < q * PageSize + PageSize
    BY <2>1, Sizes, DivFacts DEF PageOf
  <2>3. start_byte \in Nat /\ q < start_byte * PerByte + PerByte
    BY <2>2, Sizes, DivFacts DEF start_byte
  <2>4. start_byte * PerByte \in Nat /\ start_byte * PerByte <= p /\ p \in Nat
    BY <2>3, Sizes, SMT DEF IInv, GivenMarked, TypeOK, AllPages
  <2>5. q + 1 <= p + PerByte
    BY <2>2, <2>3, <2>4, Sizes
  <2>6. (q + 1) * PageSize <= (p + PerByte) * PageSize
    BY <2>2, <2>4, <2>5, Sizes, TimesMonotone
  <2> HIDE DEF end, q
  <2>7. /\ (q + 1) * PageSize = q * PageSize + PageSize
        /\ (p + PerByte) * PageSize = p * PageSize + PerByte * PageSize
        /\ q * PageSize \in Nat /\ p * PageSize \in Nat /\ PerByte * PageSize \in Nat
    BY <2>2, <2>4, Sizes, SMT
  <2> QED
    BY <2>1, <2>2, <2>6, <2>7, Sizes DEF end
<1> QED
  BY <1>1, Inductive, PTL

(***************************************************************************)
(* Paging.                                                                 *)
(***************************************************************************)

(***************************************************************************)
(* Numbers.                                                                *)
(***************************************************************************)

\* A set of numbers has a least one.
LEMMA Least ==
  ASSUME NEW T, T \subseteq Nat, T # {}
  PROVE  \E x \in T : \A y \in T : x <= y
<1> DEFINE R == {p \in Nat \X Nat : p[1] < p[2]}
<1>1. OpToRel(<, Nat) = R
  BY DEF OpToRel
<1>2. IsWellFoundedOn(R, Nat)
  BY <1>1, NatLessThanWellFounded
<1>3. ASSUME NEW x \in Nat, NEW y \in Nat, y < x PROVE <<y, x>> \in R
  BY <1>3
<1> HIDE DEF R
<1>4. PICK x \in T : \A y \in T : ~(<<y, x>> \in R)
  BY <1>2, WFMin
<1>5. ASSUME NEW y \in T PROVE x <= y
  <2>1. x \in Nat /\ y \in Nat
    OBVIOUS
  <2>2. ~(y < x)
    BY <1>3, <1>4, <2>1
  <2> QED
    BY <2>1, <2>2
<1> QED
  BY <1>5

\* A set of numbers up to n has a greatest one.
LEMMA Greatest ==
  ASSUME NEW n \in Nat, NEW T, T \subseteq 1 .. n, T # {}
  PROVE  \E x \in T : \A y \in T : y <= x
<1> DEFINE U == {w \in 0 .. n : n - w \in T}
<1>1. PICK t \in T : TRUE
  OBVIOUS
<1>2. t \in 1 .. n /\ n - t \in 0 .. n /\ n - (n - t) = t
  OBVIOUS
<1>3. U \subseteq Nat /\ n - t \in U
  BY <1>2
<1>4. PICK u \in U : \A w \in U : u <= w
  BY <1>3, Least
<1>5. u \in 0 .. n /\ n - u \in T
  OBVIOUS
<1>6. ASSUME NEW y \in T PROVE y <= n - u
  <2>1. y \in 1 .. n /\ n - y \in 0 .. n /\ n - (n - y) = y
    OBVIOUS
  <2>2. n - y \in U
    BY <2>1
  <2>3. u <= n - y
    BY <1>4, <2>2
  <2> HIDE DEF U
  <2> QED
    BY <1>5, <2>1, <2>3
<1> QED
  BY <1>5, <1>6

\* The sizes of the tables.
LEMMA TableSizes ==
  /\ Entries \in Nat /\ Entries > 0 /\ WindowDir \in Nat /\ Window \in Nat
  /\ Window = WindowDir * Entries /\ Pages = Entries * Entries /\ KernelOffset = PageSize * Window
  /\ KernelTables \in Nat /\ KernelTables > 1 /\ UserTables \in Nat /\ UserTables > 0
  /\ UserTables < WindowDir /\ WindowDir + KernelTables < Entries
  /\ AllTables = KernelTables + UserTables /\ AllTables \in Nat
<1>1. Entries \in Nat /\ Entries > 0 /\ KernelTables \in Nat /\ KernelTables > 1
      /\ UserTables \in Nat /\ UserTables > 0 /\ UserTables < WindowDir
      /\ WindowDir + KernelTables < Entries /\ Pages = Entries * Entries
      /\ KernelOffset = PageSize * Window
  BY TablesAssumption
<1>2. PageSize * Entries \in Nat /\ PageSize * Entries > 0 /\ KernelOffset \in Nat
  BY <1>1, Sizes, SizesAssumption, SMT
<1>3. WindowDir \in Nat
  BY <1>2, DivFacts DEF WindowDir
<1>4. Window \in Nat
  BY <1>1, <1>3, SMT DEF Window
<1> QED
  BY <1>1, <1>3, <1>4 DEF Window, AllTables

\* A page is an entry of a table, and every entry of one is a page.
LEMMA Split ==
  ASSUME NEW v \in AllPages
  PROVE  /\ v \div Entries \in Index /\ v % Entries \in Index
         /\ v = (v \div Entries) * Entries + (v % Entries)
<1>1. v \in Nat /\ v < Entries * Entries /\ Entries \in Nat /\ Entries > 0
  BY TableSizes, Sizes DEF AllPages
<1>2. v \div Entries \in Nat /\ v % Entries \in 0 .. Entries - 1
      /\ v = (v \div Entries) * Entries + (v % Entries)
  BY <1>1, SMT
<1>3. v \div Entries < Entries
  <2> DEFINE q == v \div Entries
  <2>1. q * Entries <= v /\ q \in Nat
    BY <1>1, DivFacts
  <2> HIDE DEF q
  <2>2. q >= Entries => q * Entries >= Entries * Entries
    BY <1>1, <2>1, TimesMonotone
  <2>3. q * Entries \in Nat
    BY <1>1, <2>1, SMT
  <2>4. q < Entries
    BY <1>1, <2>1, <2>2, <2>3
  <2> QED
    BY <2>4 DEF q
<1> QED
  BY <1>1, <1>2, <1>3 DEF Index

LEMMA Join ==
  ASSUME NEW d \in Index, NEW i \in Index
  PROVE  /\ d * Entries + i \in AllPages
         /\ (d * Entries + i) \div Entries = d /\ (d * Entries + i) % Entries = i
<1>1. /\ d \in Nat /\ d <= Entries - 1 /\ i \in Nat /\ i <= Entries - 1
      /\ Entries \in Nat /\ Entries > 0
  BY TableSizes DEF Index
<1>2. d * Entries <= (Entries - 1) * Entries /\ d * Entries \in Nat
  BY <1>1, TimesMonotone, SMT
<1>3. (Entries - 1) * Entries = Entries * Entries - Entries /\ Entries * Entries \in Nat
  BY <1>1, SMT
<1>4. d * Entries + i \in AllPages
  BY <1>1, <1>2, <1>3, TableSizes DEF AllPages
<1>5. (d * Entries + i) \div Entries = d /\ (d * Entries + i) % Entries = i
  <2> DEFINE v == d * Entries + i
  <2>1. v \in Nat /\ v \div Entries \in Nat /\ v % Entries \in 0 .. Entries - 1
        /\ v = (v \div Entries) * Entries + (v % Entries)
    BY <1>1, <1>2, SMT
  <2> DEFINE q == v \div Entries
             r == v % Entries
  <2>2. v = q * Entries + r /\ q \in Nat /\ r \in Nat /\ r < Entries
    BY <1>1, <2>1
  <2>3. d * Entries + i = q * Entries + r
    BY <2>2
  <2> HIDE DEF q, r, v
  <2>4. q * Entries \in Nat
    BY <1>1, <2>2, SMT
  <2>5. ~(q >= d + 1)
    <3> SUFFICES ASSUME q >= d + 1 PROVE FALSE
      OBVIOUS
    <3>1. (d + 1) * Entries <= q * Entries /\ (d + 1) * Entries = d * Entries + Entries
      BY <1>1, <2>2, TimesMonotone, SMT
    <3> QED
      BY <1>1, <1>2, <2>2, <2>3, <2>4, <3>1
  <2>6. ~(d >= q + 1)
    <3> SUFFICES ASSUME d >= q + 1 PROVE FALSE
      OBVIOUS
    <3>1. (q + 1) * Entries <= d * Entries /\ (q + 1) * Entries = q * Entries + Entries
      BY <1>1, <2>2, TimesMonotone, SMT
    <3> QED
      BY <1>1, <1>2, <2>2, <2>3, <2>4, <3>1
  <2>7. q = d
    BY <1>1, <2>2, <2>5, <2>6
  <2>8. r = i
    BY <1>1, <1>2, <2>2, <2>3, <2>7
  <2> QED
    BY <2>7, <2>8 DEF q, r, v
<1> QED
  BY <1>4, <1>5
(***************************************************************************)
(* Translation.                                                            *)
(***************************************************************************)

\* How page v translates through the tables in m.
Looked(m, d, i) ==
  LET e == m[Directory][d] IN
  IF e.mode = "absent" THEN Absent
  ELSE IF e.frame \notin DOMAIN m THEN Entry(e.frame, "unknown")
  ELSE LET t == m[e.frame][i] IN
       IF t.mode = "absent" THEN Absent ELSE Entry(t.frame, Both(e.mode, t.mode))

LEMMA TranslateIs ==
  ASSUME NEW v
  PROVE  /\ Translate(v) = Looked(mem, v \div Entries, v % Entries)
         /\ Translate(v)' = Looked(mem', v \div Entries, v % Entries)
  BY DEF Translate, Looked

\* Where the kernel sees a frame that does not wrap.
LEMMA SeenAt ==
  ASSUME NEW f \in AllPages, f < Pages - Window
  PROVE  /\ Seen(f) = Window + f /\ Seen(f) \in AllPages
         /\ Seen(f) \div Entries = WindowDir + (f \div Entries)
         /\ Seen(f) % Entries = f % Entries
         /\ WindowDir + (f \div Entries) \in Index /\ f % Entries \in Index
         /\ f \div Entries \in Nat
<1> DEFINE q == f \div Entries
           r == f % Entries
<1>1. q \in Index /\ r \in Index /\ f = q * Entries + r
  BY Split
<1>2. /\ q \in Nat /\ r \in Nat /\ f \in Nat /\ Window + f \in Nat /\ Window + f < Pages
      /\ Entries \in Nat /\ Pages \in Nat /\ Pages > 0
  BY <1>1, TableSizes, Sizes DEF Index, AllPages
<1>3. Seen(f) = Window + f
  BY <1>2, SMT DEF Seen
<1> HIDE DEF q, r
<1>4. (WindowDir + q) * Entries = WindowDir * Entries + q * Entries /\ q * Entries \in Nat
      /\ WindowDir * Entries \in Nat
  BY <1>2, TableSizes, SMT
<1>5. Window + f = (WindowDir + q) * Entries + r
  BY <1>1, <1>2, <1>4, TableSizes
<1>6. WindowDir + q \in Index
  <2>1. WindowDir + q >= Entries => (WindowDir + q) * Entries >= Entries * Entries
    BY <1>2, TableSizes, TimesMonotone
  <2>2. (WindowDir + q) * Entries \in Nat /\ Entries * Entries = Pages
    BY <1>4, TableSizes
  <2> QED
    BY <1>2, <1>5, <2>1, <2>2, TableSizes DEF Index
<1>7. /\ Window + f \in AllPages
      /\ (Window + f) \div Entries = WindowDir + q /\ (Window + f) % Entries = r
  BY <1>1, <1>5, <1>6, Join
<1> QED
  BY <1>1, <1>2, <1>3, <1>6, <1>7 DEF q, r

\* A frame of the first 4 MiB is seen through the window's first table.
LEMMA SeenFirst ==
  ASSUME NEW f \in AllPages, f < Entries
  PROVE  /\ Seen(f) = Window + f /\ Seen(f) \div Entries = WindowDir /\ Seen(f) % Entries = f
         /\ WindowDir \in Index /\ f \in Index /\ f < Pages - Window
<1>1. /\ WindowDir \in Index /\ f \in Index /\ 0 \in Index
  BY TableSizes DEF Index, AllPages
<1>2. (0 * Entries + f) \div Entries = 0 /\ (0 * Entries + f) % Entries = f /\ 0 * Entries + f = f
  BY <1>1, Join, TableSizes DEF Index
<1>3. f < Pages - Window
  <2>1. WindowDir * Entries + f \in AllPages
    BY <1>1, Join
  <2> QED
    BY <2>1, TableSizes, Sizes DEF AllPages
<1> QED
  BY <1>1, <1>2, <1>3, SeenAt, TableSizes

(***************************************************************************)
(* The image's tables and what alloc_frame gives.                          *)
(***************************************************************************)

\* The image's tables are pages of their own, below where the scan begins.
LEMMA Placed ==
  /\ start_byte \in Nat /\ start_byte * PerByte \in Nat
  /\ OwnTables \subseteq AllPages
  /\ \A f \in OwnTables : f > 0 /\ f < Entries - 1 /\ f < start_byte * PerByte
                          /\ f > Screen /\ f > Gdt
  /\ Screen \in AllPages /\ Gdt \in AllPages /\ Screen < Entries - 1 /\ Gdt < Entries - 1
  /\ Directory # BootTable1 /\ Directory # BootTable2 /\ BootTable1 # BootTable2
<1>1. start_byte \in Nat
  <2>1. virt_to_phys(kernel_end) \in Nat
    BY Sizes, SizesAssumption, KernelAssumption, Wrapping DEF virt_to_phys
  <2>2. PageOf(virt_to_phys(kernel_end)) \in Nat
    BY <2>1, Sizes, DivFacts DEF PageOf
  <2> QED
    BY <2>2, Sizes, DivFacts DEF start_byte
<1>2. start_byte * PerByte \in Nat
  BY <1>1, Sizes, SMT
<1>3. ASSUME NEW f \in OwnTables
      PROVE  /\ f \in AllPages /\ f < Entries - 1 /\ f < start_byte * PerByte
             /\ (f + 1) * PageSize > kernel_start
  <2>1. /\ f \in AllPages /\ f < Entries - 1 /\ f \div PerByte < start_byte
        /\ (f + 1) * PageSize > kernel_start
    BY PlacesAssumption, TablesAssumption DEF OwnTables, KernelPages, start_byte
  <2> DEFINE b == f \div PerByte
  <2>2. b \in Nat /\ f < b * PerByte + PerByte /\ f \in Nat
    BY <2>1, Sizes, DivFacts DEF AllPages
  <2> HIDE DEF b
  <2>3. (b + 1) * PerByte <= start_byte * PerByte
    <3>1. b + 1 <= start_byte
      BY <1>1, <2>1, <2>2 DEF b
    <3> QED
      BY <1>1, <2>2, <3>1, Sizes, TimesMonotone
  <2>4. (b + 1) * PerByte = b * PerByte + PerByte /\ b * PerByte \in Nat
    BY <2>2, Sizes, SMT
  <2> QED
    BY <1>2, <2>1, <2>2, <2>3, <2>4, Sizes
<1>4. kernel_start \in Nat /\ kernel_start >= PageSize
  BY KernelAssumption, Sizes, SizesAssumption
<1>5. ASSUME NEW f \in OwnTables, NEW s \in {Screen, Gdt} PROVE f > s
  <2>1. f \in Nat /\ s \in Nat /\ (s + 1) * PageSize <= kernel_start
        /\ (f + 1) * PageSize > kernel_start
    BY <1>3, PlacesAssumption DEF AllPages
  <2>2. f <= s => (f + 1) * PageSize <= (s + 1) * PageSize
    BY <2>1, Sizes, TimesMonotone
  <2>3. (f + 1) * PageSize \in Nat /\ (s + 1) * PageSize \in Nat
    BY <2>1, Sizes, SMT
  <2> QED
    BY <1>4, <2>1, <2>2, <2>3
<1>6. Screen \in AllPages /\ Gdt \in AllPages
  BY PlacesAssumption
<1>7. Directory \in OwnTables
  BY DEF OwnTables
<1>8. /\ Screen \in Nat /\ Gdt \in Nat /\ \A f \in OwnTables : f \in Nat
  BY <1>3, <1>6 DEF AllPages
<1> QED
  BY <1>1, <1>2, <1>3, <1>5, <1>6, <1>7, <1>8, TableSizes, PlacesAssumption

\* What alloc_frame has given, or may give, is none of them, and not frame 0.
LEMMA GivenApart ==
  ASSUME IInv
  PROVE  \A p \in given \cup Found : p \in AllPages /\ p # 0 /\ p \notin OwnTables
<1>1. ASSUME NEW p \in given \cup Found PROVE p \in AllPages /\ p >= start_byte * PerByte
  BY DEF IInv, TypeOK, GivenMarked, Found
<1>2. Directory \in OwnTables
  BY DEF OwnTables
<1> QED
  BY <1>1, <1>2, Placed DEF AllPages

\* alloc_frame gives a frame that it has not given before; when there is none
\* there will be none.
LEMMA AllocGives ==
  ASSUME IInv, alloc_frame
  PROVE  /\ phase = "ready" /\ phase' = "ready"
         /\ \/ /\ frame' \in Found /\ frame' \notin given /\ given' = given \cup {frame'}
               /\ frame' \in AllPages /\ frame' # 0 /\ frame' \notin OwnTables
            \/ frame' = 0 /\ Found = {} /\ given' = given
         /\ Found = {} => Found' = {}
<1>1. CASE Alloc
  <2>1. PICK p \in Found : frame' = p /\ given' = given \cup {p} /\ used' = Marked(p)
    BY <1>1 DEF Alloc
  <2>2. p \notin given
    BY DEF Found, IInv, GivenMarked
  <2> QED
    BY <1>1, <2>1, <2>2, GivenApart DEF Alloc
<1>2. CASE AllocNothing
  BY <1>2 DEF AllocNothing, Found
<1> QED
  BY <1>1, <1>2 DEF alloc_frame
(***************************************************************************)
(* Filling the tables.                                                     *)
(***************************************************************************)
TableEntries == [frame : AllPages, mode : {"absent", "kernel", "user"}]

\* Before setup_paging fills its tables it sees the frames below 4 MiB, the
\* last of them excepted, and no other.
LEMMA BootReach ==
  ASSUME PIInv, stage = "fill", NEW t \in AllPages
  PROVE  LET s == Translate(Seen(t)) IN
         /\ t < Entries => s = Entry(IF t = Entries - 1 THEN Screen ELSE t, "kernel")
         /\ s.mode = "kernel" => t < Entries
<1> DEFINE v == Seen(t)
           d == v \div Entries
           i == v % Entries
<1>1. /\ DOMAIN mem = OwnTables
      /\ mem[BootTable1] = BootTables[BootTable1] /\ mem[BootTable2] = BootTables[BootTable2]
      /\ \A e \in Index : mem[Directory][e] = BootDir(e)
  BY DEF PIInv, BootStands
<1>2. Pages \in Nat /\ Pages > 0 /\ Window \in Nat /\ t \in Nat /\ t < Pages /\ Window < Pages
  <2>1. WindowDir \in Index /\ 0 \in Index
    BY TableSizes DEF Index
  <2>2. WindowDir * Entries + 0 \in AllPages
    BY <2>1, Join
  <2> QED
    BY <2>2, TableSizes, Sizes DEF AllPages
<1>3. v \in AllPages
  BY <1>2, SMT DEF Seen, AllPages
<1>4. d \in Index /\ i \in Index
  BY <1>3, Split
<1>5. Translate(v) = Looked(mem, d, i)
  BY TranslateIs
<1> HIDE DEF v
<1>6. /\ BootTables[BootTable1][i] = Entry(IF i = Entries - 1 THEN Screen ELSE i, "kernel")
      /\ BootTables[BootTable2][i] = Absent
  BY <1>4, Placed DEF BootTables, BootEntry, OwnTables
<1>7. /\ d = WindowDir => mem[Directory][d] = Entry(BootTable1, "kernel")
      /\ d \in {1, WindowDir + 1} => mem[Directory][d] = Entry(BootTable2, "kernel")
      /\ d \notin {1, WindowDir, WindowDir + 1} => mem[Directory][d] = Absent
  <2>1. WindowDir > 1 /\ 0 # WindowDir
    BY TableSizes
  <2>2. mem[Directory][d] = IF d = 0 THEN Absent ELSE BootEntry(Directory, d)
    BY <1>1, <1>4 DEF BootDir, BootTables, OwnTables
  <2> QED
    BY <2>1, <2>2, Placed, TableSizes DEF BootEntry
<1>8. CASE d = WindowDir
  <2>1. Translate(v) = Entry(IF i = Entries - 1 THEN Screen ELSE i, "kernel")
    BY <1>1, <1>5, <1>6, <1>7, <1>8 DEF Looked, OwnTables, Entry, Both
  <2>2. v = Window + i
    BY <1>3, <1>8, Split, TableSizes
  <2>3. t < Pages - Window
    <3> SUFFICES ASSUME t >= Pages - Window PROVE FALSE
      BY <1>2
    <3>1. v = Window + t - Pages
      <4>1. Window + t - Pages \in Nat /\ Window + t - Pages < Pages
            /\ Window + t = Pages + (Window + t - Pages)
        BY <1>2
      <4>2. \A x \in Nat : x < Pages => (Pages + x) % Pages = x
        BY <1>2, SMT
      <4> QED
        BY <4>1, <4>2 DEF v, Seen
    <3> QED
      BY <1>2, <1>4, <2>2, <3>1 DEF Index
  <2>4. v = Window + t
    BY <2>3, SeenAt DEF v
  <2>5. t = i
    BY <1>2, <1>4, <2>2, <2>4 DEF Index
  <2> QED
    BY <1>4, <2>1, <2>5, TableSizes DEF v, Index, Entry
<1>9. CASE d # WindowDir
  <2>1. Translate(v) = Absent
    BY <1>1, <1>5, <1>6, <1>7, <1>9, Placed DEF Looked, OwnTables, Entry, Absent
  <2>2. ~(t < Entries)
    BY <1>9, SeenFirst DEF v
  <2> QED
    BY <2>1, <2>2 DEF v, Absent
<1> QED
  BY <1>8, <1>9

\* What a table is filled with.
LEMMA FilledHolds ==
  ASSUME NEW n \in 1 .. AllTables
  PROVE  /\ Filled(n) \in [Index -> TableEntries]
         /\ \A i \in Index : Filled(n)[i].mode = "user" => Filled(n)[i].frame >= Entries
<1> SUFFICES ASSUME NEW i \in Index
             PROVE  Filled(n)[i] \in TableEntries
                    /\ (Filled(n)[i].mode = "user" => Filled(n)[i].frame >= Entries)
  BY DEF Filled
<1>1. Filled(n)[i] = IF n <= KernelTables THEN KernelEntry(n, i) ELSE UserEntry(n, i)
  BY DEF Filled
<1>2. CASE n <= KernelTables
  <2>1. n - 1 \in Index
    BY <1>2, TableSizes DEF Index
  <2>2. (n - 1) * Entries + i \in AllPages
    BY <2>1, Join
  <2> QED
    BY <1>1, <1>2, <2>2 DEF KernelEntry, Entry, TableEntries
<1>3. CASE n > KernelTables
  <2>1. n - KernelTables \in Index /\ n - KernelTables >= 1
    BY <1>3, TableSizes DEF Index
  <2>2. (n - KernelTables) * Entries + i \in AllPages
    BY <2>1, Join
  <2>3. (n - KernelTables) * Entries >= Entries
    <3>1. 1 * Entries <= (n - KernelTables) * Entries
      BY <2>1, TableSizes, TimesMonotone DEF Index
    <3> QED
      BY <3>1, TableSizes
  <2>4. (n - KernelTables) * Entries \in Nat /\ i \in Nat
    BY <2>1, TableSizes, SMT DEF Index
  <2> QED
    BY <1>1, <1>3, <2>2, <2>3, <2>4, TableSizes DEF UserEntry, Entry, TableEntries
<1> QED
  BY <1>2, <1>3, TableSizes

\* Where the tables are put in the directory: each at a place of its own.
LEMMA SlotsFacts ==
  ASSUME NEW n \in 1 .. AllTables
  PROVE  /\ Slot(n) \in Index /\ Slot(n) # 0 /\ Slot(n) # Entries - 1
         /\ n <= UserTables => Slot(n) = n /\ Slot(n) < WindowDir
                               /\ Linked(n) = Entry(tables[KernelTables + n], "user")
                               /\ KernelTables + n \in 1 .. AllTables
         /\ n > UserTables => Slot(n) = WindowDir + n - UserTables - 1 /\ Slot(n) >= WindowDir
                              /\ Slot(n) < WindowDir + KernelTables
                              /\ Linked(n) = Entry(tables[n - UserTables], "kernel")
                              /\ n - UserTables \in 1 .. KernelTables
                              /\ n - UserTables \in 1 .. AllTables
         /\ \A m \in 1 .. AllTables : Slot(m) = Slot(n) => m = n
  BY TableSizes DEF Slot, Linked, Index

\* The tables setup_paging has got are frames, and none of the image's.
LEMMA TablesAre ==
  ASSUME PIInv, NEW n \in 1 .. Len(tables)
  PROVE  /\ tables[n] \in AllPages /\ tables[n] \notin OwnTables
         /\ tables[n] # 0 => tables[n] \in given
<1>1. tables[n] \in given \cup {0}
  BY DEF PIInv, TablesGiven
<1>2. 0 \in AllPages /\ 0 \notin OwnTables
  BY Placed, Sizes DEF AllPages
<1> QED
  BY <1>1, <1>2, GivenApart DEF PIInv
(***************************************************************************)
(* The invariant: the boot up to the tables.                               *)
(***************************************************************************)

\* Every step is one of the frame allocator's.
LEMMA KeepsIInv ==
  ASSUME PIInv, [PNext]_allVars PROVE IInv'
<1>1. [Next]_vars
  BY DEF PNext, allVars, Next, MemoryMap, setGdt, BuildBitmap, AllocTable, FillTables,
     FillFaults, LinkTable, LinkItself, MapPage, map_page, MapInTable, MapInNewTable, MapFaults
<1> QED
  BY <1>1, StepIInv DEF PIInv

\* The tables of the image.
LEMMA BootTablesAre ==
  /\ BootTables \in [OwnTables -> [Index -> TableEntries]]
  /\ \A i \in Index : BootTables[BootTable1][i]
                          = Entry(IF i = Entries - 1 THEN Screen ELSE i, "kernel")
  /\ \A i \in Index : BootTables[BootTable2][i] = Absent
  /\ \A i \in Index : BootTables[Directory][i].mode # "user"
  /\ BootTables[Directory][0] = Entry(BootTable1, "kernel")
  /\ BootTables[Directory][WindowDir] = Entry(BootTable1, "kernel")
  /\ BootTables[Directory][1] = Entry(BootTable2, "kernel")
  /\ BootTables[Directory][WindowDir + 1] = Entry(BootTable2, "kernel")
  /\ \A i \in Index \ {0, 1, WindowDir, WindowDir + 1} : BootTables[Directory][i] = Absent
<1>1. ASSUME NEW i \in Index PROVE i \in AllPages /\ 0 \in AllPages
  <2>1. 0 \in Index
    BY TableSizes DEF Index
  <2>2. 0 * Entries + i \in AllPages /\ 0 * Entries + i = i
    BY <2>1, Join, TableSizes DEF Index
  <2> QED
    BY <2>2, Sizes DEF AllPages
<1>2. ASSUME NEW f \in OwnTables, NEW i \in Index PROVE BootEntry(f, i) \in TableEntries
  BY <1>1, Placed DEF BootEntry, Entry, Absent, TableEntries, OwnTables
<1>3. \A f \in OwnTables : \A i \in Index : BootTables[f][i] = BootEntry(f, i)
  BY DEF BootTables
<1>4. 0 \in Index /\ 1 \in Index /\ WindowDir \in Index /\ WindowDir + 1 \in Index
      /\ WindowDir > 1
  BY TableSizes DEF Index
<1>5. BootTables \in [OwnTables -> [Index -> TableEntries]]
  BY <1>2 DEF BootTables
<1>6. \A i \in Index : /\ BootTables[BootTable1][i]
                             = Entry(IF i = Entries - 1 THEN Screen ELSE i, "kernel")
                      /\ BootTables[BootTable2][i] = Absent
  BY <1>3, Placed DEF BootEntry, OwnTables
<1>7. \A i \in Index : BootTables[Directory][i]
                         = IF i \in {0, WindowDir} THEN Entry(BootTable1, "kernel")
                           ELSE IF i \in {1, WindowDir + 1} THEN Entry(BootTable2, "kernel")
                           ELSE Absent
  <2> SUFFICES ASSUME NEW i \in Index
               PROVE  BootEntry(Directory, i)
                         = IF i \in {0, WindowDir} THEN Entry(BootTable1, "kernel")
                           ELSE IF i \in {1, WindowDir + 1} THEN Entry(BootTable2, "kernel")
                           ELSE Absent
    BY <1>3 DEF OwnTables
  <2>1. WindowDir \in Nat /\ WindowDir > 1 /\ Directory # BootTable1
    BY <1>4, Placed, TableSizes
  <2>2. i \in {0, WindowDir} => i \notin {1, WindowDir + 1}
    BY <2>1
  <2> HIDE DEF BootTables
  <2> QED
    BY <2>1, <2>2 DEF BootEntry
<1>8. \A i \in Index : BootTables[Directory][i].mode # "user"
  BY <1>7 DEF Entry, Absent
<1> QED
  BY <1>4, <1>5, <1>6, <1>7, <1>8, TableSizes

LEMMA InitPIInv == PInit => PIInv
<1> SUFFICES ASSUME PInit PROVE PIInv
  OBVIOUS
<1> USE DEF PInit
<1>1. IInv /\ TypeOK
  BY InitIInv DEF IInv
<1>2. tables \in Seq(AllPages) /\ Len(tables) = 0 /\ given = {} /\ phase = "boot"
  BY EmptySeq DEF Init
<1>3. DOMAIN mem = OwnTables /\ OwnTables \subseteq AllPages
  BY Placed DEF BootTables
<1>4. PTypeOK
  BY <1>1, <1>2, <1>3, BootTablesAre, TableSizes DEF PTypeOK, TableEntries
<1>5. Fenced
  BY <1>3, BootTablesAre, Placed DEF Fenced, Entry, Absent, OwnTables
<1>6. BootStands
  BY <1>3, BootTablesAre DEF BootStands, BootDir
<1>7. StagesHold /\ TablesGiven /\ LinksHold /\ RunHolds
  BY <1>2, TableSizes DEF StagesHold, TablesGiven, LinksHold, RunHolds, Runs
<1> QED
  BY <1>1, <1>4, <1>5, <1>6, <1>7 DEF PIInv

\* Up to setup_paging nothing but the GDT's step changes a table.
LEMMA BootPIInv ==
  ASSUME PIInv, MemoryMap \/ setGdt \/ BuildBitmap PROVE PIInv'
<1>1. IInv' /\ TypeOK'
  BY KeepsIInv DEF PNext, IInv
<1>2. UNCHANGED <<tables, linked, given>>
  BY DEF MemoryMap, setGdt, BuildBitmap, multiboot_shit, setup_bitmap, pvars, vars
<1>3. /\ stage \in {"boot", "unmapped"} /\ stage' \in {"boot", "unmapped", "allocate"}
      /\ stage' = "boot" => stage = "boot"
  BY DEF MemoryMap, setGdt, BuildBitmap, pvars
<1>4. TablesGiven' /\ LinksHold' /\ RunHolds'
  BY <1>2, <1>3 DEF PIInv, TablesGiven, LinksHold, RunHolds, Runs
<1>5. /\ tables = <<>> /\ linked = 0 /\ Len(tables) = 0 /\ phase \in {"boot", "bitmap"}
      /\ stage = "unmapped" => phase = "bitmap"
  <2>1. tables = <<>>
    BY <1>3 DEF PIInv, StagesHold
  <2>2. Len(tables) = 0
    BY <2>1
  <2> QED
    BY <1>3, <2>1, <2>2 DEF PIInv, StagesHold
<1>6. StagesHold'
  <2>1. /\ stage' = "boot" => phase' \in {"boot", "bitmap"}
        /\ stage' = "unmapped" => phase' = "bitmap"
        /\ stage' = "allocate" => phase' = "ready"
    BY <1>5 DEF MemoryMap, setGdt, BuildBitmap, multiboot_shit, setup_bitmap, pvars, vars
  <2> QED
    BY <1>2, <1>3, <1>5, <2>1, TableSizes DEF StagesHold
<1>7. CASE MemoryMap \/ BuildBitmap
  <2>1. /\ UNCHANGED mem
        /\ stage' = "boot" <=> stage = "boot"
    BY <1>7 DEF MemoryMap, BuildBitmap, pvars
  <2>2. PTypeOK'
    BY <1>1, <1>2, <1>3, <2>1 DEF PIInv, PTypeOK
  <2>3. Fenced' /\ BootStands'
    BY <1>3, <2>1 DEF PIInv, Fenced, BootStands, BootDir
  <2> QED
    BY <1>1, <1>4, <1>6, <2>2, <2>3 DEF PIInv
<1>8. CASE setGdt
  <2>1. /\ stage = "boot" /\ stage' = "unmapped"
        /\ mem' = [mem EXCEPT ![Directory][0] = Absent]
    BY <1>8 DEF setGdt
  <2>2. /\ DOMAIN mem = OwnTables
        /\ mem[BootTable1] = BootTables[BootTable1] /\ mem[BootTable2] = BootTables[BootTable2]
        /\ \A d \in Index : mem[Directory][d] = BootTables[Directory][d]
    BY <2>1 DEF PIInv, BootStands, BootDir
  <2>3. \A f \in OwnTables : mem[f] \in [Index -> TableEntries]
    BY <2>2 DEF PIInv, PTypeOK, TableEntries
  <2>4. /\ DOMAIN mem' = OwnTables
        /\ mem'[BootTable1] = BootTables[BootTable1] /\ mem'[BootTable2] = BootTables[BootTable2]
        /\ mem'[Directory] \in [Index -> TableEntries]
        /\ \A d \in Index : mem'[Directory][d]
                                = IF d = 0 THEN Absent ELSE BootTables[Directory][d]
    <3>1. 0 \in Index /\ Absent \in TableEntries /\ Directory \in OwnTables
          /\ BootTable1 \in OwnTables /\ BootTable2 \in OwnTables
      BY TableSizes, Sizes DEF Index, Absent, TableEntries, AllPages, OwnTables
    <3> QED
      BY <2>1, <2>2, <2>3, <3>1, Placed
  <2>5. PTypeOK'
    <3>1. \A f \in OwnTables : mem'[f] \in [Index -> TableEntries]
      BY <2>4, BootTablesAre DEF OwnTables
    <3> QED
      BY <1>1, <1>2, <2>1, <2>4, <3>1, Placed DEF PIInv, PTypeOK, TableEntries
  <2>6. Fenced' /\ BootStands'
    BY <2>1, <2>4, BootTablesAre, Placed DEF Fenced, BootStands, BootDir, OwnTables, Entry, Absent
  <2> QED
    BY <1>1, <1>4, <1>6, <2>5, <2>6 DEF PIInv
<1> QED
  BY <1>7, <1>8

\* A table is given a frame that no other has, or there is none.
LEMMA AllocPIInv == ASSUME PIInv, AllocTable PROVE PIInv'
<1>1. IInv' /\ TypeOK'
  BY KeepsIInv DEF PNext, IInv
<1>2. /\ stage = "allocate" /\ alloc_frame /\ tables' = Append(tables, frame')
      /\ stage' = (IF Len(tables') = AllTables THEN "fill" ELSE "allocate")
      /\ UNCHANGED <<mem, linked>>
  BY DEF AllocTable
<1>3. /\ tables \in Seq(AllPages) /\ Len(tables) < AllTables /\ Len(tables) \in Nat /\ linked = 0
  BY <1>2, LenProperties DEF PIInv, PTypeOK, StagesHold
<1>4. /\ phase' = "ready" /\ given \subseteq given'
      /\ frame' \in AllPages
      /\ frame' = 0 \/ (frame' \in given' /\ frame' \notin given)
  BY <1>2, AllocGives, Sizes DEF PIInv, AllPages
<1>5. /\ tables' \in Seq(AllPages) /\ Len(tables') = Len(tables) + 1
      /\ \A n \in 1 .. Len(tables) : tables'[n] = tables[n]
      /\ tables'[Len(tables) + 1] = frame'
  BY <1>2, <1>3, <1>4, AppendProperties
<1>6. PTypeOK'
  BY <1>1, <1>2, <1>3, <1>5, TableSizes DEF PIInv, PTypeOK
<1>7. StagesHold'
  BY <1>2, <1>3, <1>4, <1>5, TableSizes DEF StagesHold
<1>8. TablesGiven'
  <2>1. \A n \in 1 .. Len(tables) : tables[n] \in given \cup {0}
        /\ \A m \in 1 .. Len(tables) : tables[m] = tables[n] /\ tables[m] # 0 => m = n
    BY DEF PIInv, TablesGiven
  <2> QED
    BY <1>3, <1>4, <1>5, <2>1 DEF TablesGiven
<1>9. Fenced' /\ BootStands' /\ LinksHold' /\ RunHolds'
  <2>1. stage' \in {"allocate", "fill"}
    BY <1>2
  <2> QED
    BY <1>2, <2>1 DEF PIInv, Fenced, BootStands, BootDir, LinksHold, RunHolds, Runs
<1> QED
  BY <1>1, <1>6, <1>7, <1>8, <1>9 DEF PIInv

\* The fault leaves the tables as they were.
LEMMA FillFaultsPIInv == ASSUME PIInv, FillFaults PROVE PIInv'
<1>1. IInv' /\ TypeOK'
  BY KeepsIInv DEF PNext, IInv
<1>2. stage = "fill" /\ stage' = "halted" /\ UNCHANGED <<vars, tables, mem, linked>>
  BY DEF FillFaults
<1>3. linked = 0 /\ Len(tables) = AllTables /\ phase = "ready"
  BY <1>2 DEF PIInv, StagesHold
<1>4. PTypeOK'
  BY <1>1, <1>2 DEF PIInv, PTypeOK
<1>5. StagesHold' /\ TablesGiven' /\ Fenced' /\ BootStands' /\ LinksHold' /\ RunHolds'
  BY <1>2, <1>3, TableSizes
  DEF PIInv, StagesHold, TablesGiven, Fenced, BootStands, BootDir, LinksHold, RunHolds, Runs, vars
<1> QED
  BY <1>1, <1>4, <1>5 DEF PIInv
\* The tables are filled where they are seen: none of the image's is touched,
\* and with room each gets what is its own.
LEMMA FillPIInv == ASSUME PIInv, FillTables PROVE PIInv'
<1> DEFINE Shown == {Target(n).frame : n \in 1 .. AllTables}
<1>1. IInv' /\ TypeOK'
  BY KeepsIInv DEF PNext, IInv
<1>2. /\ stage = "fill" /\ stage' = "link" /\ UNCHANGED <<vars, tables, linked>>
      /\ \A n \in 1 .. AllTables : Target(n).mode = "kernel"
      /\ mem' = Written([f \in Shown |-> Filled(LastAt(f))])
  BY DEF FillTables
<1>3. linked = 0 /\ Len(tables) = AllTables /\ phase = "ready"
  BY <1>2 DEF PIInv, StagesHold
<1>4. ASSUME NEW n \in 1 .. AllTables
      PROVE  /\ tables[n] \in AllPages /\ tables[n] < Entries /\ tables[n] \notin OwnTables
             /\ Target(n).frame = IF tables[n] = Entries - 1 THEN Screen ELSE tables[n]
             /\ Target(n).frame \in AllPages /\ Target(n).frame \notin OwnTables
  <2>1. tables[n] \in AllPages /\ tables[n] \notin OwnTables
    BY <1>3, TablesAre
  <2>2. tables[n] < Entries
    BY <1>2, <2>1, BootReach DEF Target
  <2>3. Target(n).frame = IF tables[n] = Entries - 1 THEN Screen ELSE tables[n]
    BY <1>2, <2>1, <2>2, BootReach DEF Target, Entry
  <2>4. Screen \in AllPages /\ Screen \notin OwnTables
    <3>1. \A f \in OwnTables : f > Screen
      BY Placed
    <3> QED
      BY <3>1, Placed DEF AllPages
  <2> QED
    BY <2>1, <2>2, <2>3, <2>4
<1>5. ASSUME NEW f \in Shown
      PROVE  LastAt(f) \in 1 .. AllTables /\ Target(LastAt(f)).frame = f
  <2> DEFINE T == {n \in 1 .. AllTables : Target(n).frame = f}
  <2>1. T \subseteq 1 .. AllTables /\ T # {}
    OBVIOUS
  <2>2. PICK n \in T : \A k \in T : k <= n
    BY <2>1, TableSizes, Greatest
  <2>3. \E x \in 1 .. AllTables :
            Target(x).frame = f /\ \A k \in 1 .. AllTables : Target(k).frame = f => k <= x
    BY <2>2
  <2> QED
    BY <2>3 DEF LastAt
<1>6. Shown \subseteq AllPages /\ Shown \cap OwnTables = {}
  BY <1>4
<1>7. /\ DOMAIN mem = OwnTables
      /\ mem[BootTable1] = BootTables[BootTable1]
      /\ \A d \in Index : mem[Directory][d] = BootDir(d)
  BY <1>2 DEF PIInv, BootStands
<1> HIDE DEF Shown
<1>8. /\ DOMAIN mem' = Shown \cup OwnTables
      /\ \A f \in Shown : mem'[f] = Filled(LastAt(f))
      /\ \A f \in OwnTables : mem'[f] = mem[f]
  BY <1>2, <1>6, <1>7 DEF Written
<1>9. PTypeOK'
  <2>1. ASSUME NEW f \in DOMAIN mem' PROVE mem'[f] \in [Index -> TableEntries]
    <3>1. CASE f \in Shown
      BY <1>5, <1>8, <3>1, FilledHolds
    <3>2. CASE f \in OwnTables
      BY <1>7, <1>8, <3>2 DEF PIInv, PTypeOK, TableEntries
    <3> QED
      BY <1>8, <3>1, <3>2
  <2>2. DOMAIN mem' \subseteq AllPages
    BY <1>6, <1>8, Placed
  <2> QED
    BY <1>1, <1>2, <2>1, <2>2 DEF PIInv, PTypeOK, TableEntries
<1>10. StagesHold' /\ TablesGiven'
  BY <1>2, <1>3, TableSizes DEF PIInv, StagesHold, TablesGiven, vars
<1>11. Fenced'
  <2>1. ASSUME NEW f \in DOMAIN mem' \ {Directory}, NEW i \in Index, mem'[f][i].mode = "user"
        PROVE  mem'[f][i].frame >= Entries
    <3>1. CASE f \in Shown
      BY <1>5, <1>8, <2>1, <3>1, FilledHolds
    <3>2. CASE f \in OwnTables
      BY <1>7, <1>8, <2>1, <3>2 DEF PIInv, Fenced
    <3> QED
      BY <1>8, <3>1, <3>2
  <2>2. mem'[Directory] = mem[Directory]
    BY <1>8 DEF OwnTables
  <2> QED
    BY <1>2, <1>4, <1>8, <2>1, <2>2 DEF PIInv, Fenced
<1>12. LinksHold'
  <2> SUFFICES ASSUME Roomy' PROVE LinksHold'
    BY DEF LinksHold
  <2>1. \A n \in 1 .. AllTables : tables[n] # Entries - 1 /\ tables[n] # 0
    <3>1. DOMAIN tables = 1 .. AllTables
      BY <1>3 DEF PIInv, PTypeOK
    <3>2. \A n \in DOMAIN tables : tables[n] \notin {0, Entries - 1}
      BY <1>2 DEF Roomy, vars
    <3> QED
      BY <3>1, <3>2
  <2>2. \A n \in 1 .. AllTables : Target(n).frame = tables[n]
    BY <1>4, <2>1
  <2>3. Shown = {tables[n] : n \in 1 .. AllTables}
    BY <2>2 DEF Shown
  <2>4. ASSUME NEW n \in 1 .. AllTables PROVE mem'[tables[n]] = Filled(n)
    <3>1. tables[n] \in Shown
      BY <2>3
    <3>2. LastAt(tables[n]) \in 1 .. AllTables /\ tables[LastAt(tables[n])] = tables[n]
      BY <1>5, <2>2, <3>1
    <3>3. LastAt(tables[n]) = n
      BY <1>3, <2>1, <3>2 DEF PIInv, TablesGiven
    <3> QED
      BY <1>8, <3>1, <3>3
  <2>5. /\ mem'[BootTable1] = BootTables[BootTable1]
        /\ \A d \in Index : mem'[Directory][d] = BootDir(d)'
    BY <1>2, <1>7, <1>8 DEF OwnTables, BootDir
  <2>6. DOMAIN mem' = OwnTables \cup {tables'[n] : n \in 1 .. AllTables}
    BY <1>2, <1>8, <2>3
  <2>7. \A n \in 1 .. AllTables : mem'[tables'[n]] = Filled(n)
    BY <1>2, <2>4
  <2>8. 1 .. linked' = {}
    BY <1>2, <1>3
  <2> QED
    BY <2>5, <2>6, <2>7, <2>8 DEF LinksHold, Filled, KernelEntry, UserEntry
<1>13. BootStands' /\ RunHolds'
  BY <1>2 DEF BootStands, RunHolds, Runs
<1> QED
  BY <1>1, <1>9, <1>10, <1>11, <1>12, <1>13 DEF PIInv

\* A table that is put in takes its own place in the directory.
LEMMA LinkPIInv == ASSUME PIInv, LinkTable PROVE PIInv'
<1>1. IInv' /\ TypeOK'
  BY KeepsIInv DEF PNext, IInv
<1> DEFINE n == linked + 1
           e == Linked(n)
<1>2. /\ stage = "link" /\ linked < AllTables /\ linked' = n
      /\ UNCHANGED <<vars, stage, tables>>
  BY DEF LinkTable
<1>3. /\ Len(tables) = AllTables /\ linked \in 0 .. AllTables /\ n \in 1 .. AllTables
      /\ phase = "ready"
  BY <1>2, TableSizes DEF PIInv, PTypeOK, StagesHold
<1>4. mem' = [mem EXCEPT ![Directory][Slot(n)] = e]
  <2>1. Linked(linked') = e /\ Slot(linked') = Slot(n)
    BY <1>2
  <2> QED
    BY <2>1 DEF LinkTable
<1>5. Slot(n) \in Index
  BY <1>3, SlotsFacts
<1>6. /\ e.mode \in {"kernel", "user"} /\ e.frame \in AllPages /\ e.frame \notin OwnTables
      /\ e \in TableEntries
  <2>1. \A k \in 1 .. AllTables : tables[k] \in AllPages /\ tables[k] \notin OwnTables
    BY <1>3, TablesAre
  <2>2. CASE n <= UserTables
    <3>1. e = Entry(tables[KernelTables + n], "user") /\ KernelTables + n \in 1 .. AllTables
      BY <1>3, <2>2, SlotsFacts
    <3> QED
      BY <2>1, <3>1 DEF Entry, TableEntries
  <2>3. CASE n > UserTables
    <3>1. e = Entry(tables[n - UserTables], "kernel") /\ n - UserTables \in 1 .. AllTables
      BY <1>3, <2>3, SlotsFacts
    <3> QED
      BY <2>1, <3>1 DEF Entry, TableEntries
  <2> QED
    BY <1>3, <2>2, <2>3, TableSizes
<1> HIDE DEF n, e
<1>7. /\ DOMAIN mem' = DOMAIN mem /\ \A f \in DOMAIN mem : f # Directory => mem'[f] = mem[f]
      /\ Directory \in DOMAIN mem =>
             mem'[Directory] = [mem[Directory] EXCEPT ![Slot(n)] = e]
  BY <1>4
<1>8. \A f \in DOMAIN mem : mem[f] \in [Index -> TableEntries]
  BY DEF PIInv, PTypeOK, TableEntries
<1>9. PTypeOK'
  <2>1. \A f \in DOMAIN mem' : mem'[f] \in [Index -> TableEntries]
    BY <1>5, <1>6, <1>7, <1>8
  <2> QED
    BY <1>1, <1>2, <1>3, <1>7, <2>1 DEF PIInv, PTypeOK, TableEntries
<1>10. StagesHold' /\ TablesGiven'
  BY <1>2, <1>3, TableSizes DEF PIInv, StagesHold, TablesGiven, vars
<1>11. Fenced'
  <2>1. \A i \in Index : mem'[Directory][i].mode = "user" => mem'[Directory][i].frame # Directory
    <3>1. Directory \in DOMAIN mem
      BY DEF PIInv, Fenced, OwnTables
    <3>2. \A i \in Index : mem'[Directory][i] = IF i = Slot(n) THEN e ELSE mem[Directory][i]
      BY <1>5, <1>7, <1>8, <3>1
    <3> QED
      BY <1>6, <3>2 DEF PIInv, Fenced, OwnTables
  <2> QED
    BY <1>2, <1>7, <2>1 DEF PIInv, Fenced
<1>12. LinksHold'
  <2> SUFFICES ASSUME Roomy' PROVE LinksHold'
    BY DEF LinksHold
  <2>1. Roomy
    BY <1>2 DEF Roomy, vars
  <2>2. /\ DOMAIN mem = OwnTables \cup {tables[k] : k \in 1 .. AllTables}
        /\ mem[BootTable1] = BootTables[BootTable1]
        /\ \A k \in 1 .. AllTables : mem[tables[k]] = Filled(k)
        /\ \A k \in 1 .. linked : mem[Directory][Slot(k)] = Linked(k)
        /\ \A d \in Index : (\A k \in 1 .. linked : Slot(k) # d) =>
               mem[Directory][d] = BootDir(d)
    BY <1>2, <2>1 DEF PIInv, LinksHold
  <2>3. Directory \in DOMAIN mem /\ BootTable1 \in DOMAIN mem /\ BootTable1 # Directory
    BY <2>2, Placed DEF OwnTables
  <2>4. \A i \in Index : mem'[Directory][i] = IF i = Slot(n) THEN e ELSE mem[Directory][i]
    BY <1>5, <1>7, <1>8, <2>3
  <2>5. \A k \in 1 .. AllTables : mem'[tables[k]] = Filled(k)
    <3>1. \A k \in 1 .. AllTables : tables[k] \in DOMAIN mem /\ tables[k] # Directory
      BY <1>3, <2>2, TablesAre DEF OwnTables
    <3> QED
      BY <1>7, <2>2, <3>1
  <2>6. \A k \in 1 .. linked' : mem'[Directory][Slot(k)] = Linked(k)
    <3> SUFFICES ASSUME NEW k \in 1 .. linked' PROVE mem'[Directory][Slot(k)] = Linked(k)
      OBVIOUS
    <3>1. k \in 1 .. AllTables /\ Slot(k) \in Index
      BY <1>2, <1>3, SlotsFacts
    <3>2. CASE k = n
      BY <2>4, <3>1, <3>2 DEF e
    <3>3. CASE k # n
      <4>1. k \in 1 .. linked
        BY <1>2, <1>3, <3>3 DEF n
      <4>2. Slot(k) # Slot(n)
        BY <1>3, <3>1, <3>3, SlotsFacts
      <4> QED
        BY <2>2, <2>4, <3>1, <4>1, <4>2
    <3> QED
      BY <3>2, <3>3
  <2>7. \A k \in 1 .. AllTables : Linked(k)' = Linked(k)
    BY <1>2 DEF Linked
  <2>8. ASSUME NEW d \in Index, \A k \in 1 .. linked' : Slot(k) # d
        PROVE  mem'[Directory][d] = BootDir(d)'
    <3>1. d # Slot(n) /\ \A k \in 1 .. linked : Slot(k) # d
      BY <1>2, <1>3, <2>8 DEF n
    <3> QED
      BY <1>2, <2>2, <2>4, <3>1 DEF BootDir
  <2>9. \A k \in 1 .. linked' : mem'[Directory][Slot(k)] = Linked(k)'
    BY <1>2, <1>3, <2>6, <2>7
  <2>10. mem'[BootTable1] = BootTables[BootTable1]
    BY <1>7, <2>2, <2>3
  <2> QED
    BY <1>2, <1>7, <2>2, <2>5, <2>8, <2>9, <2>10 DEF LinksHold, Filled
<1>13. BootStands' /\ RunHolds'
  BY <1>2 DEF BootStands, RunHolds, Runs
<1> QED
  BY <1>1, <1>9, <1>10, <1>11, <1>12, <1>13 DEF PIInv
(***************************************************************************)
(* The invariant: the directory in use.                                    *)
(***************************************************************************)

\* The last step of setup_paging.
LEMMA LinkItselfPIInv == ASSUME PIInv, LinkItself PROVE PIInv'
<1>1. IInv' /\ TypeOK'
  BY KeepsIInv DEF PNext, IInv
<1> DEFINE self == Entry(Directory, "kernel")
<1>2. /\ stage = "link" /\ stage' = "running" /\ linked = AllTables
      /\ mem' = [mem EXCEPT ![Directory][Entries - 1] = self]
      /\ UNCHANGED <<vars, tables, linked>>
  BY DEF LinkItself
<1>3. /\ Len(tables) = AllTables /\ phase = "ready" /\ AllTables # 0
      /\ Entries - 1 \in Index /\ Directory \in DOMAIN mem
      /\ \A f \in DOMAIN mem : mem[f] \in [Index -> TableEntries]
  BY <1>2, TableSizes
  DEF PIInv, StagesHold, PTypeOK, TableEntries, Index, Fenced, OwnTables
<1>4. self \in TableEntries /\ self.mode = "kernel"
  BY Placed DEF Entry, TableEntries, OwnTables
<1> HIDE DEF self
<1>5. /\ DOMAIN mem' = DOMAIN mem
      /\ \A f \in DOMAIN mem : f # Directory => mem'[f] = mem[f]
      /\ mem'[Directory] \in [Index -> TableEntries]
      /\ \A i \in Index : mem'[Directory][i] = IF i = Entries - 1 THEN self
                                               ELSE mem[Directory][i]
  BY <1>2, <1>3, <1>4
<1>6. PTypeOK'
  <2>1. \A f \in DOMAIN mem' : mem'[f] \in [Index -> TableEntries]
    BY <1>3, <1>5
  <2> QED
    BY <1>1, <1>2, <1>5, <2>1 DEF PIInv, PTypeOK, TableEntries
<1>7. StagesHold' /\ TablesGiven' /\ BootStands' /\ LinksHold'
  BY <1>2, <1>3 DEF PIInv, StagesHold, TablesGiven, BootStands, LinksHold, vars
<1>8. Fenced'
  BY <1>2, <1>4, <1>5 DEF PIInv, Fenced
<1>9. RunHolds'
  <2> SUFFICES ASSUME Roomy' PROVE RunHolds'
    BY DEF RunHolds, Runs
  <2>1. Roomy
    BY <1>2 DEF Roomy, vars
  <2>2. /\ DOMAIN mem = OwnTables \cup {tables[k] : k \in 1 .. AllTables}
        /\ mem[BootTable1] = BootTables[BootTable1]
        /\ \A k \in 1 .. AllTables : mem[tables[k]] = Filled(k)
        /\ \A k \in 1 .. AllTables : mem[Directory][Slot(k)] = Linked(k)
        /\ \A d \in Index : (\A k \in 1 .. AllTables : Slot(k) # d) =>
               mem[Directory][d] = BootDir(d)
    BY <1>2, <2>1 DEF PIInv, LinksHold
  <2>3. \A n \in 1 .. AllTables :
            /\ tables[n] \in given /\ tables[n] # 0 /\ tables[n] \notin OwnTables
            /\ tables[n] # Entries - 1
    <3>1. DOMAIN tables = 1 .. AllTables
      BY <1>3 DEF PIInv, PTypeOK
    <3> QED
      BY <1>3, <2>1, <3>1, TablesAre DEF Roomy
  <2>4. \A k \in 1 .. AllTables : mem'[tables[k]] = Filled(k)
    <3>1. \A k \in 1 .. AllTables : tables[k] \in DOMAIN mem /\ tables[k] # Directory
      BY <2>2, <2>3 DEF OwnTables
    <3> QED
      BY <1>5, <2>2, <3>1
  <2>5. 0 \notin DOMAIN mem
    BY <2>2, <2>3, Placed
  <2>6. mem'[BootTable1] = BootTables[BootTable1]
    BY <1>5, <2>2, Placed DEF OwnTables
  <2>7. \A k \in 1 .. AllTables : mem'[Directory][Slot(k)] = Linked(k)
    BY <1>5, <2>2, SlotsFacts
  <2>8. ASSUME NEW d \in UserTables + 1 .. WindowDir - 1 \cup WindowDir + KernelTables .. Entries - 2
                           \cup {0}
        PROVE  d \in Index /\ mem'[Directory][d] = Absent
    <3>1. d \in Index /\ d # Entries - 1
      BY TableSizes DEF Index
    <3>2. \A k \in 1 .. AllTables : Slot(k) # d
      BY SlotsFacts, TableSizes
    <3>3. BootDir(d) = Absent
      <4>1. d = 0 => BootDir(d) = Absent
        BY <1>2 DEF BootDir
      <4>2. d # 0 => d \in Index \ {0, 1, WindowDir, WindowDir + 1}
        BY <3>1, TableSizes
      <4> QED
        BY <4>1, <4>2, BootTablesAre DEF BootDir
    <3> QED
      BY <1>5, <2>2, <3>1, <3>2, <3>3
  <2>9. ASSUME NEW d \in 0 .. WindowDir - 1, mem'[Directory][d].mode # "absent"
        PROVE  /\ d \in 1 .. UserTables /\ KernelTables + d \in 1 .. AllTables
               /\ mem'[Directory][d].frame = tables[KernelTables + d]
    <3>1. d \in 1 .. UserTables
      BY <2>8, <2>9, TableSizes DEF Absent
    <3>2. d \in 1 .. AllTables /\ KernelTables + d \in 1 .. AllTables
      BY <3>1, TableSizes
    <3>3. mem'[Directory][d] = Entry(tables[KernelTables + d], "user")
      BY <2>7, <3>1, <3>2, SlotsFacts
    <3> QED
      BY <3>1, <3>2, <3>3 DEF Entry
  <2>10. DirsApart'
    <3> SUFFICES ASSUME NEW d \in 0 .. WindowDir - 1, mem'[Directory][d].mode # "absent"
                 PROVE  /\ mem'[Directory][d].frame \in DOMAIN mem' \ OwnTables
                        /\ \A n \in 1 .. KernelTables : mem'[Directory][d].frame # tables[n]
                        /\ \A e \in 0 .. WindowDir - 1 :
                               /\ mem'[Directory][e].mode # "absent"
                               /\ mem'[Directory][e].frame = mem'[Directory][d].frame
                               => d = e
      BY <1>2 DEF DirsApart
    <3>1. /\ KernelTables + d \in 1 .. AllTables /\ d \in 1 .. UserTables
          /\ mem'[Directory][d].frame = tables[KernelTables + d]
      BY <2>9
    <3>2. \A k \in 1 .. AllTables : tables[k] = tables[KernelTables + d] => k = KernelTables + d
      BY <1>3, <2>3, <3>1 DEF PIInv, TablesGiven
    <3>3. \A n \in 1 .. KernelTables : n \in 1 .. AllTables /\ n # KernelTables + d
      BY <3>1, TableSizes
    <3>4. ASSUME NEW e \in 0 .. WindowDir - 1, mem'[Directory][e].mode # "absent",
                 mem'[Directory][e].frame = mem'[Directory][d].frame
          PROVE  d = e
      <4>1. /\ KernelTables + e \in 1 .. AllTables /\ e \in 1 .. UserTables
            /\ mem'[Directory][e].frame = tables[KernelTables + e]
        BY <2>9, <3>4
      <4>2. KernelTables + e = KernelTables + d
        BY <3>1, <3>2, <3>4, <4>1
      <4> QED
        BY <3>1, <4>1, <4>2, TableSizes
    <3> QED
      BY <1>5, <2>2, <2>3, <3>1, <3>2, <3>3, <3>4
  <2>11. \A d \in 1 .. UserTables : \A i \in Index :
             mem'[tables[KernelTables + d]][i] = UserEntry(KernelTables + d, i)
    <3>1. \A d \in 1 .. UserTables : KernelTables + d \in 1 .. AllTables
                                     /\ ~(KernelTables + d <= KernelTables)
      BY TableSizes
    <3> QED
      BY <2>4, <3>1 DEF Filled
  <2>12. \A d \in WindowDir + KernelTables .. Entries - 2 : mem'[Directory][d].mode = "absent"
    BY <2>8 DEF Absent
  <2>13. mem'[Directory][Entries - 1] = Entry(Directory, "kernel")
    BY <1>3, <1>5 DEF self
  <2>14. \A n \in 1 .. KernelTables : n \in 1 .. AllTables
    BY TableSizes
  <2>15. \A n \in 1 .. AllTables : Linked(n)' = Linked(n)
    BY <1>2 DEF Linked
  <2>16. /\ OwnTables \cup {tables'[n] : n \in 1 .. AllTables} \subseteq DOMAIN mem'
         /\ DOMAIN mem' \subseteq OwnTables \cup given' \cup {0}
         /\ 0 \notin DOMAIN mem'
    BY <1>2, <1>5, <2>2, <2>3, <2>5 DEF vars
  <2>17. /\ \A n \in 1 .. KernelTables : mem'[tables'[n]] = Filled(n)
         /\ \A d \in 1 .. UserTables : \A i \in Index :
               mem'[tables'[KernelTables + d]][i] = UserEntry(KernelTables + d, i)
         /\ \A n \in 1 .. AllTables : mem'[Directory][Slot(n)] = Linked(n)'
    BY <1>2, <2>4, <2>7, <2>11, <2>14, <2>15
  <2> QED
    BY <2>6, <2>10, <2>12, <2>13, <2>16, <2>17
    DEF RunHolds, Filled, KernelEntry, UserEntry
<1> QED
  BY <1>1, <1>6, <1>7, <1>8, <1>9 DEF PIInv
(***************************************************************************)
(* The invariant: map_page.                                                *)
(***************************************************************************)

\* A page map_page may be asked for lies below the window.
LEMMA AskedFor ==
  ASSUME NEW virt \in Targets, NEW f \in Asked, NEW m \in {"kernel", "user"}
  PROVE  /\ virt \in AllPages /\ virt \div Entries \in Index /\ EntryOf(virt) \in Index
         /\ virt \div Entries \in 0 .. WindowDir - 1
         /\ virt = (virt \div Entries) * Entries + EntryOf(virt)
         /\ Entry(f, m) \in TableEntries /\ Entry(f, m).mode = m /\ Entry(f, m).frame = f
         /\ m # "absent" /\ f >= Entries /\ f \in AllPages
<1>1. virt \in Nat /\ virt < Window /\ f \in Nat /\ f >= Entries /\ f < Pages
  BY AskedAssumption, TableSizes, Sizes
<1>2. WindowDir * Entries + 0 \in AllPages
  <2>1. WindowDir \in Index /\ 0 \in Index
    BY TableSizes DEF Index
  <2> QED
    BY <2>1, Join
<1>3. virt \in AllPages /\ f \in AllPages
  BY <1>1, <1>2, TableSizes, Sizes DEF AllPages
<1> DEFINE d == virt \div Entries
<1>4. d \in Index /\ virt % Entries \in Index /\ virt = d * Entries + (virt % Entries)
  BY <1>3, Split
<1> HIDE DEF d
<1>5. d < WindowDir
  <2>1. d >= WindowDir => d * Entries >= WindowDir * Entries
    BY <1>4, TableSizes, TimesMonotone DEF Index
  <2>2. d * Entries \in Nat /\ WindowDir * Entries = Window /\ virt % Entries \in Nat
    BY <1>4, TableSizes, SMT DEF Index
  <2> QED
    BY <1>1, <1>4, <2>1, <2>2, TableSizes DEF Index
<1>6. d \in 0 .. WindowDir - 1
  BY <1>4, <1>5, TableSizes DEF Index
<1> QED
  BY <1>1, <1>3, <1>4, <1>6 DEF d, EntryOf, Entry, TableEntries

\* What the kernel reaches is a frame.
LEMMA ReachedIsFrame ==
  ASSUME PIInv, NEW g \in AllPages, InWindow(g) PROVE Reached(g) \in AllPages
<1> DEFINE v == Seen(g)
           s == mem[Directory][v \div Entries]
<1>1. v \in AllPages
  <2>1. Window + g \in Nat /\ Pages \in Nat /\ Pages > 0
    BY TableSizes, Sizes DEF AllPages
  <2> QED
    BY <2>1, SMT DEF Seen, AllPages
<1> HIDE DEF v
<1>2. v \div Entries \in Index /\ v % Entries \in Index
  BY <1>1, Split
<1>3. \A x \in DOMAIN mem : mem[x] \in [Index -> TableEntries]
  BY DEF PIInv, PTypeOK, TableEntries
<1>4. Directory \in DOMAIN mem
  BY DEF PIInv, Fenced, OwnTables
<1>5. s.frame \in AllPages
  BY <1>2, <1>3, <1>4 DEF TableEntries
<1>6. s.frame \in DOMAIN mem => mem[s.frame][v % Entries].frame \in AllPages
  BY <1>2, <1>3 DEF TableEntries
<1>7. Translate(v) = Looked(mem, v \div Entries, v % Entries)
  BY TranslateIs
<1>8. Translate(v).mode # "absent"
  BY DEF InWindow, v
<1>9. Translate(v).frame \in AllPages
  BY <1>5, <1>6, <1>7, <1>8 DEF Looked, Entry, Absent
<1> QED
  BY <1>9 DEF Reached, v

\* Once setup_paging is done the kernel sees the frames of the window, each at
\* its place, and none between the window and the directory's own view.
LEMMA RunReach ==
  ASSUME PIInv, Runs, NEW g \in AllPages, g < Pages - Window - Entries
  PROVE  /\ g \div Entries < KernelTables => Translate(Seen(g)) = Entry(g, "kernel")
         /\ g \div Entries >= KernelTables => Translate(Seen(g)) = Absent
<1> DEFINE q == g \div Entries
           r == g % Entries
<1>1. g < Pages - Window
  BY TableSizes, Sizes DEF AllPages
<1>2. /\ Seen(g) \in AllPages /\ Seen(g) = Window + g
      /\ Seen(g) \div Entries = WindowDir + q /\ Seen(g) % Entries = r
      /\ WindowDir + q \in Index /\ r \in Index /\ q \in Nat
  BY <1>1, SeenAt
<1>3. g = q * Entries + r
  BY Split
<1> HIDE DEF q, r
<1>4. Translate(Seen(g)) = Looked(mem, WindowDir + q, r)
  BY <1>2, TranslateIs
<1>5. RunHolds
  BY DEF PIInv
<1>6. CASE q < KernelTables
  <2>1. q + 1 \in 1 .. KernelTables /\ UserTables + q + 1 \in 1 .. AllTables
        /\ q + 1 \in 1 .. AllTables /\ (q + 1) - 1 = q
    BY <1>2, <1>6, TableSizes
  <2>2. /\ Slot(UserTables + q + 1) = WindowDir + q
        /\ Linked(UserTables + q + 1) = Entry(tables[q + 1], "kernel")
    BY <1>2, <2>1, TableSizes DEF Slot, Linked
  <2>3. mem[Directory][WindowDir + q] = Entry(tables[q + 1], "kernel")
    BY <1>5, <2>1, <2>2 DEF RunHolds
  <2>4. tables[q + 1] \in DOMAIN mem /\ mem[tables[q + 1]] = Filled(q + 1)
    BY <1>5, <2>1 DEF RunHolds
  <2>5. Filled(q + 1)[r] = Entry(g, "kernel")
    BY <1>2, <1>3, <2>1 DEF Filled, KernelEntry
  <2>6. Looked(mem, WindowDir + q, r) = Entry(g, "kernel")
    BY <2>3, <2>4, <2>5 DEF Looked, Entry, Both
  <2> QED
    BY <1>2, <1>4, <1>6, <2>6, TableSizes DEF q
<1>7. CASE q >= KernelTables
  <2>1. WindowDir + q < Entries - 1
    <3>1. WindowDir + q = Entries - 1 => Window + g = (Entries - 1) * Entries + r
      BY <1>2, <1>3, Split
    <3>2. (Entries - 1) * Entries = Pages - Entries /\ (Entries - 1) * Entries \in Nat
      BY TableSizes, SMT
    <3> QED
      BY <1>2, <3>1, <3>2, TableSizes, Sizes DEF Index, AllPages
  <2>2. mem[Directory][WindowDir + q].mode = "absent"
    BY <1>2, <1>5, <1>7, <2>1, TableSizes DEF RunHolds
  <2> QED
    BY <1>2, <1>4, <1>7, <2>2, TableSizes DEF Looked, q
<1> QED
  BY <1>2, <1>6, <1>7, TableSizes

\* With room, what the kernel reaches at a frame that alloc_frame gave is the
\* frame itself.
LEMMA ReachedIsIt ==
  ASSUME PIInv, Runs, NEW g \in AllPages, g = 0 \/ g < Pages - Window - Entries, InWindow(g)
  PROVE  Reached(g) = g
<1>1. g < Pages - Window - Entries
  <2>1. (WindowDir + 1) * Entries = Window + Entries
    BY TableSizes, SMT
  <2>2. WindowDir + 1 \in Index /\ 0 \in Index
    BY TableSizes DEF Index
  <2>3. (WindowDir + 1) * Entries + 0 \in AllPages
    BY <2>2, Join
  <2> QED
    BY <2>1, <2>3, TableSizes, Sizes DEF AllPages
<1>2. g \div Entries \in Nat
  BY Split, TableSizes DEF Index
<1> QED
  BY <1>1, <1>2, RunReach, TableSizes DEF InWindow, Reached, Absent, Entry

\* What map_page does to the memory, in its three ways.
LEMMA MapSteps ==
  ASSUME PIInv, NEW virt \in Targets, NEW f \in Asked, NEW m \in {"kernel", "user"},
         map_page(virt, Entry(f, m))
  PROVE  LET d == virt \div Entries
             j == EntryOf(virt)
             e == Entry(f, m)
             r == Reached(mem[Directory][d].frame)
             s == Reached(frame')
         IN
         /\ stage = "running" /\ UNCHANGED <<tables, linked>>
         /\ \/ /\ UNCHANGED vars /\ stage' = "running"
               /\ mem[Directory][d].mode # "absent" /\ InWindow(mem[Directory][d].frame)
               /\ DOMAIN mem' = DOMAIN mem
               /\ \A x \in DOMAIN mem : \A i \in Index :
                      mem'[x][i] = IF x = r /\ i = j THEN e ELSE mem[x][i]
               /\ \A x \in DOMAIN mem : mem'[x] \in [Index -> TableEntries]
               /\ \A x \in DOMAIN mem \ {r} : mem'[x] = mem[x]
            \/ /\ alloc_frame /\ stage' = "running"
               /\ mem[Directory][d].mode = "absent" /\ InWindow(frame') /\ frame' \in AllPages
               /\ DOMAIN mem' = DOMAIN mem \cup {s} /\ s \in AllPages
               /\ \A x \in DOMAIN mem' : mem'[x] \in [Index -> TableEntries]
               /\ \A x \in DOMAIN mem \ {s, Directory} : mem'[x] = mem[x]
               /\ s # Directory =>
                      \A i \in Index : mem'[s][i] = IF i = j THEN e ELSE Absent
               /\ \A i \in Index : mem'[Directory][i] =
                      IF i = d THEN Entry(frame', m)
                      ELSE IF s # Directory THEN mem[Directory][i]
                      ELSE IF i = j THEN e ELSE Absent
            \/ /\ alloc_frame /\ stage' = "halted" /\ UNCHANGED mem
<1> DEFINE d == virt \div Entries
           j == EntryOf(virt)
           e == Entry(f, m)
           r == Reached(mem[Directory][d].frame)
           s == Reached(frame')
<1>1. stage = "running" /\ UNCHANGED <<tables, linked>>
  BY DEF map_page
<1>2. /\ d \in Index /\ j \in Index /\ e \in TableEntries /\ e.mode = m
      /\ Absent \in TableEntries
  BY AskedFor, Sizes DEF Absent, TableEntries, AllPages
<1>3. \A x \in DOMAIN mem : mem[x] \in [Index -> TableEntries]
  BY DEF PIInv, PTypeOK, TableEntries
<1>4. Directory \in DOMAIN mem
  BY DEF PIInv, Fenced, OwnTables
<1>5. CASE MapInTable(virt, e)
  <2>1. /\ mem' = [mem EXCEPT ![r][j] = e] /\ UNCHANGED vars /\ stage' = stage
        /\ mem[Directory][d].mode # "absent" /\ InWindow(mem[Directory][d].frame)
    BY <1>5 DEF MapInTable, Dir
  <2> HIDE DEF d, j, e, r
  <2>2. /\ DOMAIN mem' = DOMAIN mem
        /\ \A x \in DOMAIN mem \ {r} : mem'[x] = mem[x]
        /\ r \in DOMAIN mem => mem'[r] = [mem[r] EXCEPT ![j] = e]
    BY <2>1
  <2>3. \A x \in DOMAIN mem : \A i \in Index :
            mem'[x][i] = IF x = r /\ i = j THEN e ELSE mem[x][i]
    BY <1>2, <1>3, <2>2
  <2>4. \A x \in DOMAIN mem : mem'[x] \in [Index -> TableEntries]
    BY <1>2, <1>3, <2>2
  <2> QED
    BY <1>1, <2>1, <2>2, <2>3, <2>4 DEF d, j, e, r
<1>6. CASE MapInNewTable(virt, e)
  <2> DEFINE table == [i \in Index |-> IF i = j THEN e ELSE Absent]
             new == Written([x \in {s} |-> table])
             p == Entry(frame', m)
  <2>1. /\ mem[Directory][d].mode = "absent" /\ alloc_frame /\ InWindow(frame')
        /\ mem' = [new EXCEPT ![Directory][d] = p] /\ stage' = stage
    BY <1>2, <1>6 DEF MapInNewTable, Dir
  <2>2. frame' \in AllPages /\ p \in TableEntries
    BY <2>1, AllocGives, Sizes DEF PIInv, AllPages, Entry, TableEntries
  <2>3. s \in AllPages
    BY <2>1, <2>2, ReachedIsFrame
  <2>4. table \in [Index -> TableEntries] /\ \A i \in Index : table[i] = IF i = j THEN e ELSE Absent
    BY <1>2
  <2> HIDE DEF d, j, e, s, table, p
  <2>5. /\ DOMAIN new = DOMAIN mem \cup {s} /\ new[s] = table
        /\ \A x \in DOMAIN mem \ {s} : new[x] = mem[x]
    BY DEF Written
  <2>6. \A x \in DOMAIN new : new[x] \in [Index -> TableEntries]
    BY <1>3, <2>4, <2>5
  <2> HIDE DEF new
  <2>7. /\ DOMAIN mem' = DOMAIN new /\ Directory \in DOMAIN new
        /\ \A x \in DOMAIN new \ {Directory} : mem'[x] = new[x]
        /\ mem'[Directory] = [new[Directory] EXCEPT ![d] = p]
    BY <1>4, <2>1, <2>5
  <2>8. /\ mem'[Directory] \in [Index -> TableEntries]
        /\ \A i \in Index : mem'[Directory][i] = IF i = d THEN p ELSE new[Directory][i]
    BY <1>2, <2>2, <2>6, <2>7
  <2>9. \A x \in DOMAIN mem' : mem'[x] \in [Index -> TableEntries]
    BY <2>6, <2>7, <2>8
  <2>10. \A i \in Index : mem'[Directory][i] = IF i = d THEN p
                          ELSE IF s # Directory THEN mem[Directory][i]
                          ELSE IF i = j THEN e ELSE Absent
    BY <1>4, <2>4, <2>5, <2>8
  <2>11. /\ \A x \in DOMAIN mem \ {s, Directory} : mem'[x] = mem[x]
         /\ s # Directory => \A i \in Index : mem'[s][i] = IF i = j THEN e ELSE Absent
    BY <2>4, <2>5, <2>7
  <2> QED
    BY <1>1, <2>1, <2>2, <2>3, <2>5, <2>7, <2>9, <2>10, <2>11 DEF d, j, e, s, p
<1>7. CASE MapFaults(virt)
  BY <1>1, <1>7 DEF MapFaults
<1> QED
  BY <1>5, <1>6, <1>7 DEF map_page
\* What map_page keeps, whatever the memory: the numbers, and that the user
\* stays above the first 4 MiB.
LEMMA MapKeeps ==
  ASSUME PIInv, NEW virt \in Targets, NEW f \in Asked, NEW m \in {"kernel", "user"},
         map_page(virt, Entry(f, m)), IInv'
  PROVE  PTypeOK' /\ StagesHold' /\ TablesGiven' /\ Fenced' /\ BootStands' /\ LinksHold'
<1> DEFINE d == virt \div Entries
           j == EntryOf(virt)
           e == Entry(f, m)
           r == Reached(mem[Directory][d].frame)
           s == Reached(frame')
<1>1. /\ stage = "running" /\ UNCHANGED <<tables, linked>> /\ stage' \in {"running", "halted"}
      /\ phase = "ready" /\ linked = AllTables /\ Len(tables) = AllTables /\ AllTables # 0
      /\ phase' = "ready" /\ given \subseteq given'
  <2>1. stage = "running" /\ UNCHANGED <<tables, linked>> /\ stage' \in {"running", "halted"}
        /\ (UNCHANGED vars \/ alloc_frame)
    BY MapSteps
  <2>2. phase = "ready" /\ linked = AllTables /\ Len(tables) = AllTables /\ AllTables # 0
    BY <2>1, TableSizes DEF PIInv, StagesHold
  <2>3. phase' = "ready" /\ given \subseteq given'
    BY <2>1, <2>2, AllocGives DEF PIInv, vars
  <2> QED
    BY <2>1, <2>2, <2>3
<1>2. StagesHold' /\ BootStands' /\ LinksHold'
  BY <1>1 DEF StagesHold, BootStands, LinksHold
<1>3. TablesGiven'
  BY <1>1 DEF PIInv, TablesGiven
<1>4. /\ d \in Index /\ j \in Index /\ e.mode = m /\ e.frame = f /\ f >= Entries
      /\ e \in TableEntries
  BY AskedFor
<1>5. Directory # f
  BY <1>4, Placed, AskedFor, TableSizes DEF OwnTables, AllPages
<1>6. /\ DOMAIN mem \subseteq AllPages /\ Directory \in DOMAIN mem
      /\ \A x \in DOMAIN mem : mem[x] \in [Index -> TableEntries]
      /\ \A x \in DOMAIN mem \ {Directory} : \A i \in Index :
             mem[x][i].mode = "user" => mem[x][i].frame >= Entries
      /\ \A i \in Index : mem[Directory][i].mode = "user" => mem[Directory][i].frame # Directory
      /\ OwnTables \subseteq DOMAIN mem
      /\ \A n \in 1 .. AllTables : tables[n] < Entries
  BY <1>1 DEF PIInv, Fenced, PTypeOK, TableEntries, OwnTables
<1>7. PTypeOK' <=> /\ DOMAIN mem' \subseteq AllPages
                   /\ \A x \in DOMAIN mem' : mem'[x] \in [Index -> TableEntries]
  BY <1>1 DEF PIInv, IInv, PTypeOK, TableEntries
<1>8. Fenced' <=> /\ OwnTables \subseteq DOMAIN mem'
                  /\ \A x \in DOMAIN mem' \ {Directory} : \A i \in Index :
                         mem'[x][i].mode = "user" => mem'[x][i].frame >= Entries
                  /\ \A i \in Index :
                         mem'[Directory][i].mode = "user" => mem'[Directory][i].frame # Directory
  BY <1>1, <1>6 DEF Fenced
<1> SUFFICES PTypeOK' /\ Fenced'
  BY <1>2, <1>3
<1>9. CASE UNCHANGED mem
  BY <1>6, <1>7, <1>8, <1>9
<1>10. CASE /\ UNCHANGED vars /\ DOMAIN mem' = DOMAIN mem
            /\ \A x \in DOMAIN mem : \A i \in Index :
                   mem'[x][i] = IF x = r /\ i = j THEN e ELSE mem[x][i]
            /\ \A x \in DOMAIN mem : mem'[x] \in [Index -> TableEntries]
  <2> HIDE DEF d, j, e, r
  <2> QED
    BY <1>4, <1>5, <1>6, <1>7, <1>8, <1>10
<1>11. CASE /\ alloc_frame
            /\ DOMAIN mem' = DOMAIN mem \cup {s} /\ s \in AllPages
            /\ \A x \in DOMAIN mem' : mem'[x] \in [Index -> TableEntries]
            /\ \A x \in DOMAIN mem \ {s, Directory} : mem'[x] = mem[x]
            /\ s # Directory =>
                   \A i \in Index : mem'[s][i] = IF i = j THEN e ELSE Absent
            /\ \A i \in Index : mem'[Directory][i] =
                   IF i = d THEN Entry(frame', m)
                   ELSE IF s # Directory THEN mem[Directory][i]
                   ELSE IF i = j THEN e ELSE Absent
  <2>1. frame' # Directory
    BY <1>11, AllocGives, Placed DEF PIInv, OwnTables
  <2> DEFINE p == Entry(frame', m)
  <2>2. p.frame # Directory /\ Absent.mode = "absent"
    BY <2>1 DEF Entry, Absent
  <2> HIDE DEF d, j, e, s, p
  <2>3. \A i \in Index : mem'[Directory][i].mode = "user" => mem'[Directory][i].frame # Directory
    BY <1>4, <1>5, <1>6, <1>11, <2>2 DEF p
  <2>4. ASSUME NEW x \in DOMAIN mem' \ {Directory}, NEW i \in Index, mem'[x][i].mode = "user"
        PROVE  mem'[x][i].frame >= Entries
    <3>1. CASE x = s
      BY <1>4, <1>11, <2>2, <2>4, <3>1
    <3>2. CASE x # s
      BY <1>6, <1>11, <2>4, <3>2
    <3> QED
      BY <3>1, <3>2
  <2> QED
    BY <1>6, <1>7, <1>8, <1>11, <2>3, <2>4
<1> QED
  BY <1>9, <1>10, <1>11, MapSteps

\* With room, map_page leaves the window alone and keeps the tables apart.
LEMMA MapRuns ==
  ASSUME PIInv, NEW virt \in Targets, NEW f \in Asked, NEW m \in {"kernel", "user"},
         map_page(virt, Entry(f, m)), Roomy'
  PROVE  LET d == virt \div Entries
             j == EntryOf(virt)
             e == Entry(f, m)
             g == mem[Directory][d].frame
         IN
         /\ Runs /\ d \in 0 .. WindowDir - 1 /\ d \in Index /\ j \in Index
         /\ UNCHANGED <<tables, linked>>
         /\ \/ /\ UNCHANGED vars /\ mem[Directory][d].mode # "absent"
               /\ g \in DOMAIN mem \ OwnTables /\ DOMAIN mem' = DOMAIN mem
               /\ \A x \in DOMAIN mem : \A i \in Index :
                      mem'[x][i] = IF x = g /\ i = j THEN e ELSE mem[x][i]
               /\ \A x \in DOMAIN mem \ {g} : mem'[x] = mem[x]
            \/ /\ alloc_frame /\ mem[Directory][d].mode = "absent"
               /\ frame' \notin OwnTables /\ (frame' # 0 => frame' \notin DOMAIN mem)
               /\ DOMAIN mem' = DOMAIN mem \cup {frame'}
               /\ \A n \in 1 .. AllTables : tables[n] # frame'
               /\ \A x \in DOMAIN mem \ {frame', Directory} : mem'[x] = mem[x]
               /\ \A i \in Index : mem'[frame'][i] = IF i = j THEN e ELSE Absent
               /\ \A i \in Index : mem'[Directory][i] =
                      IF i = d THEN Entry(frame', m) ELSE mem[Directory][i]
            \/ alloc_frame /\ stage' = "halted" /\ UNCHANGED mem
<1> DEFINE d == virt \div Entries
           j == EntryOf(virt)
           e == Entry(f, m)
           g == mem[Directory][d].frame
           InTable ==
             /\ UNCHANGED vars
             /\ mem[Directory][d].mode # "absent" /\ InWindow(g)
             /\ DOMAIN mem' = DOMAIN mem
             /\ \A x \in DOMAIN mem : \A i \in Index :
                    mem'[x][i] = IF x = Reached(g) /\ i = j THEN e ELSE mem[x][i]
             /\ \A x \in DOMAIN mem \ {Reached(g)} : mem'[x] = mem[x]
           InNewTable ==
             /\ alloc_frame /\ mem[Directory][d].mode = "absent"
             /\ InWindow(frame') /\ frame' \in AllPages
             /\ DOMAIN mem' = DOMAIN mem \cup {Reached(frame')}
             /\ \A x \in DOMAIN mem \ {Reached(frame'), Directory} : mem'[x] = mem[x]
             /\ Reached(frame') # Directory =>
                    \A i \in Index : mem'[Reached(frame')][i] = IF i = j THEN e ELSE Absent
             /\ \A i \in Index : mem'[Directory][i] =
                    IF i = d THEN Entry(frame', m)
                    ELSE IF Reached(frame') # Directory THEN mem[Directory][i]
                    ELSE IF i = j THEN e ELSE Absent
<1>1. /\ stage = "running" /\ UNCHANGED <<tables, linked>> /\ (UNCHANGED vars \/ alloc_frame)
  BY MapSteps
<1>2. given \subseteq given'
  BY <1>1, AllocGives DEF PIInv, vars
<1>3. Roomy
  BY <1>1, <1>2 DEF Roomy
<1>4. Runs /\ Len(tables) = AllTables
  BY <1>1, <1>3 DEF PIInv, StagesHold, Runs
<1>5. d \in 0 .. WindowDir - 1 /\ d \in Index /\ j \in Index
  BY AskedFor
<1>6. \A n \in 1 .. AllTables : tables[n] # 0 /\ tables[n] \in given
  <2>1. DOMAIN tables = 1 .. AllTables
    BY <1>4 DEF PIInv, PTypeOK
  <2> QED
    BY <1>3, <1>4, <2>1, TablesAre DEF Roomy
<1>7. /\ DOMAIN mem \subseteq OwnTables \cup given \cup {0} /\ DOMAIN mem \subseteq AllPages
      /\ DirsApart
  BY <1>4 DEF PIInv, RunHolds, PTypeOK
<1>8. CASE InTable
  <2>1. g \in DOMAIN mem \ OwnTables
    BY <1>5, <1>7, <1>8 DEF DirsApart
  <2>2. g \in AllPages /\ (g = 0 \/ g < Pages - Window - Entries)
    BY <1>3, <1>7, <2>1 DEF Roomy
  <2> HIDE DEF d, j, e, g
  <2>3. Reached(g) = g
    BY <1>4, <1>8, <2>2, ReachedIsIt
  <2> QED
    BY <1>1, <1>4, <1>5, <1>8, <2>1, <2>3 DEF d, j, e, g
<1>9. CASE InNewTable
  <2>1. /\ frame' \notin OwnTables /\ (frame' # 0 => frame' \in given' /\ frame' \notin given)
    BY <1>9, AllocGives, Placed DEF PIInv
  <2>2. frame' = 0 \/ frame' < Pages - Window - Entries
    BY <2>1 DEF Roomy
  <2>3. Reached(frame') = frame'
    <3>1. ASSUME NEW x \in AllPages, x = 0 \/ x < Pages - Window - Entries, InWindow(x)
          PROVE  Reached(x) = x
      BY <1>4, <3>1, ReachedIsIt
    <3> QED
      BY <1>9, <2>2, <3>1
  <2>4. frame' # 0 => frame' \notin DOMAIN mem
    BY <1>7, <2>1
  <2>5. frame' # Directory /\ \A n \in 1 .. AllTables : tables[n] # frame'
    BY <1>6, <2>1 DEF OwnTables
  <2> HIDE DEF d, j, e, g
  <2> QED
    BY <1>1, <1>4, <1>5, <1>9, <2>1, <2>3, <2>4, <2>5 DEF d, j, e, g
<1>10. CASE alloc_frame /\ stage' = "halted" /\ UNCHANGED mem
  BY <1>1, <1>4, <1>5, <1>10
<1> QED
  <2>1. InTable \/ InNewTable \/ (alloc_frame /\ stage' = "halted" /\ UNCHANGED mem)
    BY MapSteps
  <2> QED
    BY <1>8, <1>9, <1>10, <2>1
LEMMA MapRunHolds ==
  ASSUME PIInv, NEW virt \in Targets, NEW f \in Asked, NEW m \in {"kernel", "user"},
         map_page(virt, Entry(f, m))
  PROVE  RunHolds'
<1> SUFFICES ASSUME Roomy' PROVE RunHolds'
  BY DEF RunHolds, Runs
<1> DEFINE d == virt \div Entries
           j == EntryOf(virt)
           e == Entry(f, m)
           g == mem[Directory][d].frame
           InTable ==
             /\ UNCHANGED vars /\ mem[Directory][d].mode # "absent"
             /\ g \in DOMAIN mem \ OwnTables /\ DOMAIN mem' = DOMAIN mem
             /\ \A x \in DOMAIN mem : \A i \in Index :
                    mem'[x][i] = IF x = g /\ i = j THEN e ELSE mem[x][i]
             /\ \A x \in DOMAIN mem \ {g} : mem'[x] = mem[x]
           InNewTable ==
             /\ alloc_frame /\ mem[Directory][d].mode = "absent"
             /\ frame' \notin OwnTables /\ (frame' # 0 => frame' \notin DOMAIN mem)
             /\ DOMAIN mem' = DOMAIN mem \cup {frame'}
             /\ \A n \in 1 .. AllTables : tables[n] # frame'
             /\ \A x \in DOMAIN mem \ {frame', Directory} : mem'[x] = mem[x]
             /\ \A i \in Index : mem'[frame'][i] = IF i = j THEN e ELSE Absent
             /\ \A i \in Index : mem'[Directory][i] =
                    IF i = d THEN Entry(frame', m) ELSE mem[Directory][i]
           Halts == alloc_frame /\ stage' = "halted" /\ UNCHANGED mem
<1>1. /\ Runs /\ d \in 0 .. WindowDir - 1 /\ d \in Index /\ j \in Index
      /\ UNCHANGED <<tables, linked>>
  BY MapRuns
<1>2. InTable \/ InNewTable \/ Halts
  BY MapRuns
<1>3. virt = d * Entries + j /\ m # "absent" /\ e.mode = m
  BY AskedFor
<1>4. /\ OwnTables \cup {tables[n] : n \in 1 .. AllTables} \subseteq DOMAIN mem
      /\ DOMAIN mem \subseteq OwnTables \cup given \cup {0}
      /\ 0 \in DOMAIN mem => frame = 0 /\ Found = {}
      /\ mem[BootTable1] = BootTables[BootTable1]
      /\ \A n \in 1 .. KernelTables : mem[tables[n]] = Filled(n)
      /\ \A x \in 1 .. UserTables : \A i \in Index :
             x * Entries + i \notin Targets =>
                 mem[tables[KernelTables + x]][i] = UserEntry(KernelTables + x, i)
      /\ mem[Directory][Entries - 1] = Entry(Directory, "kernel")
      /\ \A n \in 1 .. AllTables : mem[Directory][Slot(n)] = Linked(n)
      /\ \A x \in WindowDir + KernelTables .. Entries - 2 : mem[Directory][x].mode = "absent"
      /\ DirsApart
  BY <1>1 DEF PIInv, RunHolds
<1> DEFINE Keeps ==
      /\ OwnTables \cup {tables[n] : n \in 1 .. AllTables} \subseteq DOMAIN mem'
      /\ DOMAIN mem' \subseteq OwnTables \cup given' \cup {0}
      /\ 0 \in DOMAIN mem' => frame' = 0 /\ Found' = {}
      /\ mem'[BootTable1] = BootTables[BootTable1]
      /\ \A n \in 1 .. KernelTables : mem'[tables[n]] = Filled(n)
      /\ \A x \in 1 .. UserTables : \A i \in Index :
             x * Entries + i \notin Targets =>
                 mem'[tables[KernelTables + x]][i] = UserEntry(KernelTables + x, i)
      /\ mem'[Directory][Entries - 1] = Entry(Directory, "kernel")
      /\ \A n \in 1 .. AllTables : mem'[Directory][Slot(n)] = Linked(n)
      /\ \A x \in WindowDir + KernelTables .. Entries - 2 : mem'[Directory][x].mode = "absent"
      /\ DirsApart'
<1>5. Keeps => RunHolds'
  <2> SUFFICES ASSUME Keeps PROVE RunHolds'
    OBVIOUS
  <2>1. \A n \in 1 .. AllTables : Linked(n)' = Linked(n)
    BY <1>1 DEF Linked
  <2> QED
    BY <1>1, <2>1 DEF RunHolds, Filled, KernelEntry, UserEntry
<1>6. /\ \A n \in 1 .. AllTables : tables[n] # 0 /\ tables[n] \in DOMAIN mem
                                   /\ tables[n] \notin OwnTables
      /\ \A n \in 1 .. KernelTables : n \in 1 .. AllTables
      /\ \A x \in 1 .. UserTables : KernelTables + x \in 1 .. AllTables
      /\ Entries - 1 \in Index /\ \A n \in 1 .. AllTables : Slot(n) \in Index
      /\ \A x \in WindowDir + KernelTables .. Entries - 2 : x \in Index
      /\ \A x \in 0 .. WindowDir - 1 : x \in Index
      /\ OwnTables = {Directory, BootTable1, BootTable2} /\ BootTable1 # Directory
  <2>1. Len(tables) = AllTables /\ DOMAIN tables = 1 .. AllTables
    BY <1>1 DEF PIInv, Runs, StagesHold, PTypeOK
  <2>2. \A n \in 1 .. AllTables : tables[n] # 0 /\ tables[n] \notin OwnTables
    BY <1>1, <2>1, TablesAre DEF Runs, Roomy
  <2>3. \A n \in 1 .. AllTables : tables[n] \in DOMAIN mem
    BY <1>4
  <2>4. /\ \A n \in 1 .. KernelTables : n \in 1 .. AllTables
        /\ \A x \in 1 .. UserTables : KernelTables + x \in 1 .. AllTables
        /\ Entries - 1 \in Index
        /\ \A x \in WindowDir + KernelTables .. Entries - 2 : x \in Index
        /\ \A x \in 0 .. WindowDir - 1 : x \in Index
    BY TableSizes DEF Index, AllTables
  <2>5. \A n \in 1 .. AllTables : Slot(n) \in Index
    BY SlotsFacts, TableSizes DEF Index
  <2>6. OwnTables = {Directory, BootTable1, BootTable2} /\ BootTable1 # Directory
    BY Placed DEF OwnTables
  <2> HIDE DEF InTable, InNewTable, Halts, Keeps
  <2> QED
    BY <2>2, <2>3, <2>4, <2>5, <2>6
<1>7. CASE InTable
  <2>1. mem'[Directory] = mem[Directory] /\ mem'[BootTable1] = mem[BootTable1]
    BY <1>4, <1>6, <1>7
  <2>2. \A n \in 1 .. KernelTables : mem'[tables[n]] = mem[tables[n]]
    <3>1. \A n \in 1 .. KernelTables : g # tables[n]
      BY <1>1, <1>4, <1>7 DEF DirsApart
    <3> QED
      BY <1>6, <1>7, <3>1
  <2>3. ASSUME NEW x \in 1 .. UserTables, NEW i \in Index, x * Entries + i \notin Targets
        PROVE  mem'[tables[KernelTables + x]][i] = UserEntry(KernelTables + x, i)
    <3>1. tables[KernelTables + x] = g => x = d
      <4>1. /\ x \in 1 .. AllTables /\ x \in 0 .. WindowDir - 1
            /\ mem[Directory][x] = Entry(tables[KernelTables + x], "user")
        BY <1>4, SlotsFacts, TableSizes
      <4>2. mem[Directory][x].mode # "absent" /\ mem[Directory][x].frame = tables[KernelTables + x]
        BY <4>1 DEF Entry
      <4>3. tables[KernelTables + x] # 0
        BY <1>6
      <4> QED
        BY <1>1, <1>4, <1>7, <4>1, <4>2, <4>3 DEF DirsApart
    <3>2. ~(tables[KernelTables + x] = g /\ i = j)
      BY <1>3, <2>3, <3>1
    <3> QED
      BY <1>4, <1>6, <1>7, <2>3, <3>2
  <2>4. DirsApart'
    BY <1>1, <1>4, <1>7, <2>1 DEF DirsApart
  <2>5. Found' = Found
    BY <1>7 DEF Found, vars
  <2>6. frame' = frame /\ given' = given
    BY <1>7 DEF vars
  <2>7. Keeps
    BY <1>4, <1>7, <2>1, <2>2, <2>3, <2>4, <2>5, <2>6
  <2> QED
    BY <1>5, <2>7
<1>8. CASE InNewTable
  <2> DEFINE p == frame'
  <2>1. /\ p # Directory /\ p # BootTable1 /\ p \notin OwnTables
        /\ Found = {} => Found' = {}
        /\ p # 0 => Found # {}
        /\ p = 0 => Found = {}
        /\ p \in given' \cup {0} /\ given \subseteq given'
    <3>1. /\ \/ p \in Found /\ p # 0 /\ given' = given \cup {p}
             \/ p = 0 /\ Found = {} /\ given' = given
          /\ Found = {} => Found' = {}
      BY <1>8, AllocGives DEF PIInv
    <3> QED
      BY <1>6, <1>8, <3>1
  <2> HIDE DEF p, d, j, e, g
  <2>2. /\ DOMAIN mem' = DOMAIN mem \cup {p} /\ (p # 0 => p \notin DOMAIN mem)
        /\ \A n \in 1 .. AllTables : tables[n] # p
        /\ \A x \in DOMAIN mem \ {p, Directory} : mem'[x] = mem[x]
        /\ \A i \in Index : mem'[Directory][i] = IF i = d THEN Entry(p, m) ELSE mem[Directory][i]
        /\ mem[Directory][d].mode = "absent"
    BY <1>8 DEF p
  <2>3. \A n \in 1 .. AllTables : mem'[tables[n]] = mem[tables[n]]
    BY <1>6, <2>2
  <2>4. mem'[BootTable1] = mem[BootTable1]
    BY <1>4, <1>6, <2>1, <2>2
  <2>5. \A n \in 1 .. AllTables : Slot(n) # d
    <3>1. \A n \in 1 .. AllTables : Linked(n).mode # "absent"
      BY DEF Linked, Entry
    <3> QED
      BY <1>4, <2>2, <3>1
  <2>6. d # Entries - 1 /\ d \notin WindowDir + KernelTables .. Entries - 2
    BY <1>1, TableSizes
  <2>7. DirsApart'
    <3>1. ASSUME NEW x \in 0 .. WindowDir - 1, mem'[Directory][x].mode # "absent", x # d
          PROVE  /\ mem'[Directory][x] = mem[Directory][x]
                 /\ mem[Directory][x].frame \in DOMAIN mem \ OwnTables
                 /\ \A n \in 1 .. KernelTables : mem[Directory][x].frame # tables[n]
      BY <1>4, <1>6, <2>2, <3>1 DEF DirsApart
    <3>2. mem'[Directory][d].frame = p
      BY <1>1, <2>2 DEF Entry
    <3>3. ASSUME NEW x \in 0 .. WindowDir - 1, mem'[Directory][x].mode # "absent"
          PROVE  /\ mem'[Directory][x].frame \in DOMAIN mem' \ OwnTables
                 /\ \A n \in 1 .. KernelTables : mem'[Directory][x].frame # tables[n]
      <4>1. CASE x = d
        BY <1>6, <2>1, <2>2, <3>2, <4>1
      <4>2. CASE x # d
        BY <2>2, <3>1, <3>3, <4>2
      <4> QED
        BY <4>1, <4>2
    <3>4. ASSUME NEW x \in 0 .. WindowDir - 1, mem'[Directory][x].mode # "absent",
                 NEW y \in 0 .. WindowDir - 1, mem'[Directory][y].mode # "absent",
                 mem'[Directory][y].frame = mem'[Directory][x].frame
          PROVE  x = y \/ mem'[Directory][x].frame = 0
      <4>1. CASE x # d /\ y # d
        BY <1>4, <3>1, <3>4, <4>1 DEF DirsApart
      <4>2. CASE x = d /\ y # d
        BY <2>2, <3>1, <3>2, <3>4, <4>2
      <4>3. CASE x # d /\ y = d
        BY <2>2, <3>1, <3>2, <3>4, <4>3
      <4> QED
        BY <4>1, <4>2, <4>3
    <3> QED
      BY <1>1, <3>3, <3>4 DEF DirsApart
  <2>8. 0 \in DOMAIN mem' => p = 0 /\ Found' = {}
    <3>1. 0 \in DOMAIN mem => Found = {}
      BY <1>4
    <3> QED
      BY <2>1, <2>2, <3>1
  <2>9. DOMAIN mem' \subseteq OwnTables \cup given' \cup {0}
    BY <1>4, <2>1, <2>2
  <2>10. /\ mem'[Directory][Entries - 1] = mem[Directory][Entries - 1]
         /\ \A n \in 1 .. AllTables : mem'[Directory][Slot(n)] = mem[Directory][Slot(n)]
         /\ \A x \in WindowDir + KernelTables .. Entries - 2 :
                mem'[Directory][x] = mem[Directory][x]
    BY <1>6, <2>2, <2>5, <2>6
  <2>11. Keeps
    BY <1>4, <1>6, <2>2, <2>3, <2>4, <2>7, <2>8, <2>9, <2>10 DEF p
  <2> QED
    BY <1>5, <2>11
<1>9. CASE Halts
  <2>1. /\ \/ frame' \in Found /\ given' = given \cup {frame'}
           \/ frame' = 0 /\ Found = {} /\ given' = given
        /\ Found = {} => Found' = {}
    BY <1>9, AllocGives DEF PIInv
  <2>2. 0 \in DOMAIN mem' => frame' = 0 /\ Found' = {}
    BY <1>4, <1>9, <2>1
  <2>3. DirsApart'
    BY <1>1, <1>4, <1>9 DEF DirsApart
  <2>4. mem' = mem /\ given \subseteq given'
    BY <1>9, <2>1
  <2>5. Keeps
    BY <1>4, <2>2, <2>3, <2>4
  <2> QED
    BY <1>5, <2>5
<1> QED
  BY <1>2, <1>7, <1>8, <1>9

\* Every step keeps the invariant.
LEMMA StepPIInv == PIInv /\ [PNext]_allVars => PIInv'
<1> SUFFICES ASSUME PIInv, [PNext]_allVars PROVE PIInv'
  OBVIOUS
<1>1. CASE MemoryMap \/ setGdt \/ BuildBitmap
  BY <1>1, BootPIInv
<1>2. CASE AllocTable
  BY <1>2, AllocPIInv
<1>3. CASE FillTables \/ FillFaults
  BY <1>3, FillPIInv, FillFaultsPIInv
<1>4. CASE LinkTable \/ LinkItself
  BY <1>4, LinkPIInv, LinkItselfPIInv
<1>5. CASE MapPage
  <2>1. PICK virt \in Targets, f \in Asked, m \in {"kernel", "user"} :
            map_page(virt, Entry(f, m))
    BY <1>5 DEF MapPage
  <2>2. IInv'
    BY KeepsIInv
  <2> QED
    BY <2>1, <2>2, MapKeeps, MapRunHolds DEF PIInv
<1>6. CASE UNCHANGED allVars
  <2>1. UNCHANGED <<stage, tables, mem, linked, phase, free_regions, used, frame, given, count>>
    BY <1>6 DEF allVars, vars, pvars
  <2>2. IInv'
    BY KeepsIInv
  <2>3. PTypeOK' /\ StagesHold' /\ TablesGiven' /\ Fenced' /\ BootStands'
    BY <2>1, <2>2 DEF PIInv, IInv, PTypeOK, StagesHold, TablesGiven, Fenced, BootStands, BootDir
  <2>4. /\ Roomy' <=> Roomy
        /\ \A n \in 1 .. AllTables : Linked(n)' = Linked(n)
        /\ \A d \in Index : BootDir(d)' = BootDir(d)
        /\ Found' = Found /\ (DirsApart' <=> DirsApart)
    BY <2>1 DEF Roomy, Linked, BootDir, Found, DirsApart
  <2>5. LinksHold'
    <3>1. 1 .. linked \subseteq 1 .. AllTables
      BY TableSizes DEF PIInv, PTypeOK
    <3> QED
      BY <2>1, <2>4, <3>1 DEF PIInv, LinksHold
  <2>6. RunHolds'
    BY <2>1, <2>4 DEF PIInv, RunHolds, Runs
  <2> QED
    BY <2>2, <2>3, <2>5, <2>6 DEF PIInv
<1> QED
  BY <1>1, <1>2, <1>3, <1>4, <1>5, <1>6 DEF PNext

\* The tables are where they should be and hold what they should, through the
\* whole boot and after, for every memory map.
THEOREM TablesKept == PSpec => []PIInv
<1> QED
  BY InitPIInv, StepPIInv, PTL DEF PSpec

\* The kernel's frames are in the first 4 MiB, below the last of them.
LEMMA KernelLow ==
  ASSUME NEW f \in KernelFrames PROVE f \in AllPages /\ f < Entries - 1
<1>1. KernelPages \subseteq AllPages /\ \A p \in KernelPages : p < Entries - 1
  BY TablesAssumption DEF KernelPages
<1> QED
  BY <1>1, Placed DEF KernelFrames

\* The stages of the boot, as the invariant tells them apart.
LEMMA Stages ==
  ASSUME PIInv
  PROVE  \/ stage \in {"boot", "unmapped", "allocate", "fill"} \/ (stage = "halted" /\ linked = 0)
         \/ stage = "link"
         \/ linked = AllTables /\ stage \in {"running", "halted"}
  BY DEF PIInv, PTypeOK, StagesHold

\* Through a table that holds what Filled says, the window shows a frame of the
\* first 4 MiB at its place.
LEMMA GroundHolds ==
  ASSUME PIInv, Roomy, NEW f \in KernelFrames
  PROVE  Translate(Window + f) = Entry(f, "kernel")
<1>1. /\ f \in AllPages /\ f < Entries /\ f # Entries - 1 /\ f \in Index
      /\ Translate(Window + f) = Looked(mem, WindowDir, f) /\ WindowDir \in Index
      /\ Seen(f) = Window + f
  <2>1. f \in AllPages /\ f < Entries - 1 /\ f \in Nat
    BY KernelLow, TableSizes DEF AllPages
  <2> QED
    BY <2>1, SeenFirst, TranslateIs, TableSizes
<1>2. WindowDir # 0 /\ WindowDir \in Nat /\ 1 \in 1 .. AllTables /\ UserTables + 1 \in 1 .. AllTables
      /\ 1 <= KernelTables
  BY TableSizes
<1>3. ASSUME mem[Directory][WindowDir] = Entry(BootTable1, "kernel"), BootTable1 \in DOMAIN mem,
             mem[BootTable1] = BootTables[BootTable1]
      PROVE  Translate(Window + f) = Entry(f, "kernel")
  <2>1. mem[BootTable1][f] = Entry(f, "kernel")
    BY <1>1, <1>3, BootTablesAre
  <2> QED
    BY <1>1, <1>3, <2>1 DEF Looked, Entry, Both
<1>4. BootDir(WindowDir) = Entry(BootTable1, "kernel")
  BY <1>2, BootTablesAre DEF BootDir
<1>5. CASE stage \in {"boot", "unmapped", "allocate", "fill"} \/ (stage = "halted" /\ linked = 0)
  BY <1>1, <1>3, <1>4, <1>5 DEF PIInv, BootStands, OwnTables
<1>6. CASE stage = "link"
  <2>1. /\ DOMAIN mem = OwnTables \cup {tables[n] : n \in 1 .. AllTables}
        /\ mem[BootTable1] = BootTables[BootTable1]
        /\ \A n \in 1 .. AllTables : mem[tables[n]] = Filled(n)
        /\ \A n \in 1 .. linked : mem[Directory][Slot(n)] = Linked(n)
        /\ \A d \in Index : (\A n \in 1 .. linked : Slot(n) # d) =>
               mem[Directory][d] = BootDir(d)
    BY <1>6 DEF PIInv, LinksHold
  <2>2. Slot(UserTables + 1) = WindowDir /\ Linked(UserTables + 1) = Entry(tables[1], "kernel")
    BY TableSizes DEF Slot, Linked
  <2>3. linked \in 0 .. AllTables /\ 1 .. linked \subseteq 1 .. AllTables
    BY TableSizes DEF PIInv, PTypeOK
  <2>4. CASE \E n \in 1 .. linked : Slot(n) = WindowDir
    <3>1. PICK n \in 1 .. linked : Slot(n) = WindowDir
      BY <2>4
    <3>2. n = UserTables + 1
      BY <1>2, <2>2, <2>3, <3>1, SlotsFacts
    <3>3. mem[Directory][WindowDir] = Entry(tables[1], "kernel")
      BY <2>1, <2>2, <3>1, <3>2
    <3>4. tables[1] \in DOMAIN mem /\ mem[tables[1]] = Filled(1)
      BY <1>2, <2>1
    <3>5. Filled(1)[f] = Entry(f, "kernel")
      <4>1. (1 - 1) * Entries + f = f
        BY <1>1, TableSizes DEF AllPages
      <4> QED
        BY <1>1, <1>2, <4>1 DEF Filled, KernelEntry
    <3> QED
      BY <1>1, <3>3, <3>4, <3>5 DEF Looked, Entry, Both
  <2>5. CASE \A n \in 1 .. linked : Slot(n) # WindowDir
    BY <1>1, <1>3, <1>4, <2>1, <2>5 DEF OwnTables
  <2> QED
    BY <2>4, <2>5
<1>7. CASE linked = AllTables /\ stage \in {"running", "halted"}
  <2>1. Runs
    BY <1>7 DEF Runs
  <2>2. f < Pages - Window - Entries
    <3>0. WindowDir + 1 \in Index
      BY TableSizes DEF Index
    <3>1. (WindowDir + 1) * Entries + f \in AllPages
      BY <1>1, <3>0, Join
    <3>2. (WindowDir + 1) * Entries = Window + Entries
      BY TableSizes, SMT
    <3> QED
      BY <1>1, <3>1, <3>2, TableSizes, Sizes DEF AllPages
  <2>3. f \div Entries = 0
    <3>1. f \div Entries \in Nat /\ Seen(f) \div Entries = WindowDir + (f \div Entries)
      BY <1>1, SeenFirst, SeenAt
    <3>2. Seen(f) \div Entries = WindowDir
      BY <1>1, SeenFirst
    <3> QED
      BY <1>2, <3>1, <3>2
  <2>4. f \div Entries < KernelTables
    BY <2>3, TableSizes
  <2> QED
    BY <1>1, <2>1, <2>2, <2>4, RunReach
<1> QED
  BY <1>5, <1>6, <1>7, Stages

\* The kernel's code, stack and tables, the GDT and the screen keep their place
\* while setup_paging rewrites the directory in use, and ever after.
THEOREM GroundIsFirm == PSpec => []GroundStays
<1>1. PIInv => GroundStays
  BY GroundHolds DEF GroundStays
<1> QED
  BY <1>1, TablesKept, PTL

\* What is put in the directory is one of the tables.
LEMMA LinksATable ==
  ASSUME NEW n \in 1 .. AllTables
  PROVE  \E k \in 1 .. AllTables : Linked(n).frame = tables[k]
<1>1. CASE n <= UserTables
  <2>1. Linked(n) = Entry(tables[KernelTables + n], "user") /\ KernelTables + n \in 1 .. AllTables
    BY <1>1, SlotsFacts
  <2> QED
    BY <2>1 DEF Entry
<1>2. CASE ~(n <= UserTables)
  <2>1. Linked(n) = Entry(tables[n - UserTables], "kernel") /\ n - UserTables \in 1 .. AllTables
    BY <1>2, SlotsFacts, TableSizes
  <2> QED
    BY <2>1 DEF Entry
<1> QED
  BY <1>1, <1>2

\* Of the tables in use only those of map_page can be above the first 4 MiB.
LEMMA TablesAbove ==
  ASSUME PIInv, Roomy, stage # "halted", NEW f \in PageTables, f \in AllPages,
         f \notin KernelFrames, f >= Entries
  PROVE  stage = "running" /\ f \in given
<1>1. f # Directory /\ f \notin OwnTables
  BY PlacesAssumption DEF KernelFrames, OwnTables
<1>2. PICK d \in Index : mem[Directory][d].mode # "absent" /\ f = mem[Directory][d].frame
  BY <1>1 DEF PageTables
<1>3. ASSUME stage \in {"link", "running"}, NEW n \in 1 .. AllTables
      PROVE  f # tables[n]
  <2>1. tables[n] < Entries
    BY <1>3 DEF PIInv, Fenced
  <2>2. n \in 1 .. Len(tables)
    BY <1>3 DEF PIInv, StagesHold
  <2>3. tables[n] \in AllPages
    BY <2>2, TablesAre
  <2> QED
    BY <2>1, <2>3, TableSizes DEF AllPages
<1>4. mem[Directory][d] # BootDir(d)
  <2>1. f # 0
    BY TableSizes
  <2>2. BootTables[Directory][d] = BootEntry(Directory, d)
    BY DEF BootTables, OwnTables
  <2>3. BootEntry(Directory, d) \in {Absent, Entry(BootTable1, "kernel"), Entry(BootTable2, "kernel")}
    BY Placed DEF BootEntry
  <2>4. BootDir(d).frame \in {0, BootTable1, BootTable2}
    BY <2>2, <2>3 DEF BootDir, Entry, Absent
  <2> QED
    BY <1>1, <1>2, <2>1, <2>4 DEF OwnTables
<1>5. CASE stage \in {"boot", "unmapped", "allocate", "fill"}
  BY <1>2, <1>4, <1>5 DEF PIInv, BootStands
<1>6. CASE stage = "link"
  <2>1. PICK n \in 1 .. linked : Slot(n) = d
    BY <1>2, <1>4, <1>6 DEF PIInv, LinksHold
  <2>2. n \in 1 .. AllTables
    BY TableSizes DEF PIInv, PTypeOK
  <2>3. mem[Directory][d] = Linked(n)
    BY <1>6, <2>1 DEF PIInv, LinksHold
  <2>4. \E k \in 1 .. AllTables : Linked(n).frame = tables[k]
    BY <2>2, LinksATable
  <2> QED
    BY <1>2, <1>3, <1>6, <2>3, <2>4
<1>7. CASE stage = "running"
  <2>1. Runs
    BY <1>7 DEF PIInv, StagesHold, Runs
  <2>2. CASE d \in 0 .. WindowDir - 1
    <3>1. f \in DOMAIN mem \ OwnTables
      BY <1>2, <2>1, <2>2 DEF PIInv, RunHolds, DirsApart
    <3>2. f \in given \cup {0}
      BY <2>1, <3>1 DEF PIInv, RunHolds
    <3> QED
      BY <1>7, <3>2, TableSizes
  <2>3. CASE d \in WindowDir .. WindowDir + KernelTables - 1
    <3> DEFINE n == d - WindowDir + UserTables + 1
    <3>1. n \in 1 .. AllTables /\ n > UserTables
      BY <2>3, TableSizes
    <3>2. Slot(n) = d
      BY <2>3, <3>1, SlotsFacts, TableSizes
    <3>3. mem[Directory][d] = Linked(n)
      BY <2>1, <3>1, <3>2 DEF PIInv, RunHolds
    <3>4. \E k \in 1 .. AllTables : Linked(n).frame = tables[k]
      BY <3>1, LinksATable
    <3> QED
      BY <1>2, <1>3, <1>7, <3>3, <3>4
  <2>4. CASE d \in WindowDir + KernelTables .. Entries - 2
    BY <1>2, <2>1, <2>4 DEF PIInv, RunHolds
  <2>5. CASE d = Entries - 1
    BY <1>1, <1>2, <2>1, <2>5 DEF PIInv, RunHolds, Entry
  <2> QED
    BY <2>2, <2>3, <2>4, <2>5, TableSizes DEF Index
<1> QED
  BY <1>5, <1>6, <1>7 DEF PIInv, PTypeOK

\* A user program reaches neither the kernel nor the tables of setup_paging, with
\* room for them or without; of the tables in use, only what map_page has got.
THEOREM UserIsFenced == PSpec => []UserFenced
<1>1. ASSUME PIInv, NEW v \in AllPages, Translate(v).mode = "user"
      PROVE  LET f == Translate(v).frame IN
                 /\ f \notin KernelFrames
                 /\ stage = "running" => \A n \in DOMAIN tables : f # tables[n]
                 /\ Roomy /\ stage # "halted" /\ f \in PageTables =>
                        stage = "running" /\ f \in FromMapPage
  <2> DEFINE d == v \div Entries
             i == v % Entries
             e == mem[Directory][d]
             t == mem[e.frame][i]
  <2>1. d \in Index /\ i \in Index
    BY Split
  <2> HIDE DEF d, i
  <2>2. Looked(mem, d, i).mode = "user" /\ Translate(v) = Looked(mem, d, i)
    BY <1>1, TranslateIs DEF d, i
  <2>3. e.frame \in DOMAIN mem /\ e.mode = "user" /\ t.mode = "user"
        /\ Translate(v).frame = t.frame
    BY <2>2 DEF Looked, Entry, Absent, Both
  <2>4. t.frame >= Entries
    BY <1>1, <2>1, <2>3 DEF PIInv, Fenced
  <2>5. t.frame \in AllPages
    BY <1>1, <2>1, <2>3 DEF PIInv, PTypeOK
  <2>6. t.frame \notin KernelFrames
    BY <1>1, <2>4, <2>5, KernelLow, TableSizes DEF AllPages
  <2>7. ASSUME stage = "running", NEW n \in DOMAIN tables PROVE tables[n] # t.frame
    <3>1. n \in 1 .. Len(tables) /\ Len(tables) = AllTables
      BY <1>1, <2>7 DEF PIInv, PTypeOK, StagesHold
    <3>2. tables[n] < Entries /\ tables[n] \in AllPages
      BY <1>1, <2>7, <3>1, TablesAre DEF PIInv, Fenced
    <3> QED
      BY <2>4, <2>5, <3>2, TableSizes DEF AllPages
  <2>8. ASSUME Roomy, stage # "halted", t.frame \in PageTables
        PROVE  stage = "running" /\ t.frame \in FromMapPage
    <3>1. stage = "running" /\ t.frame \in given
      BY <1>1, <2>4, <2>5, <2>6, <2>8, TablesAbove
    <3> QED
      BY <2>7, <3>1 DEF FromMapPage
  <2> QED
    BY <2>3, <2>6, <2>7, <2>8
<1>2. PIInv => UserFenced
  BY <1>1 DEF UserFenced
<1> QED
  BY <1>2, TablesKept, PTL

\* The frames that hold tables were given to setup_paging and map_page, and are
\* none of the kernel's when its end begins a byte of the bitmap.
THEOREM TablesAreOwn == ASSUME Aligned PROVE PSpec => []TablesHold
<1>1. ASSUME PIInv PROVE given \cap KernelFrames = {}
  <2> SUFFICES ASSUME NEW p \in given, p \in KernelFrames PROVE FALSE
    OBVIOUS
  <2>1. p \in AllPages /\ p >= start_byte * PerByte
    BY <1>1 DEF PIInv, IInv, TypeOK, GivenMarked
  <2>2. p \notin {Screen, Gdt}
    <3>1. Directory \in OwnTables
      BY DEF OwnTables
    <3> QED
      BY <2>1, <3>1, Placed DEF AllPages
  <2>3. p \in KernelPages
    BY <2>2 DEF KernelFrames
  <2> QED
    BY <1>1, <2>3, KernelApart DEF PIInv, KernelNotAllocated
<1>2. ASSUME PIInv, Roomy, given # {} => frame # 0
      PROVE  /\ DOMAIN mem \ OwnTables \subseteq given
             /\ mem[BootTable1] = BootTables[BootTable1]
  <2>1. CASE stage \in {"boot", "unmapped", "allocate", "fill"} \/ (stage = "halted" /\ linked = 0)
    BY <1>2, <2>1 DEF PIInv, BootStands
  <2>2. ASSUME stage = "link" \/ (linked = AllTables /\ stage \in {"running", "halted"})
        PROVE  \A n \in 1 .. AllTables : tables[n] \in given
    <3>1. Len(tables) = AllTables /\ DOMAIN tables = 1 .. AllTables
      BY <1>2, <2>2 DEF PIInv, StagesHold, PTypeOK
    <3> QED
      BY <1>2, <3>1, TablesAre DEF Roomy
  <2>3. CASE stage = "link"
    <3>1. /\ DOMAIN mem = OwnTables \cup {tables[n] : n \in 1 .. AllTables}
          /\ mem[BootTable1] = BootTables[BootTable1]
      BY <1>2, <2>3 DEF PIInv, LinksHold
    <3>2. \A n \in 1 .. AllTables : tables[n] \in given
      BY <2>2, <2>3
    <3> HIDE DEF OwnTables
    <3> QED
      BY <3>1, <3>2
  <2>4. CASE linked = AllTables /\ stage \in {"running", "halted"}
    <3>1. /\ DOMAIN mem \subseteq OwnTables \cup given \cup {0}
          /\ 0 \in DOMAIN mem => frame = 0
          /\ mem[BootTable1] = BootTables[BootTable1]
      BY <1>2, <2>4 DEF PIInv, RunHolds, Runs
    <3>2. given # {}
      BY <2>2, <2>4, TableSizes
    <3> QED
      BY <1>2, <3>1, <3>2
  <2> QED
    BY <1>2, <2>1, <2>3, <2>4, Stages
<1>3. PIInv => TablesHold
  <2> SUFFICES ASSUME PIInv PROVE TablesInOwnFrames
    BY DEF TablesHold, PIInv
  <2>1. DOMAIN BootTables = OwnTables
    BY DEF BootTables
  <2> QED
    BY <1>1, <1>2, <2>1 DEF TablesInOwnFrames
<1> QED
  BY <1>3, TablesKept, PTL

\* With room, after setup_paging the window shows the memory from 0 on and the
\* user sees it from 4 MiB on at its own addresses, map_page's pages excepted.
THEOREM LinearIsMade == PSpec => []LinearAfterwards
<1>1. ASSUME PIInv, stage = "running", Roomy PROVE Runs
  BY <1>1 DEF PIInv, StagesHold, Runs
<1>2. ASSUME PIInv, Runs, NEW f \in 0 .. KernelTables * Entries - 1
      PROVE  Translate(Window + f) = Entry(f, "kernel")
  <2>1. /\ KernelTables * Entries <= (Entries - 1 - WindowDir) * Entries
        /\ (Entries - 1 - WindowDir) * Entries = Pages - Entries - Window
        /\ KernelTables * Entries \in Nat
    <3>1. KernelTables <= Entries - 1 - WindowDir /\ Entries - 1 - WindowDir \in Nat
      BY TableSizes
    <3>2. KernelTables * Entries <= (Entries - 1 - WindowDir) * Entries
      BY <3>1, TableSizes, TimesMonotone
    <3>3. (Entries - 1 - WindowDir) * Entries = Entries * Entries - Entries - WindowDir * Entries
      BY TableSizes, SMT
    <3>4. KernelTables * Entries \in Nat
      BY TableSizes, SMT
    <3> QED
      BY <3>2, <3>3, <3>4, TableSizes
  <2>2. f \in Nat /\ f < Pages - Window - Entries /\ f \in AllPages /\ f < Pages - Window
    BY <2>1, TableSizes, Sizes DEF AllPages
  <2>3. f \div Entries < KernelTables
    <3>1. f \div Entries \in Nat /\ (f \div Entries) * Entries <= f
      BY <2>2, TableSizes, DivFacts
    <3> DEFINE q == f \div Entries
    <3> HIDE DEF q
    <3>2. q >= KernelTables => KernelTables * Entries <= q * Entries
      BY <3>1, TableSizes, TimesMonotone DEF q
    <3>3. q \in Nat /\ q * Entries <= f /\ q * Entries \in Nat
      BY <3>1, TableSizes, SMT DEF q
    <3> QED
      BY <2>1, <2>2, <3>2, <3>3, TableSizes DEF q
  <2>4. Translate(Seen(f)) = Entry(f, "kernel")
    BY <1>2, <2>2, <2>3, RunReach
  <2>5. Seen(f) = Window + f
    BY <2>2, SeenAt
  <2> QED
    BY <2>4, <2>5
<1>3. ASSUME PIInv, Runs, NEW f \in Entries .. (UserTables + 1) * Entries - 1, f \notin Targets
      PROVE  Translate(f) = Entry(f, "user")
  <2> DEFINE d == f \div Entries
             i == f % Entries
  <2>1. f \in AllPages
    <3>1. UserTables + 1 <= Entries /\ UserTables + 1 \in Nat
      BY TableSizes
    <3>2. (UserTables + 1) * Entries <= Entries * Entries /\ (UserTables + 1) * Entries \in Nat
      BY <3>1, TableSizes, TimesMonotone, SMT
    <3> QED
      BY <3>2, TableSizes, Sizes DEF AllPages
  <2>2. d \in Index /\ i \in Index /\ f = d * Entries + i
    BY <2>1, Split
  <2> HIDE DEF d, i
  <2>3. d \in 1 .. UserTables
    <3>1. d >= UserTables + 1 => (UserTables + 1) * Entries <= d * Entries
      BY <2>2, TableSizes, TimesMonotone DEF Index
    <3>2. d = 0 => d * Entries = 0
      BY TableSizes
    <3>3. d * Entries \in Nat /\ (UserTables + 1) * Entries \in Nat
      BY <2>2, TableSizes, SMT DEF Index
    <3> QED
      BY <2>2, <3>1, <3>2, <3>3, TableSizes DEF Index
  <2>4. /\ d \in 1 .. AllTables /\ KernelTables + d \in 1 .. AllTables
        /\ mem[Directory][d] = Entry(tables[KernelTables + d], "user")
    <3>1. d \in 1 .. AllTables /\ d <= UserTables
      BY <2>3, TableSizes
    <3>2. Slot(d) = d /\ Linked(d) = Entry(tables[KernelTables + d], "user")
          /\ KernelTables + d \in 1 .. AllTables
      BY <3>1, SlotsFacts
    <3> QED
      BY <1>3, <3>1, <3>2 DEF PIInv, RunHolds
  <2>5. /\ tables[KernelTables + d] \in DOMAIN mem
        /\ mem[tables[KernelTables + d]][i] = UserEntry(KernelTables + d, i)
    BY <1>3, <2>2, <2>3, <2>4 DEF PIInv, RunHolds
  <2>6. UserEntry(KernelTables + d, i) = Entry(f, "user")
    <3>1. (KernelTables + d) - KernelTables = d
      BY <2>3, TableSizes
    <3> QED
      BY <2>2, <3>1 DEF UserEntry
  <2>7. Looked(mem, d, i) = Entry(f, "user")
    BY <2>4, <2>5, <2>6 DEF Looked, Entry, Both
  <2> QED
    BY <2>7, TranslateIs DEF d, i
<1>4. PIInv => LinearAfterwards
  BY <1>1, <1>2, <1>3 DEF LinearAfterwards
<1> QED
  BY <1>4, TablesKept, PTL

\* Once setup_paging is done, an entry of the directory names a table that is
\* known, and one of the window names one of the window's.
LEMMA DirAt ==
  ASSUME PIInv, Runs, NEW x \in Index, x < Entries - 1, mem[Directory][x].mode # "absent"
  PROVE  /\ mem[Directory][x].frame \in DOMAIN mem \ OwnTables
         /\ x >= WindowDir => \E n \in 1 .. KernelTables : mem[Directory][x].frame = tables[n]
<1>1. RunHolds /\ x \in Nat
  BY TableSizes DEF PIInv, Index
<1>2. CASE x < WindowDir
  <2>1. x \in 0 .. WindowDir - 1
    BY <1>1, <1>2, TableSizes
  <2> QED
    BY <1>1, <1>2, <2>1, TableSizes DEF RunHolds, DirsApart
<1>3. CASE x >= WindowDir
  <2>1. x < WindowDir + KernelTables
    <3>1. x >= WindowDir + KernelTables => x \in WindowDir + KernelTables .. Entries - 2
      BY <1>1, TableSizes
    <3> QED
      BY <1>1, <3>1, TableSizes DEF RunHolds
  <2> DEFINE n == x - WindowDir + 1
  <2>2. n \in 1 .. KernelTables /\ n \in 1 .. AllTables /\ UserTables + n \in 1 .. AllTables
    BY <1>1, <1>3, <2>1, TableSizes
  <2>3. Slot(UserTables + n) = x /\ Linked(UserTables + n) = Entry(tables[n], "kernel")
    BY <1>1, <1>3, <2>1, TableSizes DEF Slot, Linked
  <2> HIDE DEF n
  <2>4. mem[Directory][x].frame = tables[n] /\ tables[n] \in DOMAIN mem
    BY <1>1, <2>2, <2>3 DEF RunHolds, Entry
  <2>5. Len(tables) = AllTables
    BY DEF PIInv, StagesHold, Runs
  <2>6. tables[n] \notin OwnTables
    BY <2>2, <2>5, TablesAre
  <2> QED
    BY <2>2, <2>4, <2>6
<1> QED
  BY <1>1, <1>2, <1>3, TableSizes

\* map_page, with room for the table it may need, maps the page it is asked for
\* and leaves every other alone.
LEMMA MapsOne ==
  ASSUME PIInv, NEW virt \in Targets, NEW f \in Asked, NEW m \in {"kernel", "user"},
         map_page(virt, Entry(f, m)), stage' = "running", frame' # 0, Roomy'
  PROVE  /\ Translate(virt)'.frame = f
         /\ Translate(virt)'.mode = "user" => m = "user"
         /\ \A v \in 0 .. Pages - Entries - 1 : v # virt => Translate(v)' = Translate(v)
<1> DEFINE d == virt \div Entries
           j == EntryOf(virt)
           e == Entry(f, m)
           g == mem[Directory][d].frame
           InTable ==
             /\ UNCHANGED vars /\ mem[Directory][d].mode # "absent"
             /\ g \in DOMAIN mem \ OwnTables /\ DOMAIN mem' = DOMAIN mem
             /\ \A x \in DOMAIN mem : \A i \in Index :
                    mem'[x][i] = IF x = g /\ i = j THEN e ELSE mem[x][i]
             /\ \A x \in DOMAIN mem \ {g} : mem'[x] = mem[x]
           InNewTable ==
             /\ alloc_frame /\ mem[Directory][d].mode = "absent"
             /\ frame' \notin OwnTables /\ (frame' # 0 => frame' \notin DOMAIN mem)
             /\ DOMAIN mem' = DOMAIN mem \cup {frame'}
             /\ \A n \in 1 .. AllTables : tables[n] # frame'
             /\ \A x \in DOMAIN mem \ {frame', Directory} : mem'[x] = mem[x]
             /\ \A i \in Index : mem'[frame'][i] = IF i = j THEN e ELSE Absent
             /\ \A i \in Index : mem'[Directory][i] =
                    IF i = d THEN Entry(frame', m) ELSE mem[Directory][i]
<1>1. /\ Runs /\ d \in 0 .. WindowDir - 1 /\ d \in Index /\ j \in Index
      /\ UNCHANGED <<tables, linked>>
  BY MapRuns
<1>2. InTable \/ InNewTable
  <2>1. InTable \/ InNewTable \/ (alloc_frame /\ stage' = "halted" /\ UNCHANGED mem)
    BY MapRuns
  <2> QED
    BY <2>1
<1>3. virt = d * Entries + j /\ e.mode = m /\ e.frame = f /\ m # "absent" /\ virt % Entries = j
  BY AskedFor DEF EntryOf
<1>4. Translate(virt)' = Looked(mem', d, j)
  BY <1>3, TranslateIs
<1>5. ASSUME NEW v \in 0 .. Pages - Entries - 1, v # virt
      PROVE  \E dv \in Index, iv \in Index :
                 /\ dv < Entries - 1 /\ ~(dv = d /\ iv = j)
                 /\ Translate(v) = Looked(mem, dv, iv) /\ Translate(v)' = Looked(mem', dv, iv)
  <2>1. v \in AllPages
    BY TableSizes, Sizes DEF AllPages
  <2> DEFINE dv == v \div Entries
             iv == v % Entries
  <2>2. dv \in Index /\ iv \in Index /\ v = dv * Entries + iv
    BY <2>1, Split
  <2>3. Translate(v) = Looked(mem, dv, iv) /\ Translate(v)' = Looked(mem', dv, iv)
    BY TranslateIs
  <2> HIDE DEF dv, iv, d, j
  <2>4. dv < Entries - 1
    <3>1. dv = Entries - 1 => v = (Entries - 1) * Entries + iv
      BY <2>2
    <3>2. (Entries - 1) * Entries = Pages - Entries /\ (Entries - 1) * Entries \in Nat
      BY TableSizes, SMT
    <3> QED
      BY <2>1, <2>2, <3>1, <3>2, TableSizes, Sizes DEF Index, AllPages
  <2>5. ~(dv = d /\ iv = j)
    BY <1>3, <1>5, <2>2
  <2> QED
    BY <2>2, <2>3, <2>4, <2>5
<1>6. OwnTables \subseteq DOMAIN mem /\ Directory \in OwnTables
  BY DEF PIInv, Fenced, OwnTables
<1>7. CASE InTable
  <2>1. g # 0
    BY <1>1, <1>7 DEF PIInv, RunHolds, vars
  <2>2. mem'[Directory] = mem[Directory] /\ mem'[g][j] = e
    BY <1>1, <1>6, <1>7
  <2>3. Looked(mem', d, j) = Entry(f, Both(mem[Directory][d].mode, m))
    BY <1>3, <1>7, <2>2 DEF Looked
  <2>4. ASSUME NEW dv \in Index, NEW iv \in Index, dv < Entries - 1, ~(dv = d /\ iv = j)
        PROVE  Looked(mem', dv, iv) = Looked(mem, dv, iv)
    <3>1. ASSUME mem[Directory][dv].mode # "absent", mem[Directory][dv].frame = g PROVE dv = d
      <4>1. dv \in Nat /\ (dv < WindowDir => dv \in 0 .. WindowDir - 1)
        BY TableSizes DEF Index
      <4>2. DirsApart
        BY <1>1 DEF PIInv, RunHolds
      <4>3. dv < WindowDir => dv = d
        BY <1>1, <1>7, <2>1, <3>1, <4>1, <4>2 DEF DirsApart
      <4>4. ~(dv >= WindowDir)
        BY <1>1, <1>7, <2>4, <3>1, <4>2, DirAt DEF DirsApart
      <4> QED
        BY <4>1, <4>3, <4>4, TableSizes
    <3>2. ASSUME mem[Directory][dv].mode # "absent"
          PROVE  /\ mem[Directory][dv].frame \in DOMAIN mem
                 /\ mem'[mem[Directory][dv].frame][iv] = mem[mem[Directory][dv].frame][iv]
      <4>1. mem[Directory][dv].frame \in DOMAIN mem
        BY <1>1, <2>4, <3>2, DirAt
      <4>2. ~(mem[Directory][dv].frame = g /\ iv = j)
        BY <2>4, <3>1, <3>2
      <4> HIDE DEF g, j, d, e
      <4> QED
        BY <1>7, <2>4, <4>1, <4>2
    <3> QED
      BY <1>7, <2>2, <3>2 DEF Looked
  <2>5. Entry(f, Both(mem[Directory][d].mode, m)).frame = f
        /\ (Entry(f, Both(mem[Directory][d].mode, m)).mode = "user" => m = "user")
    BY DEF Entry, Both
  <2> HIDE DEF d, j, e, g, InTable, InNewTable
  <2> QED
    BY <1>4, <1>5, <2>3, <2>4, <2>5
<1>8. CASE InNewTable
  <2> DEFINE p == frame'
  <2>1. /\ p \notin DOMAIN mem /\ p # Directory /\ DOMAIN mem' = DOMAIN mem \cup {p}
        /\ \A x \in DOMAIN mem \ {p, Directory} : mem'[x] = mem[x]
        /\ \A i \in Index : mem'[p][i] = IF i = j THEN e ELSE Absent
        /\ \A i \in Index : mem'[Directory][i] = IF i = d THEN Entry(p, m) ELSE mem[Directory][i]
        /\ mem[Directory][d].mode = "absent"
    BY <1>6, <1>8
  <2> HIDE DEF p, InTable, InNewTable, d, j, e, g
  <2>2. mem'[Directory][d] = Entry(p, m) /\ mem'[p][j] = e
    BY <1>1, <2>1
  <2>3. Looked(mem', d, j) = Entry(f, Both(m, m))
    BY <1>3, <2>1, <2>2 DEF Looked, Entry
  <2>4. ASSUME NEW dv \in Index, NEW iv \in Index, dv < Entries - 1, ~(dv = d /\ iv = j)
        PROVE  Looked(mem', dv, iv) = Looked(mem, dv, iv)
    <3>1. CASE dv = d
      <4>1. mem'[p][iv] = Absent
        BY <2>1, <2>4, <3>1
      <4> QED
        BY <1>3, <2>1, <2>2, <3>1, <4>1 DEF Looked, Entry, Absent
    <3>2. CASE dv # d
      <4>1. mem'[Directory][dv] = mem[Directory][dv]
        BY <2>1, <3>2
      <4>2. ASSUME mem[Directory][dv].mode # "absent"
            PROVE  /\ mem[Directory][dv].frame \in DOMAIN mem
                   /\ mem[Directory][dv].frame \in DOMAIN mem'
                   /\ mem'[mem[Directory][dv].frame] = mem[mem[Directory][dv].frame]
        <5>1. mem[Directory][dv].frame \in DOMAIN mem \ OwnTables
          BY <1>1, <2>4, <4>2, DirAt
        <5> QED
          BY <1>6, <2>1, <5>1
      <4> QED
        BY <4>1, <4>2 DEF Looked
    <3> QED
      BY <3>1, <3>2
  <2>5. Entry(f, Both(m, m)).frame = f /\ (Entry(f, Both(m, m)).mode = "user" => m = "user")
    BY DEF Entry, Both
  <2> QED
    BY <1>4, <1>5, <2>3, <2>4, <2>5
<1> QED
  BY <1>2, <1>7, <1>8

\* map_page changes the translation of the page it is asked for and of no other,
\* whatever pages and frames it is asked for and in whatever order.
THEOREM MapsOnlyIt == PSpec => MapsOnlyItsPage
<1>1. PIInv => [\A virt \in Targets, f \in Asked, m \in {"kernel", "user"} :
          map_page(virt, Entry(f, m)) /\ stage' = "running" /\ frame' # 0 /\ Roomy' =>
            /\ Translate(virt)'.frame = f
            /\ Translate(virt)'.mode = "user" => m = "user"
            /\ \A v \in 0 .. Pages - Entries - 1 :
                   v # virt => Translate(v)' = Translate(v)]_allVars
  <2> SUFFICES ASSUME PIInv, NEW virt \in Targets, NEW f \in Asked, NEW m \in {"kernel", "user"},
                      map_page(virt, Entry(f, m)), stage' = "running", frame' # 0, Roomy'
               PROVE  /\ Translate(virt)'.frame = f
                      /\ Translate(virt)'.mode = "user" => m = "user"
                      /\ \A v \in 0 .. Pages - Entries - 1 :
                             v # virt => Translate(v)' = Translate(v)
    OBVIOUS
  <2> QED
    BY MapsOne
<1> QED
  BY <1>1, TablesKept, PTL DEF MapsOnlyItsPage
(***************************************************************************)
(* The walk over the boot loader's tags, up to the memory map the bitmap   *)
(* is built from.                                                          *)
(***************************************************************************)

\* The tags of the information at hand.
LEMMA TagFacts ==
  ASSUME NEW tags \in Infos
  PROVE  /\ Len(tags) \in Nat /\ Len(tags) > 0 /\ DOMAIN tags = 1 .. Len(tags) /\ tags[1].at = 8
         /\ \A k \in DOMAIN tags :
                /\ tags[k].at \in Nat /\ tags[k].size \in Nat /\ tags[k].entry_size \in Nat
                /\ tags[k].type \in {"mmap", "other", "end"}
                /\ Len(tags[k].entries) \in Nat
                /\ DOMAIN tags[k].entries = 1 .. Len(tags[k].entries)
                /\ \A j \in 1 .. Len(tags[k].entries) :
                       /\ tags[k].entries[j].base \in Nat /\ tags[k].entries[j].length \in Nat
                /\ (tags[k].type = "end") <=> (k = Len(tags))
                /\ tags[k].size >= 8 /\ tags[k].at % 8 = 0
                /\ k > 1 => /\ tags[k - 1].at + tags[k - 1].size <= tags[k].at
                            /\ tags[k].at <= tags[k - 1].at + tags[k - 1].size + 7
                /\ tags[k].type = "mmap" =>
                       /\ tags[k].entry_size >= 24
                       /\ tags[k].size = B!MapHeader + tags[k].entry_size * Len(tags[k].entries)
                /\ tags[k].type # "mmap" => tags[k].entries = <<>> /\ Len(tags[k].entries) = 0
<1>1. /\ tags \in Seq(B!Tag) /\ tags # <<>> /\ tags[1].at = 8
      /\ \A k \in DOMAIN tags :
             /\ (tags[k].type = "end") <=> (k = Len(tags))
             /\ tags[k].size >= 8 /\ tags[k].at % 8 = 0
             /\ k > 1 => LET end == tags[k - 1].at + tags[k - 1].size
                         IN  tags[k].at \in end .. end + 7
             /\ IF tags[k].type = "mmap"
                THEN /\ tags[k].entry_size >= 24
                     /\ tags[k].size = B!MapHeader + tags[k].entry_size * Len(tags[k].entries)
                ELSE tags[k].entries = <<>>
  BY BootMemoryAssumption DEF B!BootInfoAssumption
<1>2. ASSUME NEW S, NEW s \in Seq(S)
      PROVE  /\ Len(s) \in Nat /\ DOMAIN s = 1 .. Len(s) /\ (s # <<>> => Len(s) > 0)
             /\ \A k \in 1 .. Len(s) : s[k] \in S
  OBVIOUS
<1>3. /\ Len(tags) \in Nat /\ Len(tags) > 0 /\ DOMAIN tags = 1 .. Len(tags)
      /\ \A k \in DOMAIN tags : tags[k] \in B!Tag
  BY <1>1, <1>2
<1>4. ASSUME NEW k \in DOMAIN tags
      PROVE  /\ tags[k].at \in Nat /\ tags[k].size \in Nat /\ tags[k].entry_size \in Nat
             /\ tags[k].type \in {"mmap", "other", "end"}
             /\ Len(tags[k].entries) \in Nat
             /\ DOMAIN tags[k].entries = 1 .. Len(tags[k].entries)
             /\ \A j \in 1 .. Len(tags[k].entries) :
                    /\ tags[k].entries[j].base \in Nat /\ tags[k].entries[j].length \in Nat
             /\ k > 1 => /\ tags[k - 1].at + tags[k - 1].size <= tags[k].at
                         /\ tags[k].at <= tags[k - 1].at + tags[k - 1].size + 7
  <2>1. /\ tags[k].at \in Nat /\ tags[k].size \in Nat /\ tags[k].entry_size \in Nat
        /\ tags[k].type \in {"mmap", "other", "end"}
        /\ tags[k].entries \in Seq(B!Entry)
    BY <1>3 DEF B!Tag
  <2>2. /\ Len(tags[k].entries) \in Nat
        /\ DOMAIN tags[k].entries = 1 .. Len(tags[k].entries)
        /\ \A j \in 1 .. Len(tags[k].entries) : tags[k].entries[j] \in B!Entry
    BY <1>2, <2>1
  <2>3. \A j \in 1 .. Len(tags[k].entries) :
            /\ tags[k].entries[j].base \in Nat /\ tags[k].entries[j].length \in Nat
    BY <2>2 DEF B!Entry
  <2>4. ASSUME k > 1 PROVE /\ tags[k - 1].at + tags[k - 1].size <= tags[k].at
                           /\ tags[k].at <= tags[k - 1].at + tags[k - 1].size + 7
    <3>1. tags[k].at \in tags[k - 1].at + tags[k - 1].size
                              .. tags[k - 1].at + tags[k - 1].size + 7
      BY <1>1, <2>4
    <3>2. k - 1 \in DOMAIN tags
      BY <1>3, <2>4
    <3>3. tags[k - 1].at \in Nat /\ tags[k - 1].size \in Nat
      BY <1>3, <3>2 DEF B!Tag
    <3> QED
      BY <2>1, <3>1, <3>3
  <2> QED
    BY <2>1, <2>2, <2>3, <2>4
<1>5. Len(<<>>) = 0
  OBVIOUS
<1> QED
  BY <1>1, <1>3, <1>4, <1>5

\* Where the code looks for the next tag is where the loader has put it.
LEMMA NextTag ==
  ASSUME NEW tags \in Infos, NEW k \in DOMAIN tags, k < Len(tags)
  PROVE  k + 1 \in DOMAIN tags /\ tags[k].at + B!After(tags[k].size) = tags[k + 1].at
<1>1. k + 1 \in DOMAIN tags /\ k + 1 > 1 /\ (k + 1) - 1 = k
  BY TagFacts
<1>2. /\ tags[k].at \in Nat /\ tags[k].size \in Nat /\ tags[k].at % 8 = 0
      /\ tags[k + 1].at \in Nat /\ tags[k + 1].at % 8 = 0
      /\ tags[k].at + tags[k].size <= tags[k + 1].at
      /\ tags[k + 1].at <= tags[k].at + tags[k].size + 7
  BY <1>1, TagFacts
<1>3. ASSUME NEW a \in Nat, NEW s \in Nat, NEW b \in Nat, a % 8 = 0, b % 8 = 0,
             a + s <= b, b <= a + s + 7
      PROVE  a + (((s + 7) \div 8) * 8) = b
  BY <1>3
<1> QED
  BY <1>1, <1>2, <1>3 DEF B!After

\* No two tags are at the same address.
LEMMA TagsApart ==
  ASSUME NEW tags \in Infos, NEW j \in DOMAIN tags, NEW k \in DOMAIN tags, j < k
  PROVE  tags[j].at < tags[k].at
<1> DEFINE T == {n \in DOMAIN tags : j < n /\ ~(tags[j].at < tags[n].at)}
<1> SUFFICES ASSUME T # {} PROVE FALSE
  BY TagFacts
<1>1. T \subseteq Nat
  BY TagFacts
<1>2. PICK n \in T : \A m \in T : n <= m
  <2> HIDE DEF T
  <2> QED
    BY <1>1, Least
<1>3. n \in DOMAIN tags /\ j < n /\ ~(tags[j].at < tags[n].at) /\ n \in Nat /\ j \in Nat
  BY <1>2, TagFacts
<1>4. n - 1 \in DOMAIN tags /\ n - 1 \notin T /\ n - 1 >= j
  BY <1>2, <1>3, TagFacts
<1>5. /\ tags[n - 1].at + tags[n - 1].size <= tags[n].at /\ tags[n - 1].size >= 8
      /\ tags[n - 1].at \in Nat /\ tags[n - 1].size \in Nat /\ tags[n].at \in Nat
      /\ tags[j].at \in Nat
  BY <1>3, <1>4, TagFacts
<1> QED
  BY <1>3, <1>4, <1>5

\* The available entries: where they are, and that there are finitely many.
LEMMA FreeFacts ==
  ASSUME NEW tags \in Infos
  PROVE  /\ \A p \in B!Free(tags) :
                /\ p = <<p[1], p[2]>> /\ p[1] \in DOMAIN tags
                /\ p[2] \in 1 .. Len(tags[p[1]].entries)
         /\ \A k \in DOMAIN tags : \A j \in 1 .. Len(tags[k].entries) :
                <<k, j>> \in B!Free(tags) <=> tags[k].entries[j].type = B!Available
         /\ IsFiniteSet(B!Free(tags))
<1> DEFINE Row(k) == {k} \X DOMAIN tags[k].entries
           Rows == {Row(k) : k \in DOMAIN tags}
<1>1. \A k \in DOMAIN tags : DOMAIN tags[k].entries = 1 .. Len(tags[k].entries)
  BY TagFacts
<1>2. B!Free(tags) = {p \in UNION Rows : tags[p[1]].entries[p[2]].type = B!Available}
  BY DEF B!Free
<1>3. ASSUME NEW k \in DOMAIN tags PROVE IsFiniteSet(Row(k))
  <2>1. k \in Int /\ Len(tags[k].entries) \in Int
    BY TagFacts
  <2>2. IsFiniteSet({k})
    BY FS_Singleton
  <2>3. IsFiniteSet(1 .. Len(tags[k].entries))
    BY <2>1, FS_Interval
  <2> QED
    BY <1>1, <2>2, <2>3, FS_Product
<1>4. IsFiniteSet(Rows)
  <2>1. Len(tags) \in Int /\ DOMAIN tags = 1 .. Len(tags)
    BY TagFacts
  <2>2. IsFiniteSet(DOMAIN tags)
    BY <2>1, FS_Interval
  <2> DEFINE f == [k \in DOMAIN tags |-> Row(k)]
  <2>3. f \in Surjection(DOMAIN tags, Rows)
    BY DEF Surjection
  <2> HIDE DEF f, Rows
  <2> QED
    BY <2>2, <2>3, FS_Surjection
<1>5. IsFiniteSet(UNION Rows)
  <2> HIDE DEF Row
  <2> QED
    BY <1>3, <1>4, FS_UNION
<1>6. IsFiniteSet(B!Free(tags))
  <2> HIDE DEF Rows
  <2>1. B!Free(tags) \in SUBSET (UNION Rows)
    BY <1>2
  <2> QED
    BY <1>5, <2>1, FS_Subset
<1>7. ASSUME NEW p \in B!Free(tags)
      PROVE  /\ p = <<p[1], p[2]>> /\ p[1] \in DOMAIN tags
             /\ p[2] \in 1 .. Len(tags[p[1]].entries)
  <2>1. PICK k \in DOMAIN tags : p \in Row(k)
    BY <1>2
  <2>2. p = <<p[1], p[2]>> /\ p[1] = k /\ p[2] \in DOMAIN tags[k].entries
    BY <2>1
  <2> QED
    BY <1>1, <2>2
<1>8. ASSUME NEW k \in DOMAIN tags, NEW j \in 1 .. Len(tags[k].entries)
      PROVE  <<k, j>> \in B!Free(tags) <=> tags[k].entries[j].type = B!Available
  <2>1. <<k, j>> \in Row(k)
    BY <1>1
  <2> QED
    BY <1>2, <2>1
<1> QED
  BY <1>6, <1>7, <1>8

\* The entries before one of them are fewer than those before a later one.
LEMMA BeforeFacts ==
  ASSUME NEW tags \in Infos, NEW p \in B!Free(tags)
  PROVE  /\ IsFiniteSet(B!Before(tags, p)) /\ Cardinality(B!Before(tags, p)) \in Nat
         /\ p \notin B!Before(tags, p) /\ B!Before(tags, p) \subseteq B!Free(tags)
         /\ \A q \in B!Before(tags, p) :
                Cardinality(B!Before(tags, q)) < Cardinality(B!Before(tags, p))
<1> DEFINE b == B!Before(tags, p)
<1>1. \A q \in B!Free(tags) : q[1] \in Int /\ q[2] \in Int
  BY FreeFacts, TagFacts
<1>2. p \notin b /\ b \subseteq B!Free(tags)
  BY <1>1 DEF B!Before
<1>3. IsFiniteSet(b) /\ Cardinality(b) \in Nat
  <2>1. b \in SUBSET B!Free(tags)
    BY <1>2
  <2> HIDE DEF b
  <2> QED
    BY <2>1, FreeFacts, FS_Subset, FS_CardinalityType
<1>4. ASSUME NEW q \in b PROVE Cardinality(B!Before(tags, q)) < Cardinality(b)
  <2>1. q \in B!Free(tags) /\ q \notin B!Before(tags, q)
    BY <1>1, <1>2 DEF B!Before
  <2>2. B!Before(tags, q) \in SUBSET b
    BY <1>1, <2>1 DEF B!Before
  <2> HIDE DEF b
  <2>3. /\ IsFiniteSet(B!Before(tags, q))
        /\ Cardinality(B!Before(tags, q)) <= Cardinality(b)
        /\ Cardinality(b) = Cardinality(B!Before(tags, q)) => b = B!Before(tags, q)
    BY <1>3, <2>2, FS_Subset
  <2>4. Cardinality(B!Before(tags, q)) \in Nat
    BY <2>3, FS_CardinalityType
  <2> QED
    BY <1>3, <2>1, <2>3, <2>4
<1> QED
  BY <1>2, <1>3, <1>4

\* The available entries that come before the entry after the n-th of tag k.
Behind(tags, k, n) == {p \in B!Free(tags) : p[1] < k \/ (p[1] = k /\ p[2] <= n)}

\* It grows with an available entry, and from a tag's last entry to the next tag.
LEMMA BehindFacts ==
  ASSUME NEW tags \in Infos, NEW k \in DOMAIN tags
  PROVE  /\ Behind(tags, 1, 0) = {}
         /\ k < Len(tags) => Behind(tags, k, Len(tags[k].entries)) = Behind(tags, k + 1, 0)
         /\ Behind(tags, Len(tags), 0) = B!Free(tags)
         /\ \A n \in 0 .. Len(tags[k].entries) - 1 :
                IF tags[k].entries[n + 1].type = B!Available
                THEN /\ <<k, n + 1>> \in B!Free(tags)
                     /\ B!Before(tags, <<k, n + 1>>) = Behind(tags, k, n)
                     /\ Behind(tags, k, n + 1) = Behind(tags, k, n) \cup {<<k, n + 1>>}
                ELSE Behind(tags, k, n + 1) = Behind(tags, k, n)
<1>1. /\ \A q \in B!Free(tags) :
             /\ q = <<q[1], q[2]>> /\ q[1] \in 1 .. Len(tags) /\ q[2] \in Nat /\ q[2] >= 1
             /\ q[2] <= Len(tags[q[1]].entries)
      /\ Len(tags) \in Nat /\ k \in 1 .. Len(tags) /\ Len(tags[k].entries) \in Nat
      /\ Len(tags) \in DOMAIN tags
  BY FreeFacts, TagFacts
<1>2. Behind(tags, 1, 0) = {}
  BY <1>1 DEF Behind
<1>3. ASSUME k < Len(tags)
      PROVE  Behind(tags, k, Len(tags[k].entries)) = Behind(tags, k + 1, 0)
  BY <1>1, <1>3 DEF Behind
<1>4. Behind(tags, Len(tags), 0) = B!Free(tags)
  <2>1. Len(tags[Len(tags)].entries) = 0
    BY <1>1, TagFacts
  <2> QED
    BY <1>1, <2>1 DEF Behind
<1>5. ASSUME NEW n \in 0 .. Len(tags[k].entries) - 1
      PROVE  IF tags[k].entries[n + 1].type = B!Available
             THEN /\ <<k, n + 1>> \in B!Free(tags)
                  /\ B!Before(tags, <<k, n + 1>>) = Behind(tags, k, n)
                  /\ Behind(tags, k, n + 1) = Behind(tags, k, n) \cup {<<k, n + 1>>}
             ELSE Behind(tags, k, n + 1) = Behind(tags, k, n)
  <2>1. n + 1 \in 1 .. Len(tags[k].entries) /\ n \in Nat
    BY <1>1
  <2>2. <<k, n + 1>> \in B!Free(tags) <=> tags[k].entries[n + 1].type = B!Available
    BY <2>1, FreeFacts
  <2>3. ASSUME NEW q \in B!Free(tags)
        PROVE  /\ (q[1] < k \/ (q[1] = k /\ q[2] <= n + 1))
                     <=> (q[1] < k \/ (q[1] = k /\ q[2] <= n) \/ q = <<k, n + 1>>)
               /\ (q[1] < k \/ (q[1] = k /\ q[2] < n + 1))
                     <=> (q[1] < k \/ (q[1] = k /\ q[2] <= n))
    BY <1>1, <2>1
  <2>4. B!Before(tags, <<k, n + 1>>) = Behind(tags, k, n)
    BY <2>3 DEF B!Before, Behind
  <2>5. \A q : q \in Behind(tags, k, n + 1) <=>
                   q \in Behind(tags, k, n) \/ (q = <<k, n + 1>> /\ q \in B!Free(tags))
    BY <2>3 DEF Behind
  <2>6. CASE tags[k].entries[n + 1].type = B!Available
    <3>1. Behind(tags, k, n + 1) = Behind(tags, k, n) \cup {<<k, n + 1>>}
      BY <2>2, <2>5, <2>6
    <3> QED
      BY <2>2, <2>4, <2>6, <3>1
  <2>7. CASE tags[k].entries[n + 1].type # B!Available
    <3>1. Behind(tags, k, n + 1) = Behind(tags, k, n)
      BY <2>2, <2>5, <2>7
    <3> QED
      BY <2>7, <3>1
  <2> QED
    BY <2>6, <2>7
<1> QED
  BY <1>2, <1>3, <1>4, <1>5

\* The entries of S, and no others, are stored, each behind those before it.
Stored(tags, f, S) ==
    /\ Len(f) = Cardinality(S)
    /\ \A p \in S : f[Cardinality(B!Before(tags, p)) + 1] = B!RegionAt(tags, p)
    /\ \A i \in 1 .. Len(f) : \E p \in S : f[i] = B!RegionAt(tags, p)

\* Before the first entry nothing is stored.
LEMMA StoredNone == ASSUME NEW tags PROVE Stored(tags, <<>>, {})
  BY FS_EmptySet DEF Stored

\* The next available entry is stored.
LEMMA StoredOneMore ==
  ASSUME NEW tags \in Infos, NEW f \in Seq(Region), NEW p \in B!Free(tags),
         Stored(tags, f, B!Before(tags, p))
  PROVE  Stored(tags, Append(f, B!RegionAt(tags, p)), B!Before(tags, p) \cup {p})
<1> DEFINE S == B!Before(tags, p)
           r == B!RegionAt(tags, p)
           g == Append(f, r)
<1>1. /\ IsFiniteSet(S) /\ Cardinality(S) \in Nat /\ p \notin S /\ S \subseteq B!Free(tags)
      /\ \A q \in S : Cardinality(B!Before(tags, q)) < Cardinality(S)
  BY BeforeFacts
<1>2. Cardinality(S \cup {p}) = Cardinality(S) + 1
  <2> HIDE DEF S
  <2> QED
    BY <1>1, FS_AddElement
<1>3. /\ Len(f) = Cardinality(S)
      /\ \A q \in S : f[Cardinality(B!Before(tags, q)) + 1] = B!RegionAt(tags, q)
      /\ \A i \in 1 .. Len(f) : \E q \in S : f[i] = B!RegionAt(tags, q)
  BY DEF Stored
<1>4. /\ Len(g) = Len(f) + 1 /\ Len(f) \in Nat /\ g[Len(f) + 1] = r
      /\ \A i \in 1 .. Len(f) : g[i] = f[i]
  BY AppendProperties
<1> HIDE DEF S, r, g
<1>5. ASSUME NEW q \in S \cup {p}
      PROVE  g[Cardinality(B!Before(tags, q)) + 1] = B!RegionAt(tags, q)
  <2>1. CASE q \in S
    <3>1. Cardinality(B!Before(tags, q)) \in Nat
      BY <1>1, <2>1, BeforeFacts
    <3>2. Cardinality(B!Before(tags, q)) + 1 \in 1 .. Len(f)
      BY <1>1, <1>3, <1>4, <2>1, <3>1
    <3> QED
      BY <1>3, <1>4, <2>1, <3>2
  <2>2. CASE q = p
    BY <1>3, <1>4, <2>2 DEF S, r
  <2> QED
    BY <2>1, <2>2
<1>6. ASSUME NEW i \in 1 .. Len(g) PROVE \E q \in S \cup {p} : g[i] = B!RegionAt(tags, q)
  <2>1. CASE i \in 1 .. Len(f)
    BY <1>3, <1>4, <2>1
  <2>2. CASE i = Len(f) + 1
    BY <1>4, <2>2 DEF r
  <2> QED
    BY <1>4, <2>1, <2>2
<1> QED
  BY <1>2, <1>3, <1>4, <1>5, <1>6 DEF Stored, S, g, r

\* All that is available, once it is stored.
LEMMA StoredAll ==
  ASSUME NEW tags \in Infos, NEW f \in Seq(Region), Stored(tags, f, B!Free(tags))
  PROVE  ToSet(f) \in MemoryMaps
<1>1. {B!RegionAt(tags, p) : p \in B!Free(tags)} \in MemoryMaps
  BY BootMemoryAssumption
<1>2. Len(f) \in Nat /\ DOMAIN f = 1 .. Len(f)
  OBVIOUS
<1>3. ASSUME NEW p \in B!Free(tags) PROVE B!RegionAt(tags, p) \in ToSet(f)
  <2> DEFINE c == Cardinality(B!Before(tags, p))
  <2>1. c \in Nat /\ c < Cardinality(B!Free(tags))
    <3>1. /\ IsFiniteSet(B!Free(tags)) /\ B!Before(tags, p) \in SUBSET B!Free(tags)
          /\ p \notin B!Before(tags, p) /\ c \in Nat
      BY BeforeFacts, FreeFacts
    <3>2. /\ c <= Cardinality(B!Free(tags))
          /\ Cardinality(B!Free(tags)) = c => B!Free(tags) = B!Before(tags, p)
      BY <3>1, FS_Subset
    <3>3. Cardinality(B!Free(tags)) \in Nat
      BY <3>1, FS_CardinalityType
    <3> QED
      BY <3>1, <3>2, <3>3
  <2> HIDE DEF c
  <2>2. Len(f) = Cardinality(B!Free(tags)) /\ f[c + 1] = B!RegionAt(tags, p)
    BY DEF Stored, c
  <2>3. c + 1 \in DOMAIN f
    BY <1>2, <2>1, <2>2
  <2> QED
    BY <2>2, <2>3 DEF ToSet
<1>4. ASSUME NEW x \in ToSet(f) PROVE \E p \in B!Free(tags) : x = B!RegionAt(tags, p)
  BY <1>2 DEF ToSet, Stored
<1>5. ToSet(f) = {B!RegionAt(tags, p) : p \in B!Free(tags)}
  BY <1>3, <1>4
<1> QED
  BY <1>1, <1>5

(***************************************************************************)
(* The walk's invariant: where it looks, what it has stored, and that the  *)
(* allocator waits until it has ended.                                     *)
(***************************************************************************)
BMInv ==
    /\ info \in Infos /\ found \in Seq(Region) /\ Len(found) <= Slots
    /\ phase = "boot" <=> pc # "done"
    /\ pc = "entry" => found = <<>>
    /\ pc = "walk" =>
           \E k \in DOMAIN info : info[k].at = tag /\ Stored(info, found, Behind(info, k, 0))
    /\ pc = "entries" =>
           \E k \in DOMAIN info :
               /\ info[k].at = tag /\ info[k].type = "mmap"
               /\ \E n \in 0 .. Len(info[k].entries) :
                      /\ mmap = B!MapHeader + n * info[k].entry_size
                      /\ Stored(info, found, Behind(info, k, n))
    /\ pc = "done" => Stored(info, found, B!Free(info))
    /\ pc = "overrun" => Cardinality(B!Free(info)) > Slots

\* The tag it looks at is the one there.
LEMMA ThisIs ==
  ASSUME info \in Infos, NEW k \in DOMAIN info, info[k].at = tag
  PROVE  B!Here = {k} /\ B!This = info[k]
<1>1. ASSUME NEW j \in DOMAIN info, info[j].at = tag PROVE j = k
  <2>1. ~(j < k) /\ ~(k < j)
    BY <1>1, TagsApart, TagFacts
  <2>2. j \in Int /\ k \in Int
    BY TagFacts
  <2> QED
    BY <2>1, <2>2
<1>2. B!Here = {k}
  BY <1>1 DEF B!Here
<1> QED
  BY <1>2 DEF B!This

\* Nothing is stored to begin with, and the allocator has not started.
LEMMA BMInit == BInit => BMInv
<1> SUFFICES ASSUME BInit PROVE BMInv
  OBVIOUS
<1>1. Slots \in Nat
  BY BootMemoryAssumption DEF B!BootInfoAssumption
<1>2. found = <<>> /\ <<>> \in Seq(Region) /\ Len(<<>>) = 0
  BY DEF BInit, B!Init
<1>3. info \in Infos /\ pc = "entry" /\ phase = "boot"
  BY DEF BInit, B!Init, Init
<1> QED
  BY <1>1, <1>2, <1>3 DEF BMInv

\* The walk begins at the first tag, with nothing stored.
LEMMA EnterBMInv == ASSUME BMInv, B!Enter, phase' = phase PROVE BMInv'
<1>1. /\ pc = "entry" /\ pc' = "walk" /\ tag' = 8 /\ info' = info /\ found' = found
      /\ found = <<>> /\ info \in Infos
  BY DEF B!Enter, BMInv
<1>2. 1 \in DOMAIN info /\ info[1].at = 8
  BY <1>1, TagFacts
<1>3. Stored(info, found, Behind(info, 1, 0))
  BY <1>1, <1>2, StoredNone, BehindFacts
<1> QED
  BY <1>1, <1>2, <1>3 DEF BMInv

\* A tag is passed over or entered; at the end tag everything is stored.
LEMMA TagsBMInv ==
  ASSUME BMInv, B!Tags, phase' = IF pc' = "done" THEN "bitmap" ELSE phase
  PROVE  /\ BMInv'
         /\ pc' = "done" => Stored(info, found, B!Free(info))
<1>1. /\ pc = "walk" /\ info' = info /\ found' = found /\ info \in Infos
      /\ found \in Seq(Region) /\ Len(found) <= Slots /\ phase = "boot"
  BY DEF B!Tags, BMInv
<1>2. PICK k \in DOMAIN info : info[k].at = tag /\ Stored(info, found, Behind(info, k, 0))
  BY <1>1 DEF BMInv
<1>3. B!This = info[k]
  BY <1>1, <1>2, ThisIs
<1>4. \/ info[k].type = "end" /\ pc' = "done"
      \/ info[k].type = "mmap" /\ pc' = "entries" /\ mmap' = B!MapHeader /\ tag' = tag
      \/ info[k].type = "other" /\ tag' = tag + B!After(info[k].size) /\ pc' = pc
  BY <1>3 DEF B!Tags, B!Onward
<1>5. CASE info[k].type = "end" /\ pc' = "done"
  <2>1. k = Len(info)
    BY <1>1, <1>5, TagFacts
  <2>2. Stored(info, found, B!Free(info))
    BY <1>1, <1>2, <2>1, BehindFacts
  <2> QED
    BY <1>1, <1>5, <2>2 DEF BMInv
<1>6. CASE info[k].type = "mmap" /\ pc' = "entries" /\ mmap' = B!MapHeader /\ tag' = tag
  <2>1. 0 \in 0 .. Len(info[k].entries) /\ mmap' = B!MapHeader + 0 * info[k].entry_size
    <3>1. info[k].entry_size \in Nat /\ Len(info[k].entries) \in Nat
      BY <1>1, TagFacts
    <3>2. 0 * info[k].entry_size = 0
      BY <3>1
    <3> QED
      BY <1>6, <3>1, <3>2 DEF B!MapHeader
  <2> QED
    BY <1>1, <1>2, <1>6, <2>1 DEF BMInv
<1>7. CASE info[k].type = "other" /\ tag' = tag + B!After(info[k].size) /\ pc' = pc
  <2>1. k < Len(info) /\ Len(info[k].entries) = 0
    BY <1>1, <1>7, TagFacts
  <2>2. k + 1 \in DOMAIN info /\ info[k + 1].at = tag'
    BY <1>1, <1>2, <1>7, <2>1, NextTag
  <2>3. Behind(info, k, 0) = Behind(info, k + 1, 0)
    BY <1>1, <2>1, BehindFacts
  <2> QED
    BY <1>1, <1>2, <1>7, <2>2, <2>3 DEF BMInv
<1> QED
  BY <1>4, <1>5, <1>6, <1>7

\* An entry is stored, passed over, or finds no slot.
LEMMA EntriesBMInv == ASSUME BMInv, B!Entries, phase' = phase PROVE BMInv' /\ pc' # "done"
<1>1. /\ pc = "entries" /\ info' = info /\ tag' = tag /\ info \in Infos
      /\ found \in Seq(Region) /\ Len(found) <= Slots /\ Slots \in Nat /\ phase = "boot"
      /\ mmap < B!This.size /\ mmap' = mmap + B!This.entry_size
  BY BootMemoryAssumption DEF B!Entries, BMInv, B!BootInfoAssumption
<1>2. PICK k \in DOMAIN info :
          /\ info[k].at = tag /\ info[k].type = "mmap"
          /\ \E n \in 0 .. Len(info[k].entries) :
                 /\ mmap = B!MapHeader + n * info[k].entry_size
                 /\ Stored(info, found, Behind(info, k, n))
  BY <1>1 DEF BMInv
<1>3. PICK n \in 0 .. Len(info[k].entries) :
          /\ mmap = B!MapHeader + n * info[k].entry_size
          /\ Stored(info, found, Behind(info, k, n))
  BY <1>2
<1>4. B!This = info[k]
  BY <1>1, <1>2, ThisIs
<1> DEFINE es == info[k].entry_size
           e == info[k].entries[n + 1]
           len == Len(info[k].entries)
<1>5. /\ es \in Nat /\ es >= 24 /\ len \in Nat /\ n \in Nat
      /\ info[k].size = B!MapHeader + es * len
      /\ \A j \in 1 .. len : /\ info[k].entries[j].base \in Nat
                             /\ info[k].entries[j].length \in Nat
  <2>1. /\ info[k].entry_size \in Nat /\ Len(info[k].entries) \in Nat
        /\ \A j \in 1 .. Len(info[k].entries) :
               /\ info[k].entries[j].base \in Nat /\ info[k].entries[j].length \in Nat
    BY <1>1, TagFacts
  <2>2. /\ info[k].entry_size >= 24
        /\ info[k].size = B!MapHeader + info[k].entry_size * Len(info[k].entries)
    BY <1>1, <1>2, TagFacts
  <2>3. n \in Nat
    BY <2>1
  <2> QED
    BY <2>1, <2>2, <2>3
<1>6. n \in 0 .. len - 1 /\ (mmap - B!MapHeader) \div es = n
      /\ mmap' = B!MapHeader + (n + 1) * es
  <2> HIDE DEF es, e, len
  <2>1. mmap < B!MapHeader + es * len /\ mmap = B!MapHeader + n * es /\ mmap' = mmap + es
    BY <1>1, <1>3, <1>4, <1>5 DEF es
  <2>2. ASSUME NEW a \in Nat, NEW b \in Nat, NEW d \in Nat, d > 0
        PROVE  /\ (a * d) \div d = a
               /\ a * d < d * b => a < b
               /\ (a + 1) * d = (a * d) + d
               /\ a * d \in Nat /\ d * b \in Nat
    BY <2>2, SMT
  <2>3. /\ (n * es) \div es = n /\ (n * es < es * len => n < len)
        /\ (n + 1) * es = (n * es) + es /\ n * es \in Nat /\ es * len \in Nat
    BY <1>5, <2>2
  <2>4. n < len /\ mmap - B!MapHeader = n * es
    BY <2>1, <2>3 DEF B!MapHeader
  <2> QED
    BY <1>5, <2>1, <2>3, <2>4 DEF B!MapHeader
<1>7. /\ pc' = pc \/ pc' = "overrun"
      /\ IF e.type # B!Available THEN found' = found /\ pc' = pc
         ELSE IF Len(found) = Slots THEN found' = found /\ pc' = "overrun"
         ELSE found' = Append(found, B!RegionAt(info, <<k, n + 1>>)) /\ pc' = pc
  <2>1. 1 + (mmap - B!MapHeader) \div B!This.entry_size = n + 1
    BY <1>4, <1>5, <1>6
  <2>2. B!RegionAt(info, <<k, n + 1>>) = [base |-> e.base, length |-> e.length]
    BY DEF B!RegionAt
  <2>3. B!This.entries[1 + (mmap - B!MapHeader) \div B!This.entry_size] = e
    BY <1>4, <2>1
  <2> HIDE DEF e
  <2> QED
    BY <2>2, <2>3 DEF B!Entries, B!Kept
<1>8. n + 1 \in 0 .. len /\ n + 1 \in 1 .. len
  BY <1>5, <1>6
<1>9. CASE e.type # B!Available
  <2>1. Behind(info, k, n + 1) = Behind(info, k, n)
    BY <1>1, <1>6, <1>9, BehindFacts
  <2>2. found' = found /\ pc' = pc
    BY <1>7, <1>9
  <2> QED
    BY <1>1, <1>2, <1>3, <1>6, <1>8, <2>1, <2>2 DEF BMInv
<1>10. CASE e.type = B!Available
  <2> DEFINE p == <<k, n + 1>>
             S == Behind(info, k, n)
  <2>1. p \in B!Free(info) /\ B!Before(info, p) = S /\ Behind(info, k, n + 1) = S \cup {p}
    BY <1>1, <1>6, <1>10, BehindFacts
  <2>2. CASE Len(found) = Slots
    <3>1. found' = found /\ pc' = "overrun"
      BY <1>7, <1>10, <2>2
    <3>2. Cardinality(B!Free(info)) > Slots
      <4>1. /\ IsFiniteSet(S) /\ p \notin S /\ S \subseteq B!Free(info)
            /\ Cardinality(S) = Slots
        BY <1>1, <1>3, <2>1, <2>2, BeforeFacts DEF Stored
      <4> HIDE DEF S, p
      <4>2. IsFiniteSet(B!Free(info)) /\ S \in SUBSET B!Free(info)
        BY <1>1, <4>1, FreeFacts
      <4>3. /\ Cardinality(S) <= Cardinality(B!Free(info))
            /\ Cardinality(B!Free(info)) = Cardinality(S) => B!Free(info) = S
        BY <4>2, FS_Subset
      <4>4. Cardinality(B!Free(info)) \in Nat
        BY <4>2, FS_CardinalityType
      <4> QED
        BY <1>1, <2>1, <4>1, <4>3, <4>4
    <3> QED
      BY <1>1, <3>1, <3>2 DEF BMInv
  <2>3. CASE Len(found) # Slots
    <3>1. found' = Append(found, B!RegionAt(info, p)) /\ pc' = pc
      BY <1>7, <1>10, <2>3
    <3>2. Stored(info, found', Behind(info, k, n + 1))
      BY <1>1, <1>3, <2>1, <3>1, StoredOneMore
    <3>3. B!RegionAt(info, p) \in Region
      BY <1>5, <1>8 DEF B!RegionAt, Region
    <3>4. found' \in Seq(Region) /\ Len(found') <= Slots
      BY <1>1, <2>3, <3>1, <3>3, AppendProperties
    <3> QED
      BY <1>1, <1>2, <1>6, <1>8, <3>1, <3>2, <3>4 DEF BMInv
  <2> QED
    BY <2>2, <2>3
<1> QED
  BY <1>9, <1>10

\* Behind a memory map's last entry it goes on to the tag after it.
LEMMA TotalBMInv == ASSUME BMInv, B!Total, phase' = phase PROVE BMInv' /\ pc' # "done"
<1>1. /\ pc = "entries" /\ pc' = "walk" /\ info' = info /\ found' = found /\ info \in Infos
      /\ found \in Seq(Region) /\ Len(found) <= Slots /\ phase = "boot"
      /\ mmap >= B!This.size /\ tag' = tag + B!After(B!This.size)
  BY DEF B!Total, B!Onward, BMInv
<1>2. PICK k \in DOMAIN info :
          /\ info[k].at = tag /\ info[k].type = "mmap"
          /\ \E n \in 0 .. Len(info[k].entries) :
                 /\ mmap = B!MapHeader + n * info[k].entry_size
                 /\ Stored(info, found, Behind(info, k, n))
  BY <1>1 DEF BMInv
<1>3. PICK n \in 0 .. Len(info[k].entries) :
          /\ mmap = B!MapHeader + n * info[k].entry_size
          /\ Stored(info, found, Behind(info, k, n))
  BY <1>2
<1>4. B!This = info[k]
  BY <1>1, <1>2, ThisIs
<1> DEFINE es == info[k].entry_size
           len == Len(info[k].entries)
<1>5. /\ es \in Nat /\ es >= 24 /\ len \in Nat /\ info[k].size = B!MapHeader + es * len
      /\ k < Len(info)
  <2>1. info[k].entry_size \in Nat /\ Len(info[k].entries) \in Nat
    BY <1>1, TagFacts
  <2>2. /\ info[k].entry_size >= 24
        /\ info[k].size = B!MapHeader + info[k].entry_size * Len(info[k].entries)
    BY <1>1, <1>2, TagFacts
  <2>3. k # Len(info) /\ Len(info) \in Nat /\ k \in 1 .. Len(info)
    BY <1>1, <1>2, TagFacts
  <2>4. k < Len(info)
    BY <2>3
  <2> QED
    BY <2>1, <2>2, <2>4
<1>6. n = len
  <2>1. mmap >= B!MapHeader + es * len /\ mmap = B!MapHeader + n * es /\ n \in 0 .. len
    BY <1>1, <1>3, <1>4, <1>5
  <2> HIDE DEF es, len
  <2>2. ASSUME NEW a \in Nat, NEW b \in Nat, NEW d \in Nat, d > 0
        PROVE  (a * d >= d * b => a >= b) /\ a * d \in Nat /\ d * b \in Nat
    BY <2>2, SMT
  <2>3. n \in Nat
    BY <1>5, <2>1
  <2>4. (n * es >= es * len => n >= len) /\ n * es \in Nat /\ es * len \in Nat
    BY <1>5, <2>2, <2>3
  <2>5. n >= len
    BY <2>1, <2>4 DEF B!MapHeader
  <2> QED
    BY <1>5, <2>1, <2>3, <2>5
<1>7. Stored(info, found, Behind(info, k + 1, 0))
  BY <1>1, <1>3, <1>5, <1>6, BehindFacts
<1>8. k + 1 \in DOMAIN info /\ info[k + 1].at = tag'
  BY <1>1, <1>2, <1>4, <1>5, NextTag
<1> QED
  BY <1>1, <1>7, <1>8 DEF BMInv

\* A wrong magic number ends it.
LEMMA TrapBMInv == ASSUME BMInv, B!Trap, phase' = phase PROVE BMInv' /\ pc' # "done"
<1>1. /\ pc = "entry" /\ pc' = "trapped" /\ info' = info /\ found' = found
      /\ info \in Infos /\ found \in Seq(Region) /\ Len(found) <= Slots /\ phase = "boot"
  BY DEF B!Trap, BMInv
<1> QED
  BY <1>1 DEF BMInv

\* Where the walk stays where it is, and the allocator does not go back.
LEMMA StaysBMInv ==
  ASSUME BMInv, UNCHANGED walk, phase = "boot" <=> phase' = "boot" PROVE BMInv'
<1>1. info' = info /\ found' = found /\ pc' = pc /\ tag' = tag /\ mmap' = mmap
  BY DEF walk
<1> QED
  BY <1>1 DEF BMInv

\* A step of the walk.  The last one gives the allocator a memory map.
LEMMA WalkStep ==
  ASSUME BMInv, Walk
  PROVE  /\ BMInv'
         /\ multiboot_shit \/ UNCHANGED vars
<1>1. /\ B!Next
      /\ IF pc' = "done"
         THEN /\ phase' = "bitmap" /\ free_regions' = ToSet(found)
              /\ UNCHANGED <<used, frame, given, count>>
         ELSE UNCHANGED vars
  BY DEF Walk
<1>2. pc' # "done" => phase' = phase /\ UNCHANGED vars
  BY <1>1 DEF vars
<1>3. CASE B!Trap \/ B!Enter \/ B!Entries \/ B!Total
  <2>1. pc' # "done"
    BY <1>3 DEF B!Trap, B!Enter, B!Entries, B!Total
  <2> QED
    BY <1>2, <1>3, <2>1, TrapBMInv, EnterBMInv, EntriesBMInv, TotalBMInv
<1>4. CASE B!Tags
  <2>1. phase' = IF pc' = "done" THEN "bitmap" ELSE phase
    BY <1>1, <1>2
  <2>2. BMInv' /\ (pc' = "done" => Stored(info, found, B!Free(info)))
    BY <1>4, <2>1, TagsBMInv
  <2>3. ASSUME pc' = "done" PROVE multiboot_shit
    <3>1. ToSet(found) \in MemoryMaps
      BY <2>2, <2>3, StoredAll DEF BMInv
    <3>2. pc = "walk" /\ phase = "boot"
      BY <1>4 DEF B!Tags, BMInv
    <3> QED
      BY <1>1, <2>3, <3>1, <3>2 DEF multiboot_shit
  <2> QED
    BY <1>2, <2>2, <2>3
<1> QED
  BY <1>1, <1>3, <1>4 DEF B!Next

\* A step of the whole keeps the invariant, and is one of the allocator's or
\* none of its business.
LEMMA BMStep ==
  ASSUME BMInv, [BNext]_bmVars
  PROVE  /\ BMInv'
         /\ [Next]_vars
<1>1. CASE Walk
  BY <1>1, WalkStep DEF Next
<1>2. CASE Frames
  <2>1. UNCHANGED walk /\ (setup_bitmap \/ alloc_frame)
    BY <1>2 DEF Frames
  <2>2. phase # "boot" /\ phase' # "boot"
    BY <2>1 DEF setup_bitmap, alloc_frame, Alloc, AllocNothing
  <2> QED
    BY <2>1, <2>2, StaysBMInv DEF Next
<1>3. CASE UNCHANGED bmVars
  <2>1. UNCHANGED vars /\ UNCHANGED walk
    BY <1>3 DEF bmVars
  <2>2. phase' = phase
    BY <2>1 DEF vars
  <2> QED
    BY <2>1, <2>2, StaysBMInv
<1> QED
  BY <1>1, <1>2, <1>3 DEF BNext

\* The walk over the loader's tags is always at a tag the loader left, with the
\* available entries before it stored, and the allocator waits for its end.
THEOREM WalkKeepsCount == BSpec => []BMInv
<1> QED
  BY BMInit, BMStep, PTL DEF BSpec

\* For every list of tags: multiboot_shit ends with the regions of all available
\* memory, in the loader's order, and leaves free_regions only when there are
\* more of them than slots.
THEOREM MemoryIsKnown == BSpec => []KnowsItsMemory
<1>1. ASSUME BMInv PROVE KnowsItsMemory
  <2>1. /\ pc = "done" => Stored(info, found, B!Free(info))
        /\ pc = "overrun" => Cardinality(B!Free(info)) > Slots
    BY <1>1 DEF BMInv
  <2>2. pc = "done" =>
            /\ Len(found) = Cardinality(B!Free(info))
            /\ \A p \in B!Free(info) :
                   found[Cardinality(B!Before(info, p)) + 1] = B!RegionAt(info, p)
    BY <2>1 DEF Stored
  <2> QED
    BY <2>1, <2>2 DEF KnowsItsMemory, B!KnowsItsMemory, B!Cardinality, Cardinality
<1> QED
  BY <1>1, WalkKeepsCount, PTL

\* The walk over the tags, ended by one step that hands the regions over, is
\* what FrameAllocator's multiboot_shit says it is: the boot with the walk
\* implements the allocator with a memory map that comes from nowhere.
THEOREM WalkRefined == BSpec => Spec
<1>1. BInit => Init
  BY DEF BInit
<1>2. BMInv /\ [BNext]_bmVars => [Next]_vars
  BY BMStep
<1> QED
  BY <1>1, <1>2, WalkKeepsCount, PTL DEF BSpec, Spec

\* So the bitmap built from what the loader left is exact.
THEOREM BootBitmapExact == BSpec => []BitmapExact
<1> QED
  BY WalkRefined, Exact, PTL
=============================================================================
