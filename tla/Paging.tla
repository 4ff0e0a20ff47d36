------------------------------- MODULE Paging -------------------------------
(***************************************************************************)
(* The page tables: those _start builds before it turns paging on, the     *)
(* unmapping of low memory when the GDT is loaded, setup_paging, which     *)
(* rebuilds the directory the CPU is using, and map_page.  Everything goes *)
(* through the translation in force: a table is filled through the         *)
(* kernel's window, at its physical address plus KernelOffset.             *)
(*                                                                         *)
(* Addresses are page numbers here.  The TLB is left out: a page of the    *)
(* window has the same translation in the tables before and after.         *)
(***************************************************************************)
EXTENDS FrameAllocator, Sequences

CONSTANTS Entries,       \* entries of a table: 1024, a table covers 4 MiB
          KernelTables,  \* kernel_page_tables: 128
          UserTables,    \* user_page_tables: 256
          Directory, BootTable1, BootTable2,  \* frames of the image's tables
          Screen,        \* the frame of the VGA text memory: 0xB8
          Gdt,           \* the frame of the GDT: 0x50
          Targets, Asked \* pages map_page is asked to map, and frames to map
                         \* them to

\* Where the kernel's window begins: entry 768 of the directory.
WindowDir == KernelOffset \div (PageSize * Entries)
Window == WindowDir * Entries

ASSUME TablesAssumption ==
    /\ Entries \in Nat \ {0} /\ Pages = Entries * Entries
    /\ KernelOffset = PageSize * Window
    /\ KernelTables \in Nat \ {0, 1} /\ WindowDir + KernelTables < Entries
    /\ UserTables \in Nat \ {0} /\ UserTables < WindowDir
    /\ \A p \in KernelPages : p < Entries - 1

\* The linker puts boot.s, which reserves the image's tables, before paging.c
\* with its 128 KiB of bitmap: no byte of the bitmap covers both a table and the
\* image's end.  The screen and the GDT are below the image.
ASSUME PlacesAssumption ==
    /\ {Directory, BootTable1, BootTable2} \subseteq KernelPages
    /\ Directory # BootTable1 /\ Directory # BootTable2 /\ BootTable1 # BootTable2
    /\ \A f \in {Directory, BootTable1, BootTable2} :
           f \div PerByte < PageOf(virt_to_phys(kernel_end)) \div PerByte
    /\ {Screen, Gdt} \subseteq AllPages
    /\ \A f \in {Screen, Gdt} : (f + 1) * PageSize <= kernel_start

\* What its callers, of which there are none yet, may ask map_page for: pages
\* below the kernel's window, and frames above the first 4 MiB.
ASSUME AskedAssumption ==
    /\ Targets \subseteq 0 .. Window - 1
    /\ Asked \subseteq Entries .. Pages - 1

VARIABLES stage,   \* how far the boot has come
          tables,  \* the frames setup_paging has got: the kernel's, the user's
          mem,     \* the frames that hold tables, with their entries
          linked   \* how many tables setup_paging has put in the directory

pvars == <<stage, tables, mem, linked>>
allVars == <<vars, pvars>>

Index == 0 .. Entries - 1
Absent == [frame |-> 0, mode |-> "absent"]
Entry(f, m) == [frame |-> f, mode |-> m]

(***************************************************************************)
(* Translation of a virtual page.  A frame that is not known as a table    *)
(* translates to anything.                                                 *)
(***************************************************************************)
Both(m, n) == IF m = "user" /\ n = "user" THEN "user" ELSE "kernel"

Translate(v) ==
    LET d == mem[Directory][v \div Entries] IN
    IF d.mode = "absent" THEN Absent
    ELSE IF d.frame \notin DOMAIN mem THEN Entry(d.frame, "unknown")
    ELSE LET t == mem[d.frame][v % Entries] IN
         IF t.mode = "absent" THEN Absent ELSE Entry(t.frame, Both(d.mode, t.mode))

\* The virtual page at which the kernel sees frame f: uint32_t arithmetic.
Seen(f) == (Window + f) % Pages

(***************************************************************************)
(* _start.  The loop for the second table, unlike the first, stores        *)
(* nothing.  The last entry of the first is redirected to the screen.      *)
(***************************************************************************)
BootEntry(f, i) ==
    CASE f = BootTable1 -> Entry(IF i = Entries - 1 THEN Screen ELSE i, "kernel")
      [] f = Directory /\ i \in {0, WindowDir} -> Entry(BootTable1, "kernel")
      [] f = Directory /\ i \in {1, WindowDir + 1} -> Entry(BootTable2, "kernel")
      [] OTHER -> Absent

OwnTables == {Directory, BootTable1, BootTable2}
BootTables == [f \in OwnTables |-> [i \in Index |-> BootEntry(f, i)]]

PInit == Init /\ stage = "boot" /\ tables = <<>> /\ mem = BootTables /\ linked = 0

MemoryMap ==
    /\ stage = "boot" /\ multiboot_shit
    /\ UNCHANGED pvars

setGdt ==
    /\ stage = "boot" /\ phase = "bitmap"
    /\ stage' = "unmapped"
    /\ mem' = [mem EXCEPT ![Directory][0] = Absent]
    /\ UNCHANGED <<vars, tables, linked>>

(***************************************************************************)
(* setup_paging.                                                           *)
(***************************************************************************)
BuildBitmap ==
    /\ stage = "unmapped" /\ setup_bitmap
    /\ stage' = "allocate" /\ UNCHANGED <<tables, mem, linked>>

AllTables == KernelTables + UserTables

AllocTable ==
    /\ stage = "allocate"
    /\ alloc_frame
    /\ tables' = Append(tables, frame')
    /\ stage' = IF Len(tables') = AllTables THEN "fill" ELSE "allocate"
    /\ UNCHANGED <<mem, linked>>

\* What the n-th table is filled with: a linear map of the window to physical
\* memory, and the user's identity map of physical memory from 4 MiB on.
\* Mutants: the user's starts at 0; the kernel's skips the first 4 MiB.
UserEntryLow(n, i) == Entry((n - KernelTables - 1) * Entries + i, "user")
UserEntry(n, i) == Entry((n - KernelTables) * Entries + i, "user")
KernelEntryHigh(n, i) == Entry(n * Entries + i, "kernel")
KernelEntry(n, i) == Entry((n - 1) * Entries + i, "kernel")
Filled(n) == [i \in Index |-> IF n <= KernelTables THEN KernelEntry(n, i)
                              ELSE UserEntry(n, i)]

\* The memory that holds tables, after new ones have been written to it.
Written(new) == [f \in DOMAIN new \cup DOMAIN mem |->
                     IF f \in DOMAIN new THEN new[f] ELSE mem[f]]

\* Where the n-th table is seen, and the last table that is seen at frame f:
\* tables share a frame when there was none left.
Target(n) == Translate(Seen(tables[n]))
LastAt(f) ==
    CHOOSE n \in 1 .. AllTables :
        /\ Target(n).frame = f
        /\ \A k \in 1 .. AllTables : Target(k).frame = f => k <= n

FillTables ==
    /\ stage = "fill"
    /\ \A n \in 1 .. AllTables : Target(n).mode = "kernel"
    /\ mem' = Written([f \in {Target(n).frame : n \in 1 .. AllTables} |-> Filled(LastAt(f))])
    /\ stage' = "link"
    /\ UNCHANGED <<vars, tables, linked>>

\* A table out of reach of the boot tables: a page fault, the machine stops.
FillFaults ==
    /\ stage = "fill"
    /\ \E n \in 1 .. AllTables : Target(n).mode # "kernel"
    /\ stage' = "halted"
    /\ UNCHANGED <<vars, tables, mem, linked>>

\* The directory's entry for the n-th table put in: the user's come first.
\* Mutant of Slot: the user's tables start at entry 0.
SlotFromZero(n) == IF n <= UserTables THEN n - 1 ELSE WindowDir + n - UserTables - 1
Slot(n) == IF n <= UserTables THEN n ELSE WindowDir + n - UserTables - 1
Linked(n) == IF n <= UserTables THEN Entry(tables[KernelTables + n], "user")
             ELSE Entry(tables[n - UserTables], "kernel")

LinkTable ==
    /\ stage = "link" /\ linked < AllTables
    /\ linked' = linked + 1
    /\ mem' = [mem EXCEPT ![Directory][Slot(linked')] = Linked(linked')]
    /\ UNCHANGED <<vars, stage, tables>>

\* The directory is its own last table; cr3 is loaded again.
LinkItself ==
    /\ stage = "link" /\ linked = AllTables
    /\ mem' = [mem EXCEPT ![Directory][Entries - 1] = Entry(Directory, "kernel")]
    /\ stage' = "running"
    /\ UNCHANGED <<vars, tables, linked>>

(***************************************************************************)
(* map_page, which nothing calls yet.  An absent table is allocated and    *)
(* cleared; an entry of the directory keeps the mode it has.  A table      *)
(* between the window's end, at 512 MiB, and the directory's own view of   *)
(* the tables cannot be reached; above, something else is written.         *)
(***************************************************************************)
Dir(virt) == mem[Directory][virt \div Entries]
Reached(f) == Translate(Seen(f)).frame
InWindow(f) == Translate(Seen(f)).mode # "absent"

\* Mutant of EntryOf: the entry is stored at the next index.
EntryOfNext(virt) == (virt + 1) % Entries
EntryOf(virt) == virt % Entries

MapInTable(virt, entry) ==
    /\ Dir(virt).mode # "absent" /\ InWindow(Dir(virt).frame)
    /\ mem' = [mem EXCEPT ![Reached(Dir(virt).frame)][EntryOf(virt)] = entry]
    /\ UNCHANGED <<vars, stage>>

MapInNewTable(virt, entry) ==
    /\ Dir(virt).mode = "absent"
    /\ alloc_frame
    /\ InWindow(frame')
    /\ LET table == [i \in Index |-> IF i = EntryOf(virt) THEN entry ELSE Absent]
           linking == [Written([f \in {Reached(frame')} |-> table]) EXCEPT
                           ![Directory][virt \div Entries] = Entry(frame', entry.mode)]
       IN  mem' = linking
    /\ UNCHANGED stage

MapFaults(virt) ==
    /\ Dir(virt).mode = "absent"
    /\ alloc_frame
    /\ ~InWindow(frame')
    /\ stage' = "halted"
    /\ UNCHANGED mem

map_page(virt, entry) ==
    /\ stage = "running"
    /\ MapInTable(virt, entry) \/ MapInNewTable(virt, entry) \/ MapFaults(virt)
    /\ UNCHANGED <<tables, linked>>

MapPage ==
    \E virt \in Targets, f \in Asked, m \in {"kernel", "user"} :
        map_page(virt, Entry(f, m))

PNext ==
    \/ MemoryMap \/ setGdt \/ BuildBitmap \/ AllocTable
    \/ FillTables \/ FillFaults \/ LinkTable \/ LinkItself \/ MapPage

PSpec == PInit /\ [][PNext]_allVars

(***************************************************************************)
(* Properties.                                                             *)
(***************************************************************************)
PTypeOK ==
    /\ TypeOK
    /\ stage \in {"boot", "unmapped", "allocate", "fill", "link", "running", "halted"}
    /\ tables \in Seq(AllPages) /\ Len(tables) <= AllTables
    /\ linked \in 0 .. AllTables
    /\ DOMAIN mem \subseteq AllPages
    /\ \A f \in DOMAIN mem :
           mem[f] \in [Index -> [frame : AllPages, mode : {"absent", "kernel", "user"}]]

\* The memory the boot can do with.  alloc_frame's 0 is not checked: several
\* tables would share the frame 0.  The last page below 4 MiB, as the boot's
\* tables show it, is the screen: a table there would be written to it.  And a
\* frame that plus KernelOffset is past the directory's own last table, or
\* wraps, is seen where something else is.
Roomy ==
    /\ \A n \in DOMAIN tables : tables[n] \notin {0, Entries - 1}
    /\ \A f \in given : f < Pages - Window - Entries

KernelFrames == KernelPages \cup {Screen, Gdt}

\* The ground the CPU stands on never moves: at every step of the boot, while
\* the directory in use is rewritten entry by entry with interrupts on, the
\* kernel's code, data, stack and tables, the GDT and the screen keep their
\* place in the window.
GroundStays ==
    Roomy => \A f \in KernelFrames : Translate(Window + f) = Entry(f, "kernel")

\* The page tables in use, setup_paging's and map_page's, and the frames that
\* map_page has got.
PageTables ==
    {Directory} \cup
    {mem[Directory][d].frame : d \in {i \in Index : mem[Directory][i].mode # "absent"}}
FromMapPage == given \ {tables[n] : n \in DOMAIN tables}

\* A user program reaches neither the kernel nor a table of setup_paging: they
\* lie in the first 4 MiB, which the user's identity map leaves out, and
\* setup_paging cannot fill a table that lies elsewhere.  A table map_page has
\* got may lie above, where the user's identity map shows it: those, and no
\* other of the tables in use, are within a user's reach.
UserFenced ==
    \A v \in AllPages : Translate(v).mode = "user" =>
        LET f == Translate(v).frame IN
            /\ f \notin KernelFrames
            /\ stage = "running" => \A n \in DOMAIN tables : f # tables[n]
            /\ Roomy /\ stage # "halted" /\ f \in PageTables =>
                   stage = "running" /\ f \in FromMapPage

\* After setup_paging the window shows the memory from 0 on, and the user sees
\* the memory from 4 MiB on at its own addresses, but for what map_page has
\* changed since.
LinearAfterwards ==
    stage = "running" /\ Roomy =>
        /\ \A f \in 0 .. KernelTables * Entries - 1 : Window + f \notin Targets =>
               Translate(Window + f) = Entry(f, "kernel")
        /\ \A f \in Entries .. (UserTables + 1) * Entries - 1 : f \notin Targets =>
               Translate(f) = Entry(f, "user")

\* No table is built on memory that belongs to someone else: but for the
\* image's own three, the frames that hold tables were given by alloc_frame and,
\* if the image's end is on a byte of the bitmap, hold nothing of the
\* kernel's; and the tables the boot runs on are never written again.
TablesInOwnFrames ==
    Roomy /\ (given # {} => frame # 0) =>
        /\ DOMAIN mem \ DOMAIN BootTables \subseteq given \ KernelFrames
        /\ mem[BootTable1] = BootTables[BootTable1]

\* Where the tables are, and what they hold.
TablesHold == PTypeOK /\ TablesInOwnFrames

\* map_page makes the page it is asked for translate to the frame it is asked
\* for, accessible to the user only if asked, and changes the translation of
\* no other page (the directory's view of itself aside).
MapsOnlyItsPage ==
    [][\A virt \in Targets, f \in Asked, m \in {"kernel", "user"} :
        map_page(virt, Entry(f, m)) /\ stage' = "running" /\ frame' # 0 /\ Roomy' =>
            /\ Translate(virt)'.frame = f
            /\ Translate(virt)'.mode = "user" => m = "user"
            /\ \A v \in 0 .. Pages - Entries - 1 :
                   v # virt => Translate(v)' = Translate(v)]_allVars

\* What the comment in _start says, "Map the second 4MB": until setup_paging
\* has filled its own tables, the kernel can reach those frames.
SecondMapped ==
    stage \in {"boot", "unmapped", "allocate", "fill"} =>
        \A f \in Entries .. 2 * Entries - 1 : Translate(Window + f) = Entry(f, "kernel")

(***************************************************************************)
(* The inductive invariant behind them.                                    *)
(***************************************************************************)
StagesHold ==
    /\ stage = "boot" => phase \in {"boot", "bitmap"}
    /\ stage = "unmapped" => phase = "bitmap"
    /\ stage \notin {"boot", "unmapped"} => phase = "ready"
    /\ stage \in {"boot", "unmapped"} => tables = <<>>
    /\ stage = "allocate" => Len(tables) < AllTables
    /\ stage \in {"fill", "link", "running", "halted"} => Len(tables) = AllTables
    /\ stage \notin {"link", "running", "halted"} => linked = 0
    /\ stage = "running" => linked = AllTables
    /\ stage = "halted" => linked \in {0, AllTables}

TablesGiven ==
    /\ \A n \in 1 .. Len(tables) : tables[n] \in given \cup {0}
    /\ \A m, n \in 1 .. Len(tables) : tables[m] = tables[n] /\ tables[m] # 0 => m = n

\* What a table gives the user is above the first 4 MiB, whatever the memory.
Fenced ==
    /\ OwnTables \subseteq DOMAIN mem
    /\ \A f \in DOMAIN mem \ {Directory} : \A i \in Index :
           mem[f][i].mode = "user" => mem[f][i].frame >= Entries
    /\ \A i \in Index : mem[Directory][i].mode = "user" => mem[Directory][i].frame # Directory
    /\ stage \in {"link", "running"} => \A n \in 1 .. AllTables : tables[n] < Entries

\* The boot's directory, with entry 0 as it is in this stage.
BootDir(i) ==
    IF i = 0 /\ stage # "boot" THEN Absent ELSE BootTables[Directory][i]

BootStands ==
    stage \in {"boot", "unmapped", "allocate", "fill"} \/ (stage = "halted" /\ linked = 0) =>
        /\ DOMAIN mem = OwnTables
        /\ mem[BootTable1] = BootTables[BootTable1]
        /\ mem[BootTable2] = BootTables[BootTable2]
        /\ \A d \in Index : mem[Directory][d] = BootDir(d)

\* The directory while the tables are put in, and after.
LinksHold ==
    stage = "link" /\ Roomy =>
        /\ DOMAIN mem = OwnTables \cup {tables[n] : n \in 1 .. AllTables}
        /\ mem[BootTable1] = BootTables[BootTable1]
        /\ \A n \in 1 .. AllTables : mem[tables[n]] = Filled(n)
        /\ \A n \in 1 .. linked : mem[Directory][Slot(n)] = Linked(n)
        /\ \A d \in Index : (\A n \in 1 .. linked : Slot(n) # d) =>
               mem[Directory][d] = BootDir(d)

\* Of two entries of the directory below the window none shares a table with
\* the other, or with the window, but for the frame 0.
DirsApart ==
    \A d \in 0 .. WindowDir - 1 : mem[Directory][d].mode # "absent" =>
        /\ mem[Directory][d].frame \in DOMAIN mem \ OwnTables
        /\ \A n \in 1 .. KernelTables : mem[Directory][d].frame # tables[n]
        /\ \A e \in 0 .. WindowDir - 1 :
               /\ mem[Directory][e].mode # "absent"
               /\ mem[Directory][e].frame = mem[Directory][d].frame
               => d = e \/ mem[Directory][d].frame = 0

Runs == linked = AllTables /\ stage \in {"running", "halted"} /\ Roomy

RunHolds ==
    Runs =>
        /\ OwnTables \cup {tables[n] : n \in 1 .. AllTables} \subseteq DOMAIN mem
        /\ DOMAIN mem \subseteq OwnTables \cup given \cup {0}
        /\ 0 \in DOMAIN mem => frame = 0 /\ Found = {}
        /\ mem[BootTable1] = BootTables[BootTable1]
        /\ \A n \in 1 .. KernelTables : mem[tables[n]] = Filled(n)
        /\ \A d \in 1 .. UserTables : \A i \in Index :
               d * Entries + i \notin Targets =>
                   mem[tables[KernelTables + d]][i] = UserEntry(KernelTables + d, i)
        /\ mem[Directory][Entries - 1] = Entry(Directory, "kernel")
        /\ \A n \in 1 .. AllTables : mem[Directory][Slot(n)] = Linked(n)
        /\ \A d \in WindowDir + KernelTables .. Entries - 2 :
               mem[Directory][d].mode = "absent"
        /\ DirsApart

PIInv ==
    /\ IInv /\ PTypeOK /\ StagesHold /\ TablesGiven /\ Fenced
    /\ BootStands /\ LinksHold /\ RunHolds
==============================================================================
