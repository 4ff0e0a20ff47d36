------------------------------ MODULE BootInfo ------------------------------
(***************************************************************************)
(* multiboot_shit of boot/boot.c: the walk over the tags the boot loader   *)
(* left in memory, and what it keeps of them.  Sizes and addresses are in  *)
(* bytes, relative to the beginning of the information.                    *)
(***************************************************************************)
EXTENDS Integers, Sequences, FiniteSets, FiniteSetsExt

CONSTANTS Slots,     \* MAX_MEM_REGIONS: 128
          PageSize,  \* 4096
          Wrap,      \* total_pages counts modulo this: 2^32
          Infos      \* what a boot loader may leave: sequences of tags

\* A tag of a memory map has entries, the others none; the list ends with
\* a tag of type "end".  Each is at the first multiple of eight behind the
\* one before it.
Available == 1
Entry == [base : Nat, length : Nat, type : Nat]
Tag == [type : {"mmap", "other", "end"}, at : Nat, size : Nat, entry_size : Nat,
        entries : Seq(Entry)]

MapHeader == 16   \* bytes of struct multiboot_tag_mmap before its entries

BootInfoAssumption ==
    /\ Slots \in Nat /\ PageSize \in Nat \ {0} /\ Wrap \in Nat \ {0}
    /\ \A info \in Infos :
           /\ info \in Seq(Tag) /\ info # <<>> /\ info[1].at = 8
           /\ \A k \in DOMAIN info :
                  /\ (info[k].type = "end") <=> (k = Len(info))
                  /\ info[k].size >= 8 /\ info[k].at % 8 = 0
                  /\ k > 1 => LET end == info[k - 1].at + info[k - 1].size
                             IN  info[k].at \in end .. end + 7
                  /\ IF info[k].type = "mmap"
                     THEN /\ info[k].entry_size >= 24
                          /\ info[k].size = MapHeader + info[k].entry_size
                                                        * Len(info[k].entries)
                     ELSE info[k].entries = <<>>

VARIABLES magic,         \* "right" or "wrong": what the loader left in EAX
          info,          \* the tags in memory
          pc,            \* "entry", "walk", "entries", "total", "done", "trapped" in
                         \* the loop of HLT, "overrun": a region was stored past
                         \* free_regions
          tag,           \* the address it looks at
          mmap,          \* address of the entry, from the tag's beginning
          free_regions,  \* the regions stored, free_region_count being their number
          max_addr, total_pages

vars == <<magic, info, pc, tag, mmap, free_regions, max_addr, total_pages>>

\* The tag at the address it looks at, if there is one.
Here == {k \in DOMAIN info : info[k].at = tag}
This == info[CHOOSE k \in Here : TRUE]

Init ==
    /\ magic \in {"right", "wrong"} /\ info \in Infos
    /\ pc = "entry" /\ tag = 0 /\ mmap = 0
    /\ free_regions = <<>> /\ max_addr = 0 /\ total_pages = 0

Trap ==
    /\ pc = "entry" /\ magic = "wrong" /\ pc' = "trapped"
    /\ UNCHANGED <<magic, info, tag, mmap, free_regions, max_addr, total_pages>>

Enter ==
    /\ pc = "entry" /\ magic = "right" /\ pc' = "walk" /\ tag' = 8
    /\ UNCHANGED <<magic, info, mmap, free_regions, max_addr, total_pages>>

\* Mutant of After: the size is not rounded up.
AfterUnrounded(size) == size
After(size) == ((size + 7) \div 8) * 8

Onward == tag' = tag + After(This.size)

Tags ==
    /\ pc = "walk" /\ Here # {}
    /\ \/ /\ This.type = "end" /\ pc' = "done"
          /\ UNCHANGED <<tag, mmap>>
       \/ /\ This.type = "mmap" /\ pc' = "entries" /\ mmap' = MapHeader
          /\ UNCHANGED tag
       \/ /\ This.type = "other" /\ Onward
          /\ UNCHANGED <<pc, mmap>>
    /\ UNCHANGED <<magic, info, free_regions, max_addr, total_pages>>

\* Mutant of Kept: the type of the memory is not looked at.
KeptAny(e) == TRUE
Kept(e) == e.type = Available

\* One round of the loop over the entries; nothing counts the slots.
Entries ==
    /\ pc = "entries" /\ mmap < This.size
    /\ LET e == This.entries[1 + (mmap - MapHeader) \div This.entry_size]
       IN  IF ~Kept(e) THEN UNCHANGED <<free_regions, pc>>
           ELSE IF Len(free_regions) = Slots
           THEN pc' = "overrun" /\ UNCHANGED free_regions
           ELSE /\ free_regions' = Append(free_regions,
                                          [base |-> e.base, length |-> e.length])
                /\ UNCHANGED pc
    /\ mmap' = mmap + This.entry_size
    /\ UNCHANGED <<magic, info, tag, max_addr, total_pages>>

\* After the entries, the end of the memory, over all the regions there are.
Highest(regions) == {max_addr} \cup {regions[i].base + regions[i].length : i \in DOMAIN regions}

Pages(addr) == (addr \div PageSize) % Wrap

Total ==
    /\ pc = "entries" /\ mmap >= This.size
    /\ max_addr' = Max(Highest(free_regions))
    /\ total_pages' = Pages(max_addr')
    /\ Onward /\ pc' = "walk"
    /\ UNCHANGED <<magic, info, mmap, free_regions>>

Next == Trap \/ Enter \/ Tags \/ Entries \/ Total

Spec == Init /\ [][Next]_vars /\ WF_vars(Next)

(***************************************************************************)
(* Properties.                                                             *)
(***************************************************************************)
TypeOK ==
    /\ magic \in {"right", "wrong"} /\ info \in Infos
    /\ pc \in {"entry", "walk", "entries", "done", "trapped", "overrun"}
    /\ tag \in Nat /\ mmap \in Nat
    /\ free_regions \in Seq([base : Nat, length : Nat]) /\ Len(free_regions) <= Slots
    /\ max_addr \in Nat /\ total_pages \in 0 .. Wrap - 1

\* Where the maps name available memory: which tag, and which of its entries.
Free(tags) == {p \in UNION {{k} \X DOMAIN tags[k].entries : k \in DOMAIN tags} :
                  tags[p[1]].entries[p[2]].type = Available}
RegionAt(tags, p) == LET e == tags[p[1]].entries[p[2]]
                     IN  [base |-> e.base, length |-> e.length]
Before(tags, p) == {q \in Free(tags) : q[1] < p[1] \/ (q[1] = p[1] /\ q[2] < p[2])}

\* The kernel works with the available memory of every map the loader left,
\* neither more nor less and in its order, whatever tags stand between and
\* however long their entries are; a region is stored past the array only if
\* more than Slots are available, the memory that is in use costing no slot.
KnowsItsMemory ==
    /\ pc = "done" =>
           /\ Len(free_regions) = Cardinality(Free(info))
           /\ \A p \in Free(info) :
                  free_regions[Cardinality(Before(info, p)) + 1] = RegionAt(info, p)
    /\ pc = "overrun" => Cardinality(Free(info)) > Slots

\* With the right magic number the walk comes to the end tag, or writes past
\* the array on its way.
WalkEnds == magic = "right" ~> pc \in {"done", "overrun"}
==============================================================================
