----------------------------- MODULE BootMemory -----------------------------
(***************************************************************************)
(* From what the boot loader left in memory to frames: BootInfo's walk     *)
(* finds the regions that FrameAllocator's bitmap is built from.           *)
(***************************************************************************)
EXTENDS FrameAllocator, Sequences, SequencesExt

CONSTANTS Slots, Infos  \* as in BootInfo

VARIABLES magic, info, pc, tag, mmap, max_addr, total_pages,
          found         \* BootInfo's free_regions, in their order

walk == <<magic, info, pc, tag, mmap, found, max_addr, total_pages>>
bmVars == <<vars, walk>>

B == INSTANCE BootInfo WITH free_regions <- found, Wrap <- Space

\* MemoryMaps are what the lists of tags say is available.
ASSUME BootMemoryAssumption ==
    /\ B!BootInfoAssumption
    /\ \A tags \in Infos : {B!RegionAt(tags, p) : p \in B!Free(tags)} \in MemoryMaps

BInit == Init /\ B!Init

\* The walk ends at the end tag, and multiboot_shit returns.
Walk ==
    /\ B!Next
    /\ IF pc' = "done"
       THEN /\ phase' = "bitmap" /\ free_regions' = ToSet(found)
            /\ UNCHANGED <<used, frame, given, count>>
       ELSE UNCHANGED vars

Frames ==
    /\ setup_bitmap \/ alloc_frame
    /\ UNCHANGED walk

BNext == Walk \/ Frames

\* The CPU does not stop in the walk.
BSpec == BInit /\ [][BNext]_bmVars /\ WF_bmVars(Walk)

(***************************************************************************)
(* Properties.                                                             *)
(***************************************************************************)
BTypeOK == TypeOK /\ B!TypeOK

\* The bitmap and the frames are made of the available memory of every map the
\* loader left, and of nothing else; see BootInfo.
KnowsItsMemory == B!KnowsItsMemory

\* The walk over any list of tags comes to an end; see BootInfo.
WalkEnds == B!WalkEnds
==============================================================================
