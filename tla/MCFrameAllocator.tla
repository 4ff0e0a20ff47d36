-------------------------- MODULE MCFrameAllocator --------------------------
(* FrameAllocator for TLC: 64 pages of 4 bytes, four pages to a byte of    *)
(* the bitmap.  The kernel begins at page 5.                               *)
EXTENDS FrameAllocator

R(base, end) == [base |-> base, length |-> end - base]

\* Regions as firmware reports them: below and above the hole under 1 MiB,
\* with odd ends, up to 4 GiB, across it and beyond it.
Candidates ==
    {R(0, 15), R(0, 18), R(20, 180), R(21, 255), R(20, 62), R(66, 93), R(94, 256),
     R(97, 254), R(100, 300), R(256, 300), R(258, 270)}

Maps == {map \in SUBSET Candidates : Cardinality(map) \in 1 .. 3}
==============================================================================
