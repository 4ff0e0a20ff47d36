------------------------------ MODULE MCPaging ------------------------------
(* Paging for TLC: tables of 16 entries, pages of 4 bytes.  The image is   *)
(* pages 4 to 7, its tables the last three of them.                        *)
EXTENDS Paging

R(from, end) == [base |-> 4 * from, length |-> 4 * (end - from)]

\* Memory below 640 KiB, from 1 MiB to an end that leaves too few frames, or
\* just enough, or plenty, and in some machines more above; and memory with
\* holes that makes the last table fall on the screen, or the next one above
\* the directory's view of itself.
Maps == {{R(0, 3), R(4, end)} \cup high :
            end \in {9, 11, 13, 14, 30}, high \in {{}, {R(41, 60)}, {R(20, 22), R(250, 256)}}}
        \cup {{R(0, 3), R(4, end), high} :
                 end \in {8, 13}, high \in {R(11, 17), R(49, 60), R(80, 90)}}
==============================================================================
