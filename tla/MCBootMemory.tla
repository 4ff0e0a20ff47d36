---------------------------- MODULE MCBootMemory ----------------------------
(* BootMemory for TLC: MCFrameAllocator's memory maps, as a loader writes   *)
(* them down, and every list of up to three tags, memory maps of one or two *)
(* entries of two sizes and others whose sizes are and are not multiples of *)
(* eight.                                                                   *)
EXTENDS MCFrameAllocator, BootMemory

MCMap(es, step) == [type |-> "mmap", at |-> 0, size |-> 16 + step * Len(es),
                    entry_size |-> step, entries |-> es]
MCPlain(kind, size) == [type |-> kind, at |-> 0, size |-> size, entry_size |-> 0,
                        entries |-> <<>>]
MCEnd == MCPlain("end", 8)
MCEntry(r, type) == [base |-> r.base, length |-> r.length, type |-> type]

\* The memory in use stands between the rest.
MCWhole(map) ==
    LET free == SetToSeq(map)
    IN  <<MCMap([i \in 1 .. 2 * Len(free) |->
                    IF i % 2 = 1 THEN MCEntry(free[(i + 1) \div 2], 1)
                    ELSE MCEntry(R(200, 256), 2)], 24), MCEnd>>

MCEntries == {MCEntry(R(0, 17), 1), MCEntry(R(232, 250), 1), MCEntry(R(236, 252), 2)}
MCPairs == {p \in MCEntries \X MCEntries : p[1] # p[2]}
MCTags == {MCMap(<<MCEntry(R(22, 66), 1)>>, 24)}
              \cup {MCMap(p, 28) : p \in MCPairs}
              \cup {MCPlain("other", size) : size \in {8, 13}}
\* The loader puts the tags one behind the other.
MCPlaced(tags) ==
    LET at[k \in DOMAIN tags] ==
            IF k = 1 THEN 8 ELSE at[k - 1] + ((tags[k - 1].size + 7) \div 8) * 8
    IN  [k \in DOMAIN tags |-> [tags[k] EXCEPT !.at = at[k]]]
MCLists == {MCWhole(map) : map \in Maps}
               \cup {Append(tags, MCEnd) : tags \in UNION {[1 .. n -> MCTags] : n \in 0 .. 3}}
MCInfos == {MCPlaced(tags) : tags \in MCLists}
MCMemoryMaps == {{B!RegionAt(tags, p) : p \in B!Free(tags)} : tags \in MCInfos}
==============================================================================
