------------------------------- MODULE MCIso -------------------------------
(* Iso for TLC: a disc with directories D (two sectors), D/E, filled to its *)
(* end, and D/F, a file P in each place and of each size: flat, ELF of the  *)
(* right kind and not, empty, ending with a sector and larger than two.     *)
EXTENDS Iso

Dir(name, lba, sectors) ==
    [name |-> name, kind |-> "dir", lba |-> lba, size |-> sectors * SectorUnits]
File(name, lba, size) == [name |-> name, kind |-> "file", lba |-> lba, size |-> size]

MCRoot == Dir("", 1, 1)
MCExtent ==
    1 :> <<Dir("D", 2, 2), File("P", 11, 3), File("L", 12, 5)>>
    @@ 2 :> <<Dir("E", 4, 1), File("E", 13, 1), File("P", 14, 4)>>
    @@ 3 :> <<Dir("F", 5, 1), File("Q", 15, 3)>>
    @@ 4 :> <<File("P", 18, 3), File("N", 17, 0)>>
    @@ 5 :> <<File("P", 19, 1)>>
MCPaths == {<<>>, <<"D">>, <<"P">>, <<"L">>, <<"D", "P">>, <<"D", "E">>, <<"X", "P">>,
            <<"D", "E", "P">>, <<"D", "E", "N">>, <<"D", "E", "Q">>, <<"D", "F", "P">>,
            <<"D", "E", "X", "P">>}
==============================================================================
