-------------------------------- MODULE Disc --------------------------------
(***************************************************************************)
(* What atapi_read promises its callers: a read that answers 0 has put the *)
(* sectors asked for into the buffer, in order and nothing else anywhere;  *)
(* one that answers 1 has put some of the first ones there.  The promise   *)
(* is void from the moment the driver loses step with the drive until the  *)
(* next read.                                                              *)
(***************************************************************************)
EXTENDS Naturals

CONSTANT Units       \* pieces in which a drive may hand over a sector

VARIABLES request,   \* the sectors asked for last
          memory,    \* the caller's buffer, piece by piece
          got,       \* sectors the read has put there
          result,    \* "none", "pending", "ok" or "error"
          promise    \* "kept" or "void"

dvars == <<request, memory, got, result, promise>>

DInit ==
    /\ request = [lba |-> 0, count |-> 0] /\ got = 0
    /\ result = "none" /\ promise = "kept"

Ask ==
    /\ result # "pending"
    /\ request' \in [lba : Nat, count : Nat]
    /\ got' = 0 /\ result' = "pending" /\ promise' = "kept"

Pending == result = "pending" /\ promise = "kept"

Sector ==
    /\ Pending /\ got < request.count
    /\ got' = got + 1
    /\ memory' = [u \in DOMAIN memory |->
                     IF u \div Units = got THEN request.lba * Units + u ELSE memory[u]]
    /\ UNCHANGED <<request, result, promise>>

Done ==
    /\ Pending /\ got = request.count
    /\ result' = "ok"
    /\ UNCHANGED <<request, memory, got, promise>>

Fail ==
    /\ Pending
    /\ result' = "error"
    /\ UNCHANGED <<request, memory, got, promise>>

LoseStep == promise' = "void"

DNext == Ask \/ Sector \/ Done \/ Fail \/ LoseStep

DSpec == DInit /\ [][DNext]_dvars
==============================================================================
