---------------------------- MODULE AtapiProofs ----------------------------
(***************************************************************************)
(* Proofs about Atapi, for sectors of any number of pieces, any medium and *)
(* any reads: what an answer stands for, where a read writes, and that the *)
(* driver with its drive does what Disc promises.                          *)
(***************************************************************************)
EXTENDS Atapi, TLAPS

(***************************************************************************)
(* Where the pieces of a sector are.                                       *)
(***************************************************************************)
\* A piece is in sector m exactly if its place in it is one of a sector.
LEMMA PieceOfSector ==
  ASSUME NEW u \in Nat, NEW n \in Nat \ {0}, NEW m \in Nat
  PROVE  u \div n = m <=> m * n <= u /\ u < m * n + n
<1>1. u = (n * (u \div n)) + (u % n) /\ u % n \in 0 .. n - 1 /\ u \div n \in Nat
  OBVIOUS
<1>2. ASSUME u \div n = m PROVE m * n <= u /\ u < m * n + n
  BY <1>1, <1>2
<1>3. ASSUME m * n <= u, u < m * n + n PROVE u \div n = m
  <2>1. PICK k \in 0 .. n - 1 : u = k + m * n
    <3>1. u - m * n \in 0 .. n - 1 /\ u = (u - m * n) + m * n
      BY <1>3
    <3> QED
      BY <3>1
  <2> QED
    BY <2>1
<1> QED
  BY <1>2, <1>3

\* A sector that is not the last ends before the others do.
LEMMA SectorsFit ==
  ASSUME NEW n \in Nat, NEW m \in Nat, NEW c \in Nat, m < c
  PROVE  /\ m * n \in Nat /\ m * n + n <= c * n /\ (m + 1) * n = m * n + n
  OBVIOUS

(***************************************************************************)
(* AIInv is inductive.                                                     *)
(***************************************************************************)

\* What the definitions say of the numbers, for the steps to use.
LEMMA Numbers ==
  ASSUME AIInv
  PROVE  /\ Units \in Nat /\ Units >= 1 /\ Sectors \in Nat /\ MaxCount \in Nat
         /\ request.lba \in Nat /\ request.count \in Nat /\ request.count <= MaxCount
         /\ request.lba <= Sectors
         /\ i \in Nat /\ at \in Nat /\ end \in Nat /\ chunk \in 0 .. Units
         /\ Junk \in Nat /\ Junk = Sectors * Units + 1
  BY AtapiAssumption DEF AIInv, AnswersHold, TypeOK, DriveHolds, CallHolds, Junk

\* The initial state satisfies it.
LEMMA InitAIInv == Init => AIInv
<1> SUFFICES ASSUME Init PROVE AIInv
  OBVIOUS
<1>1. Junk \in Nat /\ Units \in Nat /\ MaxCount \in Nat /\ Sectors \in Nat
  BY AtapiAssumption DEF Junk
<1>2. Fresh \in [Buffer -> 0 .. Junk]
  BY <1>1 DEF Fresh
<1>3. AnswersHold
  BY <1>1, <1>2 DEF Init, AnswersHold, TypeOK, OkMeansRead, FailureLeavesReady
<1>4. DriveHolds /\ StepHolds /\ SectorsHeld
  BY <1>1 DEF Init, DriveHolds, StepHolds, SectorsHeld
<1>5. CallHolds
  <2>1. [lba |-> 0, count |-> 0] \in [lba : 0 .. Sectors, count : 0 .. MaxCount]
    BY <1>1
  <2> QED
    BY <2>1 DEF Init, CallHolds
<1> QED
  BY <1>3, <1>4, <1>5 DEF AIInv

\* The drive's own steps touch nothing of the call, and answer its command.
LEMMA DriveAIInv == ASSUME AIInv, Drive \/ ChangeMedium PROVE AIInv'
<1> USE DEF AIInv, AnswersHold
<1>1. UNCHANGED kernel /\ attached' = attached /\ attached # "nothing"
  BY DEF Drive, Identify, AskForPacket, Offer, Finish, ChangeMedium, DriveHolds, Abort
<1>2. /\ medium' \in {"in", "out"} /\ err' \in {"set", "clear"} /\ command' = command
      /\ phase' \in {"idle", "busy", "packet", "data", "finishing"}
      /\ phase' # "busy" \/ phase' = phase
      /\ phase' # "finishing" \/ Busy
  BY DEF Drive, Identify, AskForPacket, Offer, Finish, ChangeMedium, Abort, TypeOK, Busy
<1>3. AnswersHold'
  BY <1>1, <1>2 DEF kernel, TypeOK, OkMeansRead, FailureLeavesReady, Busy
<1>4. DriveHolds'
  <2> USE Numbers, <1>1 DEF kernel, DriveHolds
  <2>1. CASE Identify
    BY <2>1 DEF Identify, Abort, IdentifyData
  <2>2. CASE AskForPacket
    BY <2>2 DEF AskForPacket, Abort
  <2>3. CASE Offer
    BY <2>3, AtapiAssumption DEF Offer, Abort
  <2>4. CASE Finish \/ ChangeMedium
    BY <2>4 DEF Finish, ChangeMedium
  <2> QED
    BY <2>1, <2>2, <2>3, <2>4 DEF Drive
<1>5. CallHolds'
  BY <1>1 DEF kernel, CallHolds
<1>6. StepHolds'
  BY <1>1 DEF kernel, StepHolds, Drive, Identify, AskForPacket, Offer, Finish, ChangeMedium,
              Abort, DriveHolds, InStep
<1>7. SectorsHeld'
  BY <1>1 DEF kernel, SectorsHeld, InStep
<1> QED
  BY <1>3, <1>4, <1>5, <1>6, <1>7

\* Detection leaves every read alone.
LEMMA DetectAIInv ==
  ASSUME AIInv, SelectDrive \/ SendIdentify \/ LookAtAnswer PROVE AIInv'
<1> USE DEF AIInv, AnswersHold
<1>1. /\ UNCHANGED <<attached, medium, at, end, chunk, i, request, memory, result, lost, short>>
      /\ disc_connected' \in {"yes", "no"}
      /\ pc \in {"boot", "detect", "asleep"} /\ pc' \in {"detect", "asleep", "idle"}
      /\ \/ UNCHANGED <<phase, command, err>>
         \/ attached # "nothing" /\ phase' = "busy" /\ command' = "identify" /\ err' = "clear"
            /\ pc' = "asleep"
  BY DEF SelectDrive, SendIdentify, LookAtAnswer, Order, drive, TypeOK
<1>2. phase # "packet" /\ ~(phase = "busy" /\ command = "packet")
  BY <1>1 DEF DriveHolds
<1>3. result = "none"
  BY <1>1 DEF CallHolds
<1>4. AnswersHold'
  BY <1>1, <1>3 DEF TypeOK, OkMeansRead, FailureLeavesReady, Busy
<1>5. DriveHolds' /\ CallHolds' /\ StepHolds' /\ SectorsHeld'
  BY <1>1, <1>2 DEF DriveHolds, CallHolds, StepHolds, SectorsHeld, InStep
<1> QED
  BY <1>4, <1>5

\* A command starts a read of the sectors asked for.
LEMMA CommandAIInv ==
  ASSUME AIInv, NEW lba \in 0 .. Sectors, NEW count \in 0 .. MaxCount,
         SendCommand(lba, count)
  PROVE  AIInv'
<1> USE DEF AIInv, AnswersHold
<1>1. /\ UNCHANGED <<attached, medium, at, end, chunk, disc_connected>>
      /\ pc' = "await_packet" /\ result' = "pending" /\ i' = 0 /\ short' = "no"
      /\ request' = [lba |-> lba, count |-> count] /\ memory' \in {memory, Fresh}
      /\ lost' = IF attached # "nothing" /\ Busy THEN "yes" ELSE "no"
      /\ IF attached = "nothing" \/ Busy
         THEN UNCHANGED <<phase, command, err>>
         ELSE phase' = "busy" /\ command' = "packet" /\ err' = "clear"
      /\ pc = "idle"
  BY DEF SendCommand, Order
<1>2. phase # "packet" /\ ~(phase = "busy" /\ command = "packet")
  BY <1>1 DEF DriveHolds
<1>3. Fresh \in [Buffer -> 0 .. Junk]
  BY Numbers DEF Fresh
<1>4. AnswersHold'
  BY <1>1, <1>3, Numbers DEF TypeOK, OkMeansRead, FailureLeavesReady
<1>5. DriveHolds' /\ StepHolds' /\ SectorsHeld'
  BY <1>1, <1>2 DEF DriveHolds, StepHolds, SectorsHeld, Busy
<1>6. CallHolds'
  <2>1. request' \in [lba : 0 .. Sectors, count : 0 .. MaxCount] /\ i' <= request'.count
    BY <1>1
  <2> QED
    BY <1>1, <2>1 DEF CallHolds
<1> QED
  BY <1>4, <1>5, <1>6

\* An answer leaves the drive and the buffer as they are; all sectors asked for
\* are there when it is a success, and when it is not the drive is not busy.
LEMMA AnswerAIInv == ASSUME AIInv, Error \/ Success PROVE AIInv'
<1> USE DEF AIInv, AnswersHold
<1>1. /\ UNCHANGED <<drive, i, request, memory, disc_connected, lost, short>>
      /\ pc' = "idle" /\ pc \in {"await_packet", "sectors"}
      /\ \/ result' = "error" /\ ERR
         \/ result' = "ok" /\ pc = "sectors" /\ i >= request.count
  BY DEF Error, Success, Answer, AllRead, GivesUp
<1>2. UNCHANGED <<attached, medium, phase, command, err, at, end, chunk>>
  BY <1>1 DEF drive
<1>3. OkMeansRead'
  <2> SUFFICES ASSUME result' = "ok", InStep PROVE OkMeansRead'
    BY <1>1 DEF OkMeansRead, InStep
  <2>1. i = request.count /\ pc = "sectors"
    BY <1>1, Numbers DEF CallHolds
  <2> QED
    BY <1>1, <2>1 DEF SectorsHeld, OkMeansRead
<1>4. FailureLeavesReady'
  BY <1>1, <1>2 DEF FailureLeavesReady, Busy, ERR, DriveHolds
<1>5. TypeOK' /\ CallHolds' /\ StepHolds' /\ SectorsHeld'
  BY <1>1, <1>2 DEF TypeOK, CallHolds, StepHolds, SectorsHeld
<1>6. DriveHolds'
  <2>1. phase # "packet" /\ ~(phase = "busy" /\ command = "packet")
    BY <1>1 DEF DriveHolds, ERR, Busy
  <2> QED
    BY <1>2, <2>1 DEF DriveHolds
<1> QED
  BY <1>3, <1>4, <1>5, <1>6

\* The packet tells a drive that wants one which sectors to read.
LEMMA PacketAIInv == ASSUME AIInv, SendPacket PROVE AIInv'
<1> USE DEF AIInv, AnswersHold
<1>1. /\ UNCHANGED <<attached, medium, err, chunk, i, request, memory, result>>
      /\ UNCHANGED <<disc_connected, lost, short>>
      /\ pc = "await_packet" /\ pc' = "sectors" /\ ~ERR /\ DRQ
      /\ IF phase = "packet"
         THEN /\ phase' = "busy" /\ command' = "read"
              /\ at' = request.lba * Units
              /\ end' = (request.lba + request.count) * Units
         ELSE UNCHANGED <<phase, command, at, end>>
  BY DEF SendPacket, GivesUp, Ready
<1>2. attached # "nothing" /\ phase \in {"packet", "data"} /\ result = "pending"
  BY <1>1 DEF ERR, DRQ, CallHolds
<1>3. InStep => phase = "packet"
  BY <1>1, <1>2 DEF StepHolds, InStep, Busy
<1>4. i = 0
  BY <1>1 DEF CallHolds
<1>5. AnswersHold'
  BY <1>1, <1>2 DEF TypeOK, OkMeansRead, FailureLeavesReady
<1>6. DriveHolds'
  <2>1. request.lba * Units \in Nat /\ (request.lba + request.count) * Units \in Nat
    BY Numbers
  <2> QED
    BY <1>1, <1>2, <2>1 DEF DriveHolds
<1>7. CallHolds'
  BY <1>1, <1>2 DEF CallHolds
<1>8. StepHolds'
  BY <1>1, <1>3, <1>4, Numbers DEF StepHolds, InStep
<1>9. SectorsHeld'
  BY <1>1, <1>4, Numbers DEF SectorsHeld
<1> QED
  BY <1>5, <1>6, <1>7, <1>8, <1>9

\* What a transfer writes: the pieces the drive holds, where the sector that is
\* due begins, and those fit into it.
LEMMA TransferWrites ==
  ASSUME AIInv, Transfer
  PROVE  /\ pc = "sectors" /\ phase = "data" /\ i < request.count /\ chunk >= 1
         /\ i * Units \in Nat /\ i * Units + Units <= request.count * Units
         /\ request.count * Units <= MaxCount * Units
         /\ \A u \in Buffer : memory'[u] = IF i * Units <= u /\ u < i * Units + chunk
                                           THEN at + (u - i * Units) ELSE memory[u]
<1> USE DEF AIInv, AnswersHold
<1>1. /\ pc = "sectors" /\ i < request.count /\ DRQ
      /\ attached # "nothing"
  BY Numbers DEF Transfer, AllRead, Ready, CallHolds
<1>2. phase = "data" /\ chunk >= 1
  BY <1>1 DEF DRQ, DriveHolds
<1>3. i * Units \in Nat /\ i * Units + Units <= request.count * Units
  BY <1>1, Numbers, SectorsFit
<1>4. request.count * Units <= MaxCount * Units
  <2>1. CASE request.count = MaxCount
    BY <2>1, Numbers
  <2>2. CASE request.count < MaxCount
    BY <2>2, Numbers, SectorsFit
  <2> QED
    BY <2>1, <2>2, Numbers
<1>5. ASSUME NEW u \in Buffer
      PROVE  memory'[u] = IF i * Units <= u /\ u < i * Units + chunk
                          THEN at + (u - i * Units) ELSE memory[u]
  <2>1. memory'[u] = IF \E k \in 0 .. chunk - 1 : u = Place(k)
                     THEN at + (CHOOSE k \in 0 .. chunk - 1 : u = Place(k)) ELSE memory[u]
    BY <1>5 DEF Transfer
  <2>2. u \in Nat /\ chunk \in Nat
    BY <1>5, Numbers DEF Buffer
  <2>3. (\E k \in 0 .. chunk - 1 : u = Place(k)) <=> i * Units <= u /\ u < i * Units + chunk
    <3>1. ASSUME i * Units <= u, u < i * Units + chunk
          PROVE  \E k \in 0 .. chunk - 1 : u = Place(k)
      <4>1. u - i * Units \in 0 .. chunk - 1 /\ u = Place(u - i * Units)
        BY <1>3, <2>2, <3>1 DEF Place
      <4> QED
        BY <4>1
    <3>2. ASSUME NEW k \in 0 .. chunk - 1, u = Place(k)
          PROVE  i * Units <= u /\ u < i * Units + chunk
      BY <1>3, <2>2, <3>2 DEF Place
    <3> QED
      BY <3>1, <3>2
  <2>4. ASSUME \E k \in 0 .. chunk - 1 : u = Place(k)
        PROVE  (CHOOSE k \in 0 .. chunk - 1 : u = Place(k)) = u - i * Units
    <3>1. \A k \in 0 .. chunk - 1 : u = Place(k) => k = u - i * Units
      BY <1>3, <2>2 DEF Place
    <3> DEFINE place == CHOOSE k \in 0 .. chunk - 1 : u = Place(k)
    <3>2. place \in 0 .. chunk - 1 /\ u = Place(place)
      BY <2>4
    <3> QED
      BY <3>1, <3>2
  <2> QED
    BY <2>1, <2>3, <2>4
<1> QED
  BY <1>1, <1>2, <1>3, <1>4, <1>5

\* A transfer of a whole sector is the sector that was due.
LEMMA TransferAIInv == ASSUME AIInv, Transfer PROVE AIInv'
<1> USE DEF AIInv, AnswersHold
<1>1. /\ UNCHANGED <<attached, medium, command, err, end, chunk>>
      /\ UNCHANGED <<pc, request, result, disc_connected, lost>>
      /\ i' = i + 1 /\ at' = at + chunk
      /\ short' = IF chunk < Units THEN "yes" ELSE short
      /\ phase' = IF at + chunk >= end THEN "finishing" ELSE "busy"
      /\ memory' \in [Buffer -> {memory'[u] : u \in Buffer}]
  BY DEF Transfer
<1>2. /\ pc = "sectors" /\ phase = "data" /\ i < request.count /\ chunk >= 1
      /\ i * Units \in Nat /\ i * Units + Units <= request.count * Units
      /\ request.count * Units <= MaxCount * Units
      /\ \A u \in Buffer : memory'[u] = IF i * Units <= u /\ u < i * Units + chunk
                                        THEN at + (u - i * Units) ELSE memory[u]
  BY TransferWrites
<1>3. result = "pending" /\ command # "packet" /\ chunk \in Nat /\ at + chunk <= Junk
  BY <1>2, Numbers DEF CallHolds, DriveHolds
<1>4. AnswersHold'
  <2>1. ASSUME NEW u \in Buffer PROVE memory'[u] \in 0 .. Junk
    <3>1. u \in Nat /\ memory[u] \in 0 .. Junk
      BY Numbers DEF TypeOK, Buffer
    <3> QED
      BY <1>2, <1>3, <3>1, Numbers
  <2>2. memory' \in [Buffer -> 0 .. Junk]
    BY <1>1, <2>1
  <2> QED
    BY <1>1, <1>2, <1>3, <2>2, Numbers DEF TypeOK, OkMeansRead, FailureLeavesReady
<1>5. DriveHolds'
  BY <1>1, <1>2, <1>3, Numbers DEF DriveHolds
<1>6. CallHolds'
  BY <1>1, <1>2, Numbers DEF CallHolds
<1>7. ASSUME InStep'
      PROVE  InStep /\ chunk = Units /\ (i + 1) * Units = i * Units + Units
             /\ at = request.lba * Units + i * Units
  <2>1. InStep /\ chunk = Units
    BY <1>1, <1>7, Numbers DEF InStep
  <2>2. (i + 1) * Units = i * Units + Units
    BY Numbers
  <2>3. at = request.lba * Units + i * Units
    BY <1>2, <2>1, Numbers DEF StepHolds
  <2> QED
    BY <2>1, <2>2, <2>3
<1>8. StepHolds'
  <2>1. ASSUME InStep' PROVE at' = (request.lba + i') * Units
    <3>1. (request.lba + (i + 1)) * Units = request.lba * Units + (i + 1) * Units
      BY Numbers
    <3>2. request.lba * Units \in Nat
      BY Numbers
    <3> QED
      BY <1>1, <1>2, <1>7, <2>1, <3>1, <3>2, Numbers
  <2> QED
    BY <1>1, <1>2, <1>7, <2>1 DEF StepHolds
<1>9. SectorsHeld'
  <2> SUFFICES ASSUME InStep', NEW u \in 0 .. i' * Units - 1
               PROVE  memory'[u] = request.lba * Units + u
    BY <1>1 DEF SectorsHeld
  <2>1. u \in Nat /\ u < i * Units + Units
    BY <1>1, <1>2, <1>7, Numbers
  <2>2. u \in Buffer
    <3>1. MaxCount * Units \in Nat
      BY Numbers
    <3> QED
      BY <1>2, <2>1, <3>1, Numbers DEF Buffer
  <2>3. request.lba * Units \in Nat
    BY Numbers
  <2>4. CASE u < i * Units
    BY <1>2, <1>7, <2>1, <2>2, <2>4 DEF SectorsHeld
  <2>5. CASE i * Units <= u
    BY <1>2, <1>7, <2>1, <2>2, <2>3, <2>5
  <2> QED
    BY <1>2, <2>1, <2>4, <2>5
<1> QED
  BY <1>4, <1>5, <1>6, <1>8, <1>9

\* Every step preserves the invariant.
LEMMA StepAIInv == AIInv /\ [Next]_vars => AIInv'
<1> SUFFICES ASSUME AIInv, [Next]_vars PROVE AIInv'
  OBVIOUS
<1>1. CASE Drive \/ ChangeMedium
  BY <1>1, DriveAIInv
<1>2. CASE Kernel
  BY <1>2, DetectAIInv, AnswerAIInv, PacketAIInv, TransferAIInv DEF Kernel
<1>3. CASE \E lba \in 0 .. Sectors, count \in 0 .. MaxCount : SendCommand(lba, count)
  BY <1>3, CommandAIInv
<1>4. CASE UNCHANGED vars
  BY <1>4 DEF vars, drive, kernel, AIInv, AnswersHold, TypeOK, OkMeansRead, FailureLeavesReady,
              Busy, DriveHolds, CallHolds, StepHolds, SectorsHeld, InStep
<1> QED
  BY <1>1, <1>2, <1>3, <1>4 DEF Next

\* Call and drive stay in step, whatever is attached and whatever is read.
THEOREM ReadsInStep == Spec => []AIInv
<1>1. Init => AIInv
  BY InitAIInv
<1>2. AIInv /\ [Next]_vars => AIInv'
  BY StepAIInv
<1> QED
  BY <1>1, <1>2, PTL DEF Spec

\* A read that answers 0 has filled the buffer with the sectors asked for, and
\* one that fails leaves the drive ready for the next.
THEOREM AnswersStand == Spec => []AnswersHold
<1>1. AIInv => AnswersHold
  BY DEF AIInv
<1> QED
  BY <1>1, ReadsInStep, PTL

(***************************************************************************)
(* What the callers are promised.                                          *)
(***************************************************************************)

\* No step writes outside the sectors asked for.
LEMMA StepOnlyTheBuffer ==
  ASSUME AIInv, [Next]_vars
  PROVE  pc = "sectors" =>
            \A u \in Buffer : u >= request.count * Units => memory'[u] = memory[u]
<1> SUFFICES ASSUME pc = "sectors", NEW u \in Buffer, u >= request.count * Units
             PROVE  memory'[u] = memory[u]
  OBVIOUS
<1>1. CASE Transfer
  <2>1. u \in Nat /\ chunk \in 0 .. Units /\ Units \in Nat
    BY Numbers DEF Buffer
  <2>2. request.count * Units \in Nat
    BY Numbers
  <2> QED
    BY <1>1, <2>1, <2>2, TransferWrites
<1>2. CASE UNCHANGED memory
  BY <1>2
<1> QED
  BY <1>1, <1>2 DEF Next, Kernel, vars, kernel, Drive, Identify, AskForPacket, Offer, Finish,
     ChangeMedium, SelectDrive, SendIdentify, LookAtAnswer, Error, SendPacket, Success, SendCommand

\* A whole sector transferred in step is the next one Disc delivers.
LEMMA TransferDelivers ==
  ASSUME AIInv, Transfer, InStep, InStep' PROVE DiscPromise!Sector
<1>1. /\ UNCHANGED <<request, result>> /\ pc = "sectors" /\ i' = i + 1 /\ chunk = Units
      /\ i < request.count /\ request.lba * Units \in Nat /\ i * Units \in Nat
      /\ Units \in Nat \ {0} /\ i \in Nat
  BY Numbers, TransferWrites, AtapiAssumption DEF Transfer, InStep
<1>2. result = "pending" /\ DOMAIN memory = Buffer
  BY <1>1 DEF AIInv, AnswersHold, TypeOK, CallHolds
<1>3. at = request.lba * Units + i * Units
  <2>1. at = (request.lba + i) * Units
    BY <1>1 DEF AIInv, StepHolds
  <2> QED
    BY <2>1, Numbers
<1>4. \A u \in Buffer : memory'[u] =
         IF u \div Units = i THEN request.lba * Units + u ELSE memory[u]
  <2> TAKE u \in Buffer
  <2>1. u \in Nat
    BY Numbers DEF Buffer
  <2>2. u \div Units = i <=> i * Units <= u /\ u < i * Units + Units
    BY <1>1, <2>1, PieceOfSector
  <2>3. memory'[u] = IF i * Units <= u /\ u < i * Units + chunk
                     THEN at + (u - i * Units) ELSE memory[u]
    BY TransferWrites
  <2> QED
    BY <1>1, <1>3, <2>1, <2>2, <2>3
<1>5. memory' = [u \in DOMAIN memory |->
                    IF u \div Units = i THEN request.lba * Units + u ELSE memory[u]]
  <2>1. memory' = [u \in Buffer |-> memory'[u]]
    BY DEF Transfer
  <2> QED
    BY <1>2, <1>4, <2>1
<1> QED
  BY <1>1, <1>2, <1>5 DEF DiscPromise!Sector, DiscPromise!Pending, InStep

\* Every step is one of Disc or leaves it alone.
LEMMA StepDisc ==
  ASSUME AIInv, [Next]_vars
  PROVE  [DiscPromise!DNext]_(DiscPromise!dvars)
<1>1. ASSUME ~InStep' PROVE DiscPromise!LoseStep
  BY <1>1, StepAIInv DEF DiscPromise!LoseStep, InStep, AIInv, AnswersHold, TypeOK
<1>2. CASE InStep' /\ \/ Drive \/ ChangeMedium \/ SelectDrive \/ SendIdentify
                      \/ LookAtAnswer \/ SendPacket \/ UNCHANGED vars
  BY <1>2 DEF vars, kernel, Drive, Identify, AskForPacket, Offer, Finish, ChangeMedium,
     SelectDrive, SendIdentify, LookAtAnswer, SendPacket, DiscPromise!dvars
<1>3. ASSUME NEW lba \in 0 .. Sectors, NEW count \in 0 .. MaxCount, SendCommand(lba, count),
             InStep'
      PROVE  DiscPromise!Ask
  <2>1. [lba |-> lba, count |-> count] \in [lba : Nat, count : Nat]
    BY <1>3, Numbers
  <2>2. result # "pending"
    BY <1>3 DEF SendCommand, AIInv, CallHolds
  <2> QED
    BY <1>3, <2>1, <2>2 DEF SendCommand, DiscPromise!Ask, InStep
<1>4. CASE InStep' /\ Transfer
  BY <1>4, TransferDelivers DEF Transfer, InStep, AIInv, AnswersHold, TypeOK, DiscPromise!DNext
<1>5. CASE InStep' /\ (Error \/ Success)
  <2>1. result = "pending" /\ InStep /\ (Success => i = request.count)
    BY <1>5, Numbers DEF Error, Success, AllRead, InStep, AIInv, CallHolds
  <2> QED
    BY <1>5, <2>1 DEF Error, Success, Answer, InStep, DiscPromise!DNext, DiscPromise!Done,
       DiscPromise!Fail, DiscPromise!Pending
<1> QED
  BY <1>1, <1>2, <1>3, <1>4, <1>5 DEF Next, Kernel, DiscPromise!DNext

\* atapi_read does what Disc promises, and writes nowhere else even when it
\* can promise nothing.
THEOREM ReadsAsPromised == Spec => ImplementsDisc
<1>1. Init => DiscPromise!DInit
  BY DEF Init, DiscPromise!DInit
<1>2. AIInv /\ [Next]_vars => [DiscPromise!DNext]_(DiscPromise!dvars)
  BY StepDisc
<1>3. AIInv /\ [Next]_vars =>
         [pc = "sectors" =>
            \A u \in Buffer : u >= request.count * Units => memory'[u] = memory[u]]_vars
  BY StepOnlyTheBuffer
<1> QED
  BY <1>1, <1>2, <1>3, ReadsInStep, PTL
     DEF Spec, ImplementsDisc, OnlyTheBuffer, DiscPromise!DSpec
==============================================================================
