------------------------------- MODULE Atapi -------------------------------
(***************************************************************************)
(* The driver of libraries/disc.c on the secondary channel, and what is    *)
(* attached there: nothing (the bus floats, all bits read as one), a hard  *)
(* disk, or a CD drive.  The drive is external.  A status is what          *)
(* get_status returns; a loop that polls it is a step whose guard is the   *)
(* loop's exit.                                                            *)
(***************************************************************************)
EXTENDS Naturals, FiniteSets

CONSTANTS Units,      \* pieces of a sector
          Sizes,      \* pieces a drive hands over at a time
          Sectors,    \* sectors on the medium
          MaxCount    \* bound: sectors asked for in a call

ASSUME AtapiAssumption ==
    /\ Units \in Nat \ {0} /\ Sizes \subseteq 1 .. Units
    /\ Sectors \in Nat /\ MaxCount \in Nat

VARIABLES
    attached,  \* "nothing", "disk" or "cd"
    medium,    \* "in" or "out" of the CD drive
    phase,     \* the drive: "idle", "busy", "packet" (DRQ, wants the packet),
               \* "data" (DRQ, holds data) or "finishing" (busy, all data read)
    command,   \* what a busy drive works on: "identify", "packet" or "read"
    err,       \* its ERR bit, "set" or "clear"
    at, end,   \* the pieces it is to deliver
    chunk,     \* pieces in the transfer it offers
    pc,        \* the kernel: "boot", "detect", "asleep", "idle", "await_packet"
               \* or "sectors"
    i,         \* sectors transferred by this call
    request, memory, result,
    disc_connected,
    lost,      \* history: "yes" if the drive was busy when the command came
    short      \* history: "yes" if a transfer was smaller than a sector

drive == <<attached, medium, phase, command, err, at, end, chunk>>
kernel == <<pc, i, request, memory, result, disc_connected, lost, short>>
vars == <<drive, kernel>>

Buffer == 0 .. MaxCount * Units - 1
Junk == Sectors * Units + 1     \* what a buffer holds before
IdentifyData == Sectors * Units
Fresh == [u \in Buffer |-> Junk]

Busy == phase \in {"busy", "finishing"}
DRQ == ~Busy /\ (attached = "nothing" \/ phase \in {"packet", "data"})
ERR == attached = "nothing" \/ (~Busy /\ err = "set")

Init ==
    /\ attached \in {"nothing", "disk", "cd"} /\ medium \in {"in", "out"}
    /\ attached # "cd" => medium = "out"
    /\ phase = "idle" /\ command = "packet" /\ err = "clear"
    /\ at = 0 /\ end = 0 /\ chunk = 0
    /\ pc = "boot" /\ i = 0 /\ request = [lba |-> 0, count |-> 0]
    /\ memory = Fresh /\ result = "none" /\ disc_connected = "no"
    /\ lost = "no" /\ short = "no"

(***************************************************************************)
(* The drive's side of the command register: a busy drive ignores it.      *)
(***************************************************************************)
Order(c) ==
    /\ IF attached = "nothing" \/ Busy
       THEN UNCHANGED <<phase, command, err>>
       ELSE phase' = "busy" /\ command' = c /\ err' = "clear"
    /\ UNCHANGED <<attached, medium, at, end, chunk>>

Abort == phase' = "idle" /\ err' = "set" /\ UNCHANGED <<at, end, chunk>>

Identify ==
    /\ phase = "busy" /\ command = "identify"
    /\ \/ attached = "cd" /\ Abort
       \/ /\ attached = "disk"
          /\ phase' = "data" /\ chunk' = 1
          /\ at' = IdentifyData /\ end' = IdentifyData + 1 /\ UNCHANGED err
    /\ UNCHANGED <<attached, medium, command, kernel>>

AskForPacket ==
    /\ phase = "busy" /\ command = "packet"
    /\ \/ attached = "disk" /\ Abort
       \/ attached = "cd" /\ phase' = "packet" /\ UNCHANGED <<err, at, end, chunk>>
    /\ UNCHANGED <<attached, medium, command, kernel>>

Offer ==
    /\ phase = "busy" /\ command = "read"
    /\ \/ Abort
       \/ /\ medium = "in" /\ at < end /\ end <= Sectors * Units
          /\ \E s \in Sizes : s <= end - at /\ chunk' = s
          /\ phase' = "data" /\ UNCHANGED <<err, at, end>>
       \/ at = end /\ phase' = "finishing" /\ UNCHANGED <<err, at, end, chunk>>
    /\ UNCHANGED <<attached, medium, command, kernel>>

Finish ==
    /\ phase = "finishing" /\ phase' = "idle"
    /\ UNCHANGED <<attached, medium, command, err, at, end, chunk, kernel>>

ChangeMedium ==
    /\ attached = "cd" /\ phase = "idle"
    /\ medium' \in {"in", "out"} \ {medium}
    /\ UNCHANGED <<attached, phase, command, err, at, end, chunk, kernel>>

(***************************************************************************)
(* detect_discs.  A hard disk answers IDENTIFY, a CD drive refuses it and  *)
(* shows its signature; one that is busy after 10 ms is taken for absent.  *)
(***************************************************************************)
FloatingBus == attached = "nothing"

SelectDrive ==
    /\ pc = "boot"
    /\ pc' = IF FloatingBus THEN "idle" ELSE "detect"
    /\ UNCHANGED <<drive, i, request, memory, result, disc_connected, lost, short>>

SendIdentify ==
    /\ pc = "detect" /\ ~Busy /\ ~DRQ
    /\ Order("identify") /\ pc' = "asleep"
    /\ UNCHANGED <<i, request, memory, result, disc_connected, lost, short>>

Found == ~Busy /\ attached = "cd"

LookAtAnswer ==
    /\ pc = "asleep" /\ pc' = "idle"
    /\ disc_connected' = IF Found THEN "yes" ELSE "no"
    /\ UNCHANGED <<drive, i, request, memory, result, lost, short>>

(***************************************************************************)
(* atapi_read.                                                             *)
(***************************************************************************)
SendCommand(lba, count) ==
    /\ pc = "idle" /\ pc' = "await_packet"
    /\ request' = [lba |-> lba, count |-> count]
    /\ memory' \in {memory, Fresh}
    /\ result' = "pending" /\ i' = 0 /\ short' = "no"
    /\ lost' = IF attached # "nothing" /\ Busy THEN "yes" ELSE "no"
    /\ Order("packet")
    /\ UNCHANGED disc_connected

\* Mutant of GivesUp: the ERR bit is not looked at.
GivesUpNever == FALSE
\* Mutant of GivesUp: a busy drive is taken for one that failed.
GivesUpOnBusy == ERR \/ Busy
GivesUp == ERR

Ready == DRQ

\* Mutant of AllRead: one sector fewer.
AllReadButOne == i + 1 >= request.count
AllRead == i >= request.count

Answer(r) == result' = r /\ pc' = "idle"

Error ==
    /\ pc \in {"await_packet", "sectors"} /\ GivesUp
    /\ pc = "sectors" => ~AllRead
    /\ Answer("error")
    /\ UNCHANGED <<drive, i, request, memory, disc_connected, lost, short>>

\* A drive that offers data instead lets the packet go by.
SendPacket ==
    /\ pc = "await_packet" /\ ~GivesUp /\ Ready
    /\ pc' = "sectors"
    /\ IF phase = "packet"
       THEN /\ phase' = "busy" /\ command' = "read"
            /\ at' = request.lba * Units
            /\ end' = (request.lba + request.count) * Units
       ELSE UNCHANGED <<phase, command, at, end>>
    /\ UNCHANGED <<attached, medium, err, chunk,
                   i, request, memory, result, disc_connected, lost, short>>

Place(u) == u + i * Units

Transfer ==
    /\ pc = "sectors" /\ ~AllRead /\ ~GivesUp /\ Ready
    /\ memory' = [u \in Buffer |->
                     IF \E k \in 0 .. chunk - 1 : u = Place(k)
                     THEN at + (CHOOSE k \in 0 .. chunk - 1 : u = Place(k))
                     ELSE memory[u]]
    /\ i' = i + 1
    /\ short' = IF chunk < Units THEN "yes" ELSE short
    /\ at' = at + chunk
    /\ phase' = IF at' >= end THEN "finishing" ELSE "busy"
    /\ UNCHANGED <<attached, medium, command, err, end, chunk,
                   pc, request, result, disc_connected, lost>>

Success ==
    /\ pc = "sectors" /\ AllRead
    /\ Answer("ok")
    /\ UNCHANGED <<drive, i, request, memory, disc_connected, lost, short>>

Drive == Identify \/ AskForPacket \/ Offer \/ Finish
Kernel == \/ SelectDrive \/ SendIdentify \/ LookAtAnswer
          \/ Error \/ SendPacket \/ Transfer \/ Success

Next ==
    \/ Drive \/ Kernel \/ ChangeMedium
    \/ \E lba \in 0 .. Sectors, count \in 0 .. MaxCount : SendCommand(lba, count)

Spec == Init /\ [][Next]_vars /\ WF_vars(Drive) /\ WF_vars(Kernel)

(***************************************************************************)
(* Properties.                                                             *)
(***************************************************************************)
TypeOK ==
    /\ attached \in {"nothing", "disk", "cd"} /\ medium \in {"in", "out"}
    /\ phase \in {"idle", "busy", "packet", "data", "finishing"}
    /\ command \in {"identify", "packet", "read"} /\ err \in {"set", "clear"}
    /\ pc \in {"boot", "detect", "asleep", "idle", "await_packet", "sectors"}
    /\ memory \in [Buffer -> 0 .. Junk]
    /\ result \in {"none", "pending", "ok", "error"} /\ i \in 0 .. MaxCount
    /\ disc_connected \in {"yes", "no"} /\ lost \in {"yes", "no"} /\ short \in {"yes", "no"}

\* A read that answers 0 has filled the buffer with the sectors asked for, over
\* every sequence of reads, failures and changes of the medium before it, as
\* long as the drive was ready for the command and handed over whole sectors.
OkMeansRead ==
    result = "ok" /\ lost = "no" /\ short = "no" =>
        \A u \in 0 .. request.count * Units - 1 : memory[u] = request.lba * Units + u

\* Nothing outside the sectors asked for is written, whatever the drive does:
\* not in a read that fails, nor with short transfers, nor with stale data.
OnlyTheBuffer ==
    [][pc = "sectors" =>
          \A u \in Buffer : u >= request.count * Units => memory'[u] = memory[u]]_vars

\* A read that fails leaves the drive waiting for commands: the one after it is
\* not lost, so trying again is safe.
FailureLeavesReady == result = "error" /\ pc = "idle" => ~Busy

\* A read ends if the drive was ready for its command: with no drive, no medium,
\* a hard disk in its place or an unreadable sector it ends too.
ReadReturns ==
    result = "pending" /\ lost = "no" ~> result # "pending" \/ lost = "yes"

\* The kernel comes to its shell whatever is attached.
DetectionEnds == <>(pc \notin {"boot", "detect", "asleep"})

\* What an answer of atapi_read stands for, whichever it is.
AnswersHold == TypeOK /\ OkMeansRead /\ FailureLeavesReady

\* Neither of the two functions hangs.
CallsEnd == ReadReturns /\ DetectionEnds

\* atapi_read does what Disc promises, void while a command is lost or the
\* drive hands over less than a sector; even then it writes nowhere else.
DiscPromise == INSTANCE Disc WITH
    got <- i, promise <- IF lost = "yes" \/ short = "yes" THEN "void" ELSE "kept"
ImplementsDisc == DiscPromise!DSpec /\ OnlyTheBuffer

(***************************************************************************)
(* The inductive invariant behind AnswersHold and ImplementsDisc.          *)
(***************************************************************************)
InStep == lost = "no" /\ short = "no"

\* The drive: an empty bus does nothing, only a call's own command puts the
\* drive in want of a packet, and what it offers is at most a sector.
DriveHolds ==
    /\ at \in Nat /\ end \in Nat /\ chunk \in 0 .. Units
    /\ attached = "nothing" => phase = "idle"
    /\ phase = "packet" \/ (phase = "busy" /\ command = "packet") =>
           pc = "await_packet" /\ err = "clear"
    /\ phase = "data" => /\ command # "packet" /\ chunk >= 1
                         /\ at + chunk <= end /\ at + chunk <= Junk

\* The call: it runs while it is pending, and transfers no sector too many.
CallHolds ==
    /\ request \in [lba : 0 .. Sectors, count : 0 .. MaxCount] /\ i <= request.count
    /\ pc \in {"await_packet", "sectors"} <=> result = "pending"
    /\ pc \in {"boot", "detect", "asleep"} => result = "none"
    /\ pc = "await_packet" => i = 0
    /\ pc = "sectors" => attached # "nothing"

\* The two together: a drive that took the command works on this call's, and
\* has delivered what the call has transferred.
StepHolds ==
    /\ lost = "no" /\ pc = "await_packet" /\ attached # "nothing" =>
           \/ phase = "packet" \/ (phase = "busy" /\ command = "packet")
           \/ phase = "idle" /\ err = "set"
    /\ InStep /\ pc = "sectors" =>
           /\ command = "read"
           /\ at = (request.lba + i) * Units
           /\ end = (request.lba + request.count) * Units

\* So far the buffer holds the first i sectors asked for.
SectorsHeld ==
    InStep /\ pc = "sectors" =>
        \A u \in 0 .. i * Units - 1 : memory[u] = request.lba * Units + u

AIInv == AnswersHold /\ DriveHolds /\ CallHolds /\ StepHolds /\ SectorsHeld
==============================================================================
