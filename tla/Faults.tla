------------------------------- MODULE Faults -------------------------------
(***************************************************************************)
(* What the CPU's exceptions come to: the words the CPU pushes, those the  *)
(* stub of boot/idt.s adds, and the argument the handler written in C then *)
(* finds.  Interrupts says when an exception may come; this module says    *)
(* what its handler does.                                                  *)
(***************************************************************************)
EXTENDS Naturals, Sequences

CONSTANTS Codes,      \* error codes the CPU pushes
          Places,     \* addresses of the instructions that fault
          Addresses,  \* addresses whose access makes a page fault
          Unmapped    \* addresses of the first 4 MiB: 0 .. 0x3FFFFF

\* The first 4 MiB are unmapped since setGdt; a general protection fault's
\* error code is a selector or zero, 16 bits at most.
FaultsAssumption ==
    /\ Codes \subseteq Unmapped /\ Unmapped \subseteq Nat
    /\ Places \subseteq Nat /\ Addresses \subseteq Nat

VARIABLES doing,  \* "code", "stub", "exception_handler", "gpf_handler", "halted"
          vector, \* of the exception being delivered
          words,  \* the stack from the CPU's words on, the top first
          cr2,    \* the last address whose access made a page fault
          shown,  \* the vector and cr2, or the eip, that was printed
          raised  \* history: the vector, place and address of the exception raised

vars == <<doing, vector, words, cr2, shown, raised>>

DivideError == 0
GeneralProtection == 13
PageFault == 14
Exceptions == 0 .. 31
PushesCode(v) == v \in {8, 10, 11, 12, 13, 14, 17, 30}
Return == 0      \* the address a call pushes

Nothing == [vector |-> 32, cr2 |-> 0, eip |-> 0]

Init ==
    /\ doing = "code" /\ vector = 0 /\ words = <<>> /\ cr2 = 0
    /\ shown = Nothing /\ raised = Nothing

\* EFLAGS and CS lie above the place; they are one word here.
Pushed(v, code, eip) == IF PushesCode(v) THEN <<code, eip>> ELSE <<eip>>

Raise(v, code, eip, address) ==
    /\ doing = "code"
    /\ raised.vector = DivideError => v = DivideError /\ eip = raised.eip
    /\ doing' = "stub" /\ vector' = v
    /\ words' = Pushed(v, code, eip)
    /\ cr2' = IF v = PageFault THEN address ELSE cr2
    /\ raised' = [vector |-> v, cr2 |-> cr2', eip |-> eip]
    /\ UNCHANGED shown

\* divide_error does nothing, and its stub returns to the same instruction.
Popped == Tail(words)
DivideStub ==
    /\ doing = "stub" /\ vector = DivideError
    /\ words' = Popped /\ doing' = "code"
    /\ UNCHANGED <<vector, cr2, shown, raised>>

\* gpf_stub pushes nothing of its own.
GpfStub ==
    /\ doing = "stub" /\ vector = GeneralProtection
    /\ words' = <<Return>> \o words /\ doing' = "gpf_handler"
    /\ UNCHANGED <<vector, cr2, shown, raised>>

\* Mutant of StubPushes: the vector is not pushed when the CPU has pushed a code.
StubPushesOnce(v) == IF PushesCode(v) THEN <<Return>> ELSE <<Return, v>>
StubPushes(v) == <<Return, v>>
OtherStub ==
    /\ doing = "stub" /\ vector \notin {DivideError, GeneralProtection}
    /\ words' = StubPushes(vector) \o words /\ doing' = "exception_handler"
    /\ UNCHANGED <<vector, cr2, shown, raised>>

Argument == words[2]

Ends == "halted"
exception_handler ==
    /\ doing = "exception_handler" /\ doing' = Ends
    /\ shown' = [vector |-> Argument, cr2 |-> cr2, eip |-> 0]
    /\ UNCHANGED <<vector, words, cr2, raised>>

\* It follows its argument, and so the error code, into unmapped memory.
gpf_handler ==
    /\ doing = "gpf_handler" /\ Argument \in Unmapped
    /\ doing' = "stub" /\ vector' = PageFault /\ cr2' = Argument
    /\ \E eip \in Places : words' = Pushed(PageFault, 0, eip) \o words
    /\ UNCHANGED <<shown, raised>>

Handle == DivideStub \/ GpfStub \/ OtherStub \/ exception_handler \/ gpf_handler

Next ==
    \/ \E v \in Exceptions, code \in Codes, eip \in Places, address \in Addresses :
           Raise(v, code, eip, address)
    \/ Handle

Spec == Init /\ [][Next]_vars

(***************************************************************************)
(* Properties.                                                             *)
(***************************************************************************)
TypeOK ==
    /\ doing \in {"code", "stub", "exception_handler", "gpf_handler", "halted"}
    /\ vector \in Exceptions /\ cr2 \in Nat /\ words \in Seq(Nat)
    /\ shown.vector \in 0 .. 32 /\ raised.vector \in 0 .. 32

\* The screen names the exception that was raised, with the address that was
\* accessed when it is a page fault, whether or not the CPU pushes a code.  A
\* general protection fault is named as a page fault.
NamesTheFault ==
    doing = "halted" =>
        IF raised.vector = GeneralProtection THEN shown.vector = PageFault
        ELSE shown.vector = raised.vector /\ shown.cr2 = raised.cr2

\* A program that divides by zero divides for ever, on a stack that does not
\* grow: nothing stays of what the CPU pushed.
DivisionLeavesNothing ==
    doing = "code" => words = <<>>

(***************************************************************************)
(* The inductive invariant behind both: the words on the stack are those   *)
(* the handler takes them for, and the exception under way is the one      *)
(* raised, or the page fault its general protection fault led to.          *)
(***************************************************************************)
UnderWay ==
    \/ vector = raised.vector /\ cr2 = raised.cr2
    \/ vector = PageFault /\ raised.vector = GeneralProtection

WordsHold ==
    /\ doing = "stub" => UnderWay
    /\ doing = "stub" /\ vector = DivideError => Len(words) = 1
    /\ doing = "stub" /\ vector = GeneralProtection => Len(words) >= 1
    /\ doing = "gpf_handler" => raised.vector = GeneralProtection /\ Len(words) >= 2
    /\ doing = "exception_handler" =>
           /\ UnderWay /\ vector # GeneralProtection
           /\ Len(words) >= 2 /\ Argument = vector

FIInv == TypeOK /\ NamesTheFault /\ DivisionLeavesNothing /\ WordsHold
==============================================================================
