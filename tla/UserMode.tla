------------------------------ MODULE UserMode ------------------------------
(***************************************************************************)
(* Into a user program and out of it: the segments of Gdt, the one kernel  *)
(* stack of KernelStack and the exceptions of Faults composed.  An         *)
(* interrupt changes the code and stack segment, goes on the stack, and    *)
(* comes back; a program leaves through kernel_return; an exception takes  *)
(* the interrupt's way to a handler that halts, or returns to its cause.   *)
(***************************************************************************)
EXTENDS Naturals, Sequences

CONSTANTS Byte, Half, Flat, TssSize, TssPlaces, MaxNested,  \* as in Gdt
          Size, Startup, Main, Deep, Handler, MaxRuns,      \* as in KernelStack
          Codes, Places, Addresses, Unmapped                \* as in Faults

VARIABLES memory, tss, ss0, pc, cs, ds, ss, tr, returns,
          doing, depth, saved_kernel_esp, over, runs,
          fault,  \* where the delivery of an exception stands; "code" outside
          vector, words, cr2, shown, raised

segments == <<memory, tss, ss0, pc, cs, ds, ss, tr, returns>>
stack == <<doing, depth, saved_kernel_esp, over, runs>>
exception == <<fault, vector, words, cr2, shown, raised>>
vars == <<segments, stack, exception>>

G == INSTANCE Gdt
S == INSTANCE KernelStack
F == INSTANCE Faults WITH doing <- fault

ASSUME UserModeAssumption ==
    /\ G!GdtAssumption /\ S!KernelStackAssumption /\ F!FaultsAssumption
    /\ MaxNested = 2

Init == G!Init /\ S!Init /\ F!Init

Setup ==
    /\ G!createGdt \/ G!setGdt \/ G!ltr
    /\ UNCHANGED <<stack, exception>>

\* Code that has divided by zero does it again, whatever interrupts it.
Free == pc = G!On /\ fault = "code" /\ raised.vector # F!DivideError

KernelMain ==
    /\ Free
    /\ S!Command \/ S!Done
    /\ UNCHANGED <<segments, exception>>

jump_usermode ==
    /\ Free
    /\ G!jump_usermode /\ S!jump_usermode
    /\ UNCHANGED exception

\* An interrupt, or a system call of a program, which interrupts may interrupt
\* in turn: the stack they take is in its share.
Interrupt ==
    /\ fault = "code"
    /\ G!Interrupt
    /\ \/ S!Handle
       \/ doing = "handler" /\ over.what = "program" /\ UNCHANGED stack
    /\ UNCHANGED exception

Iret ==
    /\ fault = "code" /\ doing = "handler"
    /\ G!Iret
    /\ \/ Len(returns) = 1 /\ S!Iret
       \/ Len(returns) = 2 /\ UNCHANGED stack
    /\ UNCHANGED exception

kernel_return ==
    /\ Free
    /\ G!kernel_return /\ S!kernel_return
    /\ UNCHANGED exception

\* An exception comes behind an interrupt gate as well; within a system call it
\* is the page fault of a pointer that write_to_screen was given.
Raise(v, code, eip, address) ==
    /\ pc = G!On
    /\ F!Raise(v, code, eip, address) /\ G!Interrupt
    /\ \/ S!Handle
       \/ /\ v = F!PageFault /\ doing = "handler" /\ over.what = "program"
          /\ UNCHANGED stack

\* The page fault of gpf_handler is an exception within an exception.
Deliver ==
    /\ doing # "overrun"
    /\ \/ F!DivideStub /\ G!Iret /\ S!Iret
       \/ F!gpf_handler /\ G!Interrupt /\ UNCHANGED stack
       \/ F!GpfStub /\ UNCHANGED <<segments, stack>>
       \/ F!OtherStub /\ UNCHANGED <<segments, stack>>
       \/ F!exception_handler /\ UNCHANGED <<segments, stack>>

Next ==
    \/ Setup \/ KernelMain \/ jump_usermode \/ Interrupt \/ Iret \/ kernel_return
    \/ \E v \in F!Exceptions, code \in Codes, eip \in Places, address \in Addresses :
           Raise(v, code, eip, address)
    \/ Deliver

Spec == Init /\ [][Next]_vars

(***************************************************************************)
(* Properties.                                                             *)
(***************************************************************************)
TypeOK == G!TypeOK /\ S!TypeOK /\ F!TypeOK

\* What the CPU reads of each descriptor is what createGdt asked for, and its
\* rules for taking a selector hold through every order of programs,
\* interrupts, system calls, exits and exceptions; see Gdt.
SegmentsHold == G!DescribesWhatItAsked /\ G!SegmentsHold

\* What a program interrupts finds its stack: the task register names the task
\* segment, wherever the linker puts it; see Gdt.  It is the kernel's stack
\* from the top on exactly when the segments say that a program runs.
StackIsFound ==
    /\ G!StackIsFound
    /\ pc = G!On => (doing = "program" <=> G!Privilege(cs) = 3)

\* Back in the command loop, with its own data segment, the kernel has given
\* one frame of its stack to each program that has run and nothing to anything
\* else, commands, interrupts, system calls, divisions by zero; it overruns
\* only when a command with an interrupt on top no longer fits under those.
ProgramCostsOneFrame ==
    /\ TypeOK /\ G!KernelHasItsData
    /\ S!ProgramCostsOneFrame /\ S!OverrunOnlyAfterRuns

\* The screen names the exception that was raised, and a division by zero,
\* which comes again for ever, leaves nothing behind; see Faults.
NamesTheFault == F!NamesTheFault /\ F!DivisionLeavesNothing

(***************************************************************************)
(* The inductive invariant behind all of these: those of the three parts,  *)
(* and how what the stack holds and what the segments say go together.     *)
(***************************************************************************)
Linked ==
    /\ pc < G!On => doing = "main" /\ fault = "code"
    /\ pc = G!Loaded => cs = 8
    /\ pc = G!On =>
           /\ doing \in {"main", "command"} => returns = <<>> /\ cs = 8
           /\ doing = "program" => returns = <<>> /\ cs = 27
           /\ doing = "handler" => /\ returns # <<>>
                                   /\ over.what = "program" <=> returns[1].cs = 27
           /\ doing = "overrun" => cs = 8
    /\ fault # "code" => doing \in {"handler", "overrun"}
    /\ fault = "stub" /\ vector = F!DivideError => Len(returns) <= 1

UIInv == G!GIInv /\ S!SIInv /\ F!FIInv /\ Linked
==============================================================================
