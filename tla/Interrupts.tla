----------------------------- MODULE Interrupts -----------------------------
(***************************************************************************)
(* Interrupts from the boot on: the two 8259 controllers (external, as     *)
(* PIC_remap programs them: cascaded, edge triggered, normal end of        *)
(* interrupt), the gates idt_init installs, and the contexts the CPU       *)
(* stacks up.  Two handlers acknowledge their line, irq_handler            *)
(* acknowledges none, the exit system call abandons its stack, and every   *)
(* CPU fault but a division error stops the machine.                       *)
(***************************************************************************)
EXTENDS Naturals, Sequences, FiniteSets

CONSTANTS Lines,     \* the lines that devices raise, a subset of 0 .. 15
          TickWrap   \* values of pit_ticks: 2^32 in the code

ASSUME LinesAssumption == {0, 1} \subseteq Lines /\ Lines \subseteq (0 .. 15) \ {2}
ASSUME TickAssumption == TickWrap \in Nat /\ TickWrap > 1

Timer == 0
Keyboard == 1
Cascade == 2     \* the master's line the slave is wired to

VARIABLES irr,        \* lines raised and not yet accepted
          isr,        \* lines in service, the master's Cascade among them
          pic,        \* "bios": vectors 8 on; "remapped": vectors 0x20 on
          idt,        \* "none" or "loaded"
          flag,       \* the interrupt flag IF: "on" or "off"
          stack,      \* the contexts that have not returned, running one last
          pit_ticks,
          fault       \* history: the CPU fault that stopped the machine

vars == <<irr, isr, pic, idt, flag, stack, pit_ticks, fault>>

\* A context: what runs, and the interrupt flag its iret will restore.
Context == {"boot", "kernel", "user", "syscall", "divide_error", "pit_handler",
            "keyboard_handler", "irq_handler", "acknowledged", "halted"}
Frame == [runs : Context, restores : {"on", "off"}]

Running == stack[Len(stack)].runs
Below == SubSeq(stack, 1, Len(stack) - 1)
Handlers == {"pit_handler", "keyboard_handler", "irq_handler", "acknowledged"}

\* Through a gate of type 0x8E or 0xEE, an interrupt gate: IF is saved and
\* cleared.  Mutant of Enter: a trap gate, 0x8F, leaves IF alone.
EnterTrap(context) ==
    /\ stack' = Append(stack, [runs |-> context, restores |-> flag])
    /\ flag' = flag
Enter(context) ==
    /\ stack' = Append(stack, [runs |-> context, restores |-> flag])
    /\ flag' = "off"

\* The running context goes on as another one, on the same stack frame.
Become(context) == stack' = [stack EXCEPT ![Len(stack)].runs = context]

(***************************************************************************)
(* The controllers.  A slave line is also the master's Cascade line.       *)
(***************************************************************************)
MasterLine(l) == IF l < 8 THEN l ELSE Cascade
Requested(l) == {l, MasterLine(l)}

\* A line goes through when nothing of its own or a higher priority is in
\* service at its controller nor, for a slave line, at the master.
Passes(l) ==
    /\ \A s \in isr : s < 8 => MasterLine(l) < s
    /\ l >= 8 => \A s \in isr : s >= 8 => l < s

\* The master offers its highest line; among the slave's, the slave's highest.
Offered(l) ==
    /\ l \in irr /\ Passes(l)
    /\ \A k \in irr \ {l} : Passes(k) =>
           \/ MasterLine(l) < MasterLine(k)
           \/ MasterLine(l) = MasterLine(k) /\ l < k

\* outb(0x20, 0x20): the master forgets its highest line in service.
\* Mutant of EndOfInterrupt: the acknowledgment goes to the slave, 0xA0.
EndOfInterruptSlave ==
    isr' = {s \in isr : s < 8 \/ \E t \in isr : t >= 8 /\ t < s}
EndOfInterrupt == isr' = {s \in isr : s >= 8 \/ \E t \in isr : t < s}

Init ==
    /\ irr \in SUBSET Lines /\ isr = {}
    /\ pic = "bios" /\ idt = "none"
    /\ flag = "off"
    /\ stack = <<[runs |-> "boot", restores |-> "off"]>>
    /\ pit_ticks = 0 /\ fault = "none"

(***************************************************************************)
(* Boot: PIC_remap resets both controllers and unmasks every line, then    *)
(* idt_init loads the table and only its last instruction is sti.          *)
(***************************************************************************)
PIC_remap ==
    /\ Running = "boot" /\ pic = "bios"
    /\ pic' = "remapped" /\ irr' = {} /\ isr' = {}
    /\ UNCHANGED <<idt, flag, stack, pit_ticks, fault>>

\* Mutant of IdtReady: idt_init runs before PIC_remap.
IdtReadyEarly == Running = "boot" /\ idt = "none"
IdtReady == Running = "boot" /\ idt = "none" /\ pic = "remapped"

\* Mutant of Sti: the new table is loaded, interrupts stay off.
StiForgotten == flag' = "off"
Sti == flag' = "on"

idt_init ==
    /\ IdtReady
    /\ idt' = "loaded" /\ Sti
    /\ UNCHANGED <<irr, isr, pic, stack, pit_ticks, fault>>

\* pit_init, setup_paging and kernel_startup run with interrupts on.
kernel_startup ==
    /\ Running = "boot" /\ idt = "loaded" /\ pic = "remapped"
    /\ Become("kernel")
    /\ UNCHANGED <<irr, isr, pic, idt, flag, pit_ticks, fault>>

(***************************************************************************)
(* Devices and the delivery of their interrupts.                           *)
(***************************************************************************)
\* A tick every millisecond: none comes while the last one is handled.
Raise(l) ==
    /\ l \notin irr
    /\ l = Timer => Running \notin {"pit_handler", "acknowledged"}
    /\ irr' = irr \cup {l}
    /\ UNCHANGED <<isr, pic, idt, flag, stack, pit_ticks, fault>>

\* isr_stub_table from vector 32 on.
\* Mutant of Stub: the table starts one entry late.
StubLate(l) == IF l = Timer THEN "keyboard_handler" ELSE "irq_handler"
Stub(l) == CASE l = Timer    -> "pit_handler"
             [] l = Keyboard -> "keyboard_handler"
             [] OTHER        -> "irq_handler"

\* With the BIOS's vectors a line would arrive as a CPU exception.
Vectored(l) == IF pic = "remapped" THEN Stub(l) ELSE "halted"

Accept(l) ==
    /\ flag = "on" /\ Offered(l)
    /\ irr' = irr \ {l} /\ isr' = isr \cup Requested(l)
    /\ Enter(Vectored(l))
    /\ UNCHANGED <<pic, idt, pit_ticks, fault>>

Tick(t) == (t + 1) % TickWrap

pit_handler ==
    /\ Running = "pit_handler"
    /\ pit_ticks' = Tick(pit_ticks)
    /\ EndOfInterrupt /\ Become("acknowledged")
    /\ UNCHANGED <<irr, pic, idt, flag, fault>>

keyboard_handler ==
    /\ Running = "keyboard_handler"
    /\ EndOfInterrupt /\ Become("acknowledged")
    /\ UNCHANGED <<irr, pic, idt, flag, pit_ticks, fault>>

\* irq_handler's body is empty: it returns with its line still in service.
Returns ==
    \/ Running \in {"acknowledged", "irq_handler", "divide_error"}
    \/ Running = "syscall" /\ flag = "on"

Iret ==
    /\ Returns
    /\ flag' = stack[Len(stack)].restores /\ stack' = Below
    /\ UNCHANGED <<irr, isr, pic, idt, pit_ticks, fault>>

(***************************************************************************)
(* User programs.                                                          *)
(***************************************************************************)
jump_usermode ==
    /\ Running = "kernel"
    /\ Become("user") /\ flag' = "on"
    /\ UNCHANGED <<irr, isr, pic, idt, pit_ticks, fault>>

\* int 0x30; its stub executes sti before it calls syscall_handler.
Syscall ==
    /\ Running = "user"
    /\ Enter("syscall")
    /\ UNCHANGED <<irr, isr, pic, idt, pit_ticks, fault>>

SyscallSti ==
    /\ Running = "syscall" /\ flag = "off"
    /\ flag' = "on"
    /\ UNCHANGED <<irr, isr, pic, idt, stack, pit_ticks, fault>>

\* The exit call never returns: kernel_return switches to the stack of the
\* command that started the program and enters kernel_main afresh.
Exit ==
    /\ Running = "syscall" /\ flag = "on"
    /\ stack' = <<[runs |-> "kernel", restores |-> "off"]>>
    /\ flag' = "on"
    /\ UNCHANGED <<irr, isr, pic, idt, pit_ticks, fault>>

(***************************************************************************)
(* CPU faults.  divide_error returns to the instruction that divides;      *)
(* every other handler ends in cli; hlt.  gpf_handler's argument is the    *)
(* error code, which it follows as a pointer into the unmapped page 0: it  *)
(* ends as a page fault.                                                   *)
(***************************************************************************)
DivideError ==
    /\ Running = "user"
    /\ Enter("divide_error")
    /\ UNCHANGED <<irr, isr, pic, idt, pit_ticks, fault>>

\* A program faults, a system call on the pointer it was given, or the shell.
Fault ==
    /\ Running \in {"user", "syscall", "kernel"}
    /\ \E f \in {"general protection", "page", "other"} : fault' = f
    /\ Enter("halted")
    /\ UNCHANGED <<irr, isr, pic, idt, pit_ticks>>

(***************************************************************************)
(* Next.                                                                   *)
(***************************************************************************)
Boot == PIC_remap \/ idt_init \/ kernel_startup
Handle == pit_handler \/ keyboard_handler \/ Iret
Next ==
    \/ Boot \/ Handle
    \/ \E l \in Lines : Raise(l) \/ Accept(l)
    \/ jump_usermode \/ Syscall \/ SyscallSti \/ Exit
    \/ DivideError \/ Fault

\* The CPU keeps executing what is not user code.  It looks for a request
\* before every instruction it starts with IF on, so a request that could be
\* accepted again and again is accepted.
Spec ==
    /\ Init /\ [][Next]_vars
    /\ WF_vars(Boot) /\ WF_vars(Handle) /\ WF_vars(SyscallSti)
    /\ SF_vars(Accept(Timer)) /\ SF_vars(Accept(Keyboard))

(***************************************************************************)
(* Properties.                                                             *)
(***************************************************************************)
TypeOK ==
    /\ irr \subseteq Lines /\ isr \subseteq Lines \cup {Cascade}
    /\ pic \in {"bios", "remapped"} /\ idt \in {"none", "loaded"}
    /\ flag \in {"on", "off"}
    /\ stack \in Seq(Frame) /\ stack # <<>>
    /\ pit_ticks \in 0 .. TickWrap - 1
    /\ fault \in {"none", "general protection", "page", "other"}

\* The timer and the keyboard are in service exactly while their handler
\* runs.  The acknowledgment names no line: the controller takes it for its
\* highest line in service, and that is the line of the handler that sends it
\* whatever irq_handler has left in service before.  No path, not even an exit
\* that abandons the stack, leaves the timer or the keyboard blocked.
NeverLeftInService ==
    /\ Timer \in isr <=> Running = "pit_handler"
    /\ Keyboard \in isr <=> Running = "keyboard_handler"

\* The kernel stack carries at most a system call and one handler on top of
\* what they interrupted, although the system call enables interrupts.
OneHandlerAtATime ==
    /\ Len(stack) <= 3
    /\ \A i \in 1 .. Len(stack) - 1 : stack[i].runs \notin Handlers \cup {"halted"}

\* Whatever path leads back to it, through iret, jump_usermode or
\* kernel_return, the shell loop and the user program run with interrupts on:
\* the loop, which waits for keys, could not go on otherwise.
InterruptsOn == Running \in {"kernel", "user"} => flag = "on"

\* Only a CPU fault stops the machine: no device interrupt ever arrives at
\* the vector of an exception, however early the device raises it.
HaltsOnlyByFault == Running = "halted" => fault # "none"

\* irq_handler acknowledges nothing, so a line other than the timer's and the
\* keyboard's is served once: raised again, it waits for ever.
ServedOnce ==
    [][\A l \in Lines \ {Timer, Keyboard} :
          l \in isr => l \in isr' /\ (l \in irr => l \in irr')]_vars

\* A tick, and a key, raised once the controllers are programmed is handled,
\* unless the machine stops.
TimerServed ==
    Timer \in irr /\ pic = "remapped" ~> Running \in {"pit_handler", "halted"}
KeyboardServed ==
    Keyboard \in irr /\ pic = "remapped" ~> Running \in {"keyboard_handler", "halted"}
DevicesServed == TimerServed /\ KeyboardServed

(***************************************************************************)
(* The inductive invariant behind them: what can be on which place of the  *)
(* stack, and which contexts run with interrupts on or the old vectors.    *)
(***************************************************************************)
Interruptible == {"boot", "kernel", "user", "syscall"}

StackShape ==
    /\ \A i \in 1 .. Len(stack) - 1 : stack[i].runs \in Interruptible
    /\ \A i \in 1 .. Len(stack) :
           /\ stack[i].runs \in {"boot", "kernel", "user"} <=> i = 1
           /\ stack[i].runs = "syscall" => i = 2
           /\ i > 1 /\ stack[i].runs # "halted" => stack[i].restores = "on"

FlagShape ==
    /\ flag = "on" => Running \in Interruptible
    /\ pic = "bios" => Running = "boot" /\ flag = "off"
    /\ Running = "boot" /\ idt = "loaded" => flag = "on"

IInv ==
    /\ TypeOK /\ NeverLeftInService /\ OneHandlerAtATime /\ InterruptsOn
    /\ HaltsOnlyByFault /\ StackShape /\ FlagShape
==============================================================================
