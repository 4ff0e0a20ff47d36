----------------------------- MODULE KernelStack -----------------------------
(***************************************************************************)
(* How deep the kernel's one stack gets: the command loop and its commands *)
(* run on it from where the last program left it, and the interrupts and   *)
(* system calls of a program run on it from its top.  Sizes are in words.  *)
(***************************************************************************)
EXTENDS Naturals

CONSTANTS Size,     \* words of the stack: 4096
          Startup,  \* taken when kernel_startup calls kernel_main
          Main,     \* a frame of kernel_main, return address and all
          Deep,     \* the most that a command takes below kernel_main
          Handler,  \* the most that an interrupt takes, or one or a fault within a call
          MaxRuns   \* bound: programs run

KernelStackAssumption ==
    /\ Size \in Nat /\ Startup \in Nat /\ Main \in Nat \ {0} /\ Deep \in Nat
    /\ Handler \in Nat \ {0} /\ MaxRuns \in Nat
    /\ Startup + Main <= Size

VARIABLES doing,             \* "main", "command", "program", "handler" (over any of
                             \* them) or "overrun": below the stack's bottom
          depth,             \* words from stack_top down to esp
          saved_kernel_esp,  \* as such a depth
          over,              \* what the handler has interrupted, and its depth
          runs               \* history: programs that have run

vars == <<doing, depth, saved_kernel_esp, over, runs>>

NoHandler == [what |-> "none", depth |-> 0]

Init ==
    /\ doing = "main" /\ depth = Startup + Main
    /\ saved_kernel_esp = 0 /\ over = NoHandler /\ runs = 0

\* The stack below depth d is taken as far as d + n by what runs next.
Take(d, n, what) ==
    IF d + n > Size THEN doing' = "overrun" /\ UNCHANGED depth
    ELSE doing' = what /\ depth' = d + n

Command ==
    /\ doing = "main"
    /\ \E n \in 1 .. Deep : Take(depth, n, "command")
    /\ saved_kernel_esp' = depth
    /\ UNCHANGED <<over, runs>>

\* The command has returned to the loop.
\* Mutant of Back: the frames of the command stay.
BackNot == depth
Back == saved_kernel_esp

Done ==
    /\ doing = "command" /\ doing' = "main" /\ depth' = Back
    /\ UNCHANGED <<saved_kernel_esp, over, runs>>

\* The command `run` does not return; the program has a stack of its own.
jump_usermode ==
    /\ doing = "command" /\ runs < MaxRuns /\ doing' = "program"
    /\ runs' = runs + 1
    /\ UNCHANGED <<depth, saved_kernel_esp, over>>

\* Where a handler's frames begin: esp0 when a program was interrupted.
From == IF doing = "program" THEN 0 ELSE depth

Handle ==
    /\ doing \in {"main", "command", "program"}
    /\ \E n \in 1 .. Handler : Take(From, n, "handler")
    /\ over' = [what |-> doing, depth |-> depth]
    /\ UNCHANGED <<saved_kernel_esp, runs>>

Iret ==
    /\ doing = "handler"
    /\ doing' = over.what /\ depth' = over.depth
    /\ over' = NoHandler
    /\ UNCHANGED <<saved_kernel_esp, runs>>

\* The exit of a program: three words are pushed and popped again by iret,
\* which enters kernel_main at its beginning.
Resumed == saved_kernel_esp

kernel_return ==
    /\ doing = "handler" /\ over.what = "program"
    /\ Take(Resumed, Main, "main")
    /\ over' = NoHandler
    /\ UNCHANGED <<saved_kernel_esp, runs>>

Next == Command \/ Done \/ jump_usermode \/ Handle \/ Iret \/ kernel_return

Spec == Init /\ [][Next]_vars

(***************************************************************************)
(* Properties.                                                             *)
(***************************************************************************)
TypeOK ==
    /\ doing \in {"main", "command", "program", "handler", "overrun"}
    /\ depth \in 0 .. Size /\ saved_kernel_esp \in 0 .. Size
    /\ over \in [what : {"none", "main", "command", "program"}, depth : 0 .. Size]
    /\ runs \in Nat

\* Every program costs the stack one frame of kernel_main, for good, and
\* nothing else does: no command, no interrupt in whatever it comes, and no
\* system call, however many of them there were.
ProgramCostsOneFrame ==
    doing = "main" => depth = Startup + (runs + 1) * Main

\* The stack overruns only after so many programs that a command with an
\* interrupt on top no longer fits under their frames.
OverrunOnlyAfterRuns ==
    doing = "overrun" => Startup + (runs + 1) * Main + Deep + Handler > Size

(***************************************************************************)
(* The inductive invariant behind both: what each program, and each        *)
(* command under a handler, has left on the stack.                         *)
(***************************************************************************)
Frames(n) == Startup + n * Main

CommandOn(d) ==
    saved_kernel_esp = Frames(runs + 1) /\ d <= saved_kernel_esp + Deep
ProgramOn == runs >= 1 /\ saved_kernel_esp = Frames(runs)

FramesHold ==
    /\ doing = "main" => depth = Frames(runs + 1)
    /\ doing = "command" => CommandOn(depth)
    /\ doing = "program" => ProgramOn
    /\ doing = "handler" => over.what # "none"
    /\ doing = "handler" /\ over.what = "main" => over.depth = Frames(runs + 1)
    /\ doing = "handler" /\ over.what = "command" => CommandOn(over.depth)
    /\ doing = "handler" /\ over.what = "program" => ProgramOn

SIInv == TypeOK /\ FramesHold /\ OverrunOnlyAfterRuns
==============================================================================
