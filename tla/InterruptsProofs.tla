-------------------------- MODULE InterruptsProofs --------------------------
(***************************************************************************)
(* Interrupts' safety properties, for every set of lines and every width   *)
(* of pit_ticks.  Each action extends the stack of contexts, shortens it   *)
(* or renames its top; a lemma for each says what that does to the stack,  *)
(* and the steps of Inductive combine them.                                *)
(***************************************************************************)
EXTENDS Interrupts, TLAPS

USE LinesAssumption, TickAssumption

\* The lines as LinesAssumption gives them.
LEMMA LinesAreNumbers ==
    /\ Timer \in Lines /\ Keyboard \in Lines /\ Cascade \notin Lines
    /\ \A l \in Lines : l \in 0 .. 15
  BY DEF Timer, Keyboard, Cascade

\* A sequence with elements is not the empty one.
LEMMA LongerIsNotEmpty ==
    ASSUME NEW t, Len(t) > 0
    PROVE  t # <<>>
  BY Len(<<>>) = 0, SMT

\* An interrupt pushes a frame: the others keep their places.
LEMMA FramesAppended ==
    ASSUME NEW s \in Seq(Frame), s # <<>>, NEW f \in Frame,
           NEW t, t = Append(s, f)
    PROVE  /\ t \in Seq(Frame) /\ t # <<>>
           /\ Len(t) = Len(s) + 1 /\ Len(s) \in Nat \ {0}
           /\ \A i \in 1 .. Len(s) : t[i] = s[i]
           /\ t[Len(t)] = f
  BY SMT

\* An iret pops a frame: the others keep their places.
LEMMA FramesDropped ==
    ASSUME NEW s \in Seq(Frame), Len(s) > 1,
           NEW t, t = SubSeq(s, 1, Len(s) - 1)
    PROVE  /\ t \in Seq(Frame) /\ t # <<>>
           /\ Len(t) = Len(s) - 1
           /\ \A i \in 1 .. Len(t) : t[i] = s[i]
  <1>1. Len(s) \in Nat /\ \A i \in 1 .. Len(s) : s[i] \in Frame
    BY SMT
  <1>2. Len(t) = Len(s) - 1 /\ \A i \in 1 .. Len(s) - 1 : t[i] = s[i]
    BY <1>1, SMT
  <1>3. t = [i \in 1 .. Len(s) - 1 |-> s[i]]
    BY <1>1, SMT
  <1>4. t \in Seq(Frame)
    <2>1. Len(s) - 1 \in Nat /\ \A i \in 1 .. Len(s) - 1 : s[i] \in Frame
      BY <1>1, SMT
    <2>2. t \in [1 .. Len(s) - 1 -> Frame]
      BY <1>3, <2>1, Zenon
    <2> QED
      BY <2>1, <2>2, SMT
  <1>5. Len(t) > 0
    BY <1>1, <1>2, SMT
  <1>6. t # <<>>
    BY <1>5, LongerIsNotEmpty
  <1> QED
    BY <1>2, <1>4, <1>6

\* The top frame's context changes, and nothing else of the stack.
LEMMA FrameRenamed ==
    ASSUME NEW s \in Seq(Frame), s # <<>>, NEW c \in Context,
           NEW t, t = [s EXCEPT ![Len(s)].runs = c]
    PROVE  /\ t \in Seq(Frame) /\ t # <<>>
           /\ Len(t) = Len(s) /\ Len(s) \in Nat \ {0}
           /\ \A i \in 1 .. Len(s) - 1 : t[i] = s[i]
           /\ t[Len(t)].runs = c
           /\ t[Len(t)].restores = s[Len(s)].restores
  <1>1. Len(s) \in Nat \ {0}
    BY SMT
  <1>2. s[Len(s)] \in Frame
    BY <1>1, SMT
  <1>3. [s[Len(s)] EXCEPT !.runs = c] \in Frame
    BY <1>2 DEF Frame
  <1>4. /\ t \in Seq(Frame) /\ Len(t) = Len(s)
        /\ \A i \in 1 .. Len(s) - 1 : t[i] = s[i]
        /\ t[Len(s)] = [s[Len(s)] EXCEPT !.runs = c]
    BY <1>1, <1>3, SMT
  <1> QED
    BY <1>1, <1>2, <1>4 DEF Frame

(***************************************************************************)
(* What the invariant says of a stack whose top may be interrupted.        *)
(***************************************************************************)
Shape == TypeOK /\ OneHandlerAtATime /\ StackShape

\* Only the two lowest frames can be interrupted.
LEMMA TopOfStack ==
    ASSUME Shape
    PROVE  /\ Len(stack) \in Nat \ {0} /\ Running \in Context
           /\ Running \in Interruptible => Len(stack) <= 2
           /\ Len(stack) > 1 => stack[Len(stack) - 1].runs \in Interruptible
  <1>0. stack \in Seq(Frame) /\ stack # <<>>
    BY DEF Shape, TypeOK
  <1>1. Len(stack) \in Nat \ {0} /\ stack[Len(stack)] \in Frame
    BY <1>0, SMT
  <1>2. Running \in Interruptible => Len(stack) <= 2
    BY <1>1 DEF Shape, StackShape, Running, Interruptible
  <1>3. Len(stack) > 1 => stack[Len(stack) - 1].runs \in Interruptible
    BY <1>1 DEF Shape, StackShape
  <1> QED
    BY <1>1, <1>2, <1>3 DEF Running, Frame

\* An interruptible context may get a handler, a halt or a system call on top.
LEMMA EnterKeepsShape ==
    ASSUME Shape, NEW c \in Context \ {"boot", "kernel", "user"},
           Running \in Interruptible, flag \in {"on", "off"},
           c = "syscall" => Running = "user",
           c = "halted" \/ flag = "on",
           Enter(c)
    PROVE  /\ stack' \in Seq(Frame) /\ stack' # <<>> /\ Running' = c /\ flag' = "off"
           /\ OneHandlerAtATime' /\ StackShape'
  <1> DEFINE f == [runs |-> c, restores |-> flag]
  <1>1. f \in Frame
    BY DEF Frame
  <1>2. stack \in Seq(Frame) /\ stack # <<>>
    BY DEF Shape, TypeOK
  <1>3. /\ stack' \in Seq(Frame) /\ stack' # <<>>
        /\ Len(stack') = Len(stack) + 1 /\ Len(stack) \in Nat \ {0}
        /\ \A i \in 1 .. Len(stack) : stack'[i] = stack[i]
        /\ stack'[Len(stack')] = f
    BY <1>1, <1>2, FramesAppended DEF Enter
  <1>4. Len(stack) <= 2
    BY TopOfStack
  <1>5. Running' = c /\ flag' = "off"
    BY <1>3 DEF Running, Enter
  <1>6. \A i \in 1 .. Len(stack) : stack[i].runs \in Interruptible
    BY <1>3 DEF Shape, StackShape, Running
  <1>7. OneHandlerAtATime'
    BY <1>3, <1>4, <1>6 DEF OneHandlerAtATime, Handlers, Interruptible
  <1>8. c = "syscall" => Len(stack) = 1
    <2>1. c = "syscall" => stack[Len(stack)].runs = "user"
      BY DEF Running
    <2>2. Len(stack) \in 1 .. Len(stack)
      BY <1>3
    <2> QED
      BY <2>1, <2>2 DEF Shape, StackShape
  <1>9. ASSUME NEW i \in 1 .. Len(stack')
        PROVE  /\ stack'[i].runs \in {"boot", "kernel", "user"} <=> i = 1
               /\ stack'[i].runs = "syscall" => i = 2
               /\ i > 1 /\ stack'[i].runs # "halted" => stack'[i].restores = "on"
    <2>1. CASE i \in 1 .. Len(stack)
      BY <2>1, <1>3 DEF Shape, StackShape
    <2>2. CASE i = Len(stack')
      BY <2>2, <1>3, <1>8
    <2> QED
      BY <2>1, <2>2, <1>3
  <1>10. StackShape'
    BY <1>3, <1>6, <1>9 DEF StackShape
  <1> QED
    BY <1>3, <1>5, <1>7, <1>10

\* A context goes on as another one of the same kind.
LEMMA BecomeKeepsShape ==
    ASSUME Shape, NEW c \in Context,
           \/ c = "kernel" /\ Running = "boot"
           \/ c = "user" /\ Running = "kernel"
           \/ c = "acknowledged" /\ Running \in {"pit_handler", "keyboard_handler"},
           Become(c)
    PROVE  /\ stack' \in Seq(Frame) /\ stack' # <<>> /\ Running' = c
           /\ OneHandlerAtATime' /\ StackShape'
  <1>0. /\ stack \in Seq(Frame) /\ stack # <<>>
        /\ stack' = [stack EXCEPT ![Len(stack)].runs = c]
    BY DEF Shape, TypeOK, Become
  <1>1. /\ stack' \in Seq(Frame) /\ stack' # <<>>
        /\ Len(stack') = Len(stack) /\ Len(stack) \in Nat \ {0}
        /\ \A i \in 1 .. Len(stack) - 1 : stack'[i] = stack[i]
        /\ stack'[Len(stack')].runs = c
        /\ stack'[Len(stack')].restores = stack[Len(stack)].restores
    BY <1>0, FrameRenamed
  <1>2. OneHandlerAtATime'
    BY <1>1 DEF Shape, OneHandlerAtATime
  <1>3. ASSUME NEW i \in 1 .. Len(stack')
        PROVE  /\ stack'[i].runs \in {"boot", "kernel", "user"} <=> i = 1
               /\ stack'[i].runs = "syscall" => i = 2
               /\ i > 1 /\ stack'[i].runs # "halted" => stack'[i].restores = "on"
    <2>1. CASE i \in 1 .. Len(stack) - 1
      BY <2>1, <1>1 DEF Shape, StackShape
    <2>2. CASE i = Len(stack)
      BY <2>2, <1>1 DEF Shape, StackShape, Running
    <2> QED
      BY <2>1, <2>2, <1>1
  <1>4. StackShape'
    BY <1>1, <1>3 DEF Shape, StackShape
  <1> QED
    BY <1>1, <1>2, <1>4 DEF Running

\* The return of what runs uncovers what it interrupted.
LEMMA IretKeepsShape ==
    ASSUME Shape, Iret
    PROVE  /\ stack' \in Seq(Frame) /\ stack' # <<>>
           /\ Running' \in Interruptible
           /\ flag' = "on"
           /\ OneHandlerAtATime' /\ StackShape'
  <1>1. /\ stack \in Seq(Frame) /\ stack' = SubSeq(stack, 1, Len(stack) - 1)
        /\ flag' = stack[Len(stack)].restores
    BY DEF Shape, TypeOK, Iret, Below
  <1>2. Len(stack) \in Nat \ {0}
    BY TopOfStack
  <1>3. Running \notin {"boot", "kernel", "user", "halted"}
    BY DEF Iret, Returns
  <1>4. Len(stack) > 1 /\ flag' = "on"
    BY <1>1, <1>2, <1>3 DEF Shape, StackShape, Running
  <1>5. /\ stack' \in Seq(Frame) /\ stack' # <<>>
        /\ Len(stack') = Len(stack) - 1
        /\ \A i \in 1 .. Len(stack') : stack'[i] = stack[i]
    BY <1>1, <1>4, FramesDropped
  <1>6. /\ Running' = stack[Len(stack) - 1].runs
        /\ Running' \in Interruptible
    BY <1>2, <1>4, <1>5, TopOfStack DEF Running
  <1>7. OneHandlerAtATime'
    BY <1>2, <1>5 DEF Shape, OneHandlerAtATime
  <1>8. StackShape'
    BY <1>2, <1>5 DEF Shape, StackShape
  <1> QED
    BY <1>4, <1>5, <1>6, <1>7, <1>8

(***************************************************************************)
(* The controllers: what an acknowledgment does to the two lines that send *)
(* one, given that the other one is not in service.                        *)
(***************************************************************************)
\* The acknowledgment to port 0x20 takes the handled line out of service.
LEMMA AcknowledgesTheHandled ==
    ASSUME TypeOK, NeverLeftInService, EndOfInterrupt,
           Running \in {"pit_handler", "keyboard_handler"}
    PROVE  /\ isr' \subseteq Lines \cup {Cascade}
           /\ Timer \notin isr' /\ Keyboard \notin isr'
  <1>0. isr \subseteq Lines \cup {Cascade} /\ Cascade \in 0 .. 15
    <2>1. isr \subseteq Lines \cup {Cascade}
      BY DEF TypeOK
    <2> QED
      BY <2>1 DEF Cascade
  <1>1. /\ isr \subseteq 0 .. 15 /\ isr \subseteq Lines \cup {Cascade}
        /\ isr' = {s \in isr : s >= 8 \/ \E t \in isr : t < s}
    <2>1. isr \subseteq 0 .. 15
      BY <1>0, LinesAreNumbers
    <2> QED
      BY <1>0, <2>1, Zenon DEF EndOfInterrupt
  <1>2. Timer \notin isr'
    BY <1>1 DEF Timer
  <1>3. Keyboard \in isr => Timer \notin isr
    BY DEF NeverLeftInService
  <1>4. Keyboard \notin isr'
    BY <1>1, <1>3 DEF Timer, Keyboard
  <1> QED
    BY <1>1, <1>2, <1>4

\* Accepting a line puts neither the timer nor the keyboard in service besides.
LEMMA AcceptsOneLine ==
    ASSUME TypeOK, NEW l \in Lines, isr' = isr \cup Requested(l)
    PROVE  /\ isr' \subseteq Lines \cup {Cascade}
           /\ Timer \in isr' <=> Timer \in isr \/ l = Timer
           /\ Keyboard \in isr' <=> Keyboard \in isr \/ l = Keyboard
  BY LinesAreNumbers DEF TypeOK, Requested, MasterLine, Timer, Keyboard, Cascade

(***************************************************************************)
(* The inductive invariant.                                                *)
(***************************************************************************)
Safety == NeverLeftInService /\ InterruptsOn /\ HaltsOnlyByFault /\ FlagShape

\* The machine as the boot loader leaves it.
LEMMA Initially == Init => IInv
  <1> SUFFICES ASSUME Init PROVE IInv
    OBVIOUS
  <1>1. /\ stack = <<[runs |-> "boot", restores |-> "off"]>>
        /\ Len(stack) = 1 /\ stack[1] = [runs |-> "boot", restores |-> "off"]
        /\ Running = "boot"
    BY DEF Init, Running
  <1>2. stack[1] \in Frame
    BY <1>1 DEF Frame, Context
  <1>3. stack \in Seq(Frame) /\ stack # <<>>
    BY <1>1, <1>2, LongerIsNotEmpty
  <1>4. TypeOK
    BY <1>3 DEF Init, TypeOK
  <1>5. OneHandlerAtATime /\ StackShape
    BY <1>1 DEF OneHandlerAtATime, StackShape
  <1>6. Safety
    BY <1>1 DEF Init, Safety, NeverLeftInService, InterruptsOn, HaltsOnlyByFault, FlagShape
  <1> QED
    BY <1>4, <1>5, <1>6 DEF IInv, Safety

\* Actions that leave the stack alone.
LEMMA StackUnchanged ==
    ASSUME IInv, UNCHANGED stack
    PROVE  /\ OneHandlerAtATime' /\ StackShape' /\ Running' = Running
           /\ stack' \in Seq(Frame) /\ stack' # <<>>
  BY DEF IInv, TypeOK, OneHandlerAtATime, StackShape, Running

\* PIC_remap, idt_init and the way into kernel_startup.
LEMMA BootKeeps == ASSUME IInv, Boot PROVE IInv'
  <1>0. TypeOK /\ Shape /\ Safety
    BY DEF IInv, Shape, Safety
  <1>1. CASE PIC_remap
    <2>1. UNCHANGED stack /\ OneHandlerAtATime' /\ StackShape' /\ Running' = "boot"
          /\ stack' \in Seq(Frame) /\ stack' # <<>>
      BY <1>1, StackUnchanged DEF PIC_remap
    <2>2. TypeOK'
      BY <1>0, <1>1, <2>1 DEF TypeOK, PIC_remap
    <2>3. Safety'
      BY <1>0, <1>1, <2>1 DEF Safety, PIC_remap, NeverLeftInService, InterruptsOn,
         HaltsOnlyByFault, FlagShape, Interruptible
    <2> QED
      BY <2>1, <2>2, <2>3 DEF IInv, Safety
  <1>2. CASE idt_init
    <2>1. UNCHANGED stack /\ OneHandlerAtATime' /\ StackShape' /\ Running' = "boot"
          /\ stack' \in Seq(Frame) /\ stack' # <<>>
      BY <1>2, StackUnchanged DEF idt_init, IdtReady
    <2>2. TypeOK'
      BY <1>0, <1>2, <2>1 DEF TypeOK, idt_init, Sti
    <2>3. Safety'
      BY <1>0, <1>2, <2>1 DEF Safety, idt_init, IdtReady, Sti, NeverLeftInService,
         InterruptsOn, HaltsOnlyByFault, FlagShape, Interruptible
    <2> QED
      BY <2>1, <2>2, <2>3 DEF IInv, Safety
  <1>3. CASE kernel_startup
    <2>1. /\ OneHandlerAtATime' /\ StackShape' /\ Running' = "kernel"
          /\ stack' \in Seq(Frame) /\ stack' # <<>>
      BY <1>0, <1>3, BecomeKeepsShape DEF kernel_startup, Context
    <2>2. TypeOK'
      BY <1>0, <1>3, <2>1 DEF TypeOK, kernel_startup
    <2>3. Safety'
      BY <1>0, <1>3, <2>1 DEF Safety, kernel_startup, NeverLeftInService,
         InterruptsOn, HaltsOnlyByFault, FlagShape, Interruptible
    <2> QED
      BY <2>1, <2>2, <2>3 DEF IInv, Safety
  <1> QED
    BY <1>1, <1>2, <1>3 DEF Boot

\* The handlers, their acknowledgments and every iret.
LEMMA HandleKeeps == ASSUME IInv, Handle PROVE IInv'
  <1>0. TypeOK /\ Shape /\ Safety
    BY DEF IInv, Shape, Safety
  <1>1. ASSUME \/ pit_handler
               \/ keyboard_handler
        PROVE  IInv'
    <2>1. /\ Running \in {"pit_handler", "keyboard_handler"}
          /\ EndOfInterrupt /\ Become("acknowledged")
          /\ UNCHANGED <<irr, pic, idt, flag, fault>>
      BY <1>1 DEF pit_handler, keyboard_handler
    <2>2. /\ OneHandlerAtATime' /\ StackShape' /\ Running' = "acknowledged"
          /\ stack' \in Seq(Frame) /\ stack' # <<>>
      BY <1>0, <2>1, BecomeKeepsShape DEF Context
    <2>3. /\ isr' \subseteq Lines \cup {Cascade}
          /\ Timer \notin isr' /\ Keyboard \notin isr'
      BY <1>0, <2>1, AcknowledgesTheHandled DEF Safety
    <2>4. pit_ticks' \in 0 .. TickWrap - 1
      <3>1. pit_ticks' = pit_ticks \/ pit_ticks' = (pit_ticks + 1) % TickWrap
        BY <1>1 DEF pit_handler, keyboard_handler, Tick
      <3>2. pit_ticks \in 0 .. TickWrap - 1
        BY <1>0 DEF TypeOK
      <3> QED
        BY <3>1, <3>2
    <2>5. TypeOK'
      BY <1>0, <2>1, <2>2, <2>3, <2>4 DEF TypeOK
    <2>6. Safety'
      BY <1>0, <2>1, <2>2, <2>3 DEF Safety, NeverLeftInService, InterruptsOn,
         HaltsOnlyByFault, FlagShape, Interruptible
    <2> QED
      BY <2>2, <2>5, <2>6 DEF IInv, Safety
  <1>2. CASE Iret
    <2>1. /\ stack' \in Seq(Frame) /\ stack' # <<>>
          /\ Running' \in Interruptible /\ flag' = "on"
          /\ OneHandlerAtATime' /\ StackShape'
      BY <1>0, <1>2, IretKeepsShape
    <2>2. TypeOK'
      BY <1>0, <1>2, <2>1 DEF TypeOK, Iret
    <2>3. pic = "remapped" /\ Timer \notin isr /\ Keyboard \notin isr
      BY <1>0, <1>2 DEF Iret, Returns, TypeOK, Safety, FlagShape, NeverLeftInService
    <2>4. Safety'
      BY <1>2, <2>1, <2>3 DEF Iret, Safety, NeverLeftInService, InterruptsOn,
         HaltsOnlyByFault, FlagShape, Interruptible
    <2> QED
      BY <2>1, <2>2, <2>4 DEF IInv, Safety
  <1> QED
    BY <1>1, <1>2 DEF Handle

\* Raise changes no part of the invariant but the type of irr; Accept puts a
\* handler on top of what may be interrupted.
LEMMA DeviceKeeps == ASSUME IInv, NEW l \in Lines, Raise(l) \/ Accept(l) PROVE IInv'
  <1>0. TypeOK /\ Shape /\ Safety
    BY DEF IInv, Shape, Safety
  <1>1. CASE Raise(l)
    <2>1. /\ OneHandlerAtATime' /\ StackShape' /\ Running' = Running
          /\ stack' \in Seq(Frame) /\ stack' # <<>>
          /\ UNCHANGED <<isr, pic, idt, flag, stack, pit_ticks, fault>>
      BY <1>1, StackUnchanged DEF Raise
    <2>2. TypeOK'
      BY <1>0, <1>1, <2>1 DEF TypeOK, Raise
    <2>3. Safety'
      BY <1>0, <2>1 DEF Safety, NeverLeftInService, InterruptsOn, HaltsOnlyByFault, FlagShape
    <2> QED
      BY <2>1, <2>2, <2>3 DEF IInv, Safety
  <1>2. CASE Accept(l)
    <2>1. /\ flag = "on" /\ isr' = isr \cup Requested(l) /\ irr' = irr \ {l}
          /\ Enter(Vectored(l)) /\ UNCHANGED <<pic, idt, pit_ticks, fault>>
      BY <1>2 DEF Accept
    <2>2. Running \in Interruptible /\ pic = "remapped"
      BY <1>0, <2>1 DEF TypeOK, Safety, FlagShape
    <2>3. Vectored(l) = Stub(l)
      BY <2>2 DEF Vectored
    <2>4. /\ Stub(l) \in {"pit_handler", "keyboard_handler", "irq_handler"}
          /\ Stub(l) = "pit_handler" <=> l = Timer
          /\ Stub(l) = "keyboard_handler" <=> l = Keyboard
      BY DEF Stub, Timer, Keyboard
    <2>5. /\ stack' \in Seq(Frame) /\ stack' # <<>>
          /\ Running' = Stub(l) /\ flag' = "off"
          /\ OneHandlerAtATime' /\ StackShape'
      BY <1>0, <2>1, <2>2, <2>3, <2>4, EnterKeepsShape DEF Context
    <2>6. /\ isr' \subseteq Lines \cup {Cascade}
          /\ Timer \in isr' <=> Timer \in isr \/ l = Timer
          /\ Keyboard \in isr' <=> Keyboard \in isr \/ l = Keyboard
      BY <1>0, <2>1, AcceptsOneLine
    <2>7. TypeOK'
      BY <1>0, <2>1, <2>5, <2>6 DEF TypeOK
    <2>8. Timer \notin isr /\ Keyboard \notin isr
      BY <1>0, <2>2 DEF Safety, NeverLeftInService, Interruptible
    <2>9. NeverLeftInService'
      BY <2>4, <2>5, <2>6, <2>8 DEF NeverLeftInService
    <2>10. InterruptsOn' /\ HaltsOnlyByFault' /\ FlagShape'
      BY <2>1, <2>2, <2>4, <2>5 DEF InterruptsOn, HaltsOnlyByFault, FlagShape
    <2> QED
      BY <2>5, <2>7, <2>9, <2>10 DEF IInv
  <1> QED
    BY <1>1, <1>2

\* User programs, and the faults of programs and kernel.
LEMMA ProgramKeeps ==
    ASSUME IInv, jump_usermode \/ Syscall \/ SyscallSti \/ Exit \/ DivideError \/ Fault
    PROVE  IInv'
  <1>0. TypeOK /\ Shape /\ Safety
    BY DEF IInv, Shape, Safety
  <1>1. CASE jump_usermode
    <2>1. /\ OneHandlerAtATime' /\ StackShape' /\ Running' = "user"
          /\ stack' \in Seq(Frame) /\ stack' # <<>>
      BY <1>0, <1>1, BecomeKeepsShape DEF jump_usermode, Context
    <2>2. TypeOK'
      BY <1>0, <1>1, <2>1 DEF TypeOK, jump_usermode
    <2>3. Safety'
      BY <1>0, <1>1, <2>1 DEF Safety, jump_usermode, NeverLeftInService,
         InterruptsOn, HaltsOnlyByFault, FlagShape, Interruptible
    <2> QED
      BY <2>1, <2>2, <2>3 DEF IInv, Safety
  <1>2. CASE Syscall \/ DivideError
    <2> DEFINE c == IF Syscall THEN "syscall" ELSE "divide_error"
    <2>1. /\ Running = "user" /\ flag = "on" /\ Enter(c)
          /\ UNCHANGED <<irr, isr, pic, idt, pit_ticks, fault>>
      BY <1>0, <1>2 DEF Safety, InterruptsOn, Syscall, DivideError
    <2>2. c \in {"syscall", "divide_error"}
      OBVIOUS
    <2> HIDE DEF c
    <2>3. /\ stack' \in Seq(Frame) /\ stack' # <<>> /\ Running' = c /\ flag' = "off"
          /\ OneHandlerAtATime' /\ StackShape'
      BY <1>0, <2>1, <2>2, EnterKeepsShape DEF Context, Interruptible
    <2>4. TypeOK'
      BY <1>0, <2>1, <2>3 DEF TypeOK
    <2>5. Safety'
      BY <1>0, <2>1, <2>2, <2>3 DEF Safety, NeverLeftInService, InterruptsOn,
         HaltsOnlyByFault, FlagShape
    <2> QED
      BY <2>3, <2>4, <2>5 DEF IInv, Safety
  <1>3. CASE SyscallSti
    <2>1. /\ OneHandlerAtATime' /\ StackShape' /\ Running' = "syscall"
          /\ stack' \in Seq(Frame) /\ stack' # <<>>
      BY <1>3, StackUnchanged DEF SyscallSti
    <2>2. TypeOK'
      BY <1>0, <1>3, <2>1 DEF TypeOK, SyscallSti
    <2>3. Safety'
      BY <1>0, <1>3, <2>1 DEF Safety, SyscallSti, NeverLeftInService, InterruptsOn,
         HaltsOnlyByFault, FlagShape, Interruptible
    <2> QED
      BY <2>1, <2>2, <2>3 DEF IInv, Safety
  <1>4. CASE Exit
    <2> DEFINE f == [runs |-> "kernel", restores |-> "off"]
    <2>1. f \in Frame
      BY DEF Frame, Context
    <2>2. /\ stack' = <<f>> /\ Len(stack') = 1 /\ stack'[1] = f /\ Running' = "kernel"
      BY <1>4 DEF Exit, Running
    <2>3. stack' \in Seq(Frame) /\ stack' # <<>>
      BY <2>1, <2>2, LongerIsNotEmpty
    <2>4. OneHandlerAtATime' /\ StackShape'
      BY <2>2 DEF OneHandlerAtATime, StackShape
    <2>5. TypeOK'
      BY <1>0, <1>4, <2>3 DEF TypeOK, Exit
    <2>6. Safety'
      BY <1>0, <1>4, <2>2 DEF Safety, Exit, NeverLeftInService, InterruptsOn,
         HaltsOnlyByFault, FlagShape, Interruptible
    <2> QED
      BY <2>4, <2>5, <2>6 DEF IInv, Safety
  <1>5. CASE Fault
    <2>1. /\ Running \in {"user", "syscall", "kernel"} /\ Enter("halted")
          /\ fault' \in {"general protection", "page", "other"}
          /\ UNCHANGED <<irr, isr, pic, idt, pit_ticks>>
      BY <1>5 DEF Fault
    <2>2. flag \in {"on", "off"}
      BY <1>0 DEF TypeOK
    <2>3. /\ stack' \in Seq(Frame) /\ stack' # <<>> /\ Running' = "halted" /\ flag' = "off"
          /\ OneHandlerAtATime' /\ StackShape'
      BY <1>0, <2>1, <2>2, EnterKeepsShape DEF Context, Interruptible
    <2>4. TypeOK'
      BY <1>0, <2>1, <2>3 DEF TypeOK
    <2>5. Safety'
      BY <1>0, <2>1, <2>3 DEF Safety, NeverLeftInService, InterruptsOn,
         HaltsOnlyByFault, FlagShape
    <2> QED
      BY <2>3, <2>4, <2>5 DEF IInv, Safety
  <1> QED
    BY <1>1, <1>2, <1>3, <1>4, <1>5

\* Steps that change nothing.
LEMMA Stutters == ASSUME IInv, UNCHANGED vars PROVE IInv'
  <1>1. /\ OneHandlerAtATime' /\ StackShape' /\ Running' = Running
        /\ UNCHANGED <<irr, isr, pic, idt, flag, stack, pit_ticks, fault>>
    BY StackUnchanged DEF vars
  <1>2. TypeOK'
    BY <1>1 DEF IInv, TypeOK
  <1>3. Safety'
    BY <1>1 DEF IInv, Safety, NeverLeftInService, InterruptsOn, HaltsOnlyByFault, FlagShape
  <1> QED
    BY <1>1, <1>2, <1>3 DEF IInv, Safety

\* The invariant holds of every behaviour: boot, interrupts, programs, faults.
THEOREM Inductive == Spec => []IInv
  <1>1. IInv /\ [Next]_vars => IInv'
    BY BootKeeps, HandleKeeps, DeviceKeeps, ProgramKeeps, Stutters DEF Next
  <1> QED
    BY Initially, <1>1, PTL DEF Spec

\* Types, for every set of lines: the stack is never popped empty, pit_ticks
\* stays a counter of its width.
THEOREM TypeCorrect == Spec => []TypeOK
  BY Inductive, PTL DEF IInv

\* The timer and the keyboard are in service exactly while their handler runs,
\* whichever lines irq_handler has left in service (pit_handler,
\* keyboard_handler and their acknowledgment to port 0x20).
THEOREM LinesReleased == Spec => []NeverLeftInService
  BY Inductive, PTL DEF IInv

\* The kernel stack never carries more than a system call and one handler,
\* although syscall_stub executes sti.
THEOREM Nesting == Spec => []OneHandlerAtATime
  BY Inductive, PTL DEF IInv

\* The shell and user programs run with interrupts on, through every iret,
\* jump_usermode and kernel_return.
THEOREM ShellCanWait == Spec => []InterruptsOn
  BY Inductive, PTL DEF IInv

\* Device interrupts never arrive at an exception's vector: PIC_remap comes
\* before the sti of idt_init.
THEOREM OnlyFaultsHalt == Spec => []HaltsOnlyByFault
  BY Inductive, PTL DEF IInv

\* Until the controllers are programmed nothing is in service.
NothingYet == pic = "bios" => isr = {}

LEMMA NothingYetStep == IInv /\ NothingYet /\ [Next]_vars => NothingYet'
<1> SUFFICES ASSUME IInv, NothingYet, [Next]_vars, pic' = "bios" PROVE isr' = {}
  BY DEF NothingYet
<1>1. pic = "bios" /\ ~PIC_remap
  BY DEF Next, vars, Boot, PIC_remap, idt_init, kernel_startup, Handle, pit_handler,
         keyboard_handler, Iret, Raise, Accept, jump_usermode, Syscall, SyscallSti, Exit,
         DivideError, Fault
<1>2. Running = "boot" /\ flag = "off" /\ isr = {}
  BY <1>1 DEF IInv, FlagShape, NothingYet
<1>3. isr' = isr
  BY <1>1, <1>2
     DEF Next, vars, Boot, idt_init, kernel_startup, Handle, pit_handler,
         keyboard_handler, Iret, Raise, Accept, jump_usermode, Syscall, SyscallSti, Exit,
         DivideError, Fault
<1> QED
  BY <1>2, <1>3

\* The acknowledgment leaves every other line in service: the timer's or the
\* keyboard's own comes before it.
LEMMA OthersStayInService ==
    ASSUME IInv, NEW l \in Lines \ {Timer, Keyboard}, l \in isr,
           pit_handler \/ keyboard_handler
    PROVE  l \in isr'
<1>1. Timer \in isr \/ Keyboard \in isr
  BY DEF IInv, NeverLeftInService, pit_handler, keyboard_handler
<1>2. l \in 0 .. 15 /\ l # 0 /\ l # 1
  BY LinesAreNumbers DEF Timer, Keyboard
<1>3. l >= 8 \/ \E t \in isr : t < l
  BY <1>1, <1>2 DEF Timer, Keyboard
<1> QED
  BY <1>3 DEF pit_handler, keyboard_handler, EndOfInterrupt

LEMMA InServiceKept ==
    ASSUME IInv, NothingYet, [Next]_vars, NEW l \in Lines \ {Timer, Keyboard}, l \in isr
    PROVE  l \in isr' /\ (l \in irr => l \in irr')
<1>1. CASE PIC_remap
  BY <1>1 DEF PIC_remap, NothingYet
<1>2. CASE pit_handler \/ keyboard_handler
  BY <1>2, OthersStayInService DEF pit_handler, keyboard_handler
<1>3. ASSUME NEW k \in Lines, Accept(k)
      PROVE  l \in isr' /\ (l \in irr => l \in irr')
  <2>1. Passes(k) /\ irr' = irr \ {k} /\ isr \subseteq isr'
    BY <1>3 DEF Accept, Offered
  <2>2. l \in 0 .. 15
    BY LinesAreNumbers
  <2>3. k # l
    BY <2>1, <2>2 DEF Passes, MasterLine
  <2> QED
    BY <2>1, <2>3
<1>4. CASE \/ idt_init \/ kernel_startup \/ Iret \/ jump_usermode \/ Syscall \/ SyscallSti
           \/ Exit \/ DivideError \/ Fault \/ (\E k \in Lines : Raise(k)) \/ UNCHANGED vars
  BY <1>4 DEF idt_init, kernel_startup, Iret, jump_usermode, Syscall, SyscallSti, Exit,
              DivideError, Fault, Raise, vars
<1> QED
  BY <1>1, <1>2, <1>3, <1>4 DEF Next, Boot, Handle

\* A line that irq_handler leaves in service stays there, and a request on it
\* waits for ever (irq_handler's empty body; the acknowledgments of pit_handler
\* and keyboard_handler name no line).
THEOREM OnceServed == Spec => ServedOnce
<1>1. Init => NothingYet
  BY DEF Init, NothingYet
<1>2. IInv /\ NothingYet /\ [Next]_vars =>
          [\A l \in Lines \ {Timer, Keyboard} :
              l \in isr => l \in isr' /\ (l \in irr => l \in irr')]_vars
  BY InServiceKept
<1> QED
  BY <1>1, <1>2, NothingYetStep, Inductive, PTL DEF Spec, ServedOnce
==============================================================================
