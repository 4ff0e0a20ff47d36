--------------------------------- MODULE Gdt ---------------------------------
(***************************************************************************)
(* Segments: the descriptors createGdt encodes, the CPU's reading of them, *)
(* and every selector the kernel loads while it moves between the kernel,  *)
(* interrupts and user programs.  A byte has Byte values and a half byte   *)
(* Half, so that small numbers have the shape of the real ones.  Of the    *)
(* access byte only the kind, in its lower half, and the privilege, in its *)
(* upper one, are told apart.                                              *)
(***************************************************************************)
EXTENDS Naturals, Sequences

CONSTANTS Byte,       \* values of a byte: 256
          Half,       \* values of half a byte: 16
          Flat,       \* flags of 4 KiB units and 32 bits: 0xC
          TssSize,    \* sizeof(tss_t): 104
          TssPlaces,  \* where the linker may put tss
          MaxNested   \* bound: interrupts that have not returned

MaxLimit == Byte * Byte * Half - 1
GdtAssumption ==
    /\ Half \in Nat /\ Half >= 4 /\ Byte = Half * Half /\ Flat \in 1 .. Half - 1
    /\ TssSize \in 1 .. MaxLimit /\ MaxNested \in Nat
    /\ TssPlaces \subseteq 0 .. Byte * Byte * Byte * Byte - 1

VARIABLES memory,  \* the 48 bytes from GDT_LOCATION on
          tss,     \* the address of tss
          ss0,     \* its stack segment for ring 0
          pc,      \* 1 .. 6, the descriptor createGdt writes next; then
                   \* Written, Loaded once setGdt has run, and On
          cs, ds, ss, tr,  \* the selectors loaded
          returns  \* the contexts interrupted, the last one last

vars == <<memory, tss, ss0, pc, cs, ds, ss, tr, returns>>

Bytes == 0 .. 47
Written == 7
Loaded == 8
On == 9
None == 0
Code == 1
Data == 2
Task == 3
Access(kind, dpl) == kind + Half * dpl

(***************************************************************************)
(* encodeGdtEntry: the eight bytes of a descriptor.                        *)
(***************************************************************************)
\* Mutant of BaseBytes: the top byte of the base is left out.
BaseBytesThree(base) ==
    <<base % Byte, (base \div Byte) % Byte, (base \div (Byte * Byte)) % Byte, 0>>
BaseBytes(base) ==
    <<base % Byte, (base \div Byte) % Byte, (base \div (Byte * Byte)) % Byte,
      (base \div (Byte * Byte * Byte)) % Byte>>

LimitAndFlags(limit, flags) == ((limit \div (Byte * Byte)) % Half) + Half * flags

Encoded(e) ==
    LET b == BaseBytes(e.base)
    IN  <<e.limit % Byte, (e.limit \div Byte) % Byte, b[1], b[2], b[3], e.access,
          LimitAndFlags(e.limit, e.flags), b[4]>>

encodeGdtEntry(at, e) ==
    IF e.limit > MaxLimit THEN memory
    ELSE [i \in Bytes |-> IF i \in at .. at + 7 THEN Encoded(e)[i - at + 1] ELSE memory[i]]

(***************************************************************************)
(* createGdt.                                                              *)
(***************************************************************************)
Segment(kind, dpl) ==
    [base |-> 0, limit |-> MaxLimit, access |-> Access(kind, dpl), flags |-> Flat]
\* Mutant of Entries: the user's segments change places.
EntriesSwapped ==
    <<[base |-> 0, limit |-> 0, access |-> Access(None, 0), flags |-> 0],
      Segment(Code, 0), Segment(Data, 0), Segment(Data, 3), Segment(Code, 3),
      [base |-> tss, limit |-> TssSize - 1, access |-> Access(Task, 0), flags |-> 0]>>
Entries ==
    <<[base |-> 0, limit |-> 0, access |-> Access(None, 0), flags |-> 0],
      Segment(Code, 0), Segment(Data, 0), Segment(Code, 3), Segment(Data, 3),
      [base |-> tss, limit |-> TssSize - 1, access |-> Access(Task, 0), flags |-> 0]>>

\* The segments the boot loader left are not in the kernel's table.
Boot == 48

Init ==
    /\ memory = [i \in Bytes |-> 0] /\ tss \in TssPlaces /\ ss0 = 0
    /\ pc = 1 /\ cs = Boot /\ ds = Boot /\ ss = Boot /\ tr = 0 /\ returns = <<>>

createGdt ==
    /\ pc \in DOMAIN Entries
    /\ memory' = encodeGdtEntry(8 * (pc - 1), Entries[pc])
    /\ pc' = pc + 1
    /\ ss0' = IF pc = 6 THEN 16 ELSE ss0
    /\ UNCHANGED <<tss, cs, ds, ss, tr, returns>>

setGdt ==
    /\ pc = Written /\ pc' = Loaded
    /\ cs' = 8 /\ ds' = 16 /\ ss' = 16
    /\ UNCHANGED <<memory, tss, ss0, tr, returns>>

ltr ==
    /\ pc = Loaded /\ pc' = On
    /\ tr' = 40
    /\ UNCHANGED <<memory, tss, ss0, cs, ds, ss, returns>>

(***************************************************************************)
(* The CPU's reading of the table.                                         *)
(***************************************************************************)
Limit == 47     \* what gdtr says of the table's size
Privilege(selector) == selector % 4
At(selector) == (selector \div 8) * 8
Described(selector) ==
    LET at == At(selector)
    IN  [base |-> memory[at + 2] + Byte * (memory[at + 3] + Byte * (memory[at + 4]
                       + Byte * memory[at + 7])),
         limit |-> memory[at] + Byte * (memory[at + 1] + Byte * (memory[at + 6] % Half)),
         access |-> memory[at + 5],
         flags |-> memory[at + 6] \div Half]

(***************************************************************************)
(* The moves between the privileges.  An interrupt changes cs, and ss when *)
(* it comes from a program; the stubs and the handlers change no segment.  *)
(***************************************************************************)
kernel_cs == 8      \* of every gate

UserData == 35

\* The address and the stack of the program are left out.
jump_usermode ==
    /\ pc = On /\ cs = 8 /\ returns = <<>>
    /\ ds' = UserData
    /\ cs' = 27 /\ ss' = 35
    /\ UNCHANGED <<memory, tss, ss0, pc, tr, returns>>

Interrupt ==
    /\ pc = On /\ Len(returns) < MaxNested
    /\ returns' = Append(returns, [cs |-> cs, ss |-> ss])
    /\ cs' = kernel_cs
    /\ ss' = IF Privilege(cs) = 3 THEN ss0 ELSE ss
    /\ UNCHANGED <<memory, tss, ss0, pc, ds, tr>>

Iret ==
    /\ pc = On /\ returns # <<>>
    /\ LET frame == returns[Len(returns)]
       IN  cs' = frame.cs /\ ss' = frame.ss
    /\ returns' = SubSeq(returns, 1, Len(returns) - 1)
    /\ UNCHANGED <<memory, tss, ss0, pc, ds, tr>>

\* The exit system call of a program: what was interrupted is dropped.
KernelSegments == [ds |-> 16, ss |-> 16]

kernel_return ==
    /\ pc = On /\ Len(returns) = 1 /\ returns[1].cs = 27
    /\ cs' = 8 /\ ds' = KernelSegments.ds /\ ss' = KernelSegments.ss
    /\ returns' = <<>>
    /\ UNCHANGED <<memory, tss, ss0, pc, tr>>

Next ==
    createGdt \/ setGdt \/ ltr \/ jump_usermode \/ Interrupt \/ Iret \/ kernel_return

Spec == Init /\ [][Next]_vars

(***************************************************************************)
(* Properties.                                                             *)
(***************************************************************************)
Selectors == {0, 8, 16, 27, 35, 40}
TypeOK ==
    /\ memory \in [Bytes -> 0 .. Byte - 1]
    /\ pc \in 1 .. On
    /\ {cs, ds, ss, tr, ss0} \subseteq Selectors \cup {Boot}
    /\ \A i \in DOMAIN returns : {returns[i].cs, returns[i].ss} \subseteq Selectors

Dpl(selector) == Described(selector).access \div Half

\* A selector of the table that names a flat segment of the kind asked for.
Names(selector, kind) ==
    /\ At(selector) + 7 <= Limit
    /\ Described(selector) = Segment(kind, Dpl(selector))
\* The rules by which the CPU takes a selector, for every one the kernel, the
\* interrupts and the return to a program load, in every order: the code
\* runs at its segment's privilege, the stack has the same one, and a program
\* never runs with a data segment that is not its own, though nothing on the
\* way through an interrupt saves ds.
SegmentsHold ==
    pc >= Loaded =>
        /\ Names(cs, Code) /\ Privilege(cs) = Dpl(cs)
        /\ Names(ss, Data) /\ Privilege(ss) = Dpl(ss) /\ Dpl(ss) = Dpl(cs)
        /\ Names(ds, Data) /\ Dpl(ds) >= Dpl(cs)

\* What the CPU reads of each descriptor is what createGdt asked for, the
\* task's base included wherever the linker puts it, and no later descriptor
\* disturbs it.
DescribesWhatItAsked ==
    \A k \in DOMAIN Entries :
        k < pc => Described(8 * (k - 1)) = Entries[k]

\* An interrupt of a program finds a stack: the task register names the task
\* segment, at its place and with its full size, whose ring 0 stack segment
\* is the kernel's data.
StackIsFound ==
    pc = On =>
        LET d == Described(tr)
        IN  /\ d.access = Access(Task, 0) /\ d.base = tss /\ d.limit + 1 = TssSize
            /\ Names(ss0, Data) /\ Dpl(ss0) = 0

\* While the command loop runs, outside every interrupt, it has the kernel's
\* own data segment, however often programs have run before.
KernelHasItsData == pc = On /\ returns = <<>> /\ cs = 8 => ds = 16

(***************************************************************************)
(* The inductive invariant behind all of these: the contexts there are,    *)
(* the kernel's and a program's, and which of them can be under which.     *)
(***************************************************************************)
Kernels == [cs |-> 8, ss |-> 16]
Programs == [cs |-> 27, ss |-> 35]
Running == [cs |-> cs, ss |-> ss]
DataOf(context) == IF context = Programs THEN 35 ELSE 16

ContextsHold ==
    /\ pc < On => returns = <<>>
    /\ pc >= Loaded => /\ Running \in {Kernels, Programs}
                       /\ \A i \in 1 .. Len(returns) : returns[i] \in {Kernels, Programs}
                       /\ \A i \in 2 .. Len(returns) : returns[i] = Kernels
                       /\ returns # <<>> => Running = Kernels /\ ds = DataOf(returns[1])
                       /\ returns = <<>> => ds = DataOf(Running)

GIInv ==
    /\ TypeOK /\ tss \in TssPlaces /\ returns \in Seq([cs : Selectors, ss : Selectors])
    /\ DescribesWhatItAsked /\ ContextsHold
    /\ pc >= Written => ss0 = 16
    /\ pc = On => tr = 40
==============================================================================
