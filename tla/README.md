# A TLA+ verification project for the kernel

The repository is a 32-bit x86 kernel: a GRUB-loaded image in the higher half,
one CPU, interrupts, paging with a frame bitmap, a PS/2 keyboard, a VGA text
terminal, a shell, an ATAPI CD drive with an ISO 9660 reader, and flat binaries
run in ring 3 with one software interrupt for system calls. This directory holds
TLA+ models of it, the TLC configurations that check them on small instances,
and TLAPS proofs of what holds for every size.

## 1. Inventory

| Component | Code | State | Operations | Talks to |
|---|---|---|---|---|
| Keyboard buffer | `drivers/keyboard.c`, `boot/isr.c` | `key_buffer` (fixed address `0xC0100000`), `key_buffer_read`, `key_buffer_length` (both `uint8_t`) | `keyboard_handler` appends, `poll_char` takes, `syscall_handler(exit)` clears | PS/2 port, shell; no lock |
| Keyboard decoding | `drivers/keyboard.c` | statics `last_f0`, `shift` | `poll_char` | buffer, shell |
| PS/2 setup | `drivers/keyboard.c` | controller configuration | `setup_PS2` | port 0x60, raced by the keyboard and mouse interrupts |
| Interrupts | `boot/idt.s`, `boot/isr.c`, `boot/boot.c`, `boot/funcs.s` | IDT, two 8259s, IF, the kernel stack, `pit_ticks` | `PIC_remap`, `idt_init`, stubs, handlers, system call entry and exit | everything |
| Frame allocator | `libraries/paging.c`, `boot/boot.c` | `free_regions`, `bitmap` | `multiboot_shit`, `setup_bitmap`, `set_region_status`, `alloc_frame` | paging |
| Paging | `boot/boot.s`, `boot/funcs.s`, `boot/boot.c`, `libraries/paging.c` | page directory and tables | `_start`, `reload_CS`, `setup_paging`, `map_page` | allocator, MMU |
| Shell | `kernel/kernel.c`, `libraries/string.c` | `input_buffer`, `input_size`, `parts` (uninitialised locals) | `kernel_main`, `strsplit`, `run_command` | keyboard, terminal, ISO reader, user mode |
| Terminal | `drivers/vga.c` | `terminal_row`, `terminal_column`, screen memory | `terminal_putchar`, `delete_last_char`, `scroll`, `terminal_initialize` | shell |
| Boot information | `boot/boot.c`, `include/multiboot2.h` | `free_regions`, `max_addr`, `total_pages` | `multiboot_shit` | boot loader, frame allocator |
| Segments | `boot/boot.c`, `boot/funcs.s` | the table at `0x50000`, `tss` | `encodeGdtEntry`, `createGdt`, `setGdt` | CPU, user mode |
| User mode | `boot/funcs.s`, `kernel/kernel.c` | `saved_kernel_esp`, the kernel stack | `jump_usermode`, `kernel_return` | shell, interrupts |
| Timing | `drivers/timing.c` | `pit_ticks` | `sleep` and its three siblings | timer interrupt |
| ATAPI | `libraries/disc.c` | `disc_connected`, the drive's registers | `detect_discs`, `atapi_read` | ISO reader, timing |
| ISO 9660 | `drivers/iso.c` | `pvd` and `buffer`, uninitialised locals: what earlier calls left on the stack | `get_lba_file`, `list_items`, `read_file` | ATAPI, shell |
| ELF | `libraries/elf.c` | none | `confirm_elf`, `load_elf` | ISO reader, shell |
| Strings, ports | `libraries/string.c`, `libraries/port.c` | none | pure helpers, port instructions | all |

What is hard in this code:

* **Concurrency.** One CPU, no lock, no `cli`: `keyboard_handler` can run
  between any two instructions of the shell, of `setup_paging` and of a system
  call (its stub executes `sti`).
* **Undefined memory.** `input_buffer` and `parts` are never initialised, and
  `kernel_main` is entered again on a used stack after every program; the sectors that
  lookups on the disc read into are locals too.
* **Protocols with devices.** Acknowledgments to the interrupt controllers name
  no line and half the handlers send none; the PS/2 controller's answers and its
  keys come out of one port; the drive takes commands only when it is not busy.
* **Narrow arithmetic.** Indices of `uint8_t`, addresses that end at 2^32.
* **Unchecked failure.** `alloc_frame` returns 0, `atapi_read` returns 1,
  `setup_PS2` returns false, nobody looks.
* **Strings without ends, arrays without bounds.** Names on the disc, a file that
  fills its sector; `free_regions`, `readfile`'s buffer, the kernel stack.

What makes each component correct: the buffer is a FIFO queue that loses nothing
unless it is raced or overrun; the decoder gives the typed characters with the
right case; each interrupt is acknowledged by the handler it belongs to and the
shell always gets interrupts back; a frame is given to one owner only and never
one the kernel sits on; a user program reaches neither the kernel nor the tables it
runs on, and translation of kernel addresses never changes under the CPU's feet;
the command that runs is the line that was typed; the screen shows the text that
was written. `PROJECT.json` lists, under `hazards`, each place where one of these
could fail.

## 2. The modules

| Module | Models | Checked by | Proved in |
|---|---|---|---|
| `KeyBuffer` | the buffer, one action per access to a volatile | `MCKeyboard` | `KeyboardProofs` |
| `KeyQueue` | the queue the buffer promises to be | refinement in `MCKeyboard` | `KeyboardProofs` |
| `Keyboard` (extends `KeyBuffer`) | from held keys to characters read | `MCKeyboard` | `KeyboardProofs` |
| `Interrupts` | controllers, gates, context stack, system calls, faults | `MCInterrupts` | `InterruptsProofs` |
| `FrameAllocator` | bitmap and allocation | `MCBootMemory`, `MCFrameAllocator` | `PagingProofs` |
| `BootInfo` | the walk over the boot loader's tags | `MCBootMemory` | `PagingProofs` |
| `BootMemory` (extends `FrameAllocator`, instantiates `BootInfo`) | from the tags to frames | `MCBootMemory` | `PagingProofs` |
| `Paging` (extends `FrameAllocator`) | tables and translation through the boot and `map_page` | `MCPaging` | `PagingProofs` |
| `Shell` | line editor, `strsplit`, dispatch | `MCConsole` | `ConsoleProofs` |
| `Terminal` | cursor and screen memory | `MCConsole` | `ConsoleProofs` |
| `Console` (instantiates `Shell`, `Terminal`) | the command loop with the screen under it | `MCConsole` | `ConsoleProofs` |
| `Ps2` | `setup_PS2`, the PS/2 controller and its devices | `MCPs2` | `DriverProofs` |
| `Atapi` | disc driver and drive | `MCAtapi` | `AtapiProofs` |
| `Disc` | what `atapi_read` promises | refinement in `MCAtapi` | `AtapiProofs` |
| `Iso` | path lookup, directories, the commands on the disc, the ELF check | `MCIso` | `IsoProofs` |
| `Timing` | the sleeping functions | `MCTiming` | `DriverProofs` |
| `Gdt` | descriptors and selectors | `MCUserMode` | `UserModeProofs` |
| `Faults` | what an exception's handler is handed | `MCUserMode` | `UserModeProofs` |
| `KernelStack` | the depth of the kernel stack | `MCUserMode` | `UserModeProofs` |
| `UserMode` (instantiates `Gdt`, `KernelStack`, `Faults`) | programs, interrupts and exceptions on the one stack | `MCUserMode` | `UserModeProofs` |

A component that another one contains is checked there, in the states the whole can
be in: `KeyBuffer` under `Keyboard`, `BootInfo` and `FrameAllocator` under
`BootMemory`, `Shell` and `Terminal` under `Console`, and the three parts of
`UserMode`. A property of a run may be the conjunction of several named parts, each
stated with its own comment where it is defined.

### KeyBuffer

`key_buffer`, `key_buffer_read` and `key_buffer_length` are the code's globals;
`pc`, `scancode` and `register` are where the interrupted code stands and what
it has loaded. A byte is its ordinal among all bytes sent, so that "which byte is
this" can be said. `keyboard_handler` is one action, because it runs behind an
interrupt gate. The rest is cut at each access to a volatile: the shell's test
(`SeeLength`), `poll_char`'s (`PollNothing`, `PollFetch`), the load and the store
of `key_buffer_length--`, the two stores of `exit`. `sent`, `next` and `slips`
are history: `slips` notes the two ways the buffer can break, an interrupt in the
middle of `poll_char`'s update ("raced") and a byte that finds the buffer at its
last cell ("overrun"); the exit call mends both.

The properties say precisely what survives. `KeysInOrder`: without a slip, each
byte once and in order. `NoExtraKeys`: even raced, the length never goes below
zero and no byte is invented, only an overrun can do that. `ImplementsQueue`: what
the *memory cells* hold, read off through the two indices, behaves as `KeyQueue`.
`TypedInTheEnd` of `Keyboard`: bytes that wait are read.

### Keyboard

The buffer with meaning: a key press or release puts one or two codes on the
wire, `Deliver` brings them through `keyboard_handler`, `DecodeStep` is the rest
of `poll_char`. `wanted` is what a person looking at the keys would have typed.
The exit call throws away waiting bytes and leaves `last_f0` and `shift`;
`OneInventedPerExit` bounds the damage: at most one invented character per exit.
`KeysDecoded` is its type, `TypedAsPressed` and `FlagsFollowKeys`.

### Interrupts

A stack of contexts, each with the interrupt flag its `iret` restores. The two
8259 controllers are external and modelled as `PIC_remap` programs them (cascade
on line 2, fixed priorities, explicit acknowledgment). `irq_handler` returns
without acknowledging: its line, and the lower ones of the same controller, stay
blocked; with a line of the slave so does the cascade. That the timer and the
keyboard survive it is not obvious and holds because no other line has a higher
priority (`NeverLeftInService`, and `DevicesServed` for both); that any
other line is served once at most is `ServedOnce`. `Exit` abandons the stack as
`kernel_return` does.

### FrameAllocator and Paging

Addresses are numbers below `Space` and all sums are taken modulo `Space`, as
`uint32_t` does; sizes are constants. `KernelReserved` is computed as the code
computes it, from a physical and a virtual symbol, and comes out empty: the
kernel is protected by where the scan begins only. `BitmapExact` compares the
bitmap with a definition in plain integers.

`BootMemory` puts `BootInfo`'s walk in the place of the single step
`multiboot_shit`. The walk has addresses: a tag stands where the loader has put it
(`at`, the first multiple of eight behind the tag before it, as the assumption on the
loader says), and the walk must meet it by its own arithmetic. `KnowsItsMemory` says
that the kernel works with the available memory of the maps, no more and no less: as
many regions are stored as entries are available, and each in the slot numbered by the
available entries before it; and a region is stored past `free_regions` only when there
are more than its slots. `MemoryMaps`, what the allocator may find, is then what the
lists of tags make available (`BootMemoryAssumption`).

In `Paging`, `mem` holds the frames that are tables, and every access goes through
`Translate`: the code fills tables at their physical address plus `KERNEL_OFFSET`,
which works only where the window is mapped. One action per boot step, one per
table that `setup_paging` allocates, one per directory entry it replaces: the
intermediate directories are what the CPU runs on. The loop that fills all tables
is one step, no entry of it is in use before the directory names the table. The
user's identity map starts at 4 MiB; since `setup_paging` can only fill tables below
that, none of its tables is in it, and a machine where they would land above stops in
`FillFaults`. That is not so of the tables `map_page` allocates (paging.c:138-143): it
fills them through the finished window, which reaches further, and a table above 4 MiB
is a user's to write. `UserFenced` says both: neither the kernel nor a table of
`setup_paging` is within reach, and of all tables in use (`PageTables`) only those
that `map_page` has got (`FromMapPage`). One of the maps of `paging` puts such a table
there. Nothing calls `map_page` yet.

### Shell and Terminal

`Shell` has one action per kind of character and models `strsplit` on the
buffer's cells as sets of offsets: `Starts`, where parts begin, and the k-th of them
(`Nth`), as far as there are slots. Letters are few and case is left out.
`LineHolds` is `BufferHoldsLine`, `WordOfTheLine` and `WildOnlyWithoutWords`;
`RunsWhatWasTyped` is `RunsTheLine`. What `kernel_main` finds in its uninitialised
frame is chosen (`entered`): zeros, as on a fresh stack, or junk, as after a program.
`RunsTheLine` covers both: the command begins with the line that was typed; what may
follow is one character, once something has been erased, and on a used stack what the
stack held, since nothing puts a zero behind the line. Enter alone then runs junk.
"wild" marks a followed pointer that nobody set.

`Terminal` follows cells past the screen, since the column can pass 80.
`TerminalHolds` is `CursorOnScreen` and `ScreenShowsTheEnd`. Colours and the
hardware cursor are left out.

### Console

`Shell` and `Terminal` as instances, on the same variables, with `out`, the
characters that are still to be written: what the loop and a command print comes
out one character after the other. A key is one step of both: `Type` stores the
character and puts it, `Backspace` takes it from the buffer and calls
`delete_last_char`. `ScreenShowsLine` says what a user relies on: before the
cursor stands the prompt and the line that `strsplit` will get. Where the two
functions fall out of step is in `odd`, and nowhere else: a tab takes four columns
and backspace gives back one (vga.c:78-85); a tab that ends at the row's end may be
cut, with the cursor back where the row began (vga.c:79-83); a backspace with the
cursor in the first column of a wrapped line goes to column 80, not to the character
(vga.c:141-146).

### Ps2

`Script` is the function as its port accesses in order, a step being a command or
a reading; `keyboard_handler` may run between any two. Port 0x60 repeats its last
byte when it is empty, so a reading always gets *something*: an answer that
`keyboard_handler` took first is still read, an early reading gets the byte before.
That is why `QuietSetupWorks` holds although both read the same port. What does
go wrong is named: the mask `0b10100110` (keyboard.c:31) clears bit 4 as well, so
the keyboard's clock is on during the controller's test, a key that is pressed then
is taken for an answer, `setup_PS2` returns false with the interrupt off, and
kernel.c:148 does not look: `DeafOnlyAfterFalse`, in `ResultTells`, says that this is
the only way. A
byte of the mouse is read by nobody (`irq_handler` is empty) and stops the keyboard:
`KeysHeard` says that it is the only obstacle, `StuckOnlyAfterTrue` when it comes.

### Disc and Atapi

`Atapi` holds the drive (external: nothing, a hard disk or a CD drive, with the
phases of the packet protocol) and the kernel's steps, a polling loop being a step
whose guard is its exit. Sectors are cut into pieces so that a drive may hand over
less than a sector at a time, which `atapi_read` places as if it were one. `lost`
notes a command that came while the drive was busy, `short` a small transfer.
`ImplementsDisc` maps the driver to `Disc`: sectors arrive in order, a read that
answers 0 has them all; the promise is void once one of the two has happened, until
the next read. `AnswersHold` is `OkMeansRead` and `FailureLeavesReady`, which is why
a failed read may be tried again; `CallsEnd` is `ReadReturns` and `DetectionEnds`.
`disc_connected` is what `detect_discs` found once, at boot: a drive, not a disc in it.

### Iso

All commands on the disc, lookup by lookup and read by read; each read may fail,
and then the buffer holds what it held. What it held is followed: `pvd` and `buffer`
are locals nobody initialises (iso.c:102, 116), and each lookup begins with any sectors
that lookups before it have left on the stack (`left`), or with `Junk`. A failed read
of the descriptor is therefore followed by a lookup from the last one's root, a failed
read of a directory by a search of another one; in `Junk` a walk may find nothing, any
numbers (`Stray`), or never come back ("wild"). A directory is a sequence of entries in
a sector, a name is what is left without `;1`. `confirm_elf` is its three tests:
signature, byte order and machine. Where `run` jumps after `load_elf` is "undefined":
that function ends without a return.

The properties compare the walk with the ways through the disc that follow the path
(`Ways`: sequences of directories, each in the one before it) and name what they need.
`Reached`: the path's directories are there, each in its parent's *first* sector, the
only one the code reads. `Doubtful`: no descriptor, a path without parts, or a full
sector on the way, where a walk leaves the directory although every read goes well.

* `LookupsHold`. `FindsTheFile`: reached and without failures, the file is the
  path's. `NeverAStranger`, whatever fails: a file that is returned has the path's last
  name, out of a directory that some of the path's parts lead to, for `get_lba_file`
  goes on where a directory is missing; from the root, or, only if a read of that same
  lookup failed, from a directory an earlier lookup left in the buffers (`findfile p`
  after `findfile d/e/p` with the disc out). `OneFileFound`: `findfile` asks
  twice, and gets one file.
* `ShowsWhatIsThere`. `ListsTheDirectory`: `list` shows the first sector, and reports a
  directory missing only when it is not in a first sector, although the disc may have
  it in a later one. `PrintsTheFile`: the path's file, to its last byte and no further.
* `RunsWhatWasAsked`. `RunsTheProgram`: where the path is reached, it is the path's file
  that runs flat, as long as the second lookup and read go well: reading the program
  twice repairs a failure of the first time. `NoElfRunsFlat`: not a file that
  `confirm_elf` accepts; an ELF of another byte order or machine does run flat.
* `WildOnlyFor` lists the ways a walk leaves directory memory.

`help` (kernel.c:33) says more of `list` and `run` than is so: see the end of section 3.

### Timing

The four functions from their entry on, a look, `HLT` and the interrupts being
steps. `wrapped` notes a target or product that overflows. The CPU makes at least
a step between two ticks. `KeepsTime` says how long a sleep takes in every case:
`NeverShort`, `AtMostATickLong`, and `NothingOrRight` for those that overflow.

### UserMode: Gdt, KernelStack, Faults

`UserMode` composes three views of a program and of what interrupts it; an interrupt,
a system call, an exit and an exception is one step of all of them.

`Gdt` encodes and decodes descriptors byte by byte, with bytes of 16 values so
that TLC can put `tss` where each byte matters, and follows every selector through
programs, interrupts and exits. The stubs save no segment register; `SegmentsHold`
and `KernelHasItsData` say why that is enough, `StackIsFound` that the CPU reads
`esp0` from the real `tss`.

`KernelStack` knows depths only. `kernel_return` enters `kernel_main` at the depth
saved before the command, so each program leaves a frame of `kernel_main` for good,
and nothing else does (`ProgramCostsOneFrame`); the stack overruns after enough of
them, and not before.

An exception may come in the kernel and in a program, and within a system call as the
page fault of the pointer that `write_to_screen` follows (isr.c:70), when the system
call's frame is already on the stack (`Raise`).

`Faults` counts words: what the CPU pushed, what the stub adds, and what the
handler's argument then is. `NamesTheFault` says that the screen names the exception
raised, but for the general protection fault, whose stub pushes no argument
(idt.s:70-75): `gpf_handler` follows the error code into memory that has been unmapped
since `setGdt`, and the screen shows the page fault that causes. `divide_error`
returns to its cause, for ever, and leaves nothing on the stack.

## 3. What the runs check

| Run | Bounds | Shows |
|---|---|---|
| `keyboard` | index of 4 values, 8 bytes, 4 key events, 2 exits | buffer and decoding end to end, refinement of `KeyQueue`, liveness |
| `interrupts` | lines 0, 1, 6, 12, 14; 3 ticks | acknowledgment, nesting, liveness |
| `boot_memory` | 64 pages of 4 bytes, maps of 1 to 3 regions of 11, lists of up to 3 tags, 3 slots | the walk, the bitmap, allocation |
| `kernel_kept` | the same, kernel end not on a bitmap byte | **violation**: the kernel's last pages are handed out |
| `paging` | tables of 16 entries, 2 + 3 tables, 21 memory maps | boot of paging and `map_page` |
| `second_mapped` | as `paging` | **violation**: the second boot table is empty |
| `console` | buffer of 4 cells, 2 slots, 5 columns by 3 rows, 6 keys | line editing, dispatch, the screen, and that they agree |
| `ps2` | 2 keys, both kinds of channels, mice and speeds | `setup_PS2` |
| `atapi` | 2 sectors of 2 pieces, reads of 0 to 2 sectors | driver, refinement of `Disc`, liveness |
| `iso` | 5 directory sectors, 9 files, 12 paths, two kinds of disc | lookup, listing, reading, running |
| `user_mode` | bytes of 16 values, 6 places of `tss`, 25 words of stack, 5 programs, 32 exceptions | segments, stack, exceptions |
| `timing` | counter of 8 values, seconds of 3 ticks, arguments 0 to 4 | sleeping |

Why the bounds suffice. *keyboard*: 8 bytes wrap a 4-valued index and length,
and their sum passes the end; every race needs two bytes at most; 4 events are enough
for shift down, letter, shift up, letter, and for a break code cut in two by the exit,
and two exits for what the second finds after the first. *interrupts*: there is a line
between the two handled ones and the cascade's lower ones, and two slave lines, so
each order of priorities and each blocked controller occurs; stack depth is bounded by
the code itself. *boot_memory*: regions are chosen around 1 MiB, around the kernel's
end, up to, across and beyond 4 GiB, with ends inside pages; memory is exhausted in
every behaviour; two maps with two entries each exceed three slots, and tags and
entries have sizes that are and are not multiples of eight. *paging*: each of none,
too few, exactly enough and enough frames occurs, and targets of `map_page` in a
present user table, in absent tables and mapped twice; in maps with holes a table
falls on the screen's page, or where the directory's view of itself begins. *console*: three characters
after the prompt fill a row of five; six keys wrap a line, erase across the wrap,
scroll, complete one line and begin another, and fill the buffer of four cells; the
tab's four columns are nearly a row; the stack's junk is chosen anew at each entry of
`kernel_main`. *ps2*: two keys are one that is taken for an answer and one behind it.
*atapi*: a sector of two pieces is the least that can be handed over in part, two
sectors the least of which the second can fail or be misplaced, and a read of none is
its own case. *iso*: directories nest three deep, each case of an entry has a file
(flat, ELF of the right kind and not, empty, one that ends with its sector, one of more
than two), a name is used for files and directories in several places, one sector is
full, and a directory and a file are in a second sector; since the stack keeps what
earlier commands left, every order of two lookups is among the 1.2 million states. The
two depths a lookup is called at are not told apart: what was left at either may be
found at both. *user_mode*:
the places differ in every byte of the base; there is room for two programs, so that
the third overruns; an interrupt may come in a program, a command and a system call,
an exception in a program and a command, the page fault in a system call too. *timing*: products reach beyond the counter, targets fall on, before
and behind its wrap; what is checked here is proved for all sizes.

Deadlock is not checked where the bounds end the behaviours (keyboards that have
sent all their bytes, used-up key strokes) or where the system really stops
(`cli; hlt` after a fault).

### Fairness

* `Keyboard`: weak fairness of the kernel's steps. The CPU never stops executing the
  polling loop and every interrupt returns. A user program is not obliged to exit, so
  `ExitBegins` has none. Weak fairness of `Deliver`: a byte on the wire raises its
  interrupt, and interrupts are on (theorem `ShellCanWait`). People need not type.
* `Interrupts`: weak fairness of the boot steps, the handlers and the system
  call's `sti`: straight-line code. Strong fairness of the acceptance of the timer
  and of the keyboard: the CPU samples requests at every instruction executed with
  IF on, so a request that is acceptable again and again is accepted. The timer
  ticks every millisecond and a handler is far shorter; without that (the guard in
  `Raise`) ticks alone could keep the CPU busy and no keyboard would be served.
* `Atapi`: weak fairness of the drive's own steps (a drive answers in the end, with
  an error if it must) and of the kernel's. Changing the disc and asking for a read
  have none.
* `Ps2`: weak fairness of `Arrive`, `keyboard_handler` and `Setup`: bytes on the
  wire arrive when the buffer is free, interrupts are on, `setup_PS2` only waits by
  `io_wait`.
* `Timing`: weak fairness of looks, `HLT` and the timer: interrupts are on whenever
  one of the functions runs (theorem `ShellCanWait`, and the system call's `sti`).
* `BootMemory`: weak fairness of the walk, straight-line code with interrupts off.

### Violations

* `kernel_kept`: paging.c:67 says "Kernel must not be allocated". `kernel_start`
  in linker.ld is a physical address already, `virt_to_phys` takes it down once
  more, and the reserved range is empty. Since `alloc_frame` rounds its first
  byte of the bitmap down, up to eight pages at the end of the kernel's `.bss`
  can be handed out, unless `kernel_end` is a multiple of 32 KiB (the assumption
  `Aligned` of theorem `KernelSafe`).
* `second_mapped`: boot.s:95 says "Map the second 4MB", but the loop before it
  never stores an entry.

Other disagreements with what the code says of itself appear in the properties of
passing runs as the conditions they need: `discinfo` (kernel.c:33) shows whether a
drive answered at boot (`Atapi`); "That file does not exist in the location
specified." (kernel.c:62) is not said when only a directory is missing, and `run X/P`
without a directory X runs the root's P, not "a flat binary at a specific path"
(kernel.c:33), because `get_lba_file` (iso.c:125-136) does not notice: `Reached` is the
condition (`Iso`); `list` does not show "all files/directories in a directory"
(kernel.c:33) but those in its first sector (iso.c:66), which is what
`ListsTheDirectory` says (`Iso`);
elf.c:34 promises a pointer that elf.c:43 does not return (`Iso`); `gpf_handler` (isr.c:48) never gets its argument (`Faults`).

## 4. What is proved

All proofs hold for every value of the constants that satisfies the named
assumptions.

**KeyboardProofs** (`WrapAssumption`: an index has at least two values;
`BytesAssumption`, `LettersAssumption`). The buffer first. The inductive invariant is
`TypeOK /\ KeysInOrder /\ NoExtraKeys /\ WaitingBytes`. `KeysInOrder` alone is not
inductive: it speaks of the byte taken, and that this is the right byte depends on
what *every* waiting cell holds (`WaitingBytes`), and on the loaded length being
current when no interrupt raced. Theorems: `TypeCorrect`, `InOrder`, `NoExtra`. With
the same invariant each step is one of `KeyQueue` or a stutter: the handler puts
(`HandlerQueues`), the fetch takes (`FetchTakes`), the second half of the update moves
what is seen in the cells by nothing (`StoreStutters`), the exit flushes; a race or an
overrun is the queue's breakdown, until the exit that mends it (`BufferIsQueue`).

Then the whole path. Every step of `Keyboard` is a step of `KeyBuffer` or leaves it
alone (`StepOfBuffer`), so all of this holds under everything that is decoded
(`BufferInductive`, `DecodedInOrder`, `DecodedNoExtra`, `DecodedFromQueue`), for all
keys and numbers of events and exits. What the codes *mean* needs `KIInv`, which
speaks of all codes sent, delivered or not: `CodesTell` says that they determine what
was typed and in which case, counting make codes (`TypedBy`, `ShiftAfter`); `InStep`
that while nothing is lost the decoder's flags are those of the codes it has read;
`AtMostOneAhead` that an exit, which may cut a break code in two, puts it one character
ahead. That a count grows by one with a make code and not otherwise is `TypedByStep`.
Theorems: `CodesUnderstood` (the invariant), `KeysReadAsPressed`, `InventedOnlyByExits`.

**InterruptsProofs** (`LinesAssumption`: the timer and the keyboard are among the
lines, line 2 is the cascade's; `TickAssumption`). The invariant adds to the four
safety properties the shape of the stack (`StackShape`: only the bottom is boot,
shell or program, a system call is second, whatever is stacked on something
interrupted it with interrupts on) and of the flag (`FlagShape`). Lemmas
`EnterKeepsShape`, `BecomeKeepsShape` and `IretKeepsShape` treat the three ways the
stack changes; the controllers come in through `AcknowledgesTheHandled` and
`AcceptsOneLine`. That a line of no handler stays in service (`ServedOnce`, an action
property) needs to know that nothing is in service before `PIC_remap` (`NothingYet`),
since programming the controllers forgets what was, and that each of the two
acknowledgments finds a lower number than the line's (`OthersStayInService`). Theorems: `TypeCorrect`,
`LinesReleased`, `Nesting`, `ShellCanWait`, `OnlyFaultsHalt`, `OnceServed`.

**DriverProofs**, of `Timing` (`TimingAssumption`: the counter and the second have a
length). That a sleep is neither short nor long is no invariant of a state; the invariant
ties the counter to the ticks since the call. `Counting` is the sleep that does not overflow:
the counter is `target - asked + elapsed`, it can pass the target by one tick only,
and only while the CPU is about to look again. `Overflown` is the sleep whose target
overflowed: over at the next look, unless the counter was at its last value.
Theorem: `TimeKept`, all of `KeepsTime`.

And of `Ps2` (`KeysAssumption`: keys are counted). `DIInv` says for each place in
`Script` where the controller's answer to the last command is. `AnswerComes` is the
heart of it: undisturbed, the answer that is awaited is on its way, or was the last byte
in the buffer, *whoever took it*, and that is enough because port 0x60 repeats it;
everywhere else from the flush on the buffer is empty. `SetupStands` adds what the
configuration is by then, `HearsAtLast` and `EndsSomewhere` hold however it is disturbed.
Theorems: `SetupInStep` (the invariant), `QuietSetup`, `ResultIsTelling`.

**PagingProofs**, the allocator (`SizesAssumption`, `KernelAssumption` from linker.ld,
`MapsAssumption`: no available region begins in the last page below 4 GiB). The
invariant is `TypeOK /\ GivenMarked /\ NoFrameTwice /\ BitmapExact`; the work is in
`RegionFreed` and `BitmapBuilt`, the wrapping arithmetic of `set_region_status`
against plain integers, and in `NothingReserved`, the kernel's empty range.
Theorems: `TypeCorrect`, `Unique`, `Exact`, `FixedSafe`, and `KernelSafe` under
the further assumption `Aligned`.

The walk that finds the memory (`BootInfoAssumption`: what a boot loader may leave;
`BootMemoryAssumption`). `BMInv` says that the walk is at a tag of the list, in a memory
map at the beginning of one of its entries, and that what is `Stored` are the available
entries before that place (`Behind`), each in the slot numbered by those before it. That
it is at a tag is arithmetic: the code's rounding leads to the loader's next place
(`NextTag`), and no two tags are at one address (`TagsApart`). Since the properties count
entries, the rest is about finite sets and their sizes (`BehindFacts`, `BeforeFacts`,
`StoredOneMore`), for any number of tags and entries. What is stored in the end is a
memory map (`StoredAll`), so that the last step of the walk is `multiboot_shit` and the
others are none of the allocator's business: `BSpec` implements `FrameAllocator`'s `Spec`
(`WalkRefined`), and all that holds of that holds of this, `BitmapExact` among it.
Theorems: `WalkKeepsCount` (the invariant), `MemoryIsKnown`, `WalkRefined`,
`BootBitmapExact`.

The tables (`TablesAssumption`; `PlacesAssumption`: where the linker puts the
image's tables; `AskedAssumption`: `map_page` has no callers yet, and is asked for pages
below the window and frames above 4 MiB). `PIInv` follows the boot stage by stage:
`BootStands` is the directory `_start` has made, `LinksHold` the directory in the middle
of `setup_paging`, entry by entry, `RunHolds` the one after it, whatever `map_page` has
done since. `Fenced` alone needs no condition: the kernel and the tables
of `setup_paging` are out of a user's reach; that of the other tables in use only
`map_page`'s can be within it follows from `RunHolds`. The rest holds under `Roomy`, which names
what the boot does not check: no table is the frame 0 that `alloc_frame` returns when
nothing is left, none is the page under the screen, and no frame lies where the window
does not reach. For `map_page` the invariant has `DirsApart`: two entries of the
directory never share a table. The arithmetic of a translation is done once
(`TranslateIs`, `SeenAt`, `Split`, `Join`: a page is a directory entry and an index),
and that `alloc_frame`'s next frame is new comes from the allocator's invariant, on which
`PIInv` rests. Theorems: `TablesKept` (the invariant), `GroundIsFirm`, `UserIsFenced`,
`LinearIsMade`, `MapsOnlyIt`, an action property, and `TablesAreOwn` under `Aligned`, for
the reason the run `kernel_kept` shows.

**AtapiProofs** (`AtapiAssumption`: there are sectors and pieces). `AIInv` is
`AnswersHold` with what the drive is up to (`DriveHolds`), what the call is
(`CallHolds`), that the two speak of the same command (`StepHolds`) and that the sectors
so far are in their places (`SectorsHeld`). That a piece belongs to one sector only, and
that sectors do not reach into one another, is `PieceOfSector` and `SectorsFit`. Each
step of the driver and the drive is a step of `Disc` or a stutter (`StepDisc`), the
promise being void after a command that was lost or a transfer that was short. Theorems:
`ReadsInStep` (the invariant), `AnswersStand`, `ReadsAsPromised`.

**UserModeProofs** (`UserModeAssumption`). The descriptors need arithmetic: that what
`encodeGdtEntry` cuts into bytes is what the CPU puts together again is `EncodedReads`,
for bytes of two halves of any size, from lemmas on digits (`LowDigits`, `ThreeDigits`,
`FourDigits`); that writing one descriptor leaves the others is part of `CreateGIInv`.
`UIInv` has the invariants of the three parts: `ContextsHold` (which contexts can lie
under which, and whose data segment is loaded), `FramesHold` (each depth as a number of
frames) and `WordsHold`; and `Linked`, which ties them: that the segments say "program"
when the stack does. Theorems: `PartsGoTogether` (the invariant), `SelectorsTaken`,
`StackFound`, `OneFrameEach`, `FaultNamed`.

**ConsoleProofs** (`ConsoleAssumption`: the buffer and the slots have at least two
places, the screen two rows and at most 255, commands write no tab). `CIInv`
has four parts.

* `SIInv` of `Shell`. `BufferHoldsLine` is inductive, what runs is not: `RunsTheLine`
  rests on `StraysApart`: behind the line there is nothing, or single characters each
  with a NUL behind it, or what a used stack held, and no typed character after that; `WildOnlyWithoutWords` on
  `FirstPart`, that the first slot, once set, names a text that ends. `strsplit` is
  treated by lemmas about its sets of offsets: the least beginning is the first part
  (`NthZero`, `NthOne`), the scan passes the delimiter after it (`ScanPasses`), and so
  the word looked up is the line's first (`WordIs`). Least elements come from
  `WellFoundedInduction`'s theorem on sets of numbers.
* `TIInv` of `Terminal`: with a row's end, the rows written and the memory's rows shift
  together (`AdvanceShows`, `PutShows`); the loop of `scroll` ends at the last row but
  one for every height below 256 (`ScreenSizes`).
* `OutHolds`: what is still to be written on an empty line ends with a prompt.
* `PictureHolds`: as much of the prompt as is written, and the line, stand right before
  the cursor. This is not inductive by itself: a text longer than the screen leaves it
  at the top and may be erased again. `ScrolledAway` says that it still does not fit:
  erasing inside the row keeps the length in front of the row, and erasing across its
  beginning is noted in `odd`.
  `PutExtends` and `RubShortens` are the two steps.

Theorems: `ConsoleInvariant`, `ScreenIsLine`, `TerminalServes`, `LineIsHeld`, and
`CommandIsLine`, an action property.

**IsoProofs** (`IsoAssumption`: the buffer of `readfile` is whole sectors;
`DiscAssumption`, from ISO 9660: every directory on the disc fills a sector at least, no two in one sector have the same
name, and the descriptor is in no directory). `IIInv` has a part for each thing that is
remembered.

* `PlaceHolds` and `EndHolds`: which command can be where, with how many answers, and
  which ends it can come to.
* `LeftHolds`: what is left on the stack are first sectors of directories and the
  descriptor, and what a lookup begins with is of it.
* `PassedHolds`, whatever fails: the directory and the buffer are of directories that
  some of the path's parts lead to, from the root or, once a read of this lookup has
  failed, from what was left; so are the answers.
* `WalkHolds` and `AnswersHold`, lookup by lookup, for those of which no read failed: the
  lookup is where *the* walk is (`Walks`), and so each of them has answered the same. The
  properties speak of ways through directories, which need not exist, the code's walk does
  always (`WalkExists`); where the parts are all there, it is on a way (`WayWalks`).
* `StrayHolds`: only a failed read or a doubtful walk leads astray.
* `ListHolds`, `RunHolds`, `PrintHolds`: what the memory and the screen hold. `RunHolds`
  looks at the second reading only, which is why it repairs the first.

`Ways` of any length are functions from an interval, extended by one part at a time; what
must hold of all lengths comes from a least counterexample (`Least`), no induction
theorem being usable. Theorems: `LookupsFollowThePath` (the invariant), `LookupsAnswer`,
`ShownAsItIs`, `RunAsAsked`, `WildForAReason`.

**Only model-checked**: liveness (`TypedInTheEnd`, `DevicesServed`, `WalkEnds`,
`CallsEnd`, `KeysHeard`, `SleepEnds`), since fairness and ENABLED are outside what the
prover handles. Every invariant and every safety property of the passing runs is stated
by a theorem.

## 5. Not modelled

* Two-byte scan codes that begin with `0xE0`; `poll_scancode`, `memcpy`,
  `get_file_size`, which nothing calls; `elftest`, whose body is commented out.
* The TLB: pages of the kernel's window translate alike before and after each step
  (`GroundStays`), so stale entries are equal entries.
* The texts of `help`, `ver`, `info`, `secret`, `cat` and `:3`; colours and the hardware
  cursor.
* What a store past an array then hits (`input_buffer`, `free_regions`, the stack):
  the models stop at, or mark, the store.
* The string helpers other than `strsplit` (`Shell`) and `virt_to_phys`
  (`FrameAllocator`): `itoa`, `itoa_hex`, `reverse`, `concat`, the copies and the
  changes of case make text for display, and no state of the system depends on it. The
  comparisons are `Iso`'s equality of names.
* What a user program does between its system calls, and what `write_to_screen` prints
  of a pointer of its choice (the page fault it may cause is in `UserMode`).
* The paths of `iso` are sequences of parts: that `strsplit` makes them so is
  `Shell`'s matter. Paths of more than 16 parts and names of 255 are left out.
* Registers of the drive other than its status, signature and transfer size; the
  primary channel.
* Port instructions are the steps of `Ps2` and `Atapi`; `multiboot2.h` beyond the
  tags that are read; empty stubs (`kmalloc`, `init_mem_manage`); the sample program
  and the build files.

## 6. Plan

Done: every module of section 2, and the proofs of section 4. All safety properties that
the passing runs check are proved; the next step is to widen the models, in the order of
what the kernel would do with it:

1. `Paging`: the TLB, once something unmaps a page that was in use.
2. `Keyboard`: codes that begin with `0xE0`, once the decoder tells them apart.
3. `Iso`: the change of a disc between two lookups of one command, which `Atapi` has.
