------------------------------ MODULE KeyBuffer ------------------------------
(***************************************************************************)
(* The keyboard buffer: three globals of drivers/keyboard.c that the       *)
(* keyboard interrupt fills (keyboard_handler, isr.c), the shell loop      *)
(* empties (kernel_main and poll_char) and the exit system call clears     *)
(* (syscall_handler).  There is one CPU and no lock: interrupts are on     *)
(* throughout, so the handler runs as one step between any two accesses    *)
(* of the other code, whose grain here is one access to a volatile.        *)
(*                                                                         *)
(* A byte is named by its ordinal among the bytes the keyboard has sent;   *)
(* 0 names whatever the memory held before.  What a byte means is the      *)
(* business of module Keyboard.                                            *)
(***************************************************************************)
EXTENDS Naturals

CONSTANTS Wrap,      \* how many values a uint8_t has: 256 in the code
          MaxBytes   \* bound: the bytes the keyboard sends in a behaviour

ASSUME WrapAssumption == Wrap \in Nat /\ Wrap > 1
ASSUME BytesAssumption == MaxBytes \in Nat

VARIABLES key_buffer,         \* memory from KEY_BUFFER_VAL on
          key_buffer_read,    \* uint8_t: index of the oldest byte
          key_buffer_length,  \* uint8_t: bytes waiting
          pc,                 \* where the code that is interrupted stands
          scancode,           \* poll_char's local: the byte it took
          register,           \* the value key_buffer_length-- has loaded
          sent,               \* history: bytes the keyboard has sent
          next,               \* history: ordinal of the byte due to the shell
          slips               \* history: what has disturbed the buffer since
                              \* the last exit: "raced", an interrupt in the
                              \* middle of poll_char's update; "overrun", a
                              \* byte that found the buffer at its last cell

locals == <<scancode, register>>
history == <<sent, next, slips>>
vars == <<key_buffer, key_buffer_read, key_buffer_length, pc, locals, history>>

\* The cells key_buffer_read + key_buffer_length can name: the sum of two
\* uint8_t is an int, it does not wrap.
Cells == 0 .. 2 * (Wrap - 1)
U8 == 0 .. Wrap - 1

Inc(x) == IF x = Wrap - 1 THEN 0 ELSE x + 1

\* Mutant of Dec: key_buffer_length is stored back as it was loaded.
DecForgotten(x) == x
Dec(x) == IF x = 0 THEN Wrap - 1 ELSE x - 1

\* Mutants of Slot: the handler stores at the length, or one cell too far.
SlotFromStart == key_buffer_length
SlotOneOff == key_buffer_read + key_buffer_length + 1
\* Where keyboard_handler stores the next byte.
Slot == key_buffer_read + key_buffer_length

\* Mutant of Waiting: the shell loop only wakes for two bytes.
WaitingTwo == key_buffer_length > 1
Waiting == key_buffer_length # 0

\* poll_char has moved key_buffer_read and not yet stored key_buffer_length.
Updating == pc \in {"fetched", "loaded"}

Init ==
    /\ key_buffer = [c \in Cells |-> 0]
    /\ key_buffer_read = 0 /\ key_buffer_length = 0
    /\ pc = "main"
    /\ scancode = 0 /\ register = 0
    /\ sent = 0 /\ next = 1 /\ slips = {}

(***************************************************************************)
(* keyboard_handler.  It runs behind an interrupt gate, hence atomically.  *)
(***************************************************************************)
keyboard_handler ==
    /\ sent < MaxBytes
    /\ sent' = sent + 1
    /\ key_buffer' = [key_buffer EXCEPT ![Slot] = sent + 1]
    /\ key_buffer_length' = Inc(key_buffer_length)
    /\ slips' = slips \cup (IF Updating THEN {"raced"} ELSE {}) \cup
                (IF Slot >= Wrap \/ key_buffer_length = Wrap - 1
                 THEN {"overrun"} ELSE {})
    /\ UNCHANGED <<key_buffer_read, pc, locals, next>>

(***************************************************************************)
(* kernel_main and poll_char.  Both test the length; between the tests an  *)
(* interrupt may bring it from 255 to 0.  The byte is loaded right after   *)
(* the index, as compiled at -O2.                                          *)
(***************************************************************************)
SeeLength ==
    /\ pc = "main" /\ Waiting
    /\ pc' = "poll"
    /\ UNCHANGED <<key_buffer, key_buffer_read, key_buffer_length, locals, history>>

PollNothing ==
    /\ pc = "poll" /\ key_buffer_length = 0
    /\ pc' = "main"
    /\ UNCHANGED <<key_buffer, key_buffer_read, key_buffer_length, locals, history>>

PollFetch ==
    /\ pc = "poll" /\ key_buffer_length > 0
    /\ scancode' = key_buffer[key_buffer_read]
    /\ key_buffer_read' = Inc(key_buffer_read)
    /\ pc' = "fetched"
    /\ UNCHANGED <<key_buffer, key_buffer_length, register, history>>

PollLoadLength ==
    /\ pc = "fetched"
    /\ register' = key_buffer_length
    /\ pc' = "loaded"
    /\ UNCHANGED <<key_buffer, key_buffer_read, key_buffer_length, scancode, history>>

\* The byte goes to the decoder and the shell; when it completes a `run`
\* command the kernel leaves its loop for the user program.
PollStoreLength ==
    /\ pc = "loaded"
    /\ key_buffer_length' = Dec(register)
    /\ next' = next + 1
    /\ pc' \in {"main", "user"}
    /\ UNCHANGED <<key_buffer, key_buffer_read, locals, sent, slips>>

(***************************************************************************)
(* The exit system call: its stub has executed sti, so a byte may arrive   *)
(* between the two stores.  Afterwards kernel_return enters kernel_main    *)
(* again, and the bytes that were waiting are gone.                        *)
(***************************************************************************)
ExitResetRead ==
    /\ pc = "user"
    /\ key_buffer_read' = 0
    /\ pc' = "exit"
    /\ UNCHANGED <<key_buffer, key_buffer_length, locals, history>>

ExitResetLength ==
    /\ pc = "exit"
    /\ key_buffer_length' = 0
    /\ pc' = "main"
    /\ next' = sent + 1 /\ slips' = {}
    /\ UNCHANGED <<key_buffer, key_buffer_read, locals, sent>>

\* The kernel's own steps.  ExitResetRead is not one of them: a user program
\* is free never to exit.
Kernel ==
    \/ SeeLength \/ PollNothing \/ PollFetch \/ PollLoadLength
    \/ PollStoreLength \/ ExitResetLength

Next == keyboard_handler \/ Kernel \/ ExitResetRead

\* The CPU never stops executing the kernel and every interrupt returns.
Spec == Init /\ [][Next]_vars /\ WF_vars(Kernel)

(***************************************************************************)
(* Properties.                                                             *)
(***************************************************************************)

\* Types.  The index keyboard_handler computes always names a cell: its store
\* stays inside the 511 bytes from KEY_BUFFER_VAL on.
TypeOK ==
    /\ key_buffer \in [Cells -> 0 .. MaxBytes]
    /\ key_buffer_read \in U8 /\ key_buffer_length \in U8 /\ register \in U8
    /\ pc \in {"main", "poll", "fetched", "loaded", "user", "exit"}
    /\ scancode \in 0 .. MaxBytes
    /\ sent \in 0 .. MaxBytes /\ next \in Nat
    /\ slips \subseteq {"raced", "overrun"}

Intact == slips = {}

\* Exactly once and in order: since the last exit, as long as no interrupt
\* has hit the middle of poll_char's update and none has found the buffer at
\* its last cell, the byte poll_char took is the one due, and every byte
\* sent is either handed over or still counted in key_buffer_length.
KeysInOrder ==
    Intact =>
        /\ Updating => scancode = next
        /\ pc # "exit" => next + key_buffer_length = sent + 1

\* Even when interrupts race with poll_char, the shell is never handed more
\* bytes than the keyboard sent, and key_buffer_length-- never starts from
\* zero: a race can lose or replace bytes but not invent them.  Only an
\* overrun can break this.
NoExtraKeys ==
    "overrun" \notin slips =>
        /\ Updating => key_buffer_length >= 1
        /\ pc = "loaded" => register \in 1 .. key_buffer_length
        /\ pc # "exit" =>
              next + (IF pc = "loaded" THEN register ELSE key_buffer_length)
                <= sent + 1

(***************************************************************************)
(* The inductive invariant behind KeysInOrder: the bytes from              *)
(* key_buffer_read on are the oldest ones not handed over, they end before *)
(* the index wraps, and the length poll_char has loaded is still current.  *)
(***************************************************************************)
Left == IF Updating THEN key_buffer_length - 1 ELSE key_buffer_length
First == IF Updating THEN next + 1 ELSE next

WaitingBytes ==
    Intact /\ pc # "exit" =>
        /\ Left > 0 => key_buffer_read + Left <= Wrap
        /\ \A k \in U8 : k < Left => key_buffer[key_buffer_read + k] = First + k
        /\ pc = "loaded" => register = key_buffer_length

IInv == TypeOK /\ KeysInOrder /\ NoExtraKeys /\ WaitingBytes

(***************************************************************************)
(* The buffer as a queue: the bytes from key_buffer_read on that poll_char *)
(* has not taken yet, read off the memory cells, not off ordinals kept on  *)
(* the side.                                                               *)
(***************************************************************************)
Segment(m, a, n) == [k \in 1 .. n |-> m[a + k - 1]]
Bytes == Segment(key_buffer, key_buffer_read, Left)

Kept == Intact /\ pc # "exit"

Queue == INSTANCE KeyQueue WITH
    queue <- IF Kept THEN Bytes ELSE <<>>,
    put <- sent,
    taken <- scancode,
    promise <- IF Kept THEN "kept" ELSE "void"

\* The three globals implement a first-in first-out queue that the exit system
\* call empties, from one break of the promise to the next exit.
ImplementsQueue == Queue!QSpec
==============================================================================
