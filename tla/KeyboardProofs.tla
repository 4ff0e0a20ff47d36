---------------------------- MODULE KeyboardProofs ----------------------------
(***************************************************************************)
(* Proofs about KeyBuffer and Keyboard.  First what the buffer guarantees  *)
(* for every width of the indices and any number of bytes, and that it     *)
(* implements KeyQueue; then Keyboard: seen through its buffer, every step *)
(* of it is one of KeyBuffer or a stutter, so what is proved of the buffer *)
(* holds here; and what the codes mean, for any number of keys, codes and  *)
(* programs.                                                               *)
(***************************************************************************)
EXTENDS Keyboard, FiniteSetTheorems, SequenceTheorems, TLAPS

(***************************************************************************)
(* The buffer: KeyBuffer's Spec.                                           *)
(***************************************************************************)
\* The initial state satisfies the inductive invariant.
LEMMA InitIInv == Init => IInv
<1> SUFFICES ASSUME Init PROVE IInv
  OBVIOUS
<1> USE WrapAssumption, BytesAssumption DEF Init
<1>1. TypeOK
  BY DEF TypeOK, Cells, U8
<1>2. ~Updating /\ Left = 0
  BY DEF Updating, Left
<1>3. KeysInOrder /\ NoExtraKeys
  BY <1>2 DEF KeysInOrder, NoExtraKeys
<1>4. WaitingBytes
  BY <1>2 DEF WaitingBytes, U8
<1> QED
  BY <1>1, <1>3, <1>4 DEF IInv

\* Types are preserved by every step of keyboard_handler, kernel_main,
\* poll_char and the exit system call.
LEMMA StepTypeOK == TypeOK /\ [Next]_vars => TypeOK'
<1> SUFFICES ASSUME TypeOK, [Next]_vars PROVE TypeOK'
  OBVIOUS
<1> USE WrapAssumption, BytesAssumption DEF TypeOK, Cells, U8, history, locals
<1>1. CASE keyboard_handler
  BY <1>1 DEF keyboard_handler, Slot, Inc, Updating
<1>2. CASE SeeLength
  BY <1>2 DEF SeeLength
<1>3. CASE PollNothing
  BY <1>3 DEF PollNothing
<1>4. CASE PollFetch
  BY <1>4 DEF PollFetch, Inc
<1>5. CASE PollLoadLength
  BY <1>5 DEF PollLoadLength
<1>6. CASE PollStoreLength
  BY <1>6 DEF PollStoreLength, Dec
<1>7. CASE ExitResetRead
  BY <1>7 DEF ExitResetRead
<1>8. CASE ExitResetLength
  BY <1>8 DEF ExitResetLength
<1>9. CASE UNCHANGED vars
  BY <1>9 DEF vars
<1> QED
  BY <1>1, <1>2, <1>3, <1>4, <1>5, <1>6, <1>7, <1>8, <1>9 DEF Next, Kernel


\* keyboard_handler, run between any two accesses of the interrupted code,
\* keeps the waiting bytes in order as long as it leaves the buffer intact.
LEMMA HandlerIInv == IInv /\ keyboard_handler => IInv'
<1> SUFFICES ASSUME IInv, keyboard_handler PROVE IInv'
  OBVIOUS
<1> USE WrapAssumption, BytesAssumption DEF U8, Cells, Intact
<1>1. TypeOK /\ TypeOK'
  BY StepTypeOK DEF IInv, Next
<1>2. Updating' = Updating /\ (Updating => "raced" \in slips')
  BY <1>1 DEF keyboard_handler, Updating, TypeOK
<1>3. ASSUME "overrun" \notin slips'
      PROVE  /\ "overrun" \notin slips /\ Slot < Wrap
             /\ key_buffer_length' = key_buffer_length + 1
  BY <1>1, <1>3 DEF keyboard_handler, Inc, TypeOK, Slot
<1>4. NoExtraKeys'
  <2> SUFFICES ASSUME "overrun" \notin slips' PROVE NoExtraKeys'
    BY DEF NoExtraKeys
  <2>1. NoExtraKeys!2
    BY <1>3 DEF IInv, NoExtraKeys
  <2> QED
    BY <1>1, <1>2, <1>3, <2>1 DEF NoExtraKeys, keyboard_handler, TypeOK, locals
<1>5. ASSUME Intact'
      PROVE  Intact /\ ~Updating /\ ~Updating'
  BY <1>2, <1>3, <1>5, <1>1 DEF keyboard_handler, TypeOK
<1>6. KeysInOrder'
  <2> SUFFICES ASSUME Intact' PROVE KeysInOrder'
    BY DEF KeysInOrder
  <2>1. /\ key_buffer_length' = key_buffer_length + 1
        /\ next' = next /\ sent' = sent + 1 /\ pc' = pc
    BY <1>3 DEF keyboard_handler
  <2>2. pc # "exit" => next + key_buffer_length = sent + 1
    BY <1>5 DEF IInv, KeysInOrder
  <2>3. pc' # "exit" => next' + key_buffer_length' = sent' + 1
    BY <1>1, <2>1, <2>2 DEF TypeOK
  <2> QED
    BY <1>5, <2>3 DEF KeysInOrder
<1>7. WaitingBytes'
  <2> SUFFICES ASSUME Intact', pc' # "exit" PROVE WaitingBytes'
    BY DEF WaitingBytes
  <2>1. /\ Left = key_buffer_length /\ First = next
        /\ Left' = key_buffer_length + 1 /\ First' = next
    BY <1>3, <1>5, <1>1 DEF Left, First, keyboard_handler
  <2>2. /\ key_buffer_read' = key_buffer_read
        /\ key_buffer_read + key_buffer_length < Wrap
        /\ key_buffer' = [key_buffer EXCEPT
                            ![key_buffer_read + key_buffer_length] = sent + 1]
        /\ pc' = pc /\ pc # "loaded"
    BY <1>3, <1>5, <1>1 DEF keyboard_handler, Slot, Updating
  <2>3. next + key_buffer_length = sent + 1
    BY <1>5, <2>2 DEF IInv, KeysInOrder
  <2>4. ASSUME NEW k \in U8, k < Left'
        PROVE  key_buffer'[key_buffer_read' + k] = First' + k
    <3>1. CASE k = key_buffer_length
      BY <1>1, <2>1, <2>2, <2>3, <3>1 DEF TypeOK
    <3>2. CASE k # key_buffer_length
      <4>1. k < key_buffer_length
        BY <1>1, <2>1, <2>4, <3>2 DEF TypeOK
      <4>2. key_buffer[key_buffer_read + k] = next + k
        BY <4>1, <2>1, <1>5, <2>2 DEF IInv, WaitingBytes
      <4> QED
        BY <1>1, <2>1, <2>2, <4>1, <4>2 DEF TypeOK
    <3> QED
      BY <3>1, <3>2
  <2> QED
    BY <1>1, <2>1, <2>2, <2>4 DEF WaitingBytes, TypeOK
<1> QED
  BY <1>1, <1>4, <1>6, <1>7 DEF IInv

\* The steps of kernel_main and poll_char that store nothing.
LEMMA LookIInv == IInv /\ (SeeLength \/ PollNothing) => IInv'
<1> SUFFICES ASSUME IInv, SeeLength \/ PollNothing PROVE IInv'
  OBVIOUS
<1>1. TypeOK'
  BY StepTypeOK DEF IInv, Next, Kernel
<1>2. /\ pc \in {"main", "poll"} /\ pc' \in {"main", "poll"}
      /\ UNCHANGED <<key_buffer, key_buffer_read, key_buffer_length, register,
                     scancode, sent, next, slips>>
  BY DEF SeeLength, PollNothing, locals, history
<1>3. ~Updating /\ ~Updating'
  BY <1>2 DEF Updating
<1>4. KeysInOrder' /\ NoExtraKeys'
  BY <1>2, <1>3 DEF IInv, KeysInOrder, NoExtraKeys, Intact
<1>5. WaitingBytes'
  BY <1>2, <1>3 DEF IInv, WaitingBytes, Intact, Left, First
<1> QED
  BY <1>1, <1>4, <1>5 DEF IInv

\* poll_char takes the byte at key_buffer_read and moves the index past it.
LEMMA FetchIInv == IInv /\ PollFetch => IInv'
<1> SUFFICES ASSUME IInv, PollFetch PROVE IInv'
  OBVIOUS
<1> USE WrapAssumption, BytesAssumption DEF Intact
<1>1. TypeOK /\ TypeOK'
  BY StepTypeOK DEF IInv, Next, Kernel
<1>2. /\ pc = "poll" /\ pc' = "fetched" /\ key_buffer_length > 0
      /\ scancode' = key_buffer[key_buffer_read]
      /\ key_buffer_read' = Inc(key_buffer_read)
      /\ UNCHANGED <<key_buffer, key_buffer_length, register, sent, next, slips>>
  BY DEF PollFetch, history
<1>3. ~Updating /\ Updating'
  BY <1>2 DEF Updating
<1>4. /\ Left = key_buffer_length /\ First = next
      /\ Left' = key_buffer_length - 1 /\ First' = next + 1
  BY <1>2, <1>3 DEF Left, First
<1>5. ASSUME Intact
      PROVE  /\ key_buffer_read + key_buffer_length <= Wrap
             /\ \A k \in U8 : k < key_buffer_length =>
                   key_buffer[key_buffer_read + k] = next + k
             /\ next + key_buffer_length = sent + 1
  BY <1>2, <1>4, <1>5 DEF IInv, WaitingBytes, KeysInOrder
<1>6. KeysInOrder'
  <2> SUFFICES ASSUME Intact' PROVE KeysInOrder'
    BY DEF KeysInOrder
  <2>1. key_buffer[key_buffer_read + 0] = next + 0
    BY <1>1, <1>2, <1>5 DEF TypeOK, U8
  <2>2. scancode' = next'
    BY <1>1, <1>2, <2>1 DEF TypeOK, U8
  <2> QED
    BY <1>2, <1>5, <2>2 DEF KeysInOrder
<1>7. NoExtraKeys'
  BY <1>1, <1>2, <1>3 DEF IInv, NoExtraKeys, TypeOK, U8
<1>8. WaitingBytes'
  <2> SUFFICES ASSUME Intact' PROVE WaitingBytes'
    BY DEF WaitingBytes
  <2>1. Left' > 0 => /\ key_buffer_read' = key_buffer_read + 1
                     /\ key_buffer_read' + Left' <= Wrap
    BY <1>1, <1>2, <1>4, <1>5 DEF TypeOK, U8, Inc
  <2>2. ASSUME NEW k \in U8, k < Left'
        PROVE  key_buffer'[key_buffer_read' + k] = First' + k
    <3>1. k + 1 \in U8 /\ k + 1 < key_buffer_length /\ Left' > 0
      BY <1>1, <1>4, <2>2 DEF TypeOK, U8
    <3>2. key_buffer[key_buffer_read + (k + 1)] = next + (k + 1)
      BY <1>2, <1>5, <3>1
    <3>3. key_buffer_read' + k = key_buffer_read + (k + 1)
      BY <1>1, <2>1, <3>1 DEF TypeOK, U8
    <3> QED
      BY <1>1, <1>2, <1>4, <3>2, <3>3 DEF TypeOK, U8
  <2> QED
    BY <1>2, <2>1, <2>2 DEF WaitingBytes
<1> QED
  BY <1>1, <1>6, <1>7, <1>8 DEF IInv

\* key_buffer_length-- begins: the length is loaded.
LEMMA LoadIInv == IInv /\ PollLoadLength => IInv'
<1> SUFFICES ASSUME IInv, PollLoadLength PROVE IInv'
  OBVIOUS
<1> USE DEF Intact
<1>1. TypeOK /\ TypeOK'
  BY StepTypeOK DEF IInv, Next, Kernel
<1>2. /\ pc = "fetched" /\ pc' = "loaded" /\ register' = key_buffer_length
      /\ UNCHANGED <<key_buffer, key_buffer_read, key_buffer_length, scancode,
                     sent, next, slips>>
  BY DEF PollLoadLength, history
<1>3. Updating /\ Updating'
  BY <1>2 DEF Updating
<1>4. KeysInOrder'
  BY <1>2, <1>3 DEF IInv, KeysInOrder
<1>5. NoExtraKeys'
  BY <1>1, <1>2, <1>3, WrapAssumption DEF IInv, NoExtraKeys, TypeOK, U8
<1>6. WaitingBytes'
  BY <1>2, <1>3 DEF IInv, WaitingBytes, Left, First
<1> QED
  BY <1>1, <1>4, <1>5, <1>6 DEF IInv

\* key_buffer_length-- ends: the byte is the shell's.
LEMMA StoreIInv == IInv /\ PollStoreLength => IInv'
<1> SUFFICES ASSUME IInv, PollStoreLength PROVE IInv'
  OBVIOUS
<1> USE WrapAssumption DEF Intact
<1>1. TypeOK /\ TypeOK'
  BY StepTypeOK DEF IInv, Next, Kernel
<1>2. /\ pc = "loaded" /\ pc' \in {"main", "user"}
      /\ key_buffer_length' = Dec(register) /\ next' = next + 1
      /\ UNCHANGED <<key_buffer, key_buffer_read, register, scancode, sent, slips>>
  BY DEF PollStoreLength, locals
<1>3. Updating /\ ~Updating' /\ pc' # "exit" /\ pc' # "loaded"
  BY <1>2 DEF Updating
<1>4. ASSUME "overrun" \notin slips
      PROVE  register >= 1 /\ next + register <= sent + 1
             /\ key_buffer_length' = register - 1
  <2>1. register \in 1 .. key_buffer_length /\ next + register <= sent + 1
    BY <1>2, <1>4 DEF IInv, NoExtraKeys
  <2> QED
    BY <1>1, <1>2, <2>1 DEF TypeOK, U8, Dec
<1>5. NoExtraKeys'
  <2> SUFFICES ASSUME "overrun" \notin slips' PROVE NoExtraKeys'
    BY DEF NoExtraKeys
  <2>1. next' + key_buffer_length' <= sent' + 1
    BY <1>1, <1>2, <1>4 DEF TypeOK, U8
  <2> QED
    BY <1>3, <2>1 DEF NoExtraKeys
<1>6. ASSUME Intact
      PROVE  /\ register = key_buffer_length
             /\ next + key_buffer_length = sent + 1
             /\ Left = key_buffer_length - 1 /\ First = next + 1
             /\ Left' = key_buffer_length - 1 /\ First' = next + 1
  BY <1>1, <1>2, <1>3, <1>4, <1>6
  DEF IInv, KeysInOrder, WaitingBytes, Left, First, TypeOK
<1>7. KeysInOrder'
  <2> SUFFICES ASSUME Intact PROVE KeysInOrder'
    BY <1>2 DEF KeysInOrder
  <2>1. next' + key_buffer_length' = sent' + 1
    BY <1>1, <1>2, <1>4, <1>6 DEF TypeOK, U8
  <2> QED
    BY <1>3, <2>1 DEF KeysInOrder
<1>8. WaitingBytes'
  BY <1>2, <1>3, <1>6 DEF IInv, WaitingBytes
<1> QED
  BY <1>1, <1>5, <1>7, <1>8 DEF IInv

\* The exit system call throws the waiting bytes away.
LEMMA ExitIInv == IInv /\ (ExitResetRead \/ ExitResetLength) => IInv'
<1> SUFFICES ASSUME IInv, ExitResetRead \/ ExitResetLength PROVE IInv'
  OBVIOUS
<1> USE WrapAssumption DEF Intact
<1>1. TypeOK /\ TypeOK'
  BY StepTypeOK DEF IInv, Next, Kernel
<1>2. ~Updating /\ ~Updating'
  BY DEF ExitResetRead, ExitResetLength, Updating
<1>3. CASE ExitResetRead
  BY <1>1, <1>2, <1>3
  DEF ExitResetRead, IInv, KeysInOrder, NoExtraKeys, WaitingBytes, history
<1>4. CASE ExitResetLength
  <2>1. /\ key_buffer_length' = 0 /\ next' = sent + 1 /\ sent' = sent
        /\ pc' = "main" /\ Left' = 0
    BY <1>2, <1>4 DEF ExitResetLength, Left
  <2>2. KeysInOrder' /\ NoExtraKeys'
    BY <1>1, <1>2, <2>1 DEF KeysInOrder, NoExtraKeys, TypeOK
  <2>3. WaitingBytes'
    BY <2>1 DEF WaitingBytes, U8
  <2> QED
    BY <1>1, <2>2, <2>3 DEF IInv
<1> QED
  BY <1>3, <1>4

\* IInv is inductive.
LEMMA StepIInv == IInv /\ [Next]_vars => IInv'
<1> SUFFICES ASSUME IInv, [Next]_vars PROVE IInv'
  OBVIOUS
<1>1. CASE Next
  BY <1>1, HandlerIInv, LookIInv, FetchIInv, LoadIInv, StoreIInv, ExitIInv
  DEF Next, Kernel
<1>2. CASE UNCHANGED vars
  BY <1>2 DEF vars, locals, history, IInv, TypeOK, KeysInOrder, NoExtraKeys,
              WaitingBytes, Updating, Left, First, Intact
<1> QED
  BY <1>1, <1>2

\* Every reachable state of the keyboard buffer satisfies IInv.
THEOREM Inductive == Spec => []IInv
<1> QED
  BY InitIInv, StepIInv, PTL DEF Spec

\* keyboard_handler never stores outside the 2 * Wrap - 1 cells from
\* KEY_BUFFER_VAL on, and the two uint8_t indices stay in range, whatever the
\* interleaving.
THEOREM TypeCorrect == Spec => []TypeOK
<1>1. IInv => TypeOK
  BY DEF IInv
<1> QED
  BY <1>1, Inductive, PTL

\* Keys reach the shell exactly once and in order, for every width of the
\* indices and any number of bytes, until a byte races with poll_char's
\* update or finds the buffer at its last cell.
THEOREM InOrder == Spec => []KeysInOrder
<1>1. IInv => KeysInOrder
  BY DEF IInv
<1> QED
  BY <1>1, Inductive, PTL

\* Interrupts that race with poll_char lose or replace bytes but never make
\* the shell read a byte that was not sent.
THEOREM NoExtra == Spec => []NoExtraKeys
<1>1. IInv => NoExtraKeys
  BY DEF IInv
<1> QED
  BY <1>1, Inductive, PTL

(***************************************************************************)
(* The refinement: seen through Bytes and Kept, the three globals take the *)
(* steps of KeyQueue.  Only the steps that break or mend the promise need  *)
(* no invariant.                                                           *)
(***************************************************************************)

\* Two sequences of bytes with the same elements are one.
LEMMA SameSeq ==
  ASSUME NEW s \in Seq(Nat), NEW t \in Seq(Nat), Len(s) = Len(t),
         \A k \in 1 .. Len(s) : s[k] = t[k]
  PROVE  s = t
  OBVIOUS

\* A segment of the cells is a sequence of bytes.
LEMMA SegmentSeq ==
  ASSUME NEW m \in [Cells -> Nat], NEW a \in Nat, NEW n \in Nat, a + n <= Wrap
  PROVE  Segment(m, a, n) \in Seq(Nat) /\ Len(Segment(m, a, n)) = n
<1>1. ASSUME NEW k \in 1 .. n PROVE m[a + k - 1] \in Nat
  <2>1. a + k - 1 \in Cells
    BY WrapAssumption DEF Cells
  <2> QED
    BY <2>1
<1> QED
  BY <1>1 DEF Segment

\* Without its first cell, a segment is the segment from the next cell on.
LEMMA SegmentTail ==
  ASSUME NEW m \in [Cells -> Nat], NEW a \in Nat, NEW n \in Nat \ {0}, a + n <= Wrap
  PROVE  /\ Head(Segment(m, a, n)) = m[a]
         /\ Tail(Segment(m, a, n)) = Segment(m, a + 1, n - 1)
<1>1. Segment(m, a, n) \in Seq(Nat) /\ Len(Segment(m, a, n)) = n
  BY SegmentSeq
<1>2. Segment(m, a + 1, n - 1) \in Seq(Nat) /\ Len(Segment(m, a + 1, n - 1)) = n - 1
  <2>1. n - 1 \in Nat /\ a + 1 \in Nat /\ (a + 1) + (n - 1) <= Wrap
    BY WrapAssumption
  <2> QED
    BY <2>1, SegmentSeq
<1>3. Tail(Segment(m, a, n)) \in Seq(Nat) /\ Len(Tail(Segment(m, a, n))) = n - 1
  BY <1>1
<1>4. \A k \in 1 .. n - 1 : Tail(Segment(m, a, n))[k] = Segment(m, a + 1, n - 1)[k]
  BY <1>1 DEF Segment
<1>5. Head(Segment(m, a, n)) = m[a]
  BY <1>1 DEF Segment
<1> QED
  BY <1>2, <1>3, <1>4, <1>5, SameSeq

\* A byte stored in the cell after a segment extends it.
LEMMA SegmentAppend ==
  ASSUME NEW m \in [Cells -> Nat], NEW a \in Nat, NEW n \in Nat, a + n < Wrap,
         NEW x \in Nat
  PROVE  Segment([m EXCEPT ![a + n] = x], a, n + 1) = Append(Segment(m, a, n), x)
<1> DEFINE w == [m EXCEPT ![a + n] = x]
           s == Segment(w, a, n + 1)
<1>1. Segment(m, a, n) \in Seq(Nat) /\ Len(Segment(m, a, n)) = n
  BY SegmentSeq, WrapAssumption
<1>2. s \in Seq(Nat) /\ Len(s) = n + 1
  <2>1. w \in [Cells -> Nat] /\ n + 1 \in Nat /\ a + (n + 1) <= Wrap
    BY WrapAssumption DEF Cells
  <2> HIDE DEF w
  <2> QED
    BY <2>1, SegmentSeq
<1>3. /\ Append(Segment(m, a, n), x) \in Seq(Nat)
      /\ Len(Append(Segment(m, a, n), x)) = n + 1
  BY <1>1
<1>4. \A k \in 1 .. n + 1 : Append(Segment(m, a, n), x)[k] = s[k]
  BY <1>1, WrapAssumption DEF Segment, Cells
<1> HIDE DEF s
<1>5. s = Append(Segment(m, a, n), x)
  BY <1>2, <1>3, <1>4, SameSeq
<1> QED
  BY <1>5 DEF s

\* The byte keyboard_handler stores goes to the end of the queue, or the
\* promise is broken.
LEMMA HandlerQueues == IInv /\ keyboard_handler => Queue!Put \/ Queue!Breakdown
<1> SUFFICES ASSUME IInv, keyboard_handler PROVE Queue!Put \/ Queue!Breakdown
  OBVIOUS
<1> USE WrapAssumption, BytesAssumption DEF U8, Intact
<1>1. TypeOK /\ TypeOK'
  BY StepTypeOK DEF IInv, Next
<1>2. pc' = pc /\ sent' = sent + 1 /\ scancode' = scancode
  BY DEF keyboard_handler, locals
<1>3. CASE ~Kept'
  BY <1>1, <1>2, <1>3 DEF Queue!Breakdown, TypeOK
<1>4. CASE Kept'
  <2>1. /\ Kept /\ ~Updating /\ ~Updating' /\ Slot < Wrap
        /\ key_buffer_length' = key_buffer_length + 1
    <3>1. slips' = {} /\ slips = {} /\ ~Updating
          /\ ~(Slot >= Wrap \/ key_buffer_length = Wrap - 1)
      BY <1>4 DEF Kept, keyboard_handler
    <3> QED
      BY <1>1, <1>2, <1>4, <3>1 DEF Kept, keyboard_handler, Inc, Slot, TypeOK, Updating
  <2>2. /\ Left = key_buffer_length /\ First = next
        /\ Left' = key_buffer_length + 1
        /\ next + key_buffer_length = sent + 1
        /\ key_buffer_read' = key_buffer_read
        /\ key_buffer' = [key_buffer EXCEPT
                             ![key_buffer_read + key_buffer_length] = sent + 1]
    BY <2>1 DEF Kept, Left, First, IInv, KeysInOrder, keyboard_handler, Slot
  <2>3. /\ key_buffer \in [Cells -> Nat]
        /\ key_buffer_read + key_buffer_length < Wrap
        /\ key_buffer_read \in Nat /\ key_buffer_length \in Nat /\ sent + 1 \in Nat
    BY <1>1, <2>1 DEF TypeOK, Slot
  <2>4. Bytes' = Append(Bytes, sent + 1)
    BY <2>2, <2>3, SegmentAppend DEF Bytes
  <2> QED
    BY <1>2, <1>4, <2>1, <2>4 DEF Queue!Put, Kept
<1> QED
  BY <1>3, <1>4

\* The byte poll_char loads is the head of the queue.
LEMMA FetchTakes == IInv /\ PollFetch => Queue!Take \/ Queue!Breakdown
<1> SUFFICES ASSUME IInv, PollFetch PROVE Queue!Take \/ Queue!Breakdown
  OBVIOUS
<1> USE WrapAssumption, BytesAssumption DEF U8, Intact
<1>1. TypeOK /\ TypeOK'
  BY StepTypeOK DEF IInv, Next, Kernel
<1>2. /\ pc = "poll" /\ pc' = "fetched" /\ key_buffer_length > 0
      /\ scancode' = key_buffer[key_buffer_read]
      /\ key_buffer_read' = Inc(key_buffer_read)
      /\ UNCHANGED <<key_buffer, key_buffer_length, sent, slips>>
  BY DEF PollFetch, history
<1>3. Kept' = Kept
  BY <1>2 DEF Kept
<1>4. CASE ~Kept
  BY <1>1, <1>2, <1>3, <1>4 DEF Queue!Breakdown, TypeOK
<1>5. CASE Kept
  <2>1. /\ Left = key_buffer_length /\ Left' = key_buffer_length - 1
        /\ key_buffer_read + key_buffer_length <= Wrap
    BY <1>1, <1>2, <1>5 DEF Left, Updating, Kept, IInv, WaitingBytes
  <2>2. /\ key_buffer \in [Cells -> Nat]
        /\ key_buffer_read \in Nat /\ key_buffer_length \in Nat \ {0}
    BY <1>1, <1>2 DEF TypeOK
  <2>3. /\ Bytes \in Seq(Nat) /\ Len(Bytes) = key_buffer_length
        /\ Head(Bytes) = key_buffer[key_buffer_read]
        /\ Tail(Bytes) = Segment(key_buffer, key_buffer_read + 1, key_buffer_length - 1)
    BY <2>1, <2>2, SegmentSeq, SegmentTail DEF Bytes
  <2>4. Left' > 0 => key_buffer_read' = key_buffer_read + 1
    BY <1>1, <1>2, <2>1 DEF Inc, TypeOK
  <2>5. Bytes' = Tail(Bytes)
    <3>1. CASE Left' > 0
      BY <1>2, <2>1, <2>3, <2>4, <3>1 DEF Bytes
    <3>2. CASE ~(Left' > 0)
      <4>1. Left' = 0 /\ key_buffer_length - 1 = 0
        BY <2>1, <2>2, <3>2
      <4> QED
        BY <2>1, <2>3, <4>1 DEF Bytes, Segment
    <3> QED
      BY <3>1, <3>2
  <2>6. Bytes # <<>>
    BY <2>2, <2>3
  <2> QED
    BY <1>2, <1>3, <1>5, <2>3, <2>5, <2>6 DEF Queue!Take
<1> QED
  BY <1>4, <1>5

\* key_buffer_length-- only records what poll_char has taken.
LEMMA StoreStutters ==
    IInv /\ (SeeLength \/ PollNothing \/ PollLoadLength \/ PollStoreLength)
        => UNCHANGED Queue!qvars
<1> SUFFICES ASSUME IInv,
                    SeeLength \/ PollNothing \/ PollLoadLength \/ PollStoreLength
             PROVE  UNCHANGED Queue!qvars
  OBVIOUS
<1> USE WrapAssumption DEF Intact
<1>1. TypeOK
  BY DEF IInv
<1>2. /\ Kept' = Kept
      /\ UNCHANGED <<key_buffer, key_buffer_read, scancode, sent>>
  BY DEF SeeLength, PollNothing, PollLoadLength, PollStoreLength, Kept, locals, history
<1>3. Kept => Left' = Left
  <2>1. CASE PollStoreLength
    BY <1>1, <2>1 DEF PollStoreLength, IInv, KeysInOrder, NoExtraKeys, WaitingBytes,
                      Kept, Left, Updating, Dec, TypeOK, U8
  <2>2. CASE SeeLength \/ PollNothing \/ PollLoadLength
    BY <2>2 DEF SeeLength, PollNothing, PollLoadLength, Left, Updating
  <2> QED
    BY <2>1, <2>2
<1>4. Kept => Bytes' = Bytes
  BY <1>2, <1>3 DEF Bytes
<1> QED
  BY <1>2, <1>4 DEF Queue!qvars

\* Between its two stores the exit system call has broken the promise; the
\* second leaves an empty queue.
LEMMA ExitFlushes ==
    IInv /\ (ExitResetRead \/ ExitResetLength) => Queue!Flush \/ Queue!Breakdown
<1> SUFFICES ASSUME IInv, ExitResetRead \/ ExitResetLength
             PROVE  Queue!Flush \/ Queue!Breakdown
  OBVIOUS
<1>1. CASE ExitResetRead
  BY <1>1 DEF ExitResetRead, Kept, Queue!Breakdown, IInv, TypeOK, locals, history
<1>2. CASE ExitResetLength
  <2>1. Kept' /\ sent' = sent /\ scancode' = scancode /\ Left' = 0
    BY <1>2 DEF ExitResetLength, Kept, Intact, Left, Updating, locals
  <2>2. Bytes' = <<>>
    BY <2>1 DEF Bytes, Segment
  <2> QED
    BY <2>1, <2>2 DEF Queue!Flush
<1> QED
  BY <1>1, <1>2

\* Every step on the buffer is a step of the queue.
LEMMA StepQueue == IInv /\ [Next]_vars => [Queue!QNext]_(Queue!qvars)
<1> SUFFICES ASSUME IInv, [Next]_vars PROVE [Queue!QNext]_(Queue!qvars)
  OBVIOUS
<1>1. CASE Next
  BY <1>1, HandlerQueues, FetchTakes, StoreStutters, ExitFlushes
  DEF Next, Kernel, Queue!QNext
<1>2. CASE UNCHANGED vars
  BY <1>2 DEF vars, locals, history, Queue!qvars, Kept, Intact, Bytes, Left, Updating
<1> QED
  BY <1>1, <1>2

\* The empty buffer is the empty queue.
LEMMA InitQueue == Init => Queue!QInit
<1> SUFFICES ASSUME Init PROVE Queue!QInit
  OBVIOUS
<1>1. Kept /\ Left = 0
  BY DEF Init, Kept, Intact, Left, Updating
<1>2. Bytes = <<>>
  BY <1>1 DEF Bytes, Segment
<1> QED
  BY <1>1, <1>2 DEF Init, Queue!QInit

\* For every width of the indices and however the interrupt interleaves, the
\* memory cells between the two indices behave as a first-in first-out queue:
\* no byte lost, doubled or out of order, from one break of the promise to
\* the exit that mends it.
THEOREM BufferIsQueue == Spec => ImplementsQueue
<1> QED
  BY InitQueue, StepQueue, Inductive, PTL DEF Spec, ImplementsQueue, Queue!QSpec

(***************************************************************************)
(* The whole path of a key: Keyboard's KSpec.                              *)
(***************************************************************************)
\* A key pressed or released leaves the buffer alone; a delivery, a decoded
\* byte, a look and an exit are each one access to it.
LEMMA StepOfBuffer == [KNext]_allVars => [Next]_vars
<1> SUFFICES ASSUME [KNext]_allVars PROVE [Next]_vars
  OBVIOUS
<1>1. CASE \E key \in Keys : Press(key) \/ Release(key)
  BY <1>1 DEF Press, Release
<1>2. CASE Deliver
  BY <1>2 DEF Deliver, Next
<1>3. CASE DecodeStep \/ ReadStep
  BY <1>3 DEF DecodeStep, ReadStep, Next, Kernel
<1>4. CASE ExitBegins \/ ExitEnds
  BY <1>4 DEF ExitBegins, ExitEnds, Next, Kernel
<1>5. CASE UNCHANGED allVars
  BY <1>5 DEF allVars
<1> QED
  BY <1>1, <1>2, <1>3, <1>4, <1>5 DEF KNext

\* The buffer's invariant in the whole keyboard path: what decodes the bytes
\* never disturbs it.
THEOREM BufferInductive == KSpec => []IInv
<1>1. KInit => IInv
  BY InitIInv DEF KInit
<1>2. IInv /\ [KNext]_allVars => IInv'
  BY StepOfBuffer, StepIInv
<1> QED
  BY <1>1, <1>2, PTL DEF KSpec

\* Keys reach poll_char once and in order until a race or an overrun.
THEOREM DecodedInOrder == KSpec => []KeysInOrder
<1>1. IInv => KeysInOrder
  BY DEF IInv
<1> QED
  BY <1>1, BufferInductive, PTL

\* poll_char never decodes more bytes than the keyboard has sent.
THEOREM DecodedNoExtra == KSpec => []NoExtraKeys
<1>1. IInv => NoExtraKeys
  BY DEF IInv
<1> QED
  BY <1>1, BufferInductive, PTL

\* The buffer is a queue under everything that happens around it.
THEOREM DecodedFromQueue == KSpec => ImplementsQueue
<1>1. KInit => Queue!QInit
  BY InitQueue DEF KInit
<1>2. IInv /\ [KNext]_allVars => [Queue!QNext]_(Queue!qvars)
  BY StepOfBuffer, StepQueue
<1> QED
  BY <1>1, <1>2, BufferInductive, PTL DEF KSpec, ImplementsQueue, Queue!QSpec

(***************************************************************************)
(* What a sequence of codes tells.                                         *)
(***************************************************************************)
\* The codes that type are finitely many, no more than there are codes.
LEMMA TypedByNat ==
  ASSUME NEW s, NEW i \in Nat
  PROVE  IsFiniteSet(Makes(s, i)) /\ TypedBy(s, i) \in Nat
<1>1. IsFiniteSet(1 .. i)
  BY FS_Interval
<1>2. Makes(s, i) \subseteq 1 .. i
  BY DEF Makes
<1> QED
  BY <1>1, <1>2, FS_Subset, FS_CardinalityType DEF TypedBy

\* One code more types one character more or none.
LEMMA TypedByStep ==
  ASSUME NEW s, NEW i \in Nat
  PROVE  TypedBy(s, i + 1) =
            TypedBy(s, i) + IF s[i + 1] \in Letters /\ ~Prefixed(s, i + 1) THEN 1 ELSE 0
<1>1. IsFiniteSet(Makes(s, i)) /\ TypedBy(s, i) \in Nat
  BY TypedByNat
<1>2. CASE s[i + 1] \in Letters /\ ~Prefixed(s, i + 1)
  <2>1. Makes(s, i + 1) = Makes(s, i) \cup {i + 1} /\ i + 1 \notin Makes(s, i)
    BY <1>2 DEF Makes
  <2> QED
    BY <1>1, <1>2, <2>1, FS_AddElement DEF TypedBy
<1>3. CASE ~(s[i + 1] \in Letters /\ ~Prefixed(s, i + 1))
  <2>1. Makes(s, i + 1) = Makes(s, i)
    BY <1>3 DEF Makes
  <2> QED
    BY <1>1, <1>3, <2>1 DEF TypedBy
<1> QED
  BY <1>2, <1>3

\* More codes never type less.
LEMMA TypedByGrows ==
  ASSUME NEW s, NEW i \in Nat, NEW j \in Nat, i <= j
  PROVE  TypedBy(s, i) <= TypedBy(s, j)
<1>1. Makes(s, i) \subseteq Makes(s, j)
  BY DEF Makes
<1> QED
  BY <1>1, TypedByNat, FS_Subset DEF TypedBy

\* A code that types counts itself, among the first of any codes it is one of.
LEMMA TypedByCounts ==
  ASSUME NEW s, NEW n \in Nat, NEW i \in 1 .. n, i \in Makes(s, i)
  PROVE  TypedBy(s, i) \in 1 .. TypedBy(s, n)
<1>1. i \in Nat /\ i - 1 \in Nat /\ (i - 1) + 1 = i /\ i <= n
  OBVIOUS
<1>2. TypedBy(s, (i - 1) + 1) =
         TypedBy(s, i - 1) + IF s[(i - 1) + 1] \in Letters /\ ~Prefixed(s, (i - 1) + 1)
                             THEN 1 ELSE 0
  BY <1>1, TypedByStep
<1>3. TypedBy(s, i) = TypedBy(s, i - 1) + 1
  BY <1>1, <1>2 DEF Makes
<1>4. TypedBy(s, i - 1) \in Nat /\ TypedBy(s, i) \in Nat /\ TypedBy(s, n) \in Nat
  BY <1>1, TypedByNat
<1>5. TypedBy(s, i) <= TypedBy(s, n)
  BY <1>1, TypedByGrows
<1> QED
  BY <1>3, <1>4, <1>5

\* Only the codes of shift, pressed or released, change what is known of it.
LEMMA ShiftStep ==
  ASSUME NEW s, NEW i \in Nat
  PROVE  ShiftAfter(s, i + 1) <=>
            IF s[i + 1] = Shift THEN ~Prefixed(s, i + 1) ELSE ShiftAfter(s, i)
<1>1. CASE s[i + 1] = Shift
  <2>1. ASSUME ~Prefixed(s, i + 1) PROVE ShiftAfter(s, i + 1)
    BY <1>1, <2>1 DEF ShiftAfter
  <2>2. ASSUME ShiftAfter(s, i + 1) PROVE ~Prefixed(s, i + 1)
    <3>1. PICK j \in 1 .. i + 1 : /\ s[j] = Shift /\ ~Prefixed(s, j)
                                  /\ \A k \in j + 1 .. i + 1 : s[k] # Shift
      BY <2>2 DEF ShiftAfter
    <3>2. j = i + 1
      BY <1>1, <3>1
    <3> QED
      BY <3>1, <3>2
  <2> QED
    BY <1>1, <2>1, <2>2
<1>2. CASE s[i + 1] # Shift
  <2>1. ASSUME ShiftAfter(s, i) PROVE ShiftAfter(s, i + 1)
    <3>1. PICK j \in 1 .. i : /\ s[j] = Shift /\ ~Prefixed(s, j)
                              /\ \A k \in j + 1 .. i : s[k] # Shift
      BY <2>1 DEF ShiftAfter
    <3>2. j \in 1 .. i + 1 /\ \A k \in j + 1 .. i + 1 : s[k] # Shift
      BY <1>2, <3>1
    <3> QED
      BY <3>1, <3>2 DEF ShiftAfter
  <2>2. ASSUME ShiftAfter(s, i + 1) PROVE ShiftAfter(s, i)
    <3>1. PICK j \in 1 .. i + 1 : /\ s[j] = Shift /\ ~Prefixed(s, j)
                                  /\ \A k \in j + 1 .. i + 1 : s[k] # Shift
      BY <2>2 DEF ShiftAfter
    <3>2. j \in 1 .. i /\ \A k \in j + 1 .. i : s[k] # Shift
      BY <1>2, <3>1
    <3> QED
      BY <3>1, <3>2 DEF ShiftAfter
  <2> QED
    BY <1>2, <2>1, <2>2
<1> QED
  BY <1>1, <1>2

\* Codes that come later change nothing of what the first i tell.
LEMMA SameBefore ==
  ASSUME NEW s, NEW t, NEW n \in Nat, \A k \in 1 .. n : t[k] = s[k]
  PROVE  \A i \in 0 .. n : /\ Makes(t, i) = Makes(s, i)
                           /\ TypedBy(t, i) = TypedBy(s, i)
                           /\ ShiftAfter(t, i) <=> ShiftAfter(s, i)
                           /\ Prefixed(t, i + 1) <=> Prefixed(s, i + 1)
<1> TAKE i \in 0 .. n
<1>1. \A j \in 1 .. i + 1 : Prefixed(t, j) <=> Prefixed(s, j)
  BY DEF Prefixed
<1>2. Makes(t, i) = Makes(s, i)
  BY <1>1 DEF Makes
<1>3. ShiftAfter(t, i) <=> ShiftAfter(s, i)
  BY <1>1 DEF ShiftAfter
<1> QED
  BY <1>1, <1>2, <1>3 DEF TypedBy

(***************************************************************************)
(* KIInv is inductive.                                                     *)
(***************************************************************************)

\* The initial state satisfies it.
LEMMA InitKIInv == KInit => KIInv
<1> SUFFICES ASSUME KInit PROVE KIInv
  OBVIOUS
<1> USE DEF KInit, Init
<1>1. IInv
  BY InitIInv
<1>2. KTypeOK
  BY <1>1 DEF IInv, KTypeOK
<1>3. Codes = <<>> /\ Len(Codes) = 0 /\ Makes(Codes, 0) = {} /\ TypedBy(Codes, 0) = 0
  BY FS_EmptySet DEF Codes, Makes, TypedBy
<1>4. ~ShiftAfter(Codes, 0) /\ ~Prefixed(Codes, 1)
  BY DEF ShiftAfter, Prefixed
<1>5. CodesTell
  BY <1>3, <1>4 DEF CodesTell, Shift
<1>6. Behind /\ InStep /\ AtMostOneAhead
  BY <1>3, <1>4 DEF Behind, InStep, AtMostOneAhead
<1> QED
  BY <1>1, <1>2, <1>5, <1>6 DEF KIInv

\* Codes is a sequence of codes; the delivered ones come first.
LEMMA CodesSeq ==
  ASSUME KTypeOK
  PROVE  /\ Codes \in Seq(Keys \cup {Break}) /\ sent \in Nat /\ Len(wire) \in Nat
         /\ Len(Codes) \in Nat /\ Len(Codes) = sent + Len(wire)
         /\ \A i \in 1 .. sent : Codes[i] = codes[i]
<1>1. codes \in Seq(Keys \cup {Break}) /\ wire \in Seq(Keys \cup {Break}) /\ Len(codes) = sent
  BY DEF KTypeOK
<1> QED
  BY <1>1, ConcatProperties DEF Codes

\* Types are preserved: by a key, by a delivery, by the decoder, by an exit.
LEMMA StepKTypeOK == KIInv /\ [KNext]_allVars => KTypeOK' /\ exits' \in Nat
<1> SUFFICES ASSUME KIInv, [KNext]_allVars PROVE KTypeOK' /\ exits' \in Nat
  OBVIOUS
<1>1. TypeOK'
  BY StepOfBuffer, StepTypeOK DEF KIInv, IInv
<1> USE DEF KIInv, KTypeOK
<1>2. ASSUME NEW key \in Keys, Press(key) PROVE KTypeOK' /\ exits' \in Nat
  <2>1. key # Shift => key \in Letters
    BY DEF Keys
  <2>2. wanted' \in Seq(Letters \X {"upper", "lower"})
    BY <1>2, <2>1 DEF Press, Char
  <2> QED
    BY <1>1, <1>2, <2>2 DEF Press, vars, history
<1>3. ASSUME NEW key \in Keys, Release(key) PROVE KTypeOK' /\ exits' \in Nat
  BY <1>1, <1>3 DEF Release, vars, history
<1>4. CASE Deliver
  <2>1. codes' \in Seq(Keys \cup {Break}) /\ Len(codes') = sent + 1
        /\ wire' \in Seq(Keys \cup {Break})
    BY <1>4 DEF Deliver
  <2>2. losses' \subseteq {"raced", "overrun", "flushed"}
    BY <1>1, <1>4 DEF Deliver, TypeOK
  <2> QED
    BY <1>1, <1>4, <2>1, <2>2 DEF Deliver, keyboard_handler
<1>5. CASE DecodeStep
  <2>1. PICK c \in Keys \cup {Break} : Decode(c)
    BY <1>5 DEF DecodeStep
  <2>2. /\ last_f0' \in {"set", "clear"} /\ shift' \in {"set", "clear"}
        /\ typed' \in Seq(Letters \X {"upper", "lower"})
    <3>1. CASE c \in Letters /\ last_f0 = "clear"
               /\ typed' = Append(typed, Char(c, shift = "set"))
               /\ UNCHANGED <<last_f0, shift>>
      <4>1. Char(c, shift = "set") \in Letters \X {"upper", "lower"}
        BY <3>1 DEF Char
      <4> QED
        BY <3>1, <4>1, AppendProperties
    <3>2. CASE typed' = typed
      BY <2>1, <3>2 DEF Decode, Released
    <3> QED
      BY <2>1, <3>1, <3>2 DEF Decode
  <2> QED
    BY <1>1, <1>5, <2>2 DEF DecodeStep, PollStoreLength
<1>6. CASE ReadStep
  BY <1>1, <1>6 DEF ReadStep, kvars, SeeLength, PollNothing, PollFetch, PollLoadLength, history
<1>7. CASE ExitBegins
  BY <1>1, <1>7 DEF ExitBegins, ExitResetRead, history
<1>8. CASE ExitEnds
  <2>1. losses' \subseteq {"raced", "overrun", "flushed"}
    BY <1>8 DEF ExitEnds
  <2> QED
    BY <1>1, <1>8, <2>1 DEF ExitEnds, ExitResetLength
<1>9. CASE UNCHANGED allVars
  BY <1>1, <1>9 DEF allVars, kvars, vars, history
<1> QED
  BY <1>2, <1>3, <1>4, <1>5, <1>6, <1>7, <1>8, <1>9 DEF KNext

\* Codes that only grow take nothing from what the decoder knows.
LEMMA GrowingKeeps ==
  ASSUME KIInv, Len(Codes') \in Nat, Len(Codes) <= Len(Codes'),
         \A k \in 1 .. Len(Codes) : Codes'[k] = Codes[k],
         DOMAIN wanted \subseteq DOMAIN wanted',
         \A k \in DOMAIN wanted : wanted'[k] = wanted[k],
         UNCHANGED <<typed, last_f0, shift, losses, exits, next, slips, pc>>,
         sent' = sent
  PROVE  Behind' /\ InStep' /\ AtMostOneAhead'
<1>0. KTypeOK /\ TypeOK /\ CodesTell /\ Behind /\ InStep /\ AtMostOneAhead
  BY DEF KIInv, KTypeOK
<1>1. Behind' /\ next \in Nat
  BY <1>0 DEF Behind, TypeOK
<1>2. Len(Codes) \in Nat /\ sent \in Nat /\ sent <= Len(Codes)
  BY <1>0, CodesSeq
<1>3. \A i \in 0 .. Len(Codes) : /\ Makes(Codes', i) = Makes(Codes, i)
                                 /\ TypedBy(Codes', i) = TypedBy(Codes, i)
                                 /\ ShiftAfter(Codes', i) <=> ShiftAfter(Codes, i)
                                 /\ Prefixed(Codes', i + 1) <=> Prefixed(Codes, i + 1)
  <2>1. Len(Codes) \in Nat /\ \A k \in 1 .. Len(Codes) : Codes'[k] = Codes[k]
    BY <1>2
  <2> QED
    BY <2>1, SameBefore
<1>4. ASSUME losses \subseteq {"flushed"}
      PROVE  /\ next - 1 \in 0 .. Len(Codes)
             /\ TypedBy(Codes', next - 1) = TypedBy(Codes, next - 1)
             /\ ShiftAfter(Codes', next - 1) <=> ShiftAfter(Codes, next - 1)
             /\ Prefixed(Codes', next) <=> Prefixed(Codes, next)
  <2>1. next - 1 \in 0 .. Len(Codes) /\ (next - 1) + 1 = next
    BY <1>0, <1>1, <1>2, <1>4 DEF Behind
  <2> QED
    BY <1>3, <2>1
<1>5. InStep'
  <2> SUFFICES ASSUME losses = {} PROVE InStep'
    BY DEF InStep
  <2>1. \A k \in DOMAIN typed : typed[k] = wanted'[k]
    <3>1. /\ Len(typed) = TypedBy(Codes, next - 1)
          /\ Len(wanted) = TypedBy(Codes, Len(Codes))
          /\ \A k \in DOMAIN typed : typed[k] = wanted[k]
      BY <1>0 DEF InStep, CodesTell
    <3>2. TypedBy(Codes, next - 1) <= TypedBy(Codes, Len(Codes))
      <4>1. next - 1 \in Nat /\ next - 1 <= Len(Codes)
        BY <1>2, <1>4
      <4> QED
        BY <1>2, <4>1, TypedByGrows
    <3>3. DOMAIN typed \subseteq DOMAIN wanted
      BY <1>0, <3>1, <3>2 DEF KTypeOK
    <3> QED
      BY <3>1, <3>3
  <2> QED
    BY <1>0, <1>4, <2>1 DEF InStep
<1>6. AtMostOneAhead'
  BY <1>0, <1>4 DEF AtMostOneAhead
<1> QED
  BY <1>1, <1>5, <1>6

\* A key pressed appends a code that tells what is wanted now.
LEMMA PressKIInv ==
  ASSUME KIInv, NEW key \in Keys, Press(key)
  PROVE  CodesTell' /\ Behind' /\ InStep' /\ AtMostOneAhead'
<1>1. KTypeOK /\ CodesTell
  BY DEF KIInv
<1> DEFINE n == Len(Codes)
<1>2. n \in Nat /\ Codes \in Seq(Keys \cup {Break})
  BY <1>1, CodesSeq
<1>3. /\ UNCHANGED <<codes, last_f0, shift, typed, exits, losses, sent, next, slips, pc>>
      /\ wire' = Append(wire, key) /\ down' = down \cup {key}
      /\ wanted' = IF key = Shift THEN wanted
                   ELSE Append(wanted, Char(key, Shift \in down))
  BY DEF Press, vars, history
<1>4. /\ Len(Codes') = n + 1 /\ Codes'[n + 1] = key
      /\ \A k \in 1 .. n : Codes'[k] = Codes[k]
  <2>1. Codes' = Append(Codes, key)
    BY <1>1, <1>3 DEF Codes, KTypeOK
  <2> QED
    BY <1>2, <2>1, AppendProperties
<1>5. \A i \in 0 .. n : /\ Makes(Codes', i) = Makes(Codes, i)
                        /\ TypedBy(Codes', i) = TypedBy(Codes, i)
                        /\ ShiftAfter(Codes', i) <=> ShiftAfter(Codes, i)
                        /\ Prefixed(Codes', i + 1) <=> Prefixed(Codes, i + 1)
  <2>1. n \in Nat /\ \A k \in 1 .. n : Codes'[k] = Codes[k]
    BY <1>2, <1>4
  <2> HIDE DEF n
  <2> QED
    BY <2>1, SameBefore
<1>6. /\ Len(wanted) = TypedBy(Codes, n) /\ Len(wanted) \in Nat
      /\ Shift \in down <=> ShiftAfter(Codes, n)
      /\ ~Prefixed(Codes, n + 1)
      /\ \A i \in 1 .. n : i \in Makes(Codes, i) =>
            wanted[TypedBy(Codes, i)] = Char(Codes[i], ShiftAfter(Codes, i))
  BY <1>1 DEF CodesTell, KTypeOK
<1>7. /\ TypedBy(Codes', n) = TypedBy(Codes, n)
      /\ ShiftAfter(Codes', n) <=> ShiftAfter(Codes, n)
      /\ ~Prefixed(Codes', n + 1)
  BY <1>2, <1>5, <1>6
<1> HIDE DEF n
<1>8. /\ TypedBy(Codes', n + 1) = TypedBy(Codes, n) + IF key \in Letters THEN 1 ELSE 0
      /\ ShiftAfter(Codes', n + 1) <=> (key = Shift \/ ShiftAfter(Codes, n))
      /\ n + 1 \in Makes(Codes', n + 1) => key \in Letters
  <2>1. TypedBy(Codes', n + 1) = TypedBy(Codes', n) +
           IF Codes'[n + 1] \in Letters /\ ~Prefixed(Codes', n + 1) THEN 1 ELSE 0
    BY <1>2, TypedByStep
  <2>2. ShiftAfter(Codes', n + 1) <=>
           IF Codes'[n + 1] = Shift THEN ~Prefixed(Codes', n + 1) ELSE ShiftAfter(Codes', n)
    BY <1>2, ShiftStep
  <2> QED
    BY <1>4, <1>7, <2>1, <2>2 DEF Makes
<1>9. /\ key \in Letters <=> key # Shift
      /\ key # Break
  BY LettersAssumption DEF Keys, Shift, Break
<1>10. /\ Len(wanted') = TypedBy(Codes', n + 1)
       /\ DOMAIN wanted \subseteq DOMAIN wanted'
       /\ \A k \in DOMAIN wanted : wanted'[k] = wanted[k]
       /\ key \in Letters => wanted'[Len(wanted')] = Char(key, Shift \in down)
  <2>1. wanted \in Seq(Letters \X {"upper", "lower"})
    BY <1>1 DEF KTypeOK
  <2> QED
    BY <1>3, <1>6, <1>8, <1>9, <2>1
<1>11. CodesTell'
  <2>1. Shift \in down' <=> ShiftAfter(Codes', n + 1)
    BY <1>3, <1>6, <1>8, <1>9
  <2>2. ~Prefixed(Codes', n + 2)
    BY <1>2, <1>4, <1>9 DEF Prefixed
  <2>3. ASSUME NEW i \in 1 .. n + 1, i \in Makes(Codes', i)
        PROVE  wanted'[TypedBy(Codes', i)] = Char(Codes'[i], ShiftAfter(Codes', i))
    <3>1. CASE i = n + 1
      <4>1. key \in Letters
        BY <1>8, <2>3, <3>1
      <4>2. ShiftAfter(Codes', i) <=> Shift \in down
        BY <1>6, <1>8, <1>9, <3>1, <4>1
      <4> QED
        BY <1>4, <1>10, <3>1, <4>1, <4>2 DEF Char
    <3>2. CASE i # n + 1
      <4>1. i \in 1 .. n /\ i \in 0 .. n
        BY <1>2, <3>2
      <4>2. i \in Makes(Codes, i)
        BY <1>5, <2>3, <4>1
      <4>3. wanted[TypedBy(Codes, i)] = Char(Codes[i], ShiftAfter(Codes, i))
        BY <1>6, <4>1, <4>2
      <4>4. TypedBy(Codes, i) \in DOMAIN wanted
        <5>1. TypedBy(Codes, i) \in 1 .. TypedBy(Codes, n)
          BY <1>2, <4>1, <4>2, TypedByCounts
        <5> QED
          BY <1>1, <1>6, <5>1 DEF KTypeOK
      <4> QED
        BY <1>4, <1>5, <1>10, <4>1, <4>3, <4>4 DEF Char
    <3> QED
      BY <3>1, <3>2
  <2>4. Len(Codes') = n + 1
    BY <1>4
  <2>5. Len(Codes') + 1 = n + 2
    BY <1>2, <2>4
  <2> QED
    BY <1>10, <2>1, <2>2, <2>3, <2>4, <2>5 DEF CodesTell
<1> QED
  <2>1. /\ Len(Codes') \in Nat /\ Len(Codes) <= Len(Codes')
        /\ \A k \in 1 .. Len(Codes) : Codes'[k] = Codes[k]
    BY <1>2, <1>4 DEF n
  <2> QED
    BY <1>3, <1>10, <1>11, <2>1, GrowingKeeps

\* A key released appends two codes that type nothing.
LEMMA ReleaseKIInv ==
  ASSUME KIInv, NEW key \in Keys, Release(key)
  PROVE  CodesTell' /\ Behind' /\ InStep' /\ AtMostOneAhead'
<1>1. KTypeOK /\ CodesTell
  BY DEF KIInv
<1> DEFINE n == Len(Codes)
<1>2. n \in Nat /\ Codes \in Seq(Keys \cup {Break})
  BY <1>1, CodesSeq
<1>3. /\ UNCHANGED <<codes, last_f0, shift, typed, exits, losses, sent, next, slips, pc, wanted>>
      /\ wire' = wire \o <<Break, key>> /\ down' = down \ {key}
  BY DEF Release, vars, history
<1>4. /\ Len(Codes') = n + 2 /\ Codes'[n + 1] = Break /\ Codes'[n + 2] = key
      /\ \A k \in 1 .. n : Codes'[k] = Codes[k]
  <2>1. Codes' = Codes \o <<Break, key>>
    BY <1>1, <1>3 DEF Codes, KTypeOK
  <2> QED
    BY <1>2, <2>1
<1>5. \A i \in 0 .. n : /\ Makes(Codes', i) = Makes(Codes, i)
                        /\ TypedBy(Codes', i) = TypedBy(Codes, i)
                        /\ ShiftAfter(Codes', i) <=> ShiftAfter(Codes, i)
                        /\ Prefixed(Codes', i + 1) <=> Prefixed(Codes, i + 1)
  <2>1. n \in Nat /\ \A k \in 1 .. n : Codes'[k] = Codes[k]
    BY <1>2, <1>4
  <2> HIDE DEF n
  <2> QED
    BY <2>1, SameBefore
<1>6. /\ Len(wanted) = TypedBy(Codes, n) /\ Len(wanted) \in Nat
      /\ Shift \in down <=> ShiftAfter(Codes, n)
      /\ \A i \in 1 .. n : i \in Makes(Codes, i) =>
            wanted[TypedBy(Codes, i)] = Char(Codes[i], ShiftAfter(Codes, i))
  BY <1>1 DEF CodesTell, KTypeOK
<1>7. TypedBy(Codes', n) = TypedBy(Codes, n) /\ (ShiftAfter(Codes', n) <=> ShiftAfter(Codes, n))
  BY <1>2, <1>5
<1> HIDE DEF n
<1>8. Break \notin Letters /\ Break # Shift /\ key # Break
  BY LettersAssumption DEF Keys, Shift, Break
<1>9. n + 1 \in Nat /\ (n + 1) + 1 = n + 2 /\ Prefixed(Codes', n + 2)
  BY <1>2, <1>4 DEF Prefixed
<1>10. /\ TypedBy(Codes', n + 1) = TypedBy(Codes, n) /\ TypedBy(Codes', n + 2) = TypedBy(Codes, n)
       /\ ShiftAfter(Codes', n + 1) <=> ShiftAfter(Codes, n)
       /\ ShiftAfter(Codes', n + 2) <=> (key # Shift /\ ShiftAfter(Codes, n))
       /\ n + 1 \notin Makes(Codes', n + 1) /\ n + 2 \notin Makes(Codes', n + 2)
  <2>1. /\ TypedBy(Codes', n + 1) = TypedBy(Codes', n) +
             IF Codes'[n + 1] \in Letters /\ ~Prefixed(Codes', n + 1) THEN 1 ELSE 0
        /\ TypedBy(Codes', (n + 1) + 1) = TypedBy(Codes', n + 1) +
             IF Codes'[(n + 1) + 1] \in Letters /\ ~Prefixed(Codes', (n + 1) + 1) THEN 1 ELSE 0
    BY <1>2, <1>9, TypedByStep
  <2>2. /\ ShiftAfter(Codes', n + 1) <=>
             IF Codes'[n + 1] = Shift THEN ~Prefixed(Codes', n + 1) ELSE ShiftAfter(Codes', n)
        /\ ShiftAfter(Codes', (n + 1) + 1) <=>
             IF Codes'[(n + 1) + 1] = Shift THEN ~Prefixed(Codes', (n + 1) + 1)
                                            ELSE ShiftAfter(Codes', n + 1)
    BY <1>2, <1>9, ShiftStep
  <2> QED
    BY <1>4, <1>6, <1>7, <1>8, <1>9, <2>1, <2>2 DEF Makes
<1>11. CodesTell'
  <2>1. Shift \in down' <=> ShiftAfter(Codes', n + 2)
    BY <1>3, <1>6, <1>10
  <2>2. ~Prefixed(Codes', n + 3)
    BY <1>2, <1>4, <1>8 DEF Prefixed
  <2>3. ASSUME NEW i \in 1 .. n + 2, i \in Makes(Codes', i)
        PROVE  wanted'[TypedBy(Codes', i)] = Char(Codes'[i], ShiftAfter(Codes', i))
    <3>1. i \in 1 .. n /\ i \in 0 .. n
      BY <1>2, <1>10, <2>3
    <3> QED
      BY <1>3, <1>4, <1>5, <1>6, <2>3, <3>1 DEF Char
  <2>4. Len(Codes') = n + 2 /\ Len(Codes') + 1 = n + 3
    BY <1>2, <1>4
  <2> QED
    BY <1>3, <1>6, <1>10, <2>1, <2>2, <2>3, <2>4 DEF CodesTell
<1> QED
  <2>1. /\ Len(Codes') \in Nat /\ Len(Codes) <= Len(Codes')
        /\ \A k \in 1 .. Len(Codes) : Codes'[k] = Codes[k]
    BY <1>2, <1>4 DEF n
  <2> QED
    BY <1>3, <1>11, <2>1, GrowingKeeps

\* A delivery moves a code from the wire into the buffer: the codes stay.
LEMMA DeliverKIInv ==
  ASSUME KIInv, Deliver
  PROVE  CodesTell' /\ Behind' /\ InStep' /\ AtMostOneAhead'
<1>1. KTypeOK /\ TypeOK /\ CodesTell /\ Behind /\ InStep /\ AtMostOneAhead
  BY DEF KIInv, KTypeOK
<1>2. Codes' = Codes
  <2>1. /\ codes \in Seq(Keys \cup {Break}) /\ wire \in Seq(Keys \cup {Break}) /\ wire # <<>>
        /\ codes' = Append(codes, Head(wire)) /\ wire' = Tail(wire)
    BY <1>1 DEF Deliver, KTypeOK
  <2> QED
    BY <2>1 DEF Codes
<1>3. /\ UNCHANGED <<down, last_f0, shift, typed, wanted, exits, next, pc>>
      /\ losses \subseteq losses' /\ slips' \subseteq losses' /\ slips \subseteq slips'
      /\ sent' = sent + 1
  BY DEF Deliver, keyboard_handler
<1>4. Behind'
  BY <1>1, <1>3 DEF Behind, TypeOK
<1>5. CodesTell'
  BY <1>1, <1>2, <1>3 DEF CodesTell
<1>6. InStep' /\ AtMostOneAhead'
  BY <1>1, <1>2, <1>3 DEF InStep, AtMostOneAhead
<1> QED
  BY <1>4, <1>5, <1>6

\* The kernel's looks at the buffer, and an exit begun, change no code and no
\* flag; the exit may cost one character from here on.
LEMMA LookKIInv ==
  ASSUME KIInv, ReadStep \/ ExitBegins
  PROVE  CodesTell' /\ Behind' /\ InStep' /\ AtMostOneAhead'
<1>1. KTypeOK /\ TypeOK /\ CodesTell /\ Behind /\ InStep /\ AtMostOneAhead /\ exits \in Nat
  BY DEF KIInv, KTypeOK
<1>2. /\ UNCHANGED <<down, codes, wire, last_f0, shift, typed, wanted, losses, next, sent, slips>>
      /\ \/ exits' = exits /\ pc # "exit" /\ pc' # "exit"
         \/ exits' = exits + 1 /\ pc # "exit" /\ pc' = "exit"
  BY DEF ReadStep, kvars, SeeLength, PollNothing, PollFetch, PollLoadLength,
         ExitBegins, ExitResetRead, history
<1>3. Codes' = Codes
  BY <1>2 DEF Codes
<1>4. CodesTell' /\ Behind' /\ InStep'
  BY <1>1, <1>2, <1>3 DEF CodesTell, Behind, InStep
<1>5. AtMostOneAhead'
  <2>1. Len(typed) \in Nat /\ next - 1 \in Nat /\ TypedBy(Codes, next - 1) \in Nat
    BY <1>1, TypedByNat DEF KTypeOK, TypeOK, Behind
  <2> QED
    BY <1>1, <1>2, <1>3, <2>1 DEF AtMostOneAhead
<1> QED
  BY <1>4, <1>5

\* The exit ended, the decoder is due the next code sent: if none waited
\* nothing was lost, and if one did it may have been a break prefix.
LEMMA ExitEndsKIInv ==
  ASSUME KIInv, ExitEnds
  PROVE  CodesTell' /\ Behind' /\ InStep' /\ AtMostOneAhead'
<1>1. /\ KTypeOK /\ TypeOK /\ CodesTell /\ Behind /\ InStep /\ AtMostOneAhead
      /\ exits \in Nat /\ sent \in Nat /\ next \in Nat /\ next - 1 \in Nat
  BY DEF KIInv, KTypeOK, TypeOK, Behind
<1>2. /\ UNCHANGED <<down, codes, wire, last_f0, shift, typed, wanted, exits, sent>>
      /\ pc = "exit" /\ pc' = "main" /\ next' = sent + 1 /\ slips' = {}
      /\ losses' = losses \cup (IF next <= sent THEN {"flushed"} ELSE {})
  BY DEF ExitEnds, ExitResetLength
<1>3. Codes' = Codes
  BY <1>2 DEF Codes
<1>4. CodesTell'
  BY <1>1, <1>2, <1>3 DEF CodesTell
<1>5. Behind'
  BY <1>1, <1>2 DEF Behind
<1>6. ASSUME losses \subseteq {"flushed"} PROVE next <= sent + 1
  BY <1>1, <1>6 DEF Behind
<1>7. InStep'
  <2> SUFFICES ASSUME losses' = {} PROVE InStep'
    BY DEF InStep
  <2>1. losses = {} /\ ~(next <= sent)
    BY <1>2
  <2>2. next' = next
    BY <1>1, <1>2, <1>6, <2>1
  <2> QED
    BY <1>1, <1>2, <1>3, <2>1, <2>2 DEF InStep
<1>8. AtMostOneAhead'
  <2> SUFFICES ASSUME losses' \subseteq {"flushed"} PROVE AtMostOneAhead'
    BY DEF AtMostOneAhead
  <2>1. losses \subseteq {"flushed"}
    BY <1>2
  <2>2. Len(typed) \in Nat /\ Len(typed) + 1 <= TypedBy(Codes, next - 1) + exits
    BY <1>1, <1>2, <2>1 DEF AtMostOneAhead, KTypeOK
  <2>3. TypedBy(Codes, next - 1) <= TypedBy(Codes, sent)
    BY <1>1, <1>6, <2>1, TypedByGrows
  <2>4. TypedBy(Codes, next - 1) \in Nat /\ TypedBy(Codes, sent) \in Nat
    BY <1>1, TypedByNat
  <2>5. next' - 1 = sent
    BY <1>1, <1>2
  <2> QED
    BY <1>1, <1>2, <1>3, <2>2, <2>3, <2>4, <2>5 DEF AtMostOneAhead
<1> QED
  BY <1>4, <1>5, <1>7, <1>8

\* The byte decoded is, until a slip, the next of the codes.
LEMMA DecodesNext ==
  ASSUME KIInv, DecodeStep, losses \subseteq {"flushed"}, NEW c, Code(c)
  PROVE  next >= 1 /\ next <= sent /\ c = Codes[next]
<1>1. /\ KTypeOK /\ TypeOK /\ Behind /\ KeysInOrder /\ NoExtraKeys /\ pc = "loaded"
      /\ sent \in Nat /\ next \in Nat
  BY DEF KIInv, KTypeOK, TypeOK, IInv, DecodeStep, PollStoreLength
<1>2. slips = {}
  BY <1>1 DEF Behind, TypeOK
<1>3. scancode = next /\ next >= 1
  BY <1>1, <1>2 DEF KeysInOrder, Intact, Updating, Behind
<1>4. register >= 1 /\ register \in Nat /\ next + register <= sent + 1
  BY <1>1, <1>2 DEF NoExtraKeys, TypeOK, U8
<1>5. next <= sent
  BY <1>1, <1>4
<1>6. c = codes[next]
  BY <1>1, <1>3 DEF Code
<1>7. \A i \in 1 .. sent : Codes[i] = codes[i]
  BY <1>1, CodesSeq
<1> QED
  BY <1>1, <1>3, <1>5, <1>6, <1>7

\* A byte decoded: poll_char's flags follow what the codes tell.
LEMMA DecodeKIInv ==
  ASSUME KIInv, DecodeStep
  PROVE  CodesTell' /\ Behind' /\ InStep' /\ AtMostOneAhead'
<1>1. /\ KTypeOK /\ TypeOK /\ CodesTell /\ Behind /\ InStep /\ AtMostOneAhead /\ NoExtraKeys
      /\ exits \in Nat /\ next \in Nat /\ next >= 1 /\ sent \in Nat /\ pc = "loaded"
      /\ next - 1 \in Nat /\ (next - 1) + 1 = next
  BY DEF KIInv, KTypeOK, TypeOK, Behind, IInv, DecodeStep, PollStoreLength
<1>2. /\ UNCHANGED <<down, wire, codes, wanted, exits, losses, sent, slips>>
      /\ next' = next + 1 /\ pc' # "exit"
  BY DEF DecodeStep, PollStoreLength
<1>3. PICK c \in Keys \cup {Break} : Code(c) /\ Decode(c)
  BY DEF DecodeStep
<1>4. Codes' = Codes /\ next' - 1 = next
  BY <1>1, <1>2 DEF Codes
<1>5. CodesTell'
  BY <1>1, <1>2, <1>4 DEF CodesTell
<1>6. Behind'
  <2>1. "overrun" \notin slips => next + 1 <= sent + 1
    BY <1>1 DEF NoExtraKeys, TypeOK, U8
  <2> QED
    BY <1>1, <1>2, <2>1 DEF Behind
<1>7. ASSUME losses \subseteq {"flushed"} PROVE next <= sent /\ c = Codes[next]
  BY <1>3, <1>7, DecodesNext
<1>8. /\ Break \notin Letters /\ Shift \notin Letters /\ Break # Shift
      /\ c \in Letters \cup {Shift, Break}
  BY <1>3, LettersAssumption DEF Keys, Shift, Break
<1>9. ASSUME c = Codes[next]
      PROVE  /\ TypedBy(Codes, next) = TypedBy(Codes, next - 1) +
                  IF c \in Letters /\ ~Prefixed(Codes, next) THEN 1 ELSE 0
             /\ ShiftAfter(Codes, next) <=>
                  IF c = Shift THEN ~Prefixed(Codes, next) ELSE ShiftAfter(Codes, next - 1)
             /\ Prefixed(Codes, next + 1) <=> c = Break
  <2>1. /\ TypedBy(Codes, (next - 1) + 1) = TypedBy(Codes, next - 1) +
             IF Codes[(next - 1) + 1] \in Letters /\ ~Prefixed(Codes, (next - 1) + 1)
             THEN 1 ELSE 0
        /\ ShiftAfter(Codes, (next - 1) + 1) <=>
             IF Codes[(next - 1) + 1] = Shift THEN ~Prefixed(Codes, (next - 1) + 1)
                                              ELSE ShiftAfter(Codes, next - 1)
    BY <1>1, TypedByStep, ShiftStep
  <2>2. Prefixed(Codes, next + 1) <=> Codes[next] = Break
    BY <1>1 DEF Prefixed
  <2> QED
    BY <1>1, <1>9, <2>1, <2>2
<1>10. /\ TypedBy(Codes, next - 1) \in Nat /\ TypedBy(Codes, next) \in Nat
       /\ Len(typed) \in Nat /\ typed \in Seq(Letters \X {"upper", "lower"})
       /\ last_f0 \in {"set", "clear"} /\ shift \in {"set", "clear"}
  BY <1>1, TypedByNat DEF KTypeOK
<1>11. Len(typed') = Len(typed) + IF c \in Letters /\ last_f0 = "clear" THEN 1 ELSE 0
  BY <1>3, <1>8, <1>10 DEF Decode
<1>12. AtMostOneAhead'
  <2> SUFFICES ASSUME losses \subseteq {"flushed"} PROVE AtMostOneAhead'
    BY <1>2 DEF AtMostOneAhead
  <2>1. Len(typed) + (IF last_f0 = "clear" /\ Prefixed(Codes, next) THEN 1 ELSE 0)
           <= TypedBy(Codes, next - 1) + exits
    BY <1>1 DEF AtMostOneAhead
  <2>2. ~(last_f0' = "clear" /\ Prefixed(Codes, next + 1))
    <3>1. c = Break => last_f0' = "set"
      BY <1>3, <1>8 DEF Decode
    <3>2. Prefixed(Codes, next + 1) <=> c = Break
      BY <1>7, <1>9
    <3> QED
      BY <3>1, <3>2
  <2>3. Len(typed') <= TypedBy(Codes, next) + exits
    BY <1>1, <1>7, <1>9, <1>10, <1>11, <2>1
  <2>4. /\ ~(last_f0' = "clear" /\ Prefixed(Codes', next'))
        /\ Len(typed') <= TypedBy(Codes', next' - 1) + exits'
    BY <1>2, <1>4, <2>2, <2>3
  <2>5. Len(typed') + 0 = Len(typed')
    BY <1>10, <1>11
  <2> QED
    BY <1>2, <2>4, <2>5 DEF AtMostOneAhead
<1>13. InStep'
  <2> SUFFICES ASSUME losses = {} PROVE InStep'
    BY <1>2 DEF InStep
  <2>1. /\ Len(typed) = TypedBy(Codes, next - 1)
        /\ \A k \in DOMAIN typed : typed[k] = wanted[k]
        /\ last_f0 = "set" <=> Prefixed(Codes, next)
        /\ shift = "set" <=> ShiftAfter(Codes, next - 1)
    BY <1>1 DEF InStep
  <2>2. next <= sent /\ c = Codes[next]
    BY <1>7
  <2>3. last_f0' = "set" <=> Prefixed(Codes, next + 1)
    BY <1>3, <1>8, <1>9, <2>2 DEF Decode, Released
  <2>4. shift' = "set" <=> ShiftAfter(Codes, next)
    BY <1>3, <1>8, <1>9, <1>10, <2>1, <2>2 DEF Decode, Released
  <2>5. Len(typed') = TypedBy(Codes, next)
    BY <1>9, <1>10, <1>11, <2>1, <2>2
  <2>6. \A k \in DOMAIN typed' : typed'[k] = wanted[k]
    <3>1. CASE typed' = typed
      BY <2>1, <3>1
    <3>2. CASE c \in Letters /\ last_f0 = "clear"
      <4>1. typed' = Append(typed, Char(c, shift = "set"))
        BY <1>3, <1>8, <3>2 DEF Decode
      <4>2. next \in 1 .. Len(Codes) /\ next \in Makes(Codes, next)
        <5>1. Len(Codes) \in Nat /\ sent <= Len(Codes)
          BY <1>1, CodesSeq
        <5> QED
          BY <1>1, <2>1, <2>2, <3>2, <5>1 DEF Makes
      <4>3. wanted[TypedBy(Codes, next)] = Char(c, ShiftAfter(Codes, next))
        BY <1>1, <2>2, <4>2 DEF CodesTell
      <4>4. ShiftAfter(Codes, next) <=> shift = "set"
        BY <1>8, <1>9, <2>1, <2>2, <3>2
      <4>5. Char(c, ShiftAfter(Codes, next)) = Char(c, shift = "set")
        BY <4>4 DEF Char
      <4>6. /\ DOMAIN typed' = 1 .. Len(typed) + 1
            /\ \A k \in 1 .. Len(typed) : typed'[k] = typed[k]
            /\ typed'[Len(typed) + 1] = Char(c, shift = "set")
            /\ DOMAIN typed = 1 .. Len(typed)
        BY <1>10, <4>1
      <4>7. Len(typed) + 1 = TypedBy(Codes, next)
        BY <1>10, <1>11, <2>5, <3>2
      <4>8. typed'[Len(typed) + 1] = wanted[Len(typed) + 1]
        BY <4>3, <4>5, <4>6, <4>7
      <4> QED
        BY <1>10, <2>1, <4>6, <4>8
    <3> QED
      BY <1>3, <1>8, <3>1, <3>2 DEF Decode
  <2> QED
    BY <1>2, <1>4, <2>3, <2>4, <2>5, <2>6 DEF InStep
<1> QED
  BY <1>5, <1>6, <1>12, <1>13

\* Every step preserves the invariant.
LEMMA StepKIInv == KIInv /\ [KNext]_allVars => KIInv'
<1> SUFFICES ASSUME KIInv, [KNext]_allVars PROVE KIInv'
  OBVIOUS
<1>1. IInv'
  BY StepOfBuffer, StepIInv DEF KIInv
<1>2. KTypeOK' /\ exits' \in Nat
  BY StepKTypeOK
<1>3. CodesTell' /\ Behind' /\ InStep' /\ AtMostOneAhead'
  <2>1. CASE \E key \in Keys : Press(key) \/ Release(key)
    BY <2>1, PressKIInv, ReleaseKIInv
  <2>2. CASE Deliver
    BY <2>2, DeliverKIInv
  <2>3. CASE DecodeStep
    BY <2>3, DecodeKIInv
  <2>4. CASE ReadStep \/ ExitBegins
    BY <2>4, LookKIInv
  <2>5. CASE ExitEnds
    BY <2>5, ExitEndsKIInv
  <2>6. CASE UNCHANGED allVars
    <3>1. /\ UNCHANGED <<down, codes, wire, last_f0, shift, typed, wanted, losses, exits>>
          /\ UNCHANGED <<next, sent, slips, pc>>
      BY <2>6 DEF allVars, kvars, vars, history
    <3>2. Codes' = Codes
      BY <3>1 DEF Codes
    <3> QED
      BY <3>1, <3>2 DEF KIInv, CodesTell, Behind, InStep, AtMostOneAhead
  <2> QED
    BY <2>1, <2>2, <2>3, <2>4, <2>5, <2>6 DEF KNext
<1> QED
  BY <1>1, <1>2, <1>3 DEF KIInv

\* What the codes tell, the decoder knows until a byte is lost.
THEOREM CodesUnderstood == KSpec => []KIInv
<1>1. KInit => KIInv
  BY InitKIInv
<1>2. KIInv /\ [KNext]_allVars => KIInv'
  BY StepKIInv
<1> QED
  BY <1>1, <1>2, PTL DEF KSpec

\* As long as no byte was lost the shell reads the keys as they were pressed,
\* and poll_char's two flags agree with the keyboard whenever it has caught up.
THEOREM KeysReadAsPressed == KSpec => []KeysDecoded
<1>1. KIInv => KeysDecoded
  <2> SUFFICES ASSUME KIInv PROVE KeysDecoded
    OBVIOUS
  <2>1. KTypeOK /\ CodesTell /\ Behind /\ InStep /\ next \in Nat
    BY DEF KIInv, KTypeOK, TypeOK
  <2>2. /\ Len(Codes) \in Nat /\ sent \in Nat /\ Len(Codes) = sent + Len(wire)
        /\ Len(wire) \in Nat
    BY <2>1, CodesSeq
  <2>3. ASSUME losses = {}
        PROVE  /\ next - 1 \in Nat /\ next - 1 <= Len(Codes)
               /\ Len(typed) = TypedBy(Codes, next - 1)
               /\ Len(wanted) = TypedBy(Codes, Len(Codes))
               /\ \A k \in DOMAIN typed : typed[k] = wanted[k]
    BY <2>1, <2>2, <2>3 DEF InStep, Behind, CodesTell
  <2>4. TypedAsPressed
    <3> SUFFICES ASSUME losses = {} PROVE TypedAsPressed
      BY DEF TypedAsPressed
    <3>1. Len(typed) <= Len(wanted)
      BY <2>2, <2>3, TypedByGrows
    <3>2. /\ typed \in Seq(Letters \X {"upper", "lower"})
          /\ wanted \in Seq(Letters \X {"upper", "lower"})
      BY <2>1 DEF KTypeOK
    <3>3. typed = SubSeq(wanted, 1, Len(typed))
      BY <2>3, <3>1, <3>2
    <3> QED
      BY <3>1, <3>3 DEF TypedAsPressed
  <2>5. FlagsFollowKeys
    <3> SUFFICES ASSUME losses = {}, wire = <<>>, next = sent + 1 PROVE FlagsFollowKeys
      BY DEF FlagsFollowKeys
    <3>1. Len(Codes) = next - 1 /\ Len(Codes) + 1 = next
      BY <2>1, <2>2
    <3>2. /\ last_f0 = "set" <=> Prefixed(Codes, next)
          /\ shift = "set" <=> ShiftAfter(Codes, next - 1)
          /\ Shift \in down <=> ShiftAfter(Codes, Len(Codes))
          /\ ~Prefixed(Codes, Len(Codes) + 1)
          /\ last_f0 \in {"set", "clear"}
      BY <2>1 DEF InStep, CodesTell, KTypeOK
    <3>3. /\ typed \in Seq(Letters \X {"upper", "lower"})
          /\ wanted \in Seq(Letters \X {"upper", "lower"})
      BY <2>1 DEF KTypeOK
    <3>4. Len(typed) = Len(wanted) /\ \A k \in DOMAIN typed : typed[k] = wanted[k]
      BY <2>3, <3>1
    <3>5. typed = wanted
      BY <3>3, <3>4
    <3> QED
      BY <3>1, <3>2, <3>5 DEF FlagsFollowKeys
  <2> QED
    BY <2>1, <2>4, <2>5 DEF KeysDecoded
<1> QED
  BY <1>1, CodesUnderstood, PTL

\* Without a race or an overrun, a program's exit makes up one character at
\* most, however many keys it threw away.
THEOREM InventedOnlyByExits == KSpec => []OneInventedPerExit
<1>1. KIInv => OneInventedPerExit
  <2> SUFFICES ASSUME KIInv, losses \subseteq {"flushed"}
               PROVE  Len(typed) <= Len(wanted) + exits
    BY DEF OneInventedPerExit
  <2>1. /\ KTypeOK /\ TypeOK /\ CodesTell /\ Behind /\ AtMostOneAhead
        /\ exits \in Nat /\ next \in Nat
    BY DEF KIInv, KTypeOK, TypeOK
  <2>2. Len(Codes) \in Nat /\ sent \in Nat /\ sent <= Len(Codes)
    BY <2>1, CodesSeq
  <2>3. next - 1 \in Nat /\ next - 1 <= Len(Codes)
    BY <2>1, <2>2 DEF Behind
  <2>4. TypedBy(Codes, next - 1) <= Len(wanted)
    BY <2>1, <2>2, <2>3, TypedByGrows DEF CodesTell
  <2>5. Len(typed) \in Nat /\ Len(wanted) \in Nat /\ TypedBy(Codes, next - 1) \in Nat
    BY <2>1, <2>3, TypedByNat DEF KTypeOK
  <2>6. Len(typed) <= TypedBy(Codes, next - 1) + exits
    BY <2>1, <2>5 DEF AtMostOneAhead
  <2> QED
    BY <2>1, <2>4, <2>5, <2>6
<1> QED
  BY <1>1, CodesUnderstood, PTL
==============================================================================
