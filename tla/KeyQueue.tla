------------------------------ MODULE KeyQueue ------------------------------
(***************************************************************************)
(* What the keyboard buffer promises the shell: a first-in first-out queue *)
(* of bytes that the exit system call empties.  The promise is void from   *)
(* the moment the buffer breaks until the next time it is emptied.         *)
(***************************************************************************)
EXTENDS Naturals, Sequences

VARIABLES queue,    \* the bytes that wait, oldest first
          put,      \* how many bytes have been put in the queue
          taken,    \* the byte taken last
          promise   \* "kept" or "void"

qvars == <<queue, put, taken, promise>>

QInit == queue = <<>> /\ put = 0 /\ taken = 0 /\ promise = "kept"

Put ==
    /\ promise = "kept"
    /\ put' = put + 1
    /\ queue' = Append(queue, put + 1)
    /\ UNCHANGED <<taken, promise>>

Take ==
    /\ promise = "kept" /\ queue # <<>>
    /\ taken' = Head(queue)
    /\ queue' = Tail(queue)
    /\ UNCHANGED <<put, promise>>

Flush == queue' = <<>> /\ promise' = "kept" /\ UNCHANGED <<put, taken>>

Breakdown ==
    /\ promise' = "void" /\ queue' = <<>>
    /\ put' \in {put, put + 1}
    /\ taken' \in Nat

QNext == Put \/ Take \/ Flush \/ Breakdown

QSpec == QInit /\ [][QNext]_qvars
==============================================================================
