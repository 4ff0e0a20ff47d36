----------------------------- MODULE DriverProofs -----------------------------
(***************************************************************************)
(* Proofs about Timing and Ps2, two drivers that share no state.  Timing is*)
(* for every width of the counter, every length of a second and every      *)
(* argument, Ps2 for every number of keys pressed.                         *)
(***************************************************************************)
EXTENDS Timing, Ps2, SequenceTheorems, TLAPS

(***************************************************************************)
(* Timing: the invariant IInv follows the counter from the call on, and    *)
(* KeepsTime is what it says at the last look.                             *)
(***************************************************************************)

\* Where a sleep that does not overflow stands: the counter is as far behind
\* the target as ticks are missing; it can pass the target by one tick only,
\* and not while the CPU is on its way into HLT.
Counting ==
    pc # "awake" /\ wrapped = "no" =>
        /\ asked <= target
        /\ elapsed < asked => pit_ticks = target - asked + elapsed
        /\ target # Wrap - 1 =>
              /\ elapsed <= asked + 1
              /\ pit_ticks = target - asked + elapsed
              /\ moved = "yes" \/ pc # "look" => elapsed <= asked
              /\ moved = "yes" /\ pc = "hlt" => elapsed < asked

\* Where one whose target overflowed stands: about to find the counter ahead
\* of the target, or with the counter overflown too.
Overflown ==
    pc # "awake" /\ wrapped = "yes" /\ asked < Wrap =>
        \/ /\ pc = "look" /\ elapsed = 0 /\ moved = "yes"
           /\ asked > target /\ pit_ticks = target + Wrap - asked
        \/ pc = "look" /\ elapsed = 1 /\ moved = "no" /\ pit_ticks >= target
        \/ /\ asked = target + 1 /\ elapsed >= 1
           /\ elapsed < asked => pit_ticks = elapsed - 1

IInv == TypeOK /\ Counting /\ Overflown

LEMMA SmallMod == ASSUME NEW w \in Nat \ {0}, NEW x \in 0 .. w - 1 PROVE x % w = x
  OBVIOUS

LEMMA OnceMod ==
    ASSUME NEW w \in Nat \ {0}, NEW a \in 0 .. w - 1, NEW b \in 0 .. w, a + b >= w
    PROVE  (a + b) % w = a + b - w
  OBVIOUS

LEMMA ModRange ==
    ASSUME NEW w \in Nat \ {0}, NEW x \in Nat PROVE x % w \in 0 .. w - 1
  OBVIOUS

LEMMA InitIInv == Init => IInv
  BY TimingAssumption DEF Init, IInv, TypeOK, Counting, Overflown

\* The entry of a sleep of n ticks.
LEMMA BeginIInv ==
    ASSUME NEW n \in Nat, NEW h \in {"halting", "spinning"}, IInv, Begin(n, h)
    PROVE  IInv'
<1> USE TimingAssumption
<1>1. pit_ticks \in 0 .. Wrap - 1 /\ n % Wrap \in 0 .. Wrap - 1
  BY ModRange DEF IInv, TypeOK
<1>2. (pit_ticks + (n % Wrap)) % Wrap \in 0 .. Wrap - 1
  BY <1>1, ModRange
<1>3. TypeOK'
  BY <1>1, <1>2 DEF Begin, IInv, TypeOK
<1>4. CASE pit_ticks + n < Wrap
  <2>1. n % Wrap = n /\ (pit_ticks + n) % Wrap = pit_ticks + n
    BY <1>1, <1>4, SmallMod
  <2> QED
    BY <1>1, <1>3, <1>4, <2>1 DEF Begin, IInv, Counting, Overflown
<1>5. CASE pit_ticks + n >= Wrap /\ n < Wrap
  <2>1. n % Wrap = n
    BY <1>5, SmallMod
  <2>2. (pit_ticks + n) % Wrap = pit_ticks + n - Wrap
    <3>1. n \in 0 .. Wrap
      BY <1>5
    <3> QED
      BY <1>1, <1>5, <3>1, OnceMod
  <2> QED
    BY <1>1, <1>3, <1>5, <2>1, <2>2 DEF Begin, IInv, Counting, Overflown
<1>6. CASE n >= Wrap
  BY <1>1, <1>3, <1>6 DEF Begin, IInv, Counting, Overflown
<1> QED
  BY <1>1, <1>4, <1>5, <1>6

LEMMA SleepIInv == IInv /\ Sleep => IInv'
<1> SUFFICES ASSUME IInv, NEW n \in 0 .. MaxAsked,
                    \/ kernel_sleep(n) \/ kernel_sleep_seconds(n)
                    \/ sleep(n) \/ sleep_seconds(n)
             PROVE  IInv'
  BY DEF Sleep
<1>1. n \in Nat /\ n * Second \in Nat
  BY TimingAssumption
<1> QED
  BY <1>1, BeginIInv DEF kernel_sleep, kernel_sleep_seconds, sleep, sleep_seconds

\* The comparison, HLT and the interrupts that end it without a tick.
LEMMA LookIInv == IInv /\ Look => IInv'
  BY TimingAssumption DEF IInv, TypeOK, Counting, Overflown, Look, Waits

LEMMA HaltIInv == IInv /\ (Halt \/ OtherInterrupt) => IInv'
  BY TimingAssumption DEF IInv, TypeOK, Counting, Overflown, Halt, OtherInterrupt

LEMMA TickIInv == IInv /\ pit_handler => IInv'
<1> SUFFICES ASSUME IInv, pit_handler PROVE IInv'
  OBVIOUS
<1> USE TimingAssumption
<1>1. /\ pit_ticks \in 0 .. Wrap - 1
      /\ pit_ticks' = IF pit_ticks = Wrap - 1 THEN 0 ELSE pit_ticks + 1
  <2>1. pit_ticks \in 0 .. Wrap - 1
    BY DEF IInv, TypeOK
  <2>2. CASE pit_ticks = Wrap - 1
    BY <2>1, <2>2, OnceMod DEF pit_handler, Advanced
  <2>3. CASE pit_ticks # Wrap - 1
    BY <2>1, <2>3, SmallMod DEF pit_handler, Advanced
  <2> QED
    BY <2>1, <2>2, <2>3
<1>2. TypeOK'
  BY <1>1 DEF IInv, TypeOK, pit_handler, Woken
<1>3. Counting'
  BY <1>1 DEF IInv, TypeOK, Counting, pit_handler, Woken
<1>4. Overflown'
  BY <1>1 DEF IInv, TypeOK, Overflown, pit_handler, Woken
<1> QED
  BY <1>2, <1>3, <1>4 DEF IInv

LEMMA StepIInv == IInv /\ [Next]_vars => IInv'
<1>1. IInv /\ UNCHANGED vars => IInv'
  BY DEF vars, IInv, TypeOK, Counting, Overflown
<1> QED
  BY <1>1, SleepIInv, LookIInv, HaltIInv, TickIInv DEF Next

\* Every reachable state of a sleep satisfies IInv.
THEOREM Inductive == Spec => []IInv
  BY InitIInv, StepIInv, PTL DEF Spec

\* A sleep ends with the look that finds the counter at the target or past it.
LEMMA LastLook ==
    IInv /\ [Next]_vars =>
        /\ [pc = "look" /\ pc' = "awake" /\ wrapped = "no" => elapsed >= asked]_vars
        /\ [pc = "look" /\ pc' = "awake" /\ wrapped = "no" =>
               elapsed <= asked + 1 \/ target = Wrap - 1]_vars
        /\ [pc = "look" /\ pc' = "awake" /\ wrapped = "yes" /\ asked < Wrap =>
               elapsed <= 1 \/ elapsed >= asked]_vars
<1> SUFFICES ASSUME IInv, Next, pc = "look", pc' = "awake"
             PROVE  /\ wrapped = "no" => elapsed >= asked
                    /\ wrapped = "no" => elapsed <= asked + 1 \/ target = Wrap - 1
                    /\ wrapped = "yes" /\ asked < Wrap =>
                           elapsed <= 1 \/ elapsed >= asked
  OBVIOUS
<1>1. Look
  BY DEF Next, Sleep, kernel_sleep, kernel_sleep_seconds, sleep, sleep_seconds,
         Begin, Halt, pit_handler, Woken, OtherInterrupt
<1>2. pit_ticks >= target
  BY <1>1 DEF Look, Waits, IInv, TypeOK
<1> QED
  BY <1>2, TimingAssumption DEF IInv, TypeOK, Counting, Overflown

\* No sleep is short, none but those to the counter's last value is more than
\* a tick long, and one whose target overflowed takes no time or its time.
THEOREM TimeKept == Spec => KeepsTime
  BY Inductive, LastLook, PTL DEF Spec, KeepsTime, NeverShort, AtMostATickLong, NothingOrRight

(***************************************************************************)
(* Ps2: the invariant DIInv says, for each place in the script, what the   *)
(* controller's answer to the last command is doing and what the           *)
(* configuration is by then.                                               *)
(***************************************************************************)

\* What is on its way and in the buffer is a byte of its sender.
BytesFrom(from, whats) == [from : {from}, what : whats]
CtlBytes == BytesFrom("ctl", {"config", "55", "00"})
KbdBytes == BytesFrom("kbd", {"key", "FA", "AA"})
AuxBytes == BytesFrom("aux", {"move", "FA", "AA", "id"})
Bytes == CtlBytes \cup KbdBytes \cup AuxBytes \cup {None}

BytesTyped ==
    /\ ob \in Bytes /\ last \in Bytes
    /\ ctl \in Seq(CtlBytes) /\ kbd \in Seq(KbdBytes) /\ aux \in Seq(AuxBytes)
    /\ channels \in {"one", "two"} /\ prompt \in {"yes", "no"}
    /\ mouse \in {"absent", "present", "reporting"}

\* setup_PS2 gives up before the mouse is reset, and not after the interrupt is
\* on unless at the keyboard's answer.
EndsSomewhere == result = "false" => step \in {7, 13, 22}

\* From the second "put" on the interrupt is on.
HearsAtLast ==
    /\ step = 20 => config_byte.irq1 = "yes"
    /\ step >= 21 => config.irq1 = "yes"

\* Until it is reset, a mouse that sends nothing on its own has sent nothing.
MouseSilent == mouse = "present" /\ step <= 23 => aux = <<>> /\ ob.from # "aux"

\* The controller's answer that the next reading of setup_PS2 is for.
Awaits == step \in {4, 7, 10, 13, 19} \/ (step = 15 /\ dual_channel = "yes")
Awaited == Byte("ctl", IF step = 7 THEN "55" ELSE IF step \in {13, 15} THEN "00" ELSE "config")

\* Where an undisturbed setup_PS2 stands.  Until the keyboard is reset no
\* device but the controller sends; when an answer is awaited it is on its way
\* or was the last byte in the buffer, whoever took it; otherwise, from the
\* flush on, the buffer is empty.
Quiet == prompt = "yes" /\ noise = "no"
Sends(c) == c.off1 = "no" /\ c.xlat = "no"
AnswerComes ==
    /\ kbd = <<>> /\ aux = <<>>
    /\ IF Awaits THEN \/ ctl = <<Awaited>> /\ ob = None
                      \/ ctl = <<>> /\ last = Awaited /\ ob \in {None, Awaited}
       ELSE ctl = <<>> /\ (step >= 3 => ob = None)
SetupStands ==
    Quiet =>
        /\ Ended => step >= 22
        /\ step <= 21 => AnswerComes
        /\ step \in {5, 20} => Sends(config_byte)
        /\ step >= 6 => Sends(config)

DIInv == SetupTypeOK /\ BytesTyped /\ EndsSomewhere /\ HearsAtLast /\ MouseSilent /\ SetupStands

(***************************************************************************)
(* The script.                                                             *)
(***************************************************************************)

LEMMA ScriptLength == Len(Script) = 25
  BY DEF Script

\* Which operation is next, at each place.
LEMMA OpAt ==
    ASSUME step \in 0 .. 24
    PROVE
        /\ (step = 0 => Op = "AD") /\ (step = 1 => Op = "A7") /\ (step = 2 => Op = "flush")
        /\ (step = 3 => Op = "20") /\ (step = 4 => Op = "first") /\ (step = 5 => Op = "put")
        /\ (step = 6 => Op = "AA") /\ (step = 7 => Op = "55") /\ (step = 8 => Op = "A8")
        /\ (step = 9 => Op = "20") /\ (step = 10 => Op = "dual?") /\ (step = 11 => Op = "A7 dual")
        /\ (step = 12 => Op = "AB") /\ (step = 13 => Op = "00") /\ (step = 14 => Op = "A9 dual")
        /\ (step = 15 => Op = "00 dual") /\ (step = 16 => Op = "AE") /\ (step = 17 => Op = "A8 dual")
        /\ (step = 18 => Op = "20") /\ (step = 19 => Op = "second") /\ (step = 20 => Op = "put")
        /\ (step = 21 => Op = "FF") /\ (step = 22 => Op = "FA") /\ (step = 23 => Op = "D4 dual")
        /\ (step = 24 => Op = "FA dual")
<1>1. step = 0 => Op = "AD"
  BY DEF Op, Script
<1>2. step = 1 => Op = "A7"
  BY DEF Op, Script
<1>3. step = 2 => Op = "flush"
  BY DEF Op, Script
<1>4. step = 3 => Op = "20"
  BY DEF Op, Script
<1>5. step = 4 => Op = "first"
  BY DEF Op, Script
<1>6. step = 5 => Op = "put"
  BY DEF Op, Script
<1>7. step = 6 => Op = "AA"
  BY DEF Op, Script
<1>8. step = 7 => Op = "55"
  BY DEF Op, Script
<1>9. step = 8 => Op = "A8"
  BY DEF Op, Script
<1>10. step = 9 => Op = "20"
  BY DEF Op, Script
<1>11. step = 10 => Op = "dual?"
  BY DEF Op, Script
<1>12. step = 11 => Op = "A7 dual"
  BY DEF Op, Script
<1>13. step = 12 => Op = "AB"
  BY DEF Op, Script
<1>14. step = 13 => Op = "00"
  BY DEF Op, Script
<1>15. step = 14 => Op = "A9 dual"
  BY DEF Op, Script
<1>16. step = 15 => Op = "00 dual"
  BY DEF Op, Script
<1>17. step = 16 => Op = "AE"
  BY DEF Op, Script
<1>18. step = 17 => Op = "A8 dual"
  BY DEF Op, Script
<1>19. step = 18 => Op = "20"
  BY DEF Op, Script
<1>20. step = 19 => Op = "second"
  BY DEF Op, Script
<1>21. step = 20 => Op = "put"
  BY DEF Op, Script
<1>22. step = 21 => Op = "FF"
  BY DEF Op, Script
<1>23. step = 22 => Op = "FA"
  BY DEF Op, Script
<1>24. step = 23 => Op = "D4 dual"
  BY DEF Op, Script
<1>25. step = 24 => Op = "FA dual"
  BY DEF Op, Script
<1> QED
  BY <1>1, <1>2, <1>3, <1>4, <1>5, <1>6, <1>7, <1>8, <1>9, <1>10, <1>11, <1>12, <1>13, <1>14, <1>15, <1>16, <1>17, <1>18, <1>19, <1>20, <1>21, <1>22, <1>23, <1>24, <1>25
LEMMA InitDIInv == SetupInit => DIInv
<1> SUFFICES ASSUME SetupInit PROVE DIInv
  OBVIOUS
<1>1. SetupTypeOK
  BY KeysAssumption, ScriptLength DEF SetupInit, SetupTypeOK, Configs, NoConfig, None, Byte
<1>2. BytesTyped
  <2>1. kbd \in Seq(KbdBytes)
    <3>1. Byte("kbd", "key") \in KbdBytes
      BY DEF KbdBytes, BytesFrom, Byte
    <3>2. <<>> \in Seq(KbdBytes) /\ <<Byte("kbd", "key")>> \in Seq(KbdBytes)
      BY <3>1
    <3>3. kbd \in {<<>>, <<Byte("kbd", "key")>>}
      BY DEF SetupInit
    <3> QED
      BY <3>2, <3>3
  <2>2. ctl \in Seq(CtlBytes) /\ aux \in Seq(AuxBytes)
    BY DEF SetupInit
  <2>3. ob \in Bytes /\ last \in Bytes
    BY DEF SetupInit, Bytes, KbdBytes, BytesFrom, Byte, None
  <2> QED
    BY <2>1, <2>2, <2>3 DEF SetupInit, BytesTyped
<1>3. step = 0 /\ ~Ended /\ aux = <<>> /\ ctl = <<>> /\ result = "none"
  BY DEF SetupInit, Ended
<1>4. ob.from # "aux"
  BY DEF SetupInit, None, Byte
<1>5. EndsSomewhere /\ HearsAtLast /\ MouseSilent
  BY <1>3, <1>4 DEF EndsSomewhere, HearsAtLast, MouseSilent
<1>6. SetupStands
  <2>1. Quiet => kbd = <<>>
    BY DEF SetupInit, Quiet
  <2> QED
    BY <1>3, <2>1 DEF SetupStands, AnswerComes, Awaits
<1> QED
  BY <1>1, <1>2, <1>5, <1>6 DEF DIInv

LEMMA HeadTail ==
    ASSUME NEW S, NEW s \in Seq(S), s # <<>>
    PROVE  Head(s) \in S /\ Tail(s) \in Seq(S)
  OBVIOUS

LEMMA OnlyOne == ASSUME NEW x PROVE Head(<<x>>) = x /\ Tail(<<x>>) = <<>>
  OBVIOUS

\* The bytes differ from their absence.
LEMMA Present == CtlBytes \cup KbdBytes \cup AuxBytes \subseteq Bytes \ {None}
  BY DEF Bytes, CtlBytes, KbdBytes, AuxBytes, BytesFrom, None, Byte

LEMMA ArriveDIInv == DIInv /\ Arrive => DIInv'
<1> SUFFICES ASSUME DIInv, Arrive PROVE DIInv'
  OBVIOUS
<1> DEFINE b == ob'
<1>1. /\ ob = None /\ last' = b
      /\ irq1' \in {"raised", irq1}
      /\ UNCHANGED <<machine, config, step, locals, keys, noise>>
  BY DEF Arrive, Fill
<1>2. /\ b \in Bytes \ {None}
      /\ ctl' \in Seq(CtlBytes) /\ kbd' \in Seq(KbdBytes) /\ aux' \in Seq(AuxBytes)
      /\ aux = <<>> => b.from # "aux" /\ aux' = <<>>
      /\ kbd = <<>> => kbd' = <<>>
      /\ kbd = <<>> /\ aux = <<>> => ctl # <<>> /\ b = Head(ctl) /\ ctl' = Tail(ctl)
  <2>1. CASE ctl # <<>> /\ Fill(Head(ctl)) /\ ctl' = Tail(ctl) /\ UNCHANGED <<kbd, aux>>
    <3>1. Head(ctl) \in CtlBytes /\ Tail(ctl) \in Seq(CtlBytes)
      BY <2>1, HeadTail DEF DIInv, BytesTyped
    <3>2. Head(ctl).from = "ctl"
      BY <3>1 DEF CtlBytes, BytesFrom
    <3> QED
      BY <2>1, <3>1, <3>2, Present DEF DIInv, BytesTyped, Fill
  <2>2. CASE kbd # <<>> /\ Fill(Head(kbd)) /\ kbd' = Tail(kbd) /\ UNCHANGED <<ctl, aux>>
    <3>1. Head(kbd) \in KbdBytes /\ Tail(kbd) \in Seq(KbdBytes)
      BY <2>2, HeadTail DEF DIInv, BytesTyped
    <3>2. Head(kbd).from = "kbd"
      BY <3>1 DEF KbdBytes, BytesFrom
    <3> QED
      BY <2>2, <3>1, <3>2, Present DEF DIInv, BytesTyped, Fill
  <2>3. CASE aux # <<>> /\ Fill(Head(aux)) /\ aux' = Tail(aux) /\ UNCHANGED <<ctl, kbd>>
    <3>1. Head(aux) \in AuxBytes /\ Tail(aux) \in Seq(AuxBytes)
      BY <2>3, HeadTail DEF DIInv, BytesTyped
    <3> QED
      BY <2>3, <3>1, Present DEF DIInv, BytesTyped, Fill
  <2> QED
    BY <2>1, <2>2, <2>3 DEF Arrive
<1> HIDE DEF b
<1>3. SetupTypeOK'
  BY <1>1, <1>2 DEF DIInv, SetupTypeOK, Ended, locals, b
<1>4. BytesTyped'
  BY <1>1, <1>2 DEF DIInv, BytesTyped, machine, b
<1>5. EndsSomewhere' /\ HearsAtLast' /\ MouseSilent'
  BY <1>1, <1>2 DEF DIInv, EndsSomewhere, HearsAtLast, MouseSilent, locals, machine, b
<1>6. SetupStands'
  <2> SUFFICES ASSUME Quiet, step <= 21 PROVE AnswerComes'
    BY <1>1 DEF DIInv, SetupStands, Quiet, Ended, Sends, locals, machine
  <2>1. AnswerComes
    BY DEF DIInv, SetupStands
  <2>2. Awaits' = Awaits /\ Awaited' = Awaited
    BY <1>1 DEF Awaits, Awaited, locals
  <2>3. Awaits /\ ctl = <<Awaited>>
    BY <1>2, <2>1 DEF AnswerComes
  <2>4. Head(ctl) = Awaited /\ Tail(ctl) = <<>>
    BY <2>3, OnlyOne
  <2> QED
    BY <1>1, <1>2, <2>1, <2>2, <2>3, <2>4 DEF AnswerComes, b
<1> QED
  BY <1>3, <1>4, <1>5, <1>6 DEF DIInv

LEMMA DevicesDIInv == DIInv /\ (Press \/ MoveMouse \/ keyboard_handler) => DIInv'
<1>1. ASSUME DIInv, Press PROVE DIInv'
  <2>1. /\ UNCHANGED <<machine, config, ob, last, ctl, aux, irq1, step, locals>>
        /\ Disturb /\ keys' \in 0 .. MaxKeys
    BY <1>1, KeysAssumption DEF Press, DIInv, SetupTypeOK
  <2>2. kbd' \in Seq(KbdBytes)
    <3>1. Byte("kbd", "key") \in KbdBytes
      BY DEF KbdBytes, BytesFrom, Byte
    <3> QED
      BY <1>1, <3>1 DEF Press, DIInv, BytesTyped
  <2>3. SetupTypeOK' /\ BytesTyped' /\ EndsSomewhere' /\ HearsAtLast' /\ MouseSilent'
    BY <1>1, <2>1, <2>2 DEF DIInv, SetupTypeOK, BytesTyped, EndsSomewhere, HearsAtLast,
                            MouseSilent, Disturb, machine, locals
  <2>4. SetupStands'
    BY <1>1, <2>1 DEF DIInv, SetupStands, Quiet, Disturb, Ended, Sends, machine, locals, SetupTypeOK
  <2> QED
    BY <2>3, <2>4 DEF DIInv
<1>2. ASSUME DIInv, MoveMouse PROVE DIInv'
  <2>1. /\ UNCHANGED <<machine, config, ob, last, ctl, kbd, irq1, step, locals, keys>>
        /\ Disturb /\ mouse = "reporting"
    BY <1>2 DEF MoveMouse
  <2>2. aux' \in Seq(AuxBytes)
    <3>1. Byte("aux", "move") \in AuxBytes
      BY DEF AuxBytes, BytesFrom, Byte
    <3> QED
      BY <1>2, <3>1 DEF MoveMouse
  <2>3. SetupTypeOK' /\ BytesTyped' /\ EndsSomewhere' /\ HearsAtLast' /\ MouseSilent'
    BY <1>2, <2>1, <2>2 DEF DIInv, SetupTypeOK, BytesTyped, EndsSomewhere, HearsAtLast,
                            MouseSilent, Disturb, machine, locals
  <2>4. SetupStands'
    BY <1>2, <2>1 DEF DIInv, SetupStands, Quiet, Disturb, Ended, Sends, machine, locals, SetupTypeOK
  <2> QED
    BY <2>3, <2>4 DEF DIInv
<1>3. ASSUME DIInv, keyboard_handler PROVE DIInv'
  <2>1. /\ UNCHANGED <<machine, config, last, queues, step, locals, keys, noise>>
        /\ irq1' = "quiet" /\ ob' = None
    BY <1>3 DEF keyboard_handler
  <2>2. SetupTypeOK' /\ BytesTyped'
    BY <1>3, <2>1 DEF DIInv, SetupTypeOK, BytesTyped, Bytes, machine, locals, queues
  <2>3. EndsSomewhere' /\ HearsAtLast' /\ MouseSilent'
    BY <1>3, <2>1 DEF DIInv, EndsSomewhere, HearsAtLast, MouseSilent, None, Byte,
                            machine, locals, queues
  <2>4. AnswerComes => AnswerComes'
    BY <2>1 DEF AnswerComes, Awaits, Awaited, locals, queues
  <2>5. SetupStands'
    BY <1>3, <2>1, <2>4 DEF DIInv, SetupStands, Quiet, Ended, Sends, machine, locals
  <2> QED
    BY <2>2, <2>3, <2>5 DEF DIInv
<1> QED
  BY <1>1, <1>2, <1>3

\* Where each operation, reading and skipped step stands in the script.
LEMMA Places ==
    ASSUME step \in 0 .. 24
    PROVE  \/ step = 0 \/ step = 1 \/ step = 2 \/ step = 3 \/ step = 4 \/ step = 5 \/ step = 6
           \/ step = 7 \/ step = 8 \/ step = 9 \/ step = 10 \/ step = 11 \/ step = 12 \/ step = 13
           \/ step = 14 \/ step = 15 \/ step = 16 \/ step = 17 \/ step = 18 \/ step = 19 \/ step = 20
           \/ step = 21 \/ step = 22 \/ step = 23 \/ step = 24
  OBVIOUS

LEMMA PlaceOf ==
    ASSUME step \in 0 .. 24
    PROVE  /\ Op = "AD" <=> step = 0
           /\ Op = "20" <=> step \in {3, 9, 18}
           /\ Op = "put" <=> step \in {5, 20}
           /\ Op = "AA" <=> step = 6
           /\ Op \in {"AB", "A9 dual"} <=> step \in {12, 14}
           /\ Op = "FF" <=> step = 21
           /\ Op = "D4 dual" <=> step = 23
           /\ Op \in DualSteps <=> step \in {11, 14, 15, 17, 23, 24}
           /\ Op \in Readings <=> step \in {2, 4, 7, 10, 13, 15, 19, 22, 24}
<1>1. Op = "AD" <=> step = 0
  <2>1. Op = "AD" => step = 0
    BY OpAt, Places
  <2>2. step = 0 => Op = "AD"
    BY OpAt, Places
  <2> QED
    BY <2>1, <2>2
<1>2. Op = "20" <=> step \in {3, 9, 18}
  <2>1. Op = "20" => step \in {3, 9, 18}
    BY OpAt, Places
  <2>2. step \in {3, 9, 18} => Op = "20"
    BY OpAt, Places
  <2> QED
    BY <2>1, <2>2
<1>3. Op = "put" <=> step \in {5, 20}
  <2>1. Op = "put" => step \in {5, 20}
    BY OpAt, Places
  <2>2. step \in {5, 20} => Op = "put"
    BY OpAt, Places
  <2> QED
    BY <2>1, <2>2
<1>4. Op = "AA" <=> step = 6
  <2>1. Op = "AA" => step = 6
    BY OpAt, Places
  <2>2. step = 6 => Op = "AA"
    BY OpAt, Places
  <2> QED
    BY <2>1, <2>2
<1>5. Op \in {"AB", "A9 dual"} <=> step \in {12, 14}
  <2>1. Op \in {"AB", "A9 dual"} => step \in {12, 14}
    BY OpAt, Places
  <2>2. step \in {12, 14} => Op \in {"AB", "A9 dual"}
    BY OpAt, Places
  <2> QED
    BY <2>1, <2>2
<1>6. Op = "FF" <=> step = 21
  <2>1. Op = "FF" => step = 21
    BY OpAt, Places
  <2>2. step = 21 => Op = "FF"
    BY OpAt, Places
  <2> QED
    BY <2>1, <2>2
<1>7. Op = "D4 dual" <=> step = 23
  <2>1. Op = "D4 dual" => step = 23
    BY OpAt, Places
  <2>2. step = 23 => Op = "D4 dual"
    BY OpAt, Places
  <2> QED
    BY <2>1, <2>2
<1>8. Op \in DualSteps <=> step \in {11, 14, 15, 17, 23, 24}
  <2>1. Op \in DualSteps => step \in {11, 14, 15, 17, 23, 24}
    BY OpAt, Places DEF DualSteps
  <2>2. step \in {11, 14, 15, 17, 23, 24} => Op \in DualSteps
    BY OpAt, Places DEF DualSteps
  <2> QED
    BY <2>1, <2>2
<1>9. Op \in Readings <=> step \in {2, 4, 7, 10, 13, 15, 19, 22, 24}
  <2>1. Op \in Readings => step \in {2, 4, 7, 10, 13, 15, 19, 22, 24}
    BY OpAt, Places DEF Readings
  <2>2. step \in {2, 4, 7, 10, 13, 15, 19, 22, 24} => Op \in Readings
    BY OpAt, Places DEF Readings
  <2> QED
    BY <2>1, <2>2
<1> QED
  BY <1>1, <1>2, <1>3, <1>4, <1>5, <1>6, <1>7, <1>8, <1>9

LEMMA StillRuns ==
    ASSUME DIInv, ~Ended
    PROVE  step \in 0 .. 24
  BY ScriptLength DEF DIInv, SetupTypeOK, Ended

LEMMA OnwardFacts ==
    ASSUME DIInv, ~Ended, Onward
    PROVE  /\ step' = step + 1 /\ step' \in 0 .. Len(Script)
           /\ result' \in {"none", "true"}
           /\ result' = "true" <=> step' = Len(Script)
           /\ Ended' => step' = 25
  BY StillRuns, ScriptLength DEF Onward, Ended

LEMMA SkipDIInv == DIInv /\ Skip => DIInv'
<1> SUFFICES ASSUME DIInv, Skip PROVE DIInv'
  OBVIOUS
<1>1. /\ step \in {11, 14, 15, 17, 23, 24} /\ dual_channel = "no" /\ ~Ended /\ Onward
      /\ UNCHANGED <<machine, config, ob, last, queues, irq1, config_byte, dual_channel,
                     keys, noise>>
  BY PlaceOf, StillRuns DEF Skip, Skips
<1>2. SetupTypeOK' /\ BytesTyped'
  BY <1>1, OnwardFacts DEF DIInv, SetupTypeOK, BytesTyped, machine, queues
<1>3. EndsSomewhere' /\ HearsAtLast' /\ MouseSilent'
  BY <1>1, OnwardFacts DEF DIInv, EndsSomewhere, HearsAtLast, MouseSilent, machine, queues
<1>4. step <= 21 /\ AnswerComes => AnswerComes'
  BY <1>1, OnwardFacts DEF AnswerComes, Awaits, Awaited, queues
<1>5. SetupStands'
  BY <1>1, <1>4, OnwardFacts DEF DIInv, SetupStands, Quiet, Sends, machine
<1> QED
  BY <1>2, <1>3, <1>5 DEF DIInv

\* What a command does to the configuration, by its place.
LEMMA ConfigAfter ==
    ASSUME DIInv, step \in 0 .. 24, Op \notin Readings
    PROVE  /\ Configured(Op) \in Configs
           /\ step >= 1 => Configured(Op).off1 = config.off1 \/ Configured(Op).off1 = "no"
                                                         \/ step \in {5, 20}
           /\ step \notin {5, 20} => /\ Configured(Op).xlat = config.xlat
                                   /\ Configured(Op).irq1 = config.irq1
           /\ step \in {5, 20} => /\ Configured(Op).xlat = config_byte.xlat
                                /\ Configured(Op).irq1 = config_byte.irq1
                                /\ Configured(Op).off1 = config_byte.off1
<1>1. config \in Configs /\ config_byte \in Configs
  BY DEF DIInv, SetupTypeOK
<1>3. CASE Op = "put"
  <2>1. Configured(Op) \in {config_byte, [config_byte EXCEPT !.off2 = "yes"]}
    BY <1>3 DEF Configured
  <2> QED
    BY <1>1, <1>3, <2>1, PlaceOf DEF Configs
<1>4. CASE Op = "AD"
  <2>1. Configured(Op) = [config EXCEPT !.off1 = "yes"] /\ step = 0
    BY <1>4, PlaceOf DEF Configured
  <2> QED
    BY <1>1, <2>1 DEF Configs
<1>5. CASE Op = "AE"
  <2>1. Configured(Op) = [config EXCEPT !.off1 = "no"] /\ step \notin {5, 20}
    BY <1>5, PlaceOf DEF Configured
  <2> QED
    BY <1>1, <2>1 DEF Configs
<1>6. CASE Op \notin {"put", "AD", "AE"}
  <2>1. /\ Configured(Op) \in {config, [config EXCEPT !.off2 = "yes"],
                               [config EXCEPT !.off2 = "no"]}
        /\ step \notin {5, 20}
    BY <1>6, PlaceOf DEF Configured, Off2
  <2> QED
    BY <1>1, <2>1 DEF Configs
<1> QED
  BY <1>3, <1>4, <1>5, <1>6

LEMMA AnswerAfter ==
    ASSUME step \in 0 .. 24, Op \notin Readings
    PROVE  Answer(Op) = IF step \in {3, 9, 18} THEN <<Byte("ctl", "config")>>
                        ELSE IF step = 6 THEN <<Byte("ctl", "55")>>
                        ELSE IF step \in {12, 14} THEN <<Byte("ctl", "00")>> ELSE <<>>
  BY PlaceOf DEF Answer

LEMMA ConcatSeq ==
    ASSUME NEW S, NEW s \in Seq(S), NEW t \in Seq(S)
    PROVE  s \o t \in Seq(S)
  OBVIOUS

LEMMA ConcatEmpty ==
    ASSUME NEW S, NEW s \in Seq(S)
    PROVE  s \o <<>> = s /\ <<>> \o s = s
<1> QED
  BY ConcatEmptySeq

LEMMA SendDIInv == DIInv /\ Send => DIInv'
<1> SUFFICES ASSUME DIInv, Send PROVE DIInv'
  OBVIOUS
<1>1. /\ step \in 0 .. 24 /\ step \notin {2, 4, 7, 10, 13, 15, 19, 22, 24}
      /\ ~Ended /\ Onward /\ Op \notin Readings
      /\ step = 14 => dual_channel # "no"
  BY StillRuns, PlaceOf DEF Send, Skips
<1>2. /\ config' = Configured(Op) /\ ctl' = ctl \o Answer(Op)
      /\ kbd' = (IF step = 21 THEN <<Byte("kbd", "FA"), Byte("kbd", "AA")>> ELSE kbd)
      /\ irq1' \in {irq1, "raised"}
      /\ step # 23 => aux' = aux /\ mouse' = mouse
      /\ UNCHANGED <<channels, prompt, ob, last, config_byte, dual_channel, keys, noise>>
  BY <1>1, PlaceOf DEF Send
<1>3. SetupTypeOK'
  BY <1>1, <1>2, ConfigAfter, OnwardFacts DEF DIInv, SetupTypeOK
<1>a. Answer(Op) \in Seq(CtlBytes)
  <2>1. /\ Byte("ctl", "config") \in CtlBytes /\ Byte("ctl", "55") \in CtlBytes
        /\ Byte("ctl", "00") \in CtlBytes
    BY DEF CtlBytes, BytesFrom, Byte
  <2>2. ASSUME NEW x \in CtlBytes PROVE <<x>> \in Seq(CtlBytes)
    OBVIOUS
  <2>3. <<>> \in Seq(CtlBytes)
    OBVIOUS
  <2> QED
    BY <1>1, <2>1, <2>2, <2>3, AnswerAfter
<1>4. BytesTyped'
  <2>1. ctl' \in Seq(CtlBytes)
    BY <1>2, <1>a, ConcatSeq DEF DIInv, BytesTyped
  <2>3. kbd' \in Seq(KbdBytes)
    <3>1. Byte("kbd", "FA") \in KbdBytes /\ Byte("kbd", "AA") \in KbdBytes
      BY DEF KbdBytes, BytesFrom, Byte
    <3> QED
      BY <1>2, <3>1 DEF DIInv, BytesTyped
  <2>4. aux' \in Seq(AuxBytes)
    <3>1. /\ Byte("aux", "FA") \in AuxBytes /\ Byte("aux", "AA") \in AuxBytes
          /\ Byte("aux", "id") \in AuxBytes
      BY DEF AuxBytes, BytesFrom, Byte
    <3>2. <<Byte("aux", "FA"), Byte("aux", "AA"), Byte("aux", "id")>> \in Seq(AuxBytes)
      BY <3>1
    <3> QED
      BY <3>2 DEF Send, DIInv, BytesTyped
  <2>5. mouse' \in {"absent", "present", "reporting"}
    BY DEF Send, DIInv, BytesTyped
  <2> QED
    BY <1>2, <2>1, <2>3, <2>4, <2>5 DEF DIInv, BytesTyped
<1>5. EndsSomewhere' /\ MouseSilent'
  BY <1>1, <1>2, OnwardFacts DEF DIInv, EndsSomewhere, MouseSilent
<1>6. HearsAtLast'
  BY <1>1, <1>2, ConfigAfter, OnwardFacts DEF DIInv, HearsAtLast
<1>7. Quiet /\ step <= 20 => AnswerComes'
  <2> SUFFICES ASSUME Quiet, step <= 20 PROVE AnswerComes'
    OBVIOUS
  <2>1. AnswerComes /\ ~Awaits
    BY <1>1 DEF DIInv, SetupStands, Awaits
  <2>2. ctl' = Answer(Op)
    <3>1. ctl = <<>> /\ ctl' = ctl \o Answer(Op)
      BY <1>2, <2>1 DEF AnswerComes
    <3>2. PICK S : Answer(Op) \in Seq(S)
      BY <1>a
    <3> QED
      BY <3>1, <3>2, ConcatEmpty
  <2>3. step' = step + 1 /\ kbd' = <<>> /\ aux' = <<>> /\ ob' = ob /\ (step >= 3 => ob = None)
    BY <1>1, <1>2, <2>1, OnwardFacts DEF AnswerComes
  <2>4. CASE step \in {3, 6, 9, 12, 14, 18}
    <3>1. Awaits'
      BY <1>1, <1>2, <2>3, <2>4 DEF Awaits, DIInv, SetupTypeOK
    <3>2. ctl' = <<Awaited'>>
      BY <1>1, <2>2, <2>3, <2>4, AnswerAfter DEF Awaited
    <3> QED
      BY <2>3, <2>4, <3>1, <3>2 DEF AnswerComes
  <2>5. CASE step \notin {3, 6, 9, 12, 14, 18}
    <3>1. ~Awaits'
      BY <1>1, <2>3, <2>5 DEF Awaits
    <3>2. ctl' = <<>>
      BY <1>1, <2>2, <2>5, AnswerAfter
    <3>3. step' >= 3 => ob = None
      BY <1>1, <2>3
    <3> QED
      BY <2>3, <3>1, <3>2, <3>3 DEF AnswerComes
  <2> QED
    BY <2>4, <2>5
<1>8. SetupStands'
  <2> SUFFICES ASSUME Quiet'
               PROVE  /\ Ended' => step' >= 22
                      /\ step' <= 21 => AnswerComes'
                      /\ step' \in {5, 20} => Sends(config_byte)'
                      /\ step' >= 6 => Sends(config)'
    BY DEF SetupStands
  <2>1. Quiet /\ step' = step + 1 /\ (Ended' => step' = 25)
    BY <1>1, <1>2, OnwardFacts DEF Quiet
  <2>2. step' >= 6 => Sends(config)'
    <3>1. CASE step \in {5, 20}
      BY <1>1, <1>2, <2>1, <3>1, ConfigAfter DEF DIInv, SetupStands, Sends
    <3>2. CASE step \notin {5, 20}
      BY <1>1, <1>2, <2>1, <3>2, ConfigAfter DEF DIInv, SetupStands, Sends
    <3> QED
      BY <3>1, <3>2
  <2> QED
    BY <1>1, <1>7, <2>1, <2>2
<1> QED
  BY <1>3, <1>4, <1>5, <1>6, <1>8 DEF DIInv

\* What setup_PS2 makes of a byte.
LEMMA MaskedIs ==
    ASSUME NEW c \in Configs
    PROVE  /\ Masked(c) \in Configs /\ Sends(Masked(c))
           /\ Enabled(c) \in Configs /\ Enabled(c).irq1 = "yes"
           /\ c.xlat = "no" => Sends(Enabled(c))
<1>1. PICK r \in Configs : r = [c EXCEPT !.irq1 = "yes", !.off1 = "no"]
  BY DEF Configs
<1>2. r.irq1 = "yes" /\ r.off1 = "no" /\ r.xlat = c.xlat
  BY <1>1 DEF Configs
<1>3. Enabled(c) \in {r, [r EXCEPT !.irq12 = "yes", !.off2 = "no"]}
  BY <1>1 DEF Enabled
<1>4. Masked(c) \in Configs /\ Sends(Masked(c))
  BY DEF Masked, Configs, Sends
<1> QED
  BY <1>2, <1>3, <1>4 DEF Configs, Sends

LEMMA ReceiveDIInv == DIInv /\ Receive => DIInv'
<1> SUFFICES ASSUME DIInv, Receive PROVE DIInv'
  OBVIOUS
<1>1. /\ step \in {2, 4, 7, 10, 13, 15, 19, 22, 24} /\ step \in 0 .. 24
      /\ ~Ended /\ (step = 15 => dual_channel # "no")
  BY StillRuns, PlaceOf DEF Receive, Skips
<1>2. /\ ob' = None /\ irq1' \in {irq1, "quiet"} /\ Understand(last)
      /\ UNCHANGED <<machine, config, last, queues, keys, noise>>
  BY DEF Receive
<1>3. \/ GivesUp(last) /\ result' = "false" /\ step' = step /\ step \in {7, 13, 22}
      \/ ~GivesUp(last) /\ Onward
  <2>1. Op \in {"55", "00", "FA"} => step \in {7, 13, 22}
    BY <1>1, OpAt
  <2> QED
    BY <2>1 DEF Receive, GivesUp
<1>4. config \in Configs /\ config_byte \in Configs /\ Read(last) \subseteq Configs
  BY DEF DIInv, SetupTypeOK, Read
<1>5. /\ config_byte' \in Configs /\ dual_channel' \in {"yes", "no"}
      /\ step = 19 => config_byte'.irq1 = "yes"
      /\ step \notin {4, 19} => config_byte' = config_byte
  <2>1. step = 4 => Op = "first"
    BY OpAt, <1>1
  <2>2. step = 19 => Op = "second"
    BY OpAt, <1>1
  <2>3. Op = "first" => step = 4
    BY <1>1, OpAt
  <2>4. Op = "second" => step = 19
    BY <1>1, OpAt
  <2>5. config_byte' \in Configs
    BY <1>2, <1>4, MaskedIs DEF Understand
  <2>6. dual_channel' \in {"yes", "no"}
    BY <1>2 DEF Understand, DIInv, SetupTypeOK
  <2>7. step = 19 => config_byte' \in {Enabled(c) : c \in Read(last)}
    BY <1>2, <2>2 DEF Understand
  <2>8. step \notin {4, 19} => config_byte' = config_byte
    BY <1>2, <2>3, <2>4 DEF Understand
  <2> QED
    BY <1>4, <2>5, <2>6, <2>7, <2>8, MaskedIs
<1>6. UNCHANGED <<machine, queues>> /\ ~Ended
  BY <1>1, <1>2
<1>7. SetupTypeOK'
  <2>1. CASE result' = "false" /\ step' = step /\ step \in {7, 13, 22}
    BY <1>2, <1>5, <2>1, ScriptLength DEF DIInv, SetupTypeOK
  <2>2. CASE Onward
    BY <1>2, <1>5, <1>6, <2>2, OnwardFacts DEF DIInv, SetupTypeOK
  <2> QED
    BY <1>3, <2>1, <2>2
<1>8. BytesTyped'
  BY <1>2 DEF DIInv, BytesTyped, Bytes, machine, queues
<1>9. EndsSomewhere'
  BY <1>3, <1>6, OnwardFacts DEF EndsSomewhere
<1>10. step' \in {step, step + 1} /\ (step' = step \/ (step' = step + 1 /\ Onward))
  BY <1>1, <1>3, OnwardFacts
<1>11. HearsAtLast'
  BY <1>1, <1>2, <1>5, <1>10 DEF DIInv, HearsAtLast
<1>12. MouseSilent'
  BY <1>1, <1>2, <1>10 DEF DIInv, MouseSilent, None, Byte, machine, queues
<1>13. ASSUME Quiet, step <= 21
       PROVE  /\ step' = step + 1 /\ Onward /\ AnswerComes'
              /\ step \in {4, 19} => last = Byte("ctl", "config")
  <2>1. AnswerComes /\ (step # 2 => Awaits)
    BY <1>1, <1>13 DEF DIInv, SetupStands, Awaits, SetupTypeOK
  <2>2. prompt = "yes" => ob # None \/ ctl = <<>>
    BY DEF Receive
  <2>3. ctl = <<>> /\ kbd = <<>> /\ aux = <<>> /\ (step # 2 => last = Awaited)
    <3>1. CASE step = 2
      BY <2>1, <3>1 DEF AnswerComes, Awaits
    <3>2. CASE Awaits
      BY <1>13, <2>1, <2>2, <3>2 DEF AnswerComes, Quiet
    <3> QED
      BY <2>1, <3>1, <3>2
  <2>4. ~GivesUp(last)
    <3>1. Op \in {"55", "00", "FA"} => step \in {7, 13}
      <4>1. step \in {2, 4, 7, 10, 13, 15, 19}
        BY <1>1, <1>13
      <4>2. step \in {2, 4, 10, 15, 19} => Op \in {"flush", "first", "dual?", "00 dual", "second"}
        BY <1>1, OpAt
      <4> QED
        BY <4>1, <4>2
    <3>2. step = 7 => Op = "55" /\ last.what = "55"
      BY <1>1, <2>3, OpAt DEF Awaited, Byte
    <3>3. step = 13 => Op = "00" /\ last.what = "00"
      BY <1>1, <2>3, OpAt DEF Awaited, Byte
    <3> QED
      BY <3>1, <3>2, <3>3 DEF GivesUp
  <2>5. step' = step + 1 /\ Onward
    BY <1>3, <1>6, <2>4, OnwardFacts
  <2>6. ~Awaits'
    BY <1>1, <1>13, <2>5 DEF Awaits
  <2>7. AnswerComes'
    BY <1>2, <2>3, <2>6 DEF AnswerComes, queues
  <2>8. step \in {4, 19} => last = Byte("ctl", "config")
    BY <2>3 DEF Awaited
  <2> QED
    BY <2>5, <2>7, <2>8
<1>14. ASSUME Quiet, step \in {4, 19} PROVE Sends(config_byte')
  <2>1. Read(last) = {config}
    BY <1>13, <1>14 DEF Read
  <2>2. step = 4 => Sends(config_byte')
    <3>1. step = 4 => Op = "first"
      BY OpAt, <1>1
    <3>2. step = 4 => config_byte' \in {Masked(c) : c \in {config}}
      BY <1>2, <2>1, <3>1 DEF Understand
    <3> QED
      BY <1>4, <3>2, MaskedIs
  <2>3. step = 19 => Sends(config_byte')
    <3>1. step = 19 => Op = "second"
      BY OpAt, <1>1
    <3>2. step = 19 => config_byte' \in {Enabled(c) : c \in {config}}
      BY <1>2, <2>1, <3>1 DEF Understand
    <3>3. step = 19 => config.xlat = "no"
      BY <1>14 DEF DIInv, SetupStands, Sends
    <3> QED
      BY <1>4, <3>2, <3>3, MaskedIs
  <2> QED
    BY <1>14, <2>2, <2>3
<1>15. SetupStands'
  <2> SUFFICES ASSUME Quiet'
               PROVE  /\ Ended' => step' >= 22
                      /\ step' <= 21 => AnswerComes'
                      /\ step' \in {5, 20} => Sends(config_byte')
                      /\ step' >= 6 => Sends(config)
    BY <1>2 DEF SetupStands, Sends
  <2>1. Quiet /\ (Onward => (Ended' => step' = 25))
    BY <1>2, <1>6, OnwardFacts DEF Quiet, machine
  <2>2. CASE step <= 21
    BY <1>1, <1>13, <1>14, <2>1, <2>2 DEF DIInv, SetupStands
  <2>3. CASE step >= 22
    BY <1>1, <1>10, <2>1, <2>3 DEF DIInv, SetupStands
  <2> QED
    BY <1>1, <2>2, <2>3
<1> QED
  BY <1>7, <1>8, <1>9, <1>11, <1>12, <1>15 DEF DIInv

LEMMA StepDIInv == DIInv /\ [SetupNext]_ps2_vars => DIInv'
<1>1. DIInv /\ UNCHANGED ps2_vars => DIInv'
  <2> SUFFICES ASSUME DIInv, UNCHANGED ps2_vars PROVE DIInv'
    OBVIOUS
  <2>1. UNCHANGED <<machine, config, ob, last, queues, irq1, step, locals, keys, noise>>
    BY DEF ps2_vars
  <2>2. SetupTypeOK' /\ BytesTyped'
    BY <2>1 DEF DIInv, SetupTypeOK, BytesTyped, machine, locals, queues
  <2>3. EndsSomewhere' /\ HearsAtLast' /\ MouseSilent'
    BY <2>1 DEF DIInv, EndsSomewhere, HearsAtLast, MouseSilent, machine, locals, queues
  <2>4. AnswerComes' = AnswerComes
    BY <2>1 DEF AnswerComes, Awaits, Awaited, locals, queues
  <2>5. SetupStands'
    BY <2>1, <2>4 DEF DIInv, SetupStands, Quiet, Ended, Sends, machine, locals
  <2> QED
    BY <2>2, <2>3, <2>5 DEF DIInv
<1> QED
  BY <1>1, ArriveDIInv, DevicesDIInv, SkipDIInv, SendDIInv, ReceiveDIInv DEF SetupNext, Setup

\* Every reachable state satisfies DIInv.
THEOREM SetupInStep == SetupSpec => []DIInv
  BY InitDIInv, StepDIInv, PTL DEF SetupSpec

\* If nothing disturbs setup_PS2, the keyboard sends untranslated codes with its
\* interrupt on in the end.
THEOREM QuietSetup == SetupSpec => []QuietSetupWorks
<1>1. DIInv => QuietSetupWorks
  BY DEF DIInv, SetupTypeOK, SetupStands, HearsAtLast, Quiet, Sends, QuietSetupWorks
<1> QED
  BY <1>1, SetupInStep, PTL

\* Only a setup_PS2 that gives up leaves the interrupt off, and only one that
\* does not lets a mouse that sends nothing on its own get in the keyboard's way.
THEOREM ResultIsTelling == SetupSpec => []ResultTells
<1>1. DIInv => DeafOnlyAfterFalse
  BY ScriptLength DEF DIInv, SetupTypeOK, HearsAtLast, DeafOnlyAfterFalse, Ended
<1>2. DIInv => StuckOnlyAfterTrue
  BY ScriptLength DEF DIInv, SetupTypeOK, EndsSomewhere, MouseSilent, StuckOnlyAfterTrue, Stuck, Ended
<1> QED
  BY <1>1, <1>2, SetupInStep, PTL DEF DIInv, ResultTells
===============================================================================
