------------------------------- MODULE Timing -------------------------------
(***************************************************************************)
(* drivers/timing.c: the tick counter, which wraps, and the four functions *)
(* that wait for it.  kernel_sleep and kernel_sleep_seconds halt the CPU   *)
(* between two looks, sleep and sleep_seconds spin.  Interrupts are on.    *)
(***************************************************************************)
EXTENDS Naturals

CONSTANTS Wrap,     \* pit_ticks counts modulo this: 2^32
          Second,   \* ticks in a second: 1000
          MaxAsked  \* bound: the largest argument

ASSUME TimingAssumption ==
    /\ Wrap \in Nat \ {0} /\ Second \in Nat \ {0} /\ MaxAsked \in Nat

VARIABLES pit_ticks,
          pc,       \* "awake", "look" (about to compare), "hlt" (about to execute
                    \* HLT) or "halted"
          how,      \* "halting" or "spinning"
          target,
          asked,    \* history: ticks the caller wants to sleep
          elapsed,  \* history: ticks since it called, up to twice Wrap
          wrapped,  \* history: "yes" if the target or the product overflowed
          moved     \* history: "yes" if the CPU has made a step since the last tick

vars == <<pit_ticks, pc, how, target, asked, elapsed, wrapped, moved>>

Init ==
    /\ pit_ticks = 0 /\ pc = "awake" /\ how = "spinning" /\ target = 0
    /\ asked = 0 /\ elapsed = 0 /\ wrapped = "no" /\ moved = "yes"

\* The entry of all four: n is the argument in ticks, before it overflows.
Begin(n, h) ==
    /\ pc = "awake" /\ pc' = "look" /\ how' = h
    /\ target' = (pit_ticks + (n % Wrap)) % Wrap
    /\ asked' = n /\ elapsed' = 0
    /\ wrapped' = IF pit_ticks + n >= Wrap THEN "yes" ELSE "no"
    /\ moved' = "yes" /\ UNCHANGED pit_ticks

kernel_sleep(ms) == Begin(ms, "halting")
kernel_sleep_seconds(seconds) == Begin(seconds * Second, "halting")
sleep(ms) == Begin(ms, "spinning")
sleep_seconds(seconds) == Begin(seconds * Second, "spinning")

\* Mutant of Waits: the target's own tick is waited for as well.
WaitsLonger == pit_ticks <= target
\* Mutant of Waits: the last tick is not waited for.
WaitsShorter == pit_ticks + 1 < target
Waits == pit_ticks < target

Look ==
    /\ pc = "look"
    /\ pc' = IF ~Waits THEN "awake" ELSE IF how = "halting" THEN "hlt" ELSE "look"
    /\ moved' = "yes"
    /\ UNCHANGED <<pit_ticks, how, target, asked, elapsed, wrapped>>

Halt ==
    /\ pc = "hlt" /\ pc' = "halted" /\ moved' = "yes"
    /\ UNCHANGED <<pit_ticks, how, target, asked, elapsed, wrapped>>

Woken == IF pc = "halted" THEN "look" ELSE pc

\* pit_handler.  The CPU executes many instructions in a tick.
Advanced(t) == (t + 1) % Wrap

pit_handler ==
    /\ moved = "yes" \/ pc \in {"awake", "halted"}
    /\ pit_ticks' = Advanced(pit_ticks)
    /\ pc' = Woken /\ moved' = "no"
    /\ elapsed' = IF elapsed < 2 * Wrap THEN elapsed + 1 ELSE elapsed
    /\ UNCHANGED <<how, target, asked, wrapped>>

\* Another interrupt ends HLT too.
OtherInterrupt ==
    /\ pc = "halted" /\ pc' = "look"
    /\ UNCHANGED <<pit_ticks, how, target, asked, elapsed, wrapped, moved>>

Sleep == \E n \in 0 .. MaxAsked :
             kernel_sleep(n) \/ kernel_sleep_seconds(n) \/ sleep(n) \/ sleep_seconds(n)

Next == Sleep \/ Look \/ Halt \/ pit_handler \/ OtherInterrupt

Spec == Init /\ [][Next]_vars /\ WF_vars(Look) /\ WF_vars(Halt) /\ WF_vars(pit_handler)

(***************************************************************************)
(* Properties.                                                             *)
(***************************************************************************)
TypeOK ==
    /\ pit_ticks \in 0 .. Wrap - 1 /\ target \in 0 .. Wrap - 1
    /\ pc \in {"awake", "look", "hlt", "halted"} /\ how \in {"halting", "spinning"}
    /\ asked \in Nat /\ elapsed \in 0 .. 2 * Wrap
    /\ wrapped \in {"yes", "no"} /\ moved \in {"yes", "no"}

\* No sleep is shorter than it was asked to be, over every order of ticks, other
\* interrupts and looks, unless its target or the number of seconds overflowed.
NeverShort ==
    [][pc = "look" /\ pc' = "awake" /\ wrapped = "no" => elapsed >= asked]_vars

\* Nor more than a tick longer: the one that comes before the first look or
\* between a look and HLT.  That tick may cost whole rounds of the counter when
\* the target is its last value: the counter has passed it by the next look.
AtMostATickLong ==
    [][pc = "look" /\ pc' = "awake" /\ wrapped = "no" =>
          elapsed <= asked + 1 \/ target = Wrap - 1]_vars

\* Every sleep ends, overflowed or not; one that halts may miss the counter's
\* last value again in every round.
SleepEnds ==
    pc = "look" /\ (how = "spinning" \/ target # Wrap - 1) ~> pc = "awake"

\* A sleep whose target overflowed ends within a tick, the target being behind
\* the counter, or, when the counter overflows in that tick, takes its time.
NothingOrRight ==
    [][pc = "look" /\ pc' = "awake" /\ wrapped = "yes" /\ asked < Wrap =>
          elapsed <= 1 \/ elapsed >= asked]_vars

\* How long a sleep takes, in every case.
KeepsTime == NeverShort /\ AtMostATickLong /\ NothingOrRight
==============================================================================
