--------------------------------- MODULE Ps2 ---------------------------------
(***************************************************************************)
(* setup_PS2 of drivers/keyboard.c, with interrupts on, against the PS/2   *)
(* controller, the keyboard and the mouse, which are external.  Port 0x60  *)
(* gives the byte of the output buffer, or the last byte once more when it *)
(* is empty; setup_PS2 does not look which, nor whose byte it is.          *)
(***************************************************************************)
EXTENDS Naturals, Sequences

CONSTANT MaxKeys   \* bound: keys pressed

ASSUME KeysAssumption == MaxKeys \in Nat

VARIABLES
    channels,   \* "one" or "two"
    mouse,      \* "absent", "present" or "reporting": it sends on its own
    prompt,     \* "yes" if answers are there when io_wait returns
    config,     \* the controller's configuration byte
    ob,         \* the output buffer: a byte or None
    last,       \* what port 0x60 gives when it is empty
    ctl, kbd, aux,  \* bytes of the controller, keyboard and mouse on their way
    irq1,       \* "raised": keyboard_handler is to run
    step,       \* how many steps of Script are done
    config_byte, dual_channel,
    result,     \* what setup_PS2 returns: "none", "true" or "false"
    keys,       \* keys pressed
    noise       \* history: "yes" if one was pressed, or one the BIOS left was
                \* unread, or the mouse sent a byte, before setup_PS2 ended

machine == <<channels, mouse, prompt>>
queues == <<ctl, kbd, aux>>
locals == <<config_byte, dual_channel, result>>
ps2_vars == <<machine, config, ob, last, queues, irq1, step, locals, keys, noise>>

Byte(from, what) == [from |-> from, what |-> what]
None == Byte("none", "none")
NoConfig == [irq1 |-> "no", irq12 |-> "no", off1 |-> "no", off2 |-> "no", xlat |-> "no"]
Configs == [irq1 : {"yes", "no"}, irq12 : {"yes", "no"}, off1 : {"yes", "no"},
            off2 : {"yes", "no"}, xlat : {"yes", "no"}]

(***************************************************************************)
(* setup_PS2 as a sequence of port accesses: commands are named by their   *)
(* code, readings by what is made of the byte; "dual" steps are skipped on *)
(* a single channel.                                                       *)
(***************************************************************************)
Script == <<"AD", "A7", "flush", "20", "first", "put", "AA", "55", "A8", "20", "dual?",
            "A7 dual", "AB", "00", "A9 dual", "00 dual", "AE", "A8 dual", "20", "second",
            "put", "FF", "FA", "D4 dual", "FA dual">>
Readings == {"flush", "first", "55", "dual?", "00", "00 dual", "second", "FA", "FA dual"}
DualSteps == {"A7 dual", "A9 dual", "00 dual", "A8 dual", "D4 dual", "FA dual"}

Ended == result # "none"
Op == Script[step + 1]
Skips == Op \in DualSteps /\ dual_channel = "no"

SetupInit ==
    /\ channels \in {"one", "two"} /\ mouse \in {"absent", "present", "reporting"}
    /\ channels = "one" => mouse = "absent"
    /\ prompt \in {"yes", "no"}
    /\ config \in [irq1 : {"yes"}, irq12 : {"no"}, off1 : {"no"},
                   off2 : {"yes", "no"}, xlat : {"yes"}]
    /\ channels = "one" => config.off2 = "yes"
    /\ ob \in {None, Byte("kbd", "key")} /\ last = ob
    /\ kbd \in IF ob = None THEN {<<>>} ELSE {<<>>, <<Byte("kbd", "key")>>}
    /\ noise = IF kbd = <<>> THEN "no" ELSE "yes"
    /\ ctl = <<>> /\ aux = <<>> /\ irq1 = "quiet" /\ step = 0
    /\ config_byte = NoConfig /\ dual_channel = "no" /\ result = "none" /\ keys = 0

(***************************************************************************)
(* The devices.  A byte comes into the buffer when that is empty and its   *)
(* port's clock is on; one that is not the mouse's raises IRQ 1 if that is *)
(* enabled.  Nothing reads the mouse's: irq_handler does nothing.          *)
(***************************************************************************)
Fill(b) ==
    /\ ob = None /\ ob' = b /\ last' = b
    /\ irq1' = IF b.from # "aux" /\ config.irq1 = "yes" THEN "raised" ELSE irq1

Arrive ==
    /\ \/ ctl # <<>> /\ Fill(Head(ctl)) /\ ctl' = Tail(ctl) /\ UNCHANGED <<kbd, aux>>
       \/ /\ ctl = <<>> /\ kbd # <<>> /\ config.off1 = "no"
          /\ Fill(Head(kbd)) /\ kbd' = Tail(kbd) /\ UNCHANGED <<ctl, aux>>
       \/ /\ ctl = <<>> /\ aux # <<>> /\ config.off2 = "no"
          /\ Fill(Head(aux)) /\ aux' = Tail(aux) /\ UNCHANGED <<ctl, kbd>>
    /\ UNCHANGED <<machine, config, step, locals, keys, noise>>

Disturb == noise' = IF Ended THEN noise ELSE "yes"

Press ==
    /\ keys < MaxKeys /\ keys' = keys + 1
    /\ kbd' = Append(kbd, Byte("kbd", "key"))
    /\ Disturb
    /\ UNCHANGED <<machine, config, ob, last, ctl, aux, irq1, step, locals>>

MoveMouse ==
    /\ mouse = "reporting" /\ aux = <<>>
    /\ aux' = <<Byte("aux", "move")>>
    /\ Disturb
    /\ UNCHANGED <<machine, config, ob, last, ctl, kbd, irq1, step, locals, keys>>

\* Mutant of keyboard_handler: it acknowledges and reads nothing.
keyboard_handlerBlind ==
    /\ irq1 = "raised" /\ irq1' = "quiet"
    /\ UNCHANGED <<machine, config, ob, last, queues, step, locals, keys, noise>>
keyboard_handler ==
    /\ irq1 = "raised" /\ irq1' = "quiet" /\ ob' = None
    /\ UNCHANGED <<machine, config, last, queues, step, locals, keys, noise>>

(***************************************************************************)
(* The steps of setup_PS2.                                                 *)
(***************************************************************************)
Onward ==
    /\ step' = step + 1
    /\ result' = IF step + 1 = Len(Script) THEN "true" ELSE "none"

Skip ==
    /\ ~Ended /\ Skips /\ Onward
    /\ UNCHANGED <<machine, config, ob, last, queues, irq1, config_byte, dual_channel,
                   keys, noise>>

\* The controller's commands; 0x20, 0xAA, 0xAB and 0xA9 are answered.
Off2(how) == IF channels = "two" THEN [config EXCEPT !.off2 = how] ELSE config
Configured(op) ==
    CASE op = "AD" -> [config EXCEPT !.off1 = "yes"]
      [] op = "AE" -> [config EXCEPT !.off1 = "no"]
      [] op \in {"A7", "A7 dual"} -> Off2("yes")
      [] op \in {"A8", "A8 dual"} -> Off2("no")
      [] op = "put" -> IF channels = "two" THEN config_byte
                       ELSE [config_byte EXCEPT !.off2 = "yes"]
      [] OTHER -> config
Answer(op) ==
    CASE op = "20" -> <<Byte("ctl", "config")>>
      [] op = "AA" -> <<Byte("ctl", "55")>>
      [] op \in {"AB", "A9 dual"} -> <<Byte("ctl", "00")>>
      [] OTHER -> <<>>

\* A keyboard or mouse that is reset forgets what it had to send.
Send ==
    /\ ~Ended /\ Op \notin Readings /\ ~Skips
    /\ config' = Configured(Op)
    /\ ctl' = ctl \o Answer(Op)
    /\ kbd' = IF Op = "FF" THEN <<Byte("kbd", "FA"), Byte("kbd", "AA")>> ELSE kbd
    /\ aux' = IF Op = "D4 dual" /\ mouse # "absent"
              THEN <<Byte("aux", "FA"), Byte("aux", "AA"), Byte("aux", "id")>> ELSE aux
    /\ irq1' = IF config'.irq1 = "yes" /\ ob.from \in {"ctl", "kbd"} THEN "raised" ELSE irq1
    /\ mouse' = IF Op = "D4 dual" /\ mouse = "reporting" THEN "present" ELSE mouse
    /\ Onward
    /\ UNCHANGED <<channels, prompt, ob, last, config_byte, dual_channel, keys, noise>>

\* The configuration that is read out: the controller's, if the byte is that.
Read(b) == IF b = Byte("ctl", "config") THEN {config} ELSE Configs

\* config_byte &= 0b10100110
Masked(c) == [c EXCEPT !.irq1 = "no", !.off1 = "no", !.xlat = "no"]
\* Mutant of Enabled: the interrupt of port 1 is left as it is.
EnabledNot(c) == [c EXCEPT !.off1 = "no"]
Enabled(c) ==
    LET one == [c EXCEPT !.irq1 = "yes", !.off1 = "no"]
    IN  IF dual_channel = "yes" THEN [one EXCEPT !.irq12 = "yes", !.off2 = "no"] ELSE one

\* What byte b makes of config_byte and dual_channel.
Understand(b) ==
    /\ config_byte' \in CASE Op = "first" -> {Masked(c) : c \in Read(b)}
                          [] Op = "second" -> {Enabled(c) : c \in Read(b)}
                          [] OTHER -> {config_byte}
    /\ dual_channel' \in
           CASE Op = "dual?" -> {IF c.off2 = "no" THEN "yes" ELSE "no" : c \in Read(b)}
             [] Op = "00 dual" -> IF b.what = "00" THEN {"yes"} ELSE {"no"}
             [] Op = "FA dual" -> IF b.what = "FA" THEN {"yes"} ELSE {"no"}
             [] OTHER -> {dual_channel}

\* Mutant of GivesUp: a mouse that does not answer is an error as well.
GivesUpOnMouse(b) == Op \in {"55", "00", "FA", "FA dual"} /\ b.what # SubSeq(Op, 1, 2)
GivesUp(b) == Op \in {"55", "00", "FA"} /\ b.what # Op

\* IRQ 1 may still come for a byte that has been read.
Receive ==
    /\ ~Ended /\ Op \in Readings /\ ~Skips
    /\ prompt = "yes" => ob # None \/ (ctl = <<>> /\ (kbd = <<>> \/ Op # "FA")
                                                  /\ (aux = <<>> \/ Op # "FA dual"))
    /\ ob' = None /\ irq1' \in {irq1, "quiet"}
    /\ Understand(last)
    /\ \/ GivesUp(last) /\ result' = "false" /\ UNCHANGED step
       \/ ~GivesUp(last) /\ Onward
    /\ UNCHANGED <<machine, config, last, queues, keys, noise>>

Setup == Skip \/ Send \/ Receive

SetupNext == Arrive \/ Press \/ MoveMouse \/ keyboard_handler \/ Setup

SetupSpec == SetupInit /\ [][SetupNext]_ps2_vars
        /\ WF_ps2_vars(Arrive) /\ WF_ps2_vars(keyboard_handler) /\ WF_ps2_vars(Setup)

(***************************************************************************)
(* Properties.                                                             *)
(***************************************************************************)
SetupTypeOK ==
    /\ config \in Configs /\ config_byte \in Configs
    /\ irq1 \in {"raised", "quiet"} /\ step \in 0 .. Len(Script)
    /\ dual_channel \in {"yes", "no"} /\ result \in {"none", "true", "false"}
    /\ keys \in 0 .. MaxKeys /\ noise \in {"yes", "no"}
    /\ ob # None => ob = last
    /\ result = "true" <=> step = Len(Script)

\* If nobody touches keyboard and mouse during setup_PS2 and the controller is
\* prompt, the keyboard is left sending untranslated codes with its interrupt
\* on, whichever way keyboard_handler and setup_PS2 share the answers between
\* them, and although the byte that ends setup_PS2 may be one already taken.
QuietSetupWorks ==
    Ended /\ prompt = "yes" /\ noise = "no" =>
        config.irq1 = "yes" /\ config.off1 = "no" /\ config.xlat = "no"

\* setup_PS2 leaves the keyboard without its interrupt, for ever since nobody
\* looks at the result, only when it returns false.
DeafOnlyAfterFalse == Ended /\ config.irq1 = "no" => result = "false"

\* Once the interrupt is on, a key pressed comes to keyboard_handler, unless a
\* byte of the mouse is in its way: that one nobody reads.
Stuck == ob.from = "aux"
KeysHeard ==
    Ended /\ config.irq1 = "yes" /\ config.off1 = "no" /\ kbd # <<>> ~> kbd = <<>> \/ Stuck

\* A mouse that sends nothing on its own gets in the way only after a setup_PS2
\* that returns true: only then has it been reset, and only its first answer
\* been read.
StuckOnlyAfterTrue == Ended /\ Stuck /\ mouse = "present" => result = "true"

\* The two ways to lose the keyboard for good exclude each other: the result
\* that nobody looks at tells which one it may be.
ResultTells == SetupTypeOK /\ DeafOnlyAfterFalse /\ StuckOnlyAfterTrue
==============================================================================
