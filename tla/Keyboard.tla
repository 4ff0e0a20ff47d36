------------------------------ MODULE Keyboard ------------------------------
(***************************************************************************)
(* From the keys a person holds down to the characters the shell reads:    *)
(* the buffer of KeyBuffer, with the meaning of its bytes added.  The      *)
(* keyboard (external) sends make and break codes; poll_char decodes them  *)
(* with two static flags that outlive every user program.                  *)
(***************************************************************************)
EXTENDS KeyBuffer, Sequences, FiniteSets

CONSTANTS Letters,    \* keys that type a character
          MaxEvents,  \* bound: key events in a behaviour
          MaxExits    \* bound: exit system calls in a behaviour

Shift == "shift"      \* left shift, code 0x12
Break == "break"      \* code 0xF0, before the code of a released key
NUL == "NUL"          \* '\0', which kernel_main drops

ASSUME LettersAssumption ==
    Letters \cap {Shift, Break, NUL} = {} /\ MaxEvents \in Nat /\ MaxExits \in Nat

Keys == Letters \cup {Shift}

VARIABLES down,      \* the keys held down
          wire,      \* codes the keyboard has yet to deliver
          codes,     \* history: codes[n] is the n-th byte sent
          last_f0, shift,   \* poll_char's statics, "set" or "clear"
          typed,     \* history: what poll_char returned, except NUL
          wanted,    \* history: what a reader of the keys would have typed
          events,    \* key events so far
          exits,     \* exits so far
          losses     \* history: every slip so far, and "flushed" once an exit
                     \* threw waiting bytes away

kvars == <<down, wire, codes, last_f0, shift, typed, wanted, events, exits, losses>>
allVars == <<vars, kvars>>

KInit ==
    /\ Init
    /\ down = {} /\ wire = <<>> /\ codes = <<>>
    /\ last_f0 = "clear" /\ shift = "clear"
    /\ typed = <<>> /\ wanted = <<>>
    /\ events = 0 /\ exits = 0 /\ losses = {}

\* `shift ? 'A' : 'a'`.
Char(key, isShift) == <<key, IF isShift THEN "upper" ELSE "lower">>

(***************************************************************************)
(* The keyboard.  A key held down repeats its make code.                   *)
(***************************************************************************)
Press(key) ==
    /\ events < MaxEvents
    /\ events' = events + 1
    /\ down' = down \cup {key}
    /\ wire' = Append(wire, key)
    /\ wanted' = IF key = Shift THEN wanted
                 ELSE Append(wanted, Char(key, Shift \in down))
    /\ UNCHANGED <<vars, codes, last_f0, shift, typed, exits, losses>>

Release(key) ==
    /\ events < MaxEvents /\ key \in down
    /\ events' = events + 1
    /\ down' = down \ {key}
    /\ wire' = wire \o <<Break, key>>
    /\ UNCHANGED <<vars, codes, last_f0, shift, typed, wanted, exits, losses>>

\* A byte reaches port 0x60 and raises IRQ 1; keyboard_handler buffers it.
Deliver ==
    /\ wire # <<>>
    /\ keyboard_handler
    /\ codes' = Append(codes, Head(wire))
    /\ wire' = Tail(wire)
    /\ losses' = losses \cup slips'
    /\ UNCHANGED <<down, last_f0, shift, typed, wanted, events, exits>>

(***************************************************************************)
(* poll_char after the buffer update.  A cell no byte was stored in, which *)
(* only a buffer that slipped can hand over, reads as any code.            *)
(***************************************************************************)
Code(c) == IF scancode = 0 THEN c \in Keys \cup {Break} ELSE c = codes[scancode]

\* Mutant of Released: the release of shift is ignored.
ReleasedStuck(c) == last_f0' = "clear" /\ shift' = shift
Released(c) ==
    /\ last_f0' = "clear"
    /\ shift' = IF c = Shift THEN "clear" ELSE shift

\* Mutant of Decode: the break prefix is not remembered, so a release types.
DecodeNoBreak(c) ==
    \/ c = Break /\ UNCHANGED <<last_f0, shift, typed>>
    \/ c = Shift /\ shift' = "set" /\ UNCHANGED <<last_f0, typed>>
    \/ /\ c \in Letters
       /\ typed' = Append(typed, Char(c, shift = "set"))
       /\ UNCHANGED <<last_f0, shift>>
Decode(c) ==
    \/ /\ c = Break
       /\ last_f0' = "set" /\ UNCHANGED <<shift, typed>>
    \/ /\ c # Break /\ last_f0 = "set"
       /\ Released(c) /\ UNCHANGED typed
    \/ /\ c = Shift /\ last_f0 = "clear"
       /\ shift' = "set" /\ UNCHANGED <<last_f0, typed>>
    \/ /\ c \in Letters /\ last_f0 = "clear"
       /\ typed' = Append(typed, Char(c, shift = "set"))
       /\ UNCHANGED <<last_f0, shift>>

\* Only a character can complete a command and start a program.
DecodeStep ==
    /\ PollStoreLength
    /\ \E c \in Keys \cup {Break} : Code(c) /\ Decode(c)
    /\ pc' = "user" => typed' # typed
    /\ UNCHANGED <<down, wire, codes, wanted, events, exits, losses>>

ReadStep ==
    /\ SeeLength \/ PollNothing \/ PollFetch \/ PollLoadLength
    /\ UNCHANGED kvars

(***************************************************************************)
(* exit: it leaves last_f0 and shift as the last byte decoded left them.   *)
(***************************************************************************)
ExitBegins == exits < MaxExits /\ ExitResetRead /\ exits' = exits + 1
    /\ UNCHANGED <<down, wire, codes, last_f0, shift, typed, wanted, events, losses>>

ExitEnds ==
    /\ ExitResetLength
    /\ losses' = losses \cup (IF next <= sent THEN {"flushed"} ELSE {})
    /\ UNCHANGED <<down, wire, codes, last_f0, shift, typed, wanted, events, exits>>

KNext ==
    \/ \E key \in Keys : Press(key) \/ Release(key)
    \/ Deliver \/ DecodeStep \/ ReadStep \/ ExitBegins \/ ExitEnds

\* Interrupts are served and the kernel keeps running; people type or not.
KSpec ==
    /\ KInit /\ [][KNext]_allVars
    /\ WF_allVars(Deliver) /\ WF_allVars(DecodeStep \/ ReadStep \/ ExitEnds)

(***************************************************************************)
(* Properties.                                                             *)
(***************************************************************************)
KTypeOK ==
    /\ TypeOK
    /\ down \subseteq Keys /\ wire \in Seq(Keys \cup {Break})
    /\ codes \in Seq(Keys \cup {Break}) /\ Len(codes) = sent
    /\ last_f0 \in {"set", "clear"} /\ shift \in {"set", "clear"}
    /\ typed \in Seq(Letters \X {"upper", "lower"})
    /\ wanted \in Seq(Letters \X {"upper", "lower"})
    /\ losses \subseteq {"raced", "overrun", "flushed"}

\* As long as no byte was lost, the shell reads what was typed: each key
\* once, in order, capital exactly when shift was down as it was pressed,
\* although poll_char sees it long after shift may have been released.
TypedAsPressed ==
    losses = {} => /\ Len(typed) <= Len(wanted)
                   /\ typed = SubSeq(wanted, 1, Len(typed))

\* When every byte has been read and none was lost, poll_char's flags agree
\* with the keyboard: shift is set exactly while the key is down, no break
\* prefix is pending, nothing typed is missing.
FlagsFollowKeys ==
    losses = {} /\ wire = <<>> /\ next = sent + 1 =>
        /\ shift = "set" <=> Shift \in down
        /\ last_f0 = "clear"
        /\ typed = wanted

\* From the keys to the characters, as long as no byte was lost.
KeysDecoded == KTypeOK /\ TypedAsPressed /\ FlagsFollowKeys

\* An exit may throw away one byte of a two-byte break code, and then the
\* release of a key types its character; but it can do so once.  Short of a
\* race or an overrun, the shell never reads more characters than keys were
\* pressed and programs exited.
OneInventedPerExit ==
    losses \subseteq {"flushed"} => Len(typed) <= Len(wanted) + exits

\* When no byte is ever lost and no program keeps the CPU, everything typed
\* is read in the end.
TypedInTheEnd ==
    []<>(typed = wanted \/ losses # {} \/ pc = "user")

(***************************************************************************)
(* The inductive invariant behind KeysDecoded and OneInventedPerExit.      *)
(* Codes is all the keyboard has sent, delivered or not; what is said of a *)
(* prefix of it is what a decoder that loses nothing knows by then.        *)
(***************************************************************************)
Codes == codes \o wire

\* Whether the i-th code of s is that of a key released.
Prefixed(s, i) == i > 1 /\ s[i - 1] = Break

\* The first i codes of s: how many characters they type, and whether they
\* leave shift down.
Makes(s, i) == {j \in 1 .. i : s[j] \in Letters /\ ~Prefixed(s, j)}
TypedBy(s, i) == Cardinality(Makes(s, i))
ShiftAfter(s, i) == \E j \in 1 .. i : /\ s[j] = Shift /\ ~Prefixed(s, j)
                                     /\ \A k \in j + 1 .. i : s[k] # Shift

\* The codes tell what was typed, and which of it in capitals.
CodesTell ==
    /\ Len(wanted) = TypedBy(Codes, Len(Codes))
    /\ Shift \in down <=> ShiftAfter(Codes, Len(Codes))
    /\ ~Prefixed(Codes, Len(Codes) + 1)
    /\ \A i \in 1 .. Len(Codes) : i \in Makes(Codes, i) =>
           wanted[TypedBy(Codes, i)] =
               Char(Codes[i], ShiftAfter(Codes, i))

\* The decoder is behind the keyboard, and what slipped is on record.
Behind ==
    /\ next >= 1 /\ slips \subseteq losses
    /\ "overrun" \notin slips => next <= sent + 1

\* While nothing is lost, the decoder knows what the codes it has read tell.
InStep ==
    losses = {} =>
        /\ Len(typed) = TypedBy(Codes, next - 1)
        /\ \A k \in DOMAIN typed : typed[k] = wanted[k]
        /\ last_f0 = "set" <=> Prefixed(Codes, next)
        /\ shift = "set" <=> ShiftAfter(Codes, next - 1)

\* An exit may leave the decoder taking a released key for a pressed one: that
\* character is counted from then on.
AtMostOneAhead ==
    losses \subseteq {"flushed"} =>
        LET astray == pc = "exit" \/ (last_f0 = "clear" /\ Prefixed(Codes, next))
        IN  Len(typed) + (IF astray THEN 1 ELSE 0) <= TypedBy(Codes, next - 1) + exits

KIInv ==
    /\ IInv /\ KTypeOK /\ exits \in Nat
    /\ CodesTell /\ Behind /\ InStep /\ AtMostOneAhead
==============================================================================
