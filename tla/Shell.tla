-------------------------------- MODULE Shell --------------------------------
(***************************************************************************)
(* The shell's line editor: kernel_main, strsplit and the dispatch of      *)
(* run_command.  input_buffer and parts are locals that nothing            *)
(* initialises, and kernel_main is entered again after every program.      *)
(* A key arrives as the character poll_char decoded; letter case, which    *)
(* the shell folds, is left out.                                           *)
(***************************************************************************)
EXTENDS Naturals, Sequences, FiniteSetsExt

CONSTANTS BufferSize,  \* sizeof input_buffer: 256
          MaxParts,    \* slots of parts: 16
          Letters,     \* characters other than the space
          Run,         \* the word that starts a program: "run"
          MaxKeys      \* bound: characters read in a behaviour

Space == " "
NUL == "NUL"
Junk == "junk"         \* what the stack held: neither NUL nor a delimiter
Unset == BufferSize    \* a slot of parts that was never assigned

ShellAssumption ==
    /\ BufferSize \in Nat \ {0, 1} /\ MaxParts \in Nat \ {0, 1} /\ MaxKeys \in Nat
    /\ Letters \cap {Space, NUL, Junk} = {}
    /\ Run \in Letters

VARIABLES buffer,      \* input_buffer
          input_size,
          parts,       \* offsets into the buffer
          status,      \* "reading"; "program", a user program runs; "wild", an
                       \* unset pointer or unterminated text was followed;
                       \* "smashed", the stack past the buffer was written
          line,        \* history: what the user has typed and not erased
          erasing,     \* history: "never", "before" or "last": when backspace
                       \* erased a character since kernel_main was entered
          entered,     \* history: what the buffer held then, "zeros" or "junk"
          ran,         \* history: the last command: the text the buffer held,
                       \* the line it should have held, and their first words
          keys         \* characters read so far

vars == <<buffer, input_size, parts, status, line, erasing, entered, ran, keys>>

Offsets == 0 .. BufferSize - 1
Content == Letters \cup {Space, NUL, Junk}

(***************************************************************************)
(* C strings in the buffer b: the end of the one that starts at offset o,  *)
(* if it has one, and its characters.                                      *)
(***************************************************************************)
Ended(b) == \E i \in Offsets : b[i] = NUL
End(b, o) == CHOOSE i \in o .. BufferSize - 1 :
                 b[i] = NUL /\ \A k \in o .. i - 1 : b[k] # NUL
Text(b, o) == [k \in 1 .. End(b, o) - o |-> b[o + k - 1]]

(***************************************************************************)
(* strsplit(input_buffer, ' ', parts, 16).  One leading delimiter is       *)
(* skipped; what then comes first is a part even when it is a delimiter.   *)
(***************************************************************************)
First(b) == IF b[0] = Space THEN 1 ELSE 0

\* The offsets at which parts begin, before the limit.
Starts(b) ==
    {i \in Offsets : /\ i < End(b, 0) /\ i >= First(b)
                     /\ i = First(b) \/ (b[i - 1] = Space /\ b[i] # Space)}

\* The beginning that has k others before it, as a set: parts are filled in
\* order, and the scan ends with the text or when the last slot is filled.
Nth(b, k) == {i \in Starts(b) : Cardinality({j \in Starts(b) : j < i}) = k}
Count(b) == Min({Cardinality(Starts(b)), MaxParts})
ScanEnd(b) == IF Nth(b, MaxParts - 1) = {} THEN End(b, 0)
              ELSE CHOOSE i \in Nth(b, MaxParts - 1) : TRUE

\* The delimiters the scan passes become the ends of the parts.
Split(b) == [i \in Offsets |->
                IF i \in First(b) .. ScanEnd(b) - 1 /\ b[i] = Space THEN NUL ELSE b[i]]

\* Mutant of SlotsAfter: the first part goes to the second slot.
SlotsAfterOneUp(b) == [k \in 0 .. MaxParts - 1 |->
                          IF k = 0 \/ Nth(b, k - 1) = {} THEN parts[k]
                          ELSE CHOOSE i \in Nth(b, k - 1) : TRUE]
SlotsAfter(b) == [k \in 0 .. MaxParts - 1 |->
                     IF Nth(b, k) = {} THEN parts[k] ELSE CHOOSE i \in Nth(b, k) : TRUE]

(***************************************************************************)
(* Entry.  The stack below holds zeros when nothing ran there before.      *)
(***************************************************************************)
Entry ==
    /\ entered' \in {"zeros", "junk"}
    /\ buffer' \in [Offsets -> IF entered' = "zeros" THEN {NUL} ELSE {NUL, Junk}]
    /\ input_size' = 0 /\ parts' = [k \in 0 .. MaxParts - 1 |-> Unset]
    /\ status' = "reading" /\ line' = <<>> /\ erasing' = "never"

NoCommand == [text |-> <<>>, typed |-> <<>>, word |-> <<>>, count |-> 0]

Init ==
    /\ entered \in {"zeros", "junk"}
    /\ buffer \in [Offsets -> IF entered = "zeros" THEN {NUL} ELSE {NUL, Junk}]
    /\ input_size = 0 /\ parts = [k \in 0 .. MaxParts - 1 |-> Unset]
    /\ status = "reading" /\ line = <<>> /\ erasing = "never"
    /\ ran = NoCommand /\ keys = 0

Read == status = "reading" /\ keys < MaxKeys /\ keys' = keys + 1

(***************************************************************************)
(* kernel_main, one action for each kind of character.                     *)
(***************************************************************************)
Stored(c) == [buffer EXCEPT ![input_size] = c]

Type(c) ==
    /\ Read
    /\ IF input_size < BufferSize
       THEN buffer' = Stored(c) /\ status' = status
       ELSE buffer' = buffer /\ status' = "smashed"
    /\ input_size' = input_size + 1
    /\ line' = Append(line, c)
    /\ erasing' = IF erasing = "last" THEN "before" ELSE erasing
    /\ UNCHANGED <<parts, entered, ran>>

\* The cell after the last character is cleared, not the character's own.
\* Mutant of Cleared: no cell is cleared.
ClearedNot == buffer
Cleared == [buffer EXCEPT ![input_size] = NUL]

Erased == input_size - 1

Backspace ==
    /\ Read /\ input_size # 0
    /\ IF input_size < BufferSize
       THEN buffer' = Cleared /\ status' = status
       ELSE buffer' = buffer /\ status' = "smashed"
    /\ input_size' = Erased
    /\ line' = SubSeq(line, 1, Len(line) - 1)
    /\ erasing' = "last"
    /\ UNCHANGED <<parts, entered, ran>>

\* What is cleared once the command has run.
Emptied(b) == [i \in Offsets |-> IF i < input_size THEN NUL ELSE b[i]]

\* run_command looks at parts[0] whatever parts_length is, and `run` at
\* parts[1]; the command may then start a program, if the file is there.
Follows(slots, word) == {slots[0]} \cup (IF word = <<Run>> /\ MaxParts > 1
                                        THEN {slots[1]} ELSE {})

Enter ==
    /\ Read /\ Ended(buffer)
    /\ LET split == Split(buffer)
           slots == SlotsAfter(buffer)
           word == IF slots[0] = Unset THEN <<>> ELSE Text(split, slots[0])
       IN  /\ parts' = slots
           /\ ran' = [text |-> Text(buffer, 0), typed |-> line, word |-> word,
                      count |-> Count(buffer)]
           /\ status' \in IF Unset \in Follows(slots, word) THEN {"wild"}
                          ELSE IF word = <<Run>> THEN {"reading", "program"}
                          ELSE {"reading"}
           /\ buffer' = Emptied(split)
    /\ input_size' = 0 /\ line' = <<>>
    /\ erasing' = IF erasing = "never" THEN "never" ELSE "before"
    /\ UNCHANGED entered

\* A text without an end: to_lower_case and strsplit run past the buffer.
EnterUnended ==
    /\ Read /\ ~Ended(buffer)
    /\ status' = "wild"
    /\ UNCHANGED <<buffer, input_size, parts, line, erasing, entered, ran>>

Exit ==
    /\ status = "program"
    /\ Entry
    /\ UNCHANGED <<ran, keys>>

Next ==
    \/ \E c \in Letters \cup {Space} : Type(c)
    \/ Backspace \/ Enter \/ EnterUnended \/ Exit

Spec == Init /\ [][Next]_vars

(***************************************************************************)
(* Properties.                                                             *)
(***************************************************************************)
TypeOK ==
    /\ buffer \in [Offsets -> Content]
    /\ parts \in [0 .. MaxParts - 1 -> 0 .. BufferSize]
    /\ status \in {"reading", "program", "wild", "smashed"}
    /\ input_size = Len(line)
    /\ erasing \in {"never", "before", "last"} /\ entered \in {"zeros", "junk"}
    /\ ran.text \in Seq(Content) /\ ran.word \in Seq(Content)

\* What was typed and not erased is what the buffer holds up to input_size,
\* over every sequence of typing, erasing, entering lines and programs.
BufferHoldsLine ==
    status = "reading" => \A i \in 1 .. input_size : buffer[i - 1] = line[i]

\* The command that runs is the line that was typed, and nothing of the lines
\* before shows through, over any number of lines; but for two things.
\* Backspace leaves the character it erases in the buffer: it may follow the
\* line, one character only, for the clearing of the cell after it stops a
\* second.  And where kernel_main was entered on a used stack, as after every
\* program, what the stack held may follow the line, nothing else.
RunsTheLine ==
    [][Enter => LET rest == SubSeq(ran'.text, Len(line) + 1, Len(ran'.text)) IN
          /\ SubSeq(ran'.text, 1, Len(line)) = line
          /\ \/ rest = <<>>
             \/ erasing # "never" /\ Len(rest) = 1
             \/ entered = "junk" /\ \A i \in DOMAIN rest : rest[i] = Junk]_vars

\* The word a command is looked up by is the first word of its text, unless
\* the text begins with two delimiters.
FirstWord(text) ==
    LET letters == {i \in DOMAIN text : text[i] # Space}
        from == Min(letters)
        to == Min({i \in from .. Len(text) + 1 : i > Len(text) \/ text[i] = Space})
    IN  IF letters = {} THEN <<>> ELSE SubSeq(text, from, to - 1)
TwoDelimiters(text) == Len(text) >= 2 /\ text[1] = Space /\ text[2] = Space
WordOfTheLine ==
    status = "reading" /\ ran.count > 0 /\ ~TwoDelimiters(ran.text) =>
        ran.word = FirstWord(ran.text)

\* run_command follows a pointer that was never set only for a line without a
\* word, or for `run` without an operand, when no line before it set them; and
\* a text runs past the buffer only if the line fills it, or on a used stack.
WildOnlyWithoutWords ==
    status = "wild" =>
        \/ ran.count = 0 \/ (ran.count = 1 /\ ran.word = <<Run>>)
        \/ ~Ended(buffer) /\ (entered = "junk" \/ input_size = BufferSize)

(***************************************************************************)
(* The inductive invariant behind them.                                    *)
(***************************************************************************)
LineTyped ==
    /\ line \in Seq(Letters \cup {Space})
    /\ status = "reading" => input_size <= BufferSize

\* Behind the line is what the stack held; before it, once backspace has been
\* used, single characters, each with a NUL behind it.
StraysApart ==
    status = "reading" =>
        \A i \in input_size .. BufferSize - 1 :
            /\ entered = "zeros" => buffer[i] # Junk
            /\ erasing = "never" => buffer[i] \in {NUL, Junk}
            /\ buffer[i] \in {NUL, Junk} \/ (i + 1 < BufferSize /\ buffer[i + 1] = NUL)
            /\ buffer[i] = Junk => \A k \in i .. BufferSize - 1 : buffer[k] \in {NUL, Junk}

\* The first part begins in the first cell or the second, and a text that begins
\* there has an end, also when it is an old one.
FirstPart ==
    status = "reading" =>
        /\ parts[0] \in {0, 1, Unset}
        /\ parts[0] = 1 /\ buffer[0] = NUL => \E i \in 1 .. BufferSize - 1 : buffer[i] = NUL

WordFound == ran.count > 0 /\ ~TwoDelimiters(ran.text) => ran.word = FirstWord(ran.text)

SIInv ==
    /\ TypeOK /\ LineTyped /\ BufferHoldsLine /\ StraysApart /\ FirstPart
    /\ WordFound /\ WildOnlyWithoutWords
==============================================================================
