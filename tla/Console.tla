------------------------------ MODULE Console ------------------------------
(***************************************************************************)
(* The command loop with the screen under it: Shell and Terminal composed. *)
(* Each key changes the line in input_buffer and the picture of the line   *)
(* on the screen by two functions that do not see one another.  What the   *)
(* loop and a command write comes out one character after the other.       *)
(***************************************************************************)
EXTENDS Integers, Sequences

CONSTANTS BufferSize, MaxParts, Letters, Run, MaxKeys,  \* as in Shell
          Width, Height, MaxOps, MaxCell,               \* as in Terminal
          TabKey,   \* the letter that is a tab on the screen
          Outputs   \* what commands may write, as sequences of characters

VARIABLES buffer, input_size, parts, status, line, erasing, entered, ran, keys,
          terminal_row, terminal_column, terminal_buffer, moves, plain, rows, ops,
          out,      \* what is still to be written
          odd       \* history: "yes" if the line has had a tab, or a deletion with
                    \* the cursor in the first column

line_vars == <<buffer, input_size, parts, status, line, erasing, entered, ran, keys>>
screen_vars == <<terminal_row, terminal_column, terminal_buffer, moves, plain, rows, ops>>
vars == <<line_vars, screen_vars, out, odd>>

Break == "break"   \* '\n'
Wipe == "wipe"     \* the call of terminal_initialize by `clear`
Prompt == <<">", " ">>
Sh == INSTANCE Shell
T == INSTANCE Terminal WITH Chars <- (Letters \ {TabKey}) \cup {" ", ">"}

ASSUME ConsoleAssumption ==
    /\ Sh!ShellAssumption /\ T!TerminalAssumption
    /\ TabKey \in Letters \ {">"} /\ {Break, Wipe} \cap Letters = {}
    /\ Outputs \subseteq Seq((Letters \ {TabKey}) \cup {" ", Break, Wipe})

\* A user program does not write here, and leaves the screen as it is.
Init ==
    /\ Sh!Init /\ T!Init
    /\ out = Prompt /\ odd = "no"

Shown(c) ==
    CASE c = TabKey -> T!Tab
      [] c = Break -> T!Newline
      [] c = Wipe -> T!terminal_initialize
      [] OTHER -> T!Put(c)

\* terminal_writestring.
Write ==
    /\ out # <<>>
    /\ Shown(Head(out)) /\ out' = Tail(out)
    /\ UNCHANGED <<line_vars, odd>>

Type(c) ==
    /\ out = <<>>
    /\ Sh!Type(c) /\ Shown(c)
    /\ odd' = IF c = TabKey THEN "yes" ELSE odd
    /\ UNCHANGED out

\* Mutant of Rubbed: the picture is not changed.
RubbedNot == UNCHANGED screen_vars
Rubbed == T!delete_last_char

Backspace ==
    /\ out = <<>>
    /\ Sh!Backspace /\ Rubbed
    /\ odd' = IF terminal_column = 0 THEN "yes" ELSE odd
    /\ UNCHANGED out

\* A command that does not start a program ends with a new prompt.
NextPrompt == <<Break>> \o Prompt

Enter ==
    /\ out = <<>>
    /\ Sh!Enter \/ Sh!EnterUnended
    /\ \E text \in Outputs :
           out' = <<Break>> \o (IF status' = "reading" THEN text \o NextPrompt ELSE <<>>)
    /\ odd' = "no"
    /\ UNCHANGED screen_vars

\* The exit of a program breaks the line, and kernel_main starts with a prompt.
Exit ==
    /\ out = <<>>
    /\ Sh!Exit /\ out' = NextPrompt
    /\ odd' = "no"
    /\ UNCHANGED screen_vars

Next == Write \/ Backspace \/ Enter \/ Exit
            \/ \E c \in Letters \cup {" "} : Type(c)

Spec == Init /\ [][Next]_vars

(***************************************************************************)
(* Properties.                                                             *)
(***************************************************************************)
TypeOK ==
    /\ Sh!TypeOK /\ T!TypeOK
    /\ odd \in {"yes", "no"}
    /\ out \in Seq(Letters \cup {" ", ">", Break, Wipe})

Waiting == status = "reading" /\ out = <<>>
Cursor == terminal_row * Width + terminal_column
\* The cells from k before the cursor on show the text.
Shows(k, text) ==
    /\ k <= Cursor
    /\ \A i \in DOMAIN text : terminal_buffer[Cursor - k + i - 1] = text[i]

\* Between two keys the screen shows, right before the cursor, the prompt and
\* after it exactly the line the buffer holds: whatever was typed, wrapped,
\* scrolled and erased, in however many lines, commands and programs before, as
\* long as the line is short enough not to scroll the prompt away.
\* It is so unless the line has a tab, or backspace was used at a row's end.
ScreenShowsLine ==
    Waiting /\ odd = "no" /\ 2 + Len(line) <= Width * (Height - 1) =>
        Shows(2 + Len(line), Prompt \o line)

\* Under the screen, what the shell promises: the buffer holds the line, its
\* first word is the command, and only a line without a word, or `run` alone,
\* makes run_command follow a pointer that nothing has set, and only a full
\* buffer, or a used stack, a text without an end; see Shell.
LineHolds == TypeOK /\ Sh!BufferHoldsLine /\ Sh!WordOfTheLine /\ Sh!WildOnlyWithoutWords

\* The command that runs is the line on the screen, on every stack: followed by
\* nothing if kernel_main was entered on zeros and nothing was erased, by one
\* character at most if something was, and by what the stack held if it was used
\* before, as it is after every program; see Shell.
RunsWhatWasTyped == Sh!RunsTheLine

\* Over the shell, what the terminal promises: the last rows of all that the
\* prompt, the keys and the commands wrote, in order, the cursor back on the
\* screen with the next line; see Terminal.
TerminalHolds == T!CursorOnScreen /\ T!ScreenShowsTheEnd

(***************************************************************************)
(* The inductive invariant behind them.                                    *)
(***************************************************************************)

\* What is written on an empty line ends with a line break and the prompt.
OutHolds ==
    /\ out \in Seq((Letters \ {TabKey}) \cup {" ", ">", Break, Wipe})
    /\ status = "reading" /\ out # <<>> =>
           /\ line = <<>>
           /\ out[Len(out)] = " "
           /\ Len(out) >= 2 => out[Len(out) - 1] = ">"
           /\ Len(out) >= 3 => out[Len(out) - 2] = Break

\* What should stand before the cursor: as much of the prompt as is written,
\* and the line.
Picture == (IF Len(out) > 2 THEN <<>> ELSE SubSeq(Prompt, 1, 2 - Len(out))) \o line

\* A text whose beginning has been scrolled away is still too long for the
\* screen when it is erased up to the beginning of the row.
ScrolledAway(n) ==
    terminal_row = Height - 1 /\ n - terminal_column > Width * (Height - 1)

PictureHolds ==
    status = "reading" /\ odd = "no" /\ (out # <<>> => Head(out) # Break) =>
        /\ terminal_column < Width
        /\ Shows(Len(Picture), Picture) \/ ScrolledAway(Len(Picture))

CIInv == Sh!SIInv /\ T!TIInv /\ odd \in {"yes", "no"} /\ OutHolds /\ PictureHolds
==============================================================================
