------------------------------ MODULE Terminal ------------------------------
(***************************************************************************)
(* The text terminal of drivers/vga.c: a cursor and the screen memory.     *)
(* Colours and the hardware cursor are left out.  The memory goes on after *)
(* the screen's last cell.                                                 *)
(***************************************************************************)
EXTENDS Integers, Sequences

CONSTANTS Width, Height,  \* VGA_WIDTH, VGA_HEIGHT: 80 and 25
          Chars,          \* printable characters, the space among them
          MaxOps,         \* bound: characters written and deleted
          MaxCell         \* bound: the last memory cell followed

TerminalAssumption ==
    /\ Width \in Nat \ {0} /\ Height \in 2 .. 255
    /\ MaxOps \in Nat /\ MaxCell \in Nat /\ MaxCell >= Width * Height
    /\ " " \in Chars

VARIABLES terminal_row, terminal_column,
          terminal_buffer,  \* memory from VGA_MEMORY on
          moves,  \* history: which of "tab" and "delete" have moved the cursor
                  \* since the line it is on was begun
          plain,  \* history: "yes" if neither has since the screen was cleared
          rows,   \* history, while plain: every row written since then
          ops

vars == <<terminal_row, terminal_column, terminal_buffer, moves, plain, rows, ops>>

Cells == 0 .. MaxCell
Columns == 0 .. Width - 1
Cell(x, y) == y * Width + x
BlankRow == [x \in Columns |-> " "]

Cleared(b) == [c \in Cells |-> IF c < Width * Height THEN " " ELSE b[c]]

\* The loop of scroll runs while i < (uint8_t) (Height - 257).
\* Mutant of Scrolled: one row fewer, as with 258.
ScrolledShort == (Height - 258) % 256
Scrolled == (Height - 257) % 256

Scroll(b) ==
    [c \in Cells |->
        IF c < Scrolled * Width THEN b[c + Width]
        ELSE IF c \in Cell(0, Height - 1) .. Cell(Width - 1, Height - 1) THEN " "
        ELSE b[c]]

Init ==
    /\ terminal_row = 0 /\ terminal_column = 0
    /\ terminal_buffer = Cleared([c \in Cells |-> "?"])
    /\ moves = {} /\ plain = "yes" /\ rows = <<BlankRow>> /\ ops = 0

Step == ops < MaxOps /\ ops' = ops + 1

\* The cursor goes to the beginning of the next row, on memory b.
Advance(b) ==
    /\ terminal_column' = 0
    /\ IF terminal_row + 1 = Height
       THEN terminal_row' = terminal_row /\ terminal_buffer' = Scroll(b)
       ELSE terminal_row' = terminal_row + 1 /\ terminal_buffer' = b

terminal_initialize ==
    /\ Step
    /\ terminal_row' = 0 /\ terminal_column' = 0
    /\ terminal_buffer' = Cleared(terminal_buffer)
    /\ moves' = {} /\ plain' = "yes" /\ rows' = <<BlankRow>>

(***************************************************************************)
(* terminal_putchar.  A line wraps when the column becomes Width exactly.  *)
(***************************************************************************)
Newline ==
    /\ Step
    /\ Advance(terminal_buffer)
    /\ moves' = {} /\ UNCHANGED plain
    /\ rows' = IF plain = "yes" THEN Append(rows, BlankRow) ELSE rows

Tab ==
    /\ Step
    /\ terminal_column' =
           IF terminal_column + 4 > Width THEN Width ELSE terminal_column + 4
    /\ moves' = moves \cup {"tab"} /\ plain' = "no"
    /\ UNCHANGED <<terminal_row, terminal_buffer, rows>>

Wraps == terminal_column + 1 = Width

Put(c) ==
    LET at == Cell(terminal_column, terminal_row)
        stored == [terminal_buffer EXCEPT ![at] = c]
    IN  /\ Step /\ at \in Cells
        /\ \/ Wraps /\ Advance(stored) /\ moves' = {}
           \/ /\ ~Wraps
              /\ terminal_column' = terminal_column + 1
              /\ terminal_buffer' = stored
              /\ UNCHANGED <<terminal_row, moves>>
        /\ UNCHANGED plain
        /\ rows' = IF plain = "no" THEN rows
                   ELSE LET written == [rows EXCEPT ![Len(rows)][terminal_column] = c]
                        IN  IF terminal_column = Width - 1
                            THEN Append(written, BlankRow) ELSE written

(***************************************************************************)
(* delete_last_char: back over the end of a line, it goes after the last   *)
(* character there is, which may be past the last column.                  *)
(***************************************************************************)
RowAbove == [x \in Columns |-> terminal_buffer[Cell(x, terminal_row - 1)]]
Written == {x \in Columns : RowAbove[x] # " "}

AfterLast(x) == x \in Written /\ \A w \in Written : w <= x

delete_last_char ==
    /\ Step
    /\ \/ /\ terminal_column = 0 /\ terminal_row = 0
          /\ UNCHANGED <<terminal_row, terminal_column>>
       \/ /\ terminal_column = 0 /\ terminal_row > 0
          /\ terminal_row' = terminal_row - 1
          /\ \/ Written = {} /\ terminal_column' = Width - 1
             \/ \E x \in Columns : AfterLast(x) /\ terminal_column' = x + 1
       \/ /\ terminal_column > 0
          /\ terminal_column' = terminal_column - 1 /\ UNCHANGED terminal_row
    /\ Cell(terminal_column', terminal_row') \in Cells
    /\ terminal_buffer' =
           [terminal_buffer EXCEPT ![Cell(terminal_column', terminal_row')] = " "]
    /\ moves' = moves \cup {"delete"} /\ plain' = "no"
    /\ UNCHANGED rows

Next ==
    \/ terminal_initialize \/ Newline \/ Tab \/ delete_last_char
    \/ \E c \in Chars : Put(c)

Spec == Init /\ [][Next]_vars

(***************************************************************************)
(* Properties.                                                             *)
(***************************************************************************)

\* The row is always one of the screen's; the column has no bound once a tab
\* has moved it past the line's end.
TypeOK ==
    /\ terminal_row \in 0 .. Height - 1 /\ terminal_column \in Nat
    /\ terminal_buffer \in [Cells -> Chars \cup {"?"}]
    /\ moves \subseteq {"tab", "delete"} /\ plain \in {"yes", "no"}

\* The cursor leaves the screen's columns only by a tab or by a deletion
\* across a line's end, and the next line break brings it back: on a line
\* begun since, every character is stored inside the screen.
CursorOnScreen == moves = {} => terminal_column < Width

\* On memory b, with the cursor in the given row, the screen ends with the last
\* of the rows r and is blank below.
ShowsEnd(b, row, r) ==
    /\ Len(r) - row >= 1
    /\ \A y \in 0 .. Height - 1, x \in Columns :
           /\ y <= row => b[Cell(x, y)] = r[Len(r) - row + y][x]
           /\ y > row => b[Cell(x, y)] = " "

\* As long as nothing was deleted and no tab written, the screen shows the
\* last rows of all that was written, whatever was wrapped and scrolled, and
\* is blank below the cursor's row.
ScreenShowsTheEnd == plain = "yes" => ShowsEnd(terminal_buffer, terminal_row, rows)

(***************************************************************************)
(* The inductive invariant behind them.                                    *)
(***************************************************************************)
RowsWritten ==
    plain = "yes" => moves = {} /\ rows \in Seq([Columns -> Chars]) /\ rows # <<>>

TIInv == TypeOK /\ RowsWritten /\ CursorOnScreen /\ ScreenShowsTheEnd
==============================================================================
