---------------------------- MODULE ConsoleProofs ----------------------------
(***************************************************************************)
(* Proofs about Console, for every screen, buffer, alphabet and number of  *)
(* keys: first the terminal's part of the invariant, then the shell's,     *)
(* then the picture of the line, which relates the two.                    *)
(***************************************************************************)
EXTENDS Console, FiniteSetTheorems, SequenceTheorems, WellFoundedInduction, TLAPS

(***************************************************************************)
(* The screen memory.                                                      *)
(***************************************************************************)
\* What Put stores.
Shades == (Letters \ {TabKey}) \cup {" ", ">"}

\* A product grows with its factor.
LEMMA Times ==
  ASSUME NEW a \in Nat, NEW b \in Nat, NEW c \in Nat, a <= b PROVE a * c <= b * c
<1>1. PICK d \in Nat : b = a + d
  <2>1. b - a \in Nat /\ b = a + (b - a)
    OBVIOUS
  <2> QED
    BY <2>1
<1>2. b * c = a * c + d * c /\ d * c \in Nat /\ a * c \in Nat
  BY <1>1, SMT
<1> QED
  BY <1>2

(***************************************************************************)
(* The screen's cells.                                                     *)
(***************************************************************************)
LEMMA ScreenSizes ==
  /\ Width \in Nat /\ Width > 0 /\ Height \in Nat /\ Height >= 2 /\ MaxCell \in Nat
  /\ Width * Height \in Nat /\ Width * (Height - 1) \in Nat /\ Width * (Height - 1) >= 1
  /\ Width * Height = Width * (Height - 1) + Width /\ Width * Height <= MaxCell
  /\ T!Scrolled * Width = Width * (Height - 1)
<1>1. /\ Width \in Nat /\ Width > 0 /\ Height \in Nat /\ Height >= 2 /\ Height <= 255
      /\ MaxCell \in Nat /\ MaxCell >= Width * Height
  <2>1. T!TerminalAssumption
    BY ConsoleAssumption
  <2>2. Width \in Nat \ {0} /\ Height \in 2 .. 255 /\ MaxCell \in Nat
    BY <2>1 DEF T!TerminalAssumption
  <2>3. MaxCell >= Width * Height
    BY <2>1, Zenon DEF T!TerminalAssumption
  <2> QED
    BY <2>2, <2>3
<1>2. T!Scrolled = Height - 1
  <2>1. Height - 257 = (Height - 1) + 256 * (-1) /\ Height - 1 \in 0 .. 255
    BY <1>1
  <2> QED
    BY <2>1, SMT DEF T!Scrolled
<1>3. /\ Width * Height \in Nat /\ Width * (Height - 1) \in Nat
      /\ Width * Height = Width * (Height - 1) + Width
      /\ (Height - 1) * Width = Width * (Height - 1)
  BY <1>1, SMT
<1>4. 1 * Width <= (Height - 1) * Width /\ 1 * Width = Width
  BY <1>1, Times
<1>5. Width * Height <= MaxCell
  BY <1>1, <1>3
<1>6. T!Scrolled * Width = Width * (Height - 1)
  BY <1>2, <1>3, Zenon
<1> QED
  BY <1>1, <1>3, <1>4, <1>5, <1>6

\* A column and a row name a cell of the screen, and no other names it.
LEMMA CellAt ==
  ASSUME NEW x \in T!Columns, NEW y \in 0 .. Height - 1
  PROVE  /\ T!Cell(x, y) \in T!Cells /\ T!Cell(x, y) \in Nat /\ y * Width \in Nat
         /\ T!Cell(x, y) < Width * Height
         /\ y < Height - 1 => T!Cell(x, y) < Width * (Height - 1)
                              /\ T!Cell(x, y) + Width = T!Cell(x, y + 1)
                              /\ T!Cell(x, y) + Width \in T!Cells
         /\ y = Height - 1 => T!Cell(x, y) >= Width * (Height - 1)
<1>1. x \in Nat /\ x < Width /\ y \in Nat /\ y * Width \in Nat /\ T!Cell(x, y) = y * Width + x
  BY ScreenSizes, SMT DEF T!Columns, T!Cell
<1>2. y * Width + Width <= Width * Height
  <2>1. (y + 1) * Width <= Height * Width
    BY <1>1, ScreenSizes, Times
  <2>2. (y + 1) * Width = y * Width + Width /\ Height * Width = Width * Height
    BY <1>1, ScreenSizes, SMT
  <2> QED
    BY <2>1, <2>2
<1>3. ASSUME y < Height - 1
      PROVE  y * Width + Width <= Width * (Height - 1) /\ (y + 1) * Width = y * Width + Width
  <2>1. (y + 1) * Width <= (Height - 1) * Width
    BY <1>1, <1>3, ScreenSizes, Times
  <2>2. (y + 1) * Width = y * Width + Width /\ (Height - 1) * Width = Width * (Height - 1)
    BY <1>1, ScreenSizes, SMT
  <2> QED
    BY <2>1, <2>2
<1>4. y = Height - 1 => y * Width = Width * (Height - 1)
  BY ScreenSizes, SMT
<1> QED
  BY <1>1, <1>2, <1>3, <1>4, ScreenSizes DEF T!Cells, T!Cell

LEMMA CellApart ==
  ASSUME NEW x \in T!Columns, NEW y \in 0 .. Height - 1,
         NEW u \in T!Columns, NEW w \in 0 .. Height - 1, T!Cell(x, y) = T!Cell(u, w)
  PROVE  x = u /\ y = w
<1>1. ASSUME NEW a \in T!Columns, NEW i \in 0 .. Height - 1,
             NEW c \in T!Columns, NEW j \in 0 .. Height - 1, i < j
      PROVE  T!Cell(a, i) < T!Cell(c, j)
  <2>1. (i + 1) * Width <= j * Width
    BY <1>1, ScreenSizes, Times
  <2>2. (i + 1) * Width = i * Width + Width /\ i * Width \in Nat /\ j * Width \in Nat
    BY <1>1, ScreenSizes, SMT
  <2> QED
    BY <1>1, <2>1, <2>2, ScreenSizes DEF T!Cell, T!Columns
<1>2. T!Cell(x, y) \in Nat /\ T!Cell(u, w) \in Nat /\ y \in Nat /\ w \in Nat
  BY CellAt
<1>3. y = w
  BY <1>1, <1>2
<1>4. y * Width \in Nat
  BY CellAt
<1> QED
  BY <1>3, <1>4, ScreenSizes DEF T!Cell, T!Columns

\* The cursor goes on to the next row, and the memory scrolls if there is none.
Advances(b, row, shown, next) ==
  IF row + 1 = Height THEN next = row /\ shown = T!Scroll(b)
                      ELSE next = row + 1 /\ shown = b

\* The cursor goes on to the next row, on memory b that shows the last rows.
LEMMA AdvanceShows ==
  ASSUME NEW b, NEW shown, NEW row \in 0 .. Height - 1, NEW next,
         NEW r \in Seq([T!Columns -> Shades]), T!ShowsEnd(b, row, r),
         Advances(b, row, shown, next)
  PROVE  /\ Append(r, T!BlankRow) \in Seq([T!Columns -> Shades])
         /\ T!ShowsEnd(shown, next, Append(r, T!BlankRow))
<1> DEFINE s == Append(r, T!BlankRow)
<1>1. T!BlankRow \in [T!Columns -> Shades]
  BY DEF T!BlankRow, Shades
<1>2. Len(r) - row >= 1
  BY DEF T!ShowsEnd
<1>3. /\ s \in Seq([T!Columns -> Shades]) /\ Len(s) = Len(r) + 1
      /\ \A i \in 1 .. Len(r) : s[i] = r[i]
      /\ s[Len(r) + 1] = T!BlankRow
  BY <1>1, <1>2, AppendProperties
<1>4. /\ Len(r) \in Nat /\ row \in Nat /\ row < Height /\ Height \in Nat
      /\ \A y \in 0 .. Height - 1 : y \in Nat /\ y < Height
  BY <1>2, LenProperties, ScreenSizes
<1>5. \A x \in T!Columns : T!BlankRow[x] = " "
  BY DEF T!BlankRow
<1> SUFFICES T!ShowsEnd(shown, next, s)
  BY <1>3
<1> HIDE DEF s
<1>6. CASE row + 1 = Height
  <2>1. next = row /\ shown = T!Scroll(b)
    BY <1>6 DEF Advances
  <2> SUFFICES ASSUME NEW y \in 0 .. Height - 1, NEW x \in T!Columns
               PROVE  shown[T!Cell(x, y)] = s[Len(s) - row + y][x]
    <3>1. Len(s) - row >= 1 /\ \A y \in 0 .. Height - 1 : y <= row /\ ~(y > row)
      BY <1>2, <1>3, <1>4, <1>6
    <3> QED
      BY <1>3, <2>1, <3>1 DEF T!ShowsEnd
  <2>2. y <= row /\ y \in Nat
    BY <1>4, <1>6
  <2>3. CASE y < Height - 1
    <3>1. shown[T!Cell(x, y)] = b[T!Cell(x, y + 1)]
      <4>1. /\ T!Cell(x, y) < T!Scrolled * Width /\ T!Cell(x, y) \in T!Cells
            /\ T!Cell(x, y) + Width = T!Cell(x, y + 1)
        BY <2>3, CellAt, ScreenSizes
      <4> QED
        BY <2>1, <4>1 DEF T!Scroll
    <3>2. y + 1 \in 0 .. Height - 1 /\ y + 1 <= row
      BY <1>4, <1>6, <2>3
    <3>3. b[T!Cell(x, y + 1)] = r[Len(r) - row + (y + 1)][x]
      BY <3>2 DEF T!ShowsEnd
    <3>4. Len(r) - row + (y + 1) \in 1 .. Len(r)
          /\ Len(s) - row + y = Len(r) - row + (y + 1)
      BY <1>2, <1>3, <1>4, <2>2, <3>2
    <3> QED
      BY <1>3, <3>1, <3>3, <3>4
  <2>4. CASE y = Height - 1
    <3>1. T!Cell(x, y) \in T!Cell(0, Height - 1) .. T!Cell(Width - 1, Height - 1)
      <4>1. (Height - 1) * Width \in Nat /\ x \in 0 .. Width - 1
        BY ScreenSizes, SMT DEF T!Columns
      <4> QED
        BY <2>4, <4>1, ScreenSizes DEF T!Cell
    <3>2. ~(T!Cell(x, y) < T!Scrolled * Width) /\ T!Cell(x, y) \in T!Cells
      BY <2>4, CellAt, ScreenSizes
    <3>3. shown[T!Cell(x, y)] = " "
      BY <2>1, <3>1, <3>2 DEF T!Scroll
    <3>4. Len(s) - row + y = Len(r) + 1
      BY <1>3, <1>4, <1>6, <2>4
    <3> QED
      BY <1>3, <1>5, <3>3, <3>4
  <2> QED
    BY <1>4, <2>3, <2>4
<1>7. CASE row + 1 # Height
  <2>1. next = row + 1 /\ shown = b
    BY <1>7 DEF Advances
  <2>0. Len(s) - (row + 1) >= 1
    BY <1>2, <1>3, <1>4
  <2> SUFFICES ASSUME NEW y \in 0 .. Height - 1, NEW x \in T!Columns
               PROVE  /\ y <= row + 1 => b[T!Cell(x, y)] = s[Len(s) - (row + 1) + y][x]
                      /\ y > row + 1 => b[T!Cell(x, y)] = " "
    BY <1>3, <2>0, <2>1 DEF T!ShowsEnd
  <2>2. Len(s) - (row + 1) + y = Len(r) - row + y
    BY <1>3, <1>4
  <2>3. CASE y <= row
    <3>1. Len(r) - row + y \in 1 .. Len(r) /\ y <= row + 1 /\ ~(y > row + 1)
      BY <1>2, <1>4, <2>3
    <3>2. b[T!Cell(x, y)] = r[Len(r) - row + y][x]
      BY <2>3 DEF T!ShowsEnd
    <3> QED
      BY <1>3, <2>2, <3>1, <3>2
  <2>4. CASE y = row + 1
    <3>1. Len(r) - row + y = Len(r) + 1 /\ y > row /\ ~(y > row + 1)
      BY <1>4, <2>4
    <3>2. b[T!Cell(x, y)] = " "
      BY <3>1 DEF T!ShowsEnd
    <3> QED
      BY <1>3, <1>5, <2>2, <3>1, <3>2
  <2>5. CASE y > row + 1
    <3>1. y > row /\ ~(y <= row + 1)
      BY <1>4, <2>5
    <3> QED
      BY <3>1 DEF T!ShowsEnd
  <2>6. y <= row \/ y = row + 1 \/ y > row + 1
    BY <1>4
  <2> QED
    BY <2>3, <2>4, <2>5, <2>6
<1> QED
  BY <1>6, <1>7

Memory == [T!Cells -> Shades \cup {"?"}]
RowSeq == Seq([T!Columns -> Shades])

\* A character in the cursor's cell is a character in the last row.
LEMMA PutShows ==
  ASSUME NEW b \in Memory, NEW row \in 0 .. Height - 1, NEW col \in T!Columns,
         NEW r \in RowSeq, T!ShowsEnd(b, row, r), NEW c \in Shades
  PROVE  LET b1 == [b EXCEPT ![T!Cell(col, row)] = c]
             r1 == [r EXCEPT ![Len(r)][col] = c]
         IN  b1 \in Memory /\ r1 \in RowSeq /\ T!ShowsEnd(b1, row, r1)
<1> DEFINE b1 == [b EXCEPT ![T!Cell(col, row)] = c]
<1> DEFINE last == [r[Len(r)] EXCEPT ![col] = c]
<1> DEFINE r1 == [r EXCEPT ![Len(r)] = last]
<1>1. Len(r) - row >= 1 /\ Len(r) \in Nat /\ row \in Nat /\ Height \in Nat /\ Len(r) \in 1 .. Len(r)
  <2>1. Len(r) \in Nat /\ Height \in Nat
    BY LenProperties, ScreenSizes DEF RowSeq
  <2>2. row \in Nat
    BY <2>1
  <2>3. Len(r) - row >= 1
    BY Zenon DEF T!ShowsEnd
  <2> QED
    BY <2>1, <2>2, <2>3
<1>2. r[Len(r)] \in [T!Columns -> Shades]
  BY <1>1, ElementOfSeq DEF RowSeq
<1>3. /\ last \in [T!Columns -> Shades] /\ last[col] = c
      /\ \A x \in T!Columns : x # col => last[x] = r[Len(r)][x]
  BY <1>2
<1> HIDE DEF last
<1>4. /\ r1 \in RowSeq /\ Len(r1) = Len(r) /\ r1[Len(r)] = last
      /\ \A j \in 1 .. Len(r) : j # Len(r) => r1[j] = r[j]
  BY <1>1, <1>3, ExceptSeq DEF RowSeq
<1>5. /\ b1 \in Memory /\ b1[T!Cell(col, row)] = c
      /\ \A x \in T!Columns, y \in 0 .. Height - 1 :
             x # col \/ y # row => b1[T!Cell(x, y)] = b[T!Cell(x, y)]
  <2>1. \A x \in T!Columns, y \in 0 .. Height - 1 : T!Cell(x, y) \in T!Cells
    BY CellAt
  <2>2. \A x \in T!Columns, y \in 0 .. Height - 1 :
           x # col \/ y # row => T!Cell(x, y) # T!Cell(col, row)
    BY CellApart
  <2> QED
    BY <2>1, <2>2 DEF Memory
<1>6. r1 = [r EXCEPT ![Len(r)][col] = c]
  BY DEF last
<1> HIDE DEF b1, r1
<1>7. T!ShowsEnd(b1, row, r1)
  <2>0. Len(r1) - row >= 1
    BY <1>1, <1>4
  <2>1. ASSUME NEW y \in 0 .. Height - 1, NEW x \in T!Columns, y <= row
        PROVE  b1[T!Cell(x, y)] = r1[Len(r1) - row + y][x]
    <3>1. b[T!Cell(x, y)] = r[Len(r) - row + y][x]
      BY <2>1 DEF T!ShowsEnd
    <3>2. y \in Nat /\ Len(r) - row + y \in 1 .. Len(r) /\ Len(r1) - row + y = Len(r) - row + y
      BY <1>1, <1>4, <2>1
    <3>3. CASE y = row
      <4>1. Len(r) - row + y = Len(r)
        BY <1>1, <3>3
      <4> QED
        BY <1>3, <1>4, <1>5, <3>1, <3>2, <3>3, <4>1
    <3>4. CASE y # row
      <4>1. Len(r) - row + y # Len(r)
        BY <1>1, <2>1, <3>2, <3>4
      <4> QED
        BY <1>4, <1>5, <3>1, <3>2, <3>4, <4>1
    <3> QED
      BY <3>3, <3>4
  <2>2. ASSUME NEW y \in 0 .. Height - 1, NEW x \in T!Columns, y > row
        PROVE  b1[T!Cell(x, y)] = " "
    <3>1. b[T!Cell(x, y)] = " "
      BY <2>2 DEF T!ShowsEnd
    <3>2. y # row
      BY <1>1, <2>2
    <3> QED
      BY <1>5, <3>1, <3>2
  <2> QED
    BY <2>0, <2>1, <2>2 DEF T!ShowsEnd
<1> QED
  BY <1>4, <1>5, <1>6, <1>7 DEF b1

\* A blank screen.
LEMMA ClearedShows ==
  ASSUME NEW b, \A c \in T!Cells : b[c] \in Shades \cup {"?"}
  PROVE  /\ T!Cleared(b) \in Memory /\ <<T!BlankRow>> \in RowSeq
         /\ T!ShowsEnd(T!Cleared(b), 0, <<T!BlankRow>>)
<1>1. T!Cleared(b) \in Memory
  BY DEF T!Cleared, Memory, Shades
<1>2. T!BlankRow \in [T!Columns -> Shades] /\ \A x \in T!Columns : T!BlankRow[x] = " "
  BY DEF T!BlankRow, Shades
<1>3. <<T!BlankRow>> \in RowSeq /\ Len(<<T!BlankRow>>) = 1 /\ <<T!BlankRow>>[1] = T!BlankRow
  <2>1. ASSUME NEW S, NEW x \in S PROVE <<x>> \in Seq(S) /\ Len(<<x>>) = 1 /\ <<x>>[1] = x
    OBVIOUS
  <2> QED
    BY <1>2, <2>1 DEF RowSeq
<1>4. \A y \in 0 .. Height - 1, x \in T!Columns : T!Cleared(b)[T!Cell(x, y)] = " "
  BY CellAt DEF T!Cleared
<1>5. \A y \in 0 .. Height - 1 : y <= 0 => Len(<<T!BlankRow>>) - 0 + y = 1
  BY <1>3, ScreenSizes
<1>6. Len(<<T!BlankRow>>) - 0 >= 1
  BY <1>3
<1>7. T!ShowsEnd(T!Cleared(b), 0, <<T!BlankRow>>)
  BY <1>2, <1>3, <1>4, <1>5, <1>6 DEF T!ShowsEnd
<1> QED
  BY <1>1, <1>3, <1>7

\* Scrolling keeps memory memory.
LEMMA ScrollKept == ASSUME NEW b \in Memory PROVE T!Scroll(b) \in Memory
<1> SUFFICES ASSUME NEW c \in T!Cells, c < T!Scrolled * Width
             PROVE  b[c + Width] \in Shades \cup {"?"}
  BY DEF T!Scroll, Memory, Shades
<1>1. c + Width \in T!Cells
  BY ScreenSizes DEF T!Cells
<1> QED
  BY <1>1 DEF Memory

(***************************************************************************)
(* The terminal's steps keep its invariant.                                *)
(***************************************************************************)
LEMMA TerminalFacts ==
  ASSUME T!TIInv
  PROVE  /\ terminal_row \in 0 .. Height - 1 /\ terminal_row \in Nat /\ terminal_column \in Nat
         /\ terminal_buffer \in Memory /\ plain \in {"yes", "no"} /\ moves \subseteq {"tab", "delete"}
         /\ moves = {} => terminal_column < Width /\ terminal_column \in T!Columns
         /\ plain = "yes" => /\ moves = {} /\ rows \in RowSeq /\ rows # <<>>
                             /\ T!ShowsEnd(terminal_buffer, terminal_row, rows)
<1>1. T!TypeOK /\ T!RowsWritten /\ T!CursorOnScreen /\ T!ScreenShowsTheEnd
  BY DEF T!TIInv
<1>2. /\ terminal_row \in 0 .. Height - 1 /\ terminal_column \in Nat
      /\ plain \in {"yes", "no"} /\ moves \subseteq {"tab", "delete"}
  BY <1>1 DEF T!TypeOK
<1>3. terminal_buffer \in Memory
  BY <1>1 DEF T!TypeOK, Memory, Shades
<1>4. terminal_row \in Nat
  BY <1>2, ScreenSizes
<1>5. moves = {} => terminal_column < Width /\ terminal_column \in T!Columns
  BY <1>1, <1>2, ScreenSizes DEF T!CursorOnScreen, T!Columns
<1>6. plain = "yes" => /\ moves = {} /\ rows \in RowSeq /\ rows # <<>>
                       /\ T!ShowsEnd(terminal_buffer, terminal_row, rows)
  BY <1>1 DEF T!RowsWritten, T!ScreenShowsTheEnd, RowSeq, Shades
<1> QED
  BY <1>2, <1>3, <1>4, <1>5, <1>6

LEMMA TerminalMade ==
  ASSUME terminal_row' \in 0 .. Height - 1, terminal_column' \in Nat,
         terminal_buffer' \in Memory, plain' \in {"yes", "no"}, moves' \subseteq {"tab", "delete"},
         moves' = {} => terminal_column' < Width,
         plain' = "yes" => /\ moves' = {} /\ rows' \in RowSeq /\ rows' # <<>>
                           /\ T!ShowsEnd(terminal_buffer', terminal_row', rows')
  PROVE  T!TIInv'
<1>1. T!TypeOK'
  BY DEF T!TypeOK, Memory, Shades
<1>2. T!RowsWritten'
  BY DEF T!RowsWritten, RowSeq, Shades
<1>3. T!CursorOnScreen'
  BY DEF T!CursorOnScreen
<1>4. T!ScreenShowsTheEnd'
  BY DEF T!ScreenShowsTheEnd, T!ShowsEnd
<1> QED
  BY <1>1, <1>2, <1>3, <1>4 DEF T!TIInv

LEMMA AdvanceKept ==
  ASSUME T!TIInv, NEW b \in Memory, T!Advance(b)
  PROVE  /\ terminal_column' = 0 /\ terminal_row' \in 0 .. Height - 1 /\ terminal_buffer' \in Memory
         /\ Advances(b, terminal_row, terminal_buffer', terminal_row')
<1>1. terminal_column' = 0 /\ Advances(b, terminal_row, terminal_buffer', terminal_row')
  BY DEF T!Advance, Advances
<1>2. terminal_row \in 0 .. Height - 1 /\ terminal_row \in Nat /\ Height \in Nat
  BY TerminalFacts, ScreenSizes
<1>3. T!Scroll(b) \in Memory
  BY ScrollKept
<1>4. terminal_row' \in 0 .. Height - 1 /\ terminal_buffer' \in Memory
  <2>1. CASE terminal_row + 1 = Height
    BY <1>1, <1>2, <1>3, <2>1 DEF Advances
  <2>2. CASE terminal_row + 1 # Height
    BY <1>1, <1>2, <2>2 DEF Advances
  <2> QED
    BY <2>1, <2>2
<1> QED
  BY <1>1, <1>4

LEMMA InitializeKept == ASSUME T!TIInv, T!terminal_initialize PROVE T!TIInv'
<1>1. /\ terminal_row' = 0 /\ terminal_column' = 0 /\ moves' = {} /\ plain' = "yes"
      /\ terminal_buffer' = T!Cleared(terminal_buffer) /\ rows' = <<T!BlankRow>>
  BY DEF T!terminal_initialize
<1>2. terminal_buffer \in Memory
  BY TerminalFacts
<1>3. /\ T!Cleared(terminal_buffer) \in Memory /\ <<T!BlankRow>> \in RowSeq
      /\ T!ShowsEnd(T!Cleared(terminal_buffer), 0, <<T!BlankRow>>)
  <2>1. \A c \in T!Cells : terminal_buffer[c] \in Shades \cup {"?"}
    BY <1>2 DEF Memory
  <2> QED
    BY <2>1, ClearedShows
<1>4. 0 \in 0 .. Height - 1 /\ 0 < Width
  BY ScreenSizes
<1>5. <<T!BlankRow>> # <<>>
  OBVIOUS
<1>6. T!ShowsEnd(terminal_buffer', terminal_row', rows')
  BY <1>1, <1>3
<1> QED
  BY <1>1, <1>3, <1>4, <1>5, <1>6, TerminalMade

LEMMA NewlineKept == ASSUME T!TIInv, T!Newline PROVE T!TIInv'
<1>1. /\ T!Advance(terminal_buffer) /\ moves' = {} /\ plain' = plain
      /\ plain = "yes" => rows' = Append(rows, T!BlankRow)
  BY DEF T!Newline
<1>2. /\ terminal_row \in 0 .. Height - 1 /\ terminal_buffer \in Memory /\ plain \in {"yes", "no"}
      /\ plain = "yes" => /\ rows \in RowSeq /\ rows # <<>>
                          /\ T!ShowsEnd(terminal_buffer, terminal_row, rows)
  BY TerminalFacts
<1>3. /\ terminal_column' = 0 /\ terminal_row' \in 0 .. Height - 1 /\ terminal_buffer' \in Memory
      /\ Advances(terminal_buffer, terminal_row, terminal_buffer', terminal_row')
  BY <1>1, <1>2, AdvanceKept
<1>4. ASSUME plain = "yes"
      PROVE  rows' \in RowSeq /\ rows' # <<>> /\ T!ShowsEnd(terminal_buffer', terminal_row', rows')
  <2>1. /\ Append(rows, T!BlankRow) \in RowSeq
        /\ T!ShowsEnd(terminal_buffer', terminal_row', Append(rows, T!BlankRow))
    BY <1>2, <1>3, <1>4, AdvanceShows DEF RowSeq
  <2>2. Append(rows, T!BlankRow) # <<>>
    <3>1. T!BlankRow \in [T!Columns -> Shades]
      BY DEF T!BlankRow, Shades
    <3> QED
      BY <1>2, <1>4, <3>1, AppendProperties DEF RowSeq
  <2> QED
    BY <1>1, <1>4, <2>1, <2>2
<1>5. 0 < Width /\ 0 \in Nat
  BY ScreenSizes
<1> QED
  BY <1>1, <1>2, <1>3, <1>4, <1>5, TerminalMade

LEMMA TabKept == ASSUME T!TIInv, T!Tab PROVE T!TIInv'
<1>1. /\ terminal_column' = IF terminal_column + 4 > Width THEN Width ELSE terminal_column + 4
      /\ moves' = moves \cup {"tab"} /\ plain' = "no"
      /\ terminal_row' = terminal_row /\ terminal_buffer' = terminal_buffer
  BY DEF T!Tab
<1>2. /\ terminal_row \in 0 .. Height - 1 /\ terminal_column \in Nat /\ terminal_buffer \in Memory
      /\ moves \subseteq {"tab", "delete"}
  BY TerminalFacts
<1>3. terminal_column' \in Nat
  BY <1>1, <1>2, ScreenSizes
<1>4. moves' # {} /\ moves' \subseteq {"tab", "delete"} /\ plain' # "yes" /\ plain' \in {"yes", "no"}
  BY <1>1, <1>2
<1> QED
  BY <1>1, <1>2, <1>3, <1>4, TerminalMade

LEMMA DeleteKept == ASSUME T!TIInv, T!delete_last_char PROVE T!TIInv'
<1>1. /\ moves' = moves \cup {"delete"} /\ plain' = "no"
      /\ terminal_buffer' = [terminal_buffer EXCEPT ![T!Cell(terminal_column', terminal_row')] = " "]
  BY DEF T!delete_last_char
<1>2. /\ terminal_row \in 0 .. Height - 1 /\ terminal_row \in Nat /\ terminal_column \in Nat
      /\ terminal_buffer \in Memory /\ moves \subseteq {"tab", "delete"}
  BY TerminalFacts
<1>3. terminal_column' \in Nat /\ terminal_row' \in 0 .. Height - 1
  <2>1. \/ terminal_row' = terminal_row /\ terminal_column' = terminal_column
        \/ /\ terminal_row > 0 /\ terminal_row' = terminal_row - 1
           /\ terminal_column' = Width - 1 \/ \E x \in T!Columns : terminal_column' = x + 1
        \/ /\ terminal_column > 0 /\ terminal_column' = terminal_column - 1
           /\ terminal_row' = terminal_row
    BY Zenon DEF T!delete_last_char
  <2>2. Width - 1 \in Nat /\ \A x \in T!Columns : x + 1 \in Nat
    BY ScreenSizes DEF T!Columns
  <2> QED
    BY <1>2, <2>1, <2>2, ScreenSizes
<1>4. moves' # {} /\ moves' \subseteq {"tab", "delete"} /\ plain' # "yes" /\ plain' \in {"yes", "no"}
  BY <1>1, <1>2
<1>5. terminal_buffer' \in Memory
  BY <1>1, <1>2 DEF Memory, Shades
<1> QED
  BY <1>3, <1>4, <1>5, TerminalMade

\* What a character changes: its cell, and the next row when the row is full.
LEMMA PutSteps ==
  ASSUME NEW c, T!Put(c)
  PROVE  LET b1 == [terminal_buffer EXCEPT ![T!Cell(terminal_column, terminal_row)] = c]
             r1 == [rows EXCEPT ![Len(rows)][terminal_column] = c]
         IN  /\ T!Cell(terminal_column, terminal_row) \in T!Cells
             /\ plain' = plain
             /\ plain # "no" => rows' = IF terminal_column = Width - 1
                                        THEN Append(r1, T!BlankRow) ELSE r1
             /\ \/ terminal_column + 1 = Width /\ T!Advance(b1) /\ moves' = {}
                \/ /\ terminal_column + 1 # Width /\ terminal_column' = terminal_column + 1
                   /\ terminal_buffer' = b1 /\ terminal_row' = terminal_row /\ moves' = moves
BY Zenon DEF T!Put, T!Wraps

LEMMA PutKept == ASSUME T!TIInv, NEW c \in Shades, T!Put(c) PROVE T!TIInv'
<1> DEFINE b1 == [terminal_buffer EXCEPT ![T!Cell(terminal_column, terminal_row)] = c]
<1> DEFINE r1 == [rows EXCEPT ![Len(rows)][terminal_column] = c]
<1>1. /\ T!Cell(terminal_column, terminal_row) \in T!Cells
      /\ plain' = plain
      /\ plain # "no" => rows' = IF terminal_column = Width - 1
                                 THEN Append(r1, T!BlankRow) ELSE r1
      /\ \/ terminal_column + 1 = Width /\ T!Advance(b1) /\ moves' = {}
         \/ /\ terminal_column + 1 # Width /\ terminal_column' = terminal_column + 1
            /\ terminal_buffer' = b1 /\ terminal_row' = terminal_row /\ moves' = moves
  BY PutSteps
<1>2. /\ terminal_row \in 0 .. Height - 1 /\ terminal_row \in Nat /\ terminal_column \in Nat
      /\ terminal_buffer \in Memory /\ plain \in {"yes", "no"} /\ moves \subseteq {"tab", "delete"}
      /\ moves = {} => terminal_column < Width /\ terminal_column \in T!Columns
      /\ plain = "yes" => /\ moves = {} /\ rows \in RowSeq /\ rows # <<>>
                          /\ T!ShowsEnd(terminal_buffer, terminal_row, rows)
  BY TerminalFacts
<1>3. b1 \in Memory
  BY <1>1, <1>2 DEF Memory
<1>4. ASSUME plain = "yes"
      PROVE  /\ terminal_column \in T!Columns /\ moves = {}
             /\ r1 \in RowSeq /\ T!ShowsEnd(b1, terminal_row, r1)
             /\ Append(r1, T!BlankRow) # <<>> /\ r1 # <<>>
  <2>1. terminal_column \in T!Columns /\ moves = {}
    BY <1>2, <1>4
  <2>2. r1 \in RowSeq /\ T!ShowsEnd(b1, terminal_row, r1)
    BY <1>2, <1>4, <2>1, PutShows
  <2>3. T!BlankRow \in [T!Columns -> Shades]
    BY DEF T!BlankRow, Shades
  <2>4. Append(r1, T!BlankRow) # <<>>
    BY <2>2, <2>3, AppendProperties DEF RowSeq
  <2>5. r1 # <<>>
    <3>1. Len(r1) - terminal_row >= 1
      BY <2>2, Zenon DEF T!ShowsEnd
    <3>2. Len(r1) \in Nat
      BY <2>2, LenProperties DEF RowSeq
    <3>3. Len(r1) # 0
      BY <1>2, <3>1, <3>2
    <3> QED
      BY <3>3, EmptySeq
  <2> QED
    BY <2>1, <2>2, <2>4, <2>5
<1> HIDE DEF b1, r1
<1>5. Width \in Nat /\ 0 < Width /\ 0 \in Nat /\ moves' \subseteq {"tab", "delete"}
  BY <1>1, <1>2, ScreenSizes
<1>6. CASE terminal_column + 1 = Width /\ T!Advance(b1) /\ moves' = {}
  <2>1. /\ terminal_column' = 0 /\ terminal_row' \in 0 .. Height - 1 /\ terminal_buffer' \in Memory
        /\ Advances(b1, terminal_row, terminal_buffer', terminal_row')
    BY <1>3, <1>6, AdvanceKept
  <2>2. terminal_column = Width - 1
    BY <1>2, <1>5, <1>6
  <2>3. ASSUME plain = "yes"
        PROVE  rows' \in RowSeq /\ rows' # <<>> /\ T!ShowsEnd(terminal_buffer', terminal_row', rows')
    <3>1. rows' = Append(r1, T!BlankRow)
      BY <1>1, <2>2, <2>3
    <3>2. /\ Append(r1, T!BlankRow) \in RowSeq
          /\ T!ShowsEnd(terminal_buffer', terminal_row', Append(r1, T!BlankRow))
      BY <1>2, <1>4, <2>1, <2>3, AdvanceShows DEF RowSeq
    <3> QED
      BY <1>4, <2>3, <3>1, <3>2
  <2> QED
    BY <1>1, <1>2, <1>5, <1>6, <2>1, <2>3, TerminalMade
<1>7. CASE /\ terminal_column + 1 # Width /\ terminal_column' = terminal_column + 1
           /\ terminal_buffer' = b1 /\ terminal_row' = terminal_row /\ moves' = moves
  <2>1. terminal_column' \in Nat /\ (moves' = {} => terminal_column' < Width)
    BY <1>2, <1>5, <1>7
  <2>2. ASSUME plain = "yes"
        PROVE  rows' \in RowSeq /\ rows' # <<>> /\ T!ShowsEnd(terminal_buffer', terminal_row', rows')
    <3>1. terminal_column # Width - 1
      BY <1>2, <1>5, <1>7
    <3>2. rows' = r1
      BY <1>1, <2>2, <3>1
    <3> QED
      BY <1>4, <1>7, <2>2, <3>2
  <2>3. plain' = "yes" => /\ moves' = {} /\ rows' \in RowSeq /\ rows' # <<>>
                          /\ T!ShowsEnd(terminal_buffer', terminal_row', rows')
    BY <1>1, <1>4, <1>7, <2>2
  <2> QED
    BY <1>1, <1>2, <1>3, <1>5, <1>7, <2>1, <2>3, TerminalMade
<1> QED
  BY <1>1, <1>6, <1>7

\* Whatever is written.
LEMMA ShownKept ==
  ASSUME T!TIInv, NEW c \in Letters \cup {" ", ">", Break, Wipe}, Shown(c)
  PROVE  T!TIInv'
<1>0. TabKey # Break /\ TabKey # Wipe /\ Break # Wipe
  BY ConsoleAssumption DEF Break, Wipe
<1>1. CASE c = TabKey
  <2>1. T!Tab
    BY <1>0, <1>1 DEF Shown
  <2> QED
    BY <2>1, TabKept
<1>2. CASE c # TabKey /\ c = Break
  <2>1. T!Newline
    BY <1>0, <1>2 DEF Shown
  <2> QED
    BY <2>1, NewlineKept
<1>3. CASE c # TabKey /\ c # Break /\ c = Wipe
  <2>1. T!terminal_initialize
    BY <1>0, <1>3 DEF Shown
  <2> QED
    BY <2>1, InitializeKept
<1>4. CASE c # TabKey /\ c # Break /\ c # Wipe
  <2>1. c \in Shades /\ T!Put(c)
    BY <1>4 DEF Shown, Shades
  <2> QED
    BY <2>1, PutKept
<1> QED
  BY <1>1, <1>2, <1>3, <1>4

LEMMA ScreenKept == ASSUME T!TIInv, UNCHANGED screen_vars PROVE T!TIInv'
BY DEF screen_vars, T!TIInv, T!TypeOK, T!RowsWritten, T!CursorOnScreen, T!ScreenShowsTheEnd, T!ShowsEnd

LEMMA ScreenBegins == ASSUME T!Init PROVE T!TIInv
<1>1. /\ terminal_row = 0 /\ terminal_column = 0 /\ moves = {} /\ plain = "yes"
      /\ terminal_buffer = T!Cleared([c \in T!Cells |-> "?"]) /\ rows = <<T!BlankRow>>
  BY DEF T!Init
<1>2. /\ terminal_buffer \in Memory /\ rows \in RowSeq /\ T!ShowsEnd(terminal_buffer, 0, rows)
  <2>1. \A c \in T!Cells : [d \in T!Cells |-> "?"][c] \in Shades \cup {"?"}
    OBVIOUS
  <2> QED
    BY <1>1, <2>1, ClearedShows
<1>3. rows # <<>> /\ 0 \in 0 .. Height - 1 /\ 0 < Width /\ 0 \in Nat
  BY <1>1, ScreenSizes
<1>4. T!TypeOK
  BY <1>1, <1>2, <1>3 DEF T!TypeOK, Memory, Shades
<1>5. T!RowsWritten
  BY <1>1, <1>2, <1>3 DEF T!RowsWritten, RowSeq, Shades
<1>6. T!CursorOnScreen
  BY <1>1, <1>3 DEF T!CursorOnScreen
<1>7. T!ScreenShowsTheEnd
  BY <1>1, <1>2 DEF T!ScreenShowsTheEnd
<1> QED
  BY <1>4, <1>5, <1>6, <1>7 DEF T!TIInv

(***************************************************************************)
(* Texts in the input buffer.                                              *)
(***************************************************************************)
Marks == Letters \cup {Sh!Space}   \* what a key can be
Buffers == [Sh!Offsets -> Sh!Content]

LEMMA ShellSizes ==
  /\ BufferSize \in Nat /\ BufferSize >= 2 /\ MaxParts \in Nat /\ MaxParts >= 2 /\ MaxKeys \in Nat
  /\ Sh!Offsets = 0 .. BufferSize - 1 /\ Sh!Unset = BufferSize /\ ~(Sh!Unset \in Sh!Offsets)
  /\ Sh!NUL \notin Marks /\ Sh!Space # Sh!NUL /\ Marks \subseteq Sh!Content /\ Sh!NUL \in Sh!Content
  /\ Sh!Junk # Sh!NUL /\ Sh!Junk \in Sh!Content /\ Marks = Letters \cup {" "} /\ Run # Sh!Space
  /\ Sh!Junk \notin Marks
<1>1. Sh!ShellAssumption
  BY ConsoleAssumption
<1>2. BufferSize \in Nat \ {0, 1} /\ MaxParts \in Nat \ {0, 1} /\ MaxKeys \in Nat
      /\ Letters \cap {Sh!Space, Sh!NUL, Sh!Junk} = {} /\ Run \in Letters
  BY <1>1 DEF Sh!ShellAssumption
<1>3. BufferSize \in Nat /\ BufferSize >= 2 /\ MaxParts \in Nat /\ MaxParts >= 2 /\ MaxKeys \in Nat
  BY <1>2
<1>4. Sh!Offsets = 0 .. BufferSize - 1 /\ Sh!Unset = BufferSize
  BY DEF Sh!Offsets, Sh!Unset
<1>5. ~(Sh!Unset \in Sh!Offsets)
  BY <1>3, <1>4
<1>6. Sh!Space # Sh!NUL /\ Sh!Junk # Sh!NUL /\ Marks = Letters \cup {" "}
  BY DEF Sh!Space, Sh!NUL, Sh!Junk, Marks
<1>7. Sh!NUL \notin Marks /\ Sh!Junk \notin Marks /\ Run # Sh!Space
  <2>1. Sh!Space # Sh!Junk
    BY DEF Sh!Space, Sh!Junk
  <2> QED
    BY <1>2, <1>6, <2>1 DEF Marks
<1>8. Marks \subseteq Sh!Content /\ Sh!NUL \in Sh!Content /\ Sh!Junk \in Sh!Content
  BY DEF Marks, Sh!Content
<1> QED
  BY <1>3, <1>4, <1>5, <1>6, <1>7, <1>8

LEMMA OffsetsAre == BufferSize \in Nat /\ BufferSize >= 2 /\ Sh!Offsets = 0 .. BufferSize - 1
BY ShellSizes

LEMMA Least ==
  ASSUME NEW S, S \subseteq Nat, S # {}
  PROVE  \E x \in S : \A y \in S : x <= y
<1> DEFINE R == {p \in Nat \X Nat : p[1] < p[2]}
<1>1. OpToRel(<, Nat) = R
  BY DEF OpToRel
<1>2. IsWellFoundedOn(R, Nat)
  BY <1>1, NatLessThanWellFounded
<1>3. ASSUME NEW x \in Nat, NEW y \in Nat, y < x PROVE <<y, x>> \in R
  BY <1>3
<1> HIDE DEF R
<1>4. PICK x \in S : \A y \in S : ~(<<y, x>> \in R)
  BY <1>2, WFMin
<1>5. ASSUME NEW y \in S PROVE x <= y
  <2>1. x \in Nat /\ y \in Nat
    OBVIOUS
  <2>2. ~(y < x)
    BY <1>3, <1>4, <2>1
  <2> QED
    BY <2>1, <2>2
<1> QED
  BY <1>5

LEMMA MinIs ==
  ASSUME NEW S, S \subseteq Nat, NEW m \in S, \A y \in S : m <= y
  PROVE  Sh!Min(S) = m
<1>1. \A x \in S : (\A y \in S : x <= y) => x = m
  <2> SUFFICES ASSUME NEW x \in S, \A y \in S : x <= y PROVE x = m
    OBVIOUS
  <2>1. x <= m /\ m <= x /\ x \in Nat /\ m \in Nat
    OBVIOUS
  <2> QED
    BY <2>1
<1> QED
  BY <1>1 DEF Sh!Min

\* The end of a text is the first NUL there is.
LEMMA EndIs ==
  ASSUME NEW b, NEW o \in Nat, NEW e \in o .. BufferSize - 1, b[e] = Sh!NUL,
         \A k \in o .. e - 1 : b[k] # Sh!NUL
  PROVE  Sh!End(b, o) = e
<1>0. BufferSize \in Nat
  BY OffsetsAre
<1>1. BufferSize \in Nat /\ e \in Nat
  BY <1>0
<1>2. ASSUME NEW i \in o .. BufferSize - 1, b[i] = Sh!NUL, \A k \in o .. i - 1 : b[k] # Sh!NUL
      PROVE  i = e
  <2>1. i \in Nat
    BY <1>1
  <2>2. ~(i < e) /\ ~(e < i)
    BY <1>1, <1>2, <2>1
  <2> QED
    BY <1>1, <2>1, <2>2
<1> QED
  BY <1>2 DEF Sh!End

LEMMA EndFound ==
  ASSUME NEW b, NEW o \in Nat, \E i \in o .. BufferSize - 1 : b[i] = Sh!NUL
  PROVE  /\ Sh!End(b, o) \in o .. BufferSize - 1 /\ Sh!End(b, o) \in Nat
         /\ b[Sh!End(b, o)] = Sh!NUL
         /\ \A k \in o .. Sh!End(b, o) - 1 : b[k] # Sh!NUL
<1> DEFINE S == {i \in o .. BufferSize - 1 : b[i] = Sh!NUL}
<1>0. BufferSize \in Nat
  BY ShellSizes
<1>1. S \subseteq Nat /\ S # {}
  BY <1>0
<1>2. PICK e \in S : \A y \in S : e <= y
  BY <1>1, Least
<1>3. e \in Nat /\ e \in o .. BufferSize - 1 /\ b[e] = Sh!NUL
  BY <1>1, <1>2
<1>4. \A k \in o .. e - 1 : b[k] # Sh!NUL
  <2> SUFFICES ASSUME NEW k \in o .. e - 1, b[k] = Sh!NUL PROVE FALSE
    OBVIOUS
  <2>1. k \in o .. BufferSize - 1 /\ k < e /\ k \in Nat
    BY <1>0, <1>3
  <2>2. k \in S
    BY <2>1
  <2> QED
    BY <1>2, <1>3, <2>1, <2>2
<1>5. Sh!End(b, o) = e
  BY <1>3, <1>4, EndIs
<1> QED
  BY <1>3, <1>4, <1>5

LEMMA TextIs ==
  ASSUME NEW b \in Buffers, NEW o \in Nat, \E i \in o .. BufferSize - 1 : b[i] = Sh!NUL
  PROVE  /\ Sh!Text(b, o) \in Seq(Sh!Content)
         /\ Len(Sh!Text(b, o)) = Sh!End(b, o) - o /\ DOMAIN Sh!Text(b, o) = 1 .. Sh!End(b, o) - o
         /\ \A k \in 1 .. Sh!End(b, o) - o : Sh!Text(b, o)[k] = b[o + k - 1]
<1> DEFINE n == Sh!End(b, o) - o
<1>0. BufferSize \in Nat
  BY OffsetsAre
<1>1. BufferSize \in Nat /\ Sh!End(b, o) \in o .. BufferSize - 1 /\ Sh!End(b, o) \in Nat /\ n \in Nat
  <2>1. Sh!End(b, o) \in o .. BufferSize - 1 /\ Sh!End(b, o) \in Nat
    BY EndFound
  <2> QED
    BY <1>0, <2>1
<1> HIDE DEF n
<1>2. Sh!Text(b, o) = [k \in 1 .. n |-> b[o + k - 1]]
  BY DEF Sh!Text, n
<1>3. \A k \in 1 .. n : b[o + k - 1] \in Sh!Content
  <2> SUFFICES ASSUME NEW k \in 1 .. n PROVE o + k - 1 \in Sh!Offsets
    BY DEF Buffers
  <2>1. o + k - 1 \in 0 .. BufferSize - 1
    BY <1>1 DEF n
  <2> QED
    BY <2>1, OffsetsAre
<1>4. Sh!Text(b, o) \in [1 .. n -> Sh!Content]
  BY <1>2, <1>3
<1>5. Sh!Text(b, o) \in Seq(Sh!Content) /\ Len(Sh!Text(b, o)) = n
  BY <1>1, <1>4
<1> QED
  BY <1>2, <1>5 DEF n

(***************************************************************************)
(* The parts of a text.                                                    *)
(***************************************************************************)
LEMMA SameCount == ASSUME NEW S PROVE Sh!Cardinality(S) = Cardinality(S)
BY DEF Cardinality, Sh!Cardinality

LEMMA StartsAre ==
  ASSUME NEW b, Sh!Ended(b)
  PROVE  /\ Sh!First(b) \in {0, 1} /\ Sh!End(b, 0) \in Sh!Offsets /\ Sh!End(b, 0) \in Nat
         /\ Sh!Starts(b) \subseteq Nat /\ Sh!Starts(b) \subseteq Sh!Offsets
         /\ IsFiniteSet(Sh!Starts(b))
         /\ Sh!Starts(b) # {} => Sh!First(b) \in Sh!Starts(b)
         /\ Sh!First(b) < Sh!End(b, 0) <=> Sh!Starts(b) # {}
         /\ \A i \in Sh!Starts(b) : Sh!First(b) <= i /\ i < Sh!End(b, 0)
         /\ \A i \in Sh!Starts(b) : i # Sh!First(b) => b[i - 1] = Sh!Space
<1>1. BufferSize \in Nat /\ Sh!Offsets = 0 .. BufferSize - 1
  BY OffsetsAre
<1>2. Sh!First(b) \in {0, 1}
  BY DEF Sh!First
<1>3. Sh!End(b, 0) \in Sh!Offsets /\ Sh!End(b, 0) \in Nat
  <2>1. \E i \in 0 .. BufferSize - 1 : b[i] = Sh!NUL
    BY <1>1 DEF Sh!Ended
  <2> QED
    BY <1>1, <2>1, EndFound
<1>4. Sh!Starts(b) \subseteq Sh!Offsets /\ Sh!Starts(b) \subseteq Nat
  BY <1>1 DEF Sh!Starts
<1>5. IsFiniteSet(Sh!Starts(b))
  <2>1. IsFiniteSet(0 .. BufferSize - 1)
    BY <1>1, FS_Interval
  <2> QED
    BY <1>1, <1>4, <2>1, FS_Subset
<1>6. \A i \in Sh!Starts(b) : Sh!First(b) <= i /\ i < Sh!End(b, 0)
  BY <1>1, <1>2 DEF Sh!Starts
<1>7. ASSUME Sh!First(b) < Sh!End(b, 0) PROVE Sh!First(b) \in Sh!Starts(b)
  <2>1. Sh!First(b) \in Sh!Offsets /\ Sh!First(b) >= Sh!First(b)
    BY <1>1, <1>2, <1>3, <1>7
  <2> QED
    BY <1>7, <2>1 DEF Sh!Starts
<1>8. ASSUME Sh!Starts(b) # {} PROVE Sh!First(b) < Sh!End(b, 0)
  <2>1. PICK i \in Sh!Starts(b) : TRUE
    BY <1>8
  <2>2. i \in Nat /\ Sh!First(b) <= i /\ i < Sh!End(b, 0)
    BY <1>4, <1>6
  <2> QED
    BY <1>2, <1>3, <2>2
<1>9. \A i \in Sh!Starts(b) : i # Sh!First(b) => b[i - 1] = Sh!Space
  BY DEF Sh!Starts
<1> QED
  BY <1>2, <1>3, <1>4, <1>5, <1>6, <1>7, <1>8, <1>9

\* Those before a beginning are finitely many.
LEMMA NthHas ==
  ASSUME NEW b, NEW k, NEW i
  PROVE  i \in Sh!Nth(b, k) <=>
             i \in Sh!Starts(b) /\ Cardinality({j \in Sh!Starts(b) : j < i}) = k
<1>1. \A S : Sh!Cardinality(S) = Cardinality(S)
  BY SameCount
<1> QED
  BY <1>1 DEF Sh!Nth

LEMMA NthZero ==
  ASSUME NEW b, Sh!Ended(b)
  PROVE  /\ Sh!Starts(b) = {} => Sh!Nth(b, 0) = {}
         /\ Sh!Starts(b) # {} => Sh!Nth(b, 0) = {Sh!First(b)}
<1>1. Sh!Nth(b, 0) \subseteq Sh!Starts(b)
  BY DEF Sh!Nth
<1>2. ASSUME Sh!Starts(b) # {} PROVE Sh!Nth(b, 0) = {Sh!First(b)}
  <2>1. /\ Sh!First(b) \in Sh!Starts(b) /\ Sh!Starts(b) \subseteq Nat /\ IsFiniteSet(Sh!Starts(b))
        /\ \A i \in Sh!Starts(b) : Sh!First(b) <= i
    BY <1>2, StartsAre
  <2>2. Sh!First(b) \in Sh!Nth(b, 0)
    <3>1. {j \in Sh!Starts(b) : j < Sh!First(b)} = {}
      BY <2>1
    <3>2. Cardinality({j \in Sh!Starts(b) : j < Sh!First(b)}) = 0
      BY <3>1, FS_EmptySet
    <3> QED
      BY <2>1, <3>2, NthHas
  <2>3. ASSUME NEW i \in Sh!Nth(b, 0), i # Sh!First(b) PROVE FALSE
    <3>1. i \in Sh!Starts(b) /\ Cardinality({j \in Sh!Starts(b) : j < i}) = 0
      BY NthHas
    <3>2. IsFiniteSet({j \in Sh!Starts(b) : j < i})
      BY <2>1, FS_Subset
    <3>3. {j \in Sh!Starts(b) : j < i} = {}
      BY <3>1, <3>2, FS_EmptySet
    <3>4. Sh!First(b) < i
      BY <2>1, <2>3, <3>1
    <3> QED
      BY <2>1, <3>3, <3>4
  <2> QED
    BY <2>2, <2>3
<1> QED
  BY <1>1, <1>2

LEMMA NthOne ==
  ASSUME NEW b, Sh!Ended(b), Cardinality(Sh!Starts(b)) \notin {0, 1}
  PROVE  Sh!Nth(b, 1) # {}
<1>1. Sh!Starts(b) \subseteq Nat /\ IsFiniteSet(Sh!Starts(b))
  BY StartsAre
<1>2. Sh!Starts(b) # {}
  BY FS_EmptySet
<1>3. Sh!First(b) \in Sh!Starts(b) /\ \A i \in Sh!Starts(b) : Sh!First(b) <= i
  BY <1>2, StartsAre
<1>4. Sh!Starts(b) # {Sh!First(b)}
  BY FS_Singleton
<1> DEFINE S == Sh!Starts(b) \ {Sh!First(b)}
<1>5. S \subseteq Nat /\ S # {}
  BY <1>1, <1>3, <1>4
<1>6. PICK s \in S : \A y \in S : s <= y
  BY <1>5, Least
<1>7. {j \in Sh!Starts(b) : j < s} = {Sh!First(b)}
  <2>1. s \in Nat /\ Sh!First(b) \in Nat /\ Sh!First(b) < s
    BY <1>1, <1>3, <1>6
  <2>2. ASSUME NEW j \in Sh!Starts(b), j < s PROVE j = Sh!First(b)
    <3>1. j \in Nat /\ ~(s <= j)
      BY <1>1, <2>1, <2>2
    <3> QED
      BY <1>6, <3>1
  <2> QED
    BY <1>3, <2>1, <2>2
<1>8. Cardinality({j \in Sh!Starts(b) : j < s}) = 1
  BY <1>7, FS_Singleton
<1>9. s \in Sh!Nth(b, 1)
  BY <1>8, NthHas
<1> QED
  BY <1>9

LEMMA CountIs ==
  ASSUME NEW b, Sh!Ended(b)
  PROVE  /\ Sh!Count(b) \in Nat
         /\ Sh!Starts(b) = {} => Sh!Count(b) = 0
         /\ Sh!Count(b) > 0 => Sh!Starts(b) # {}
         /\ Sh!Nth(b, 1) = {} => Sh!Count(b) \in {0, 1}
<1> DEFINE c == Cardinality(Sh!Starts(b))
<1>1. IsFiniteSet(Sh!Starts(b))
  BY StartsAre
<1>2. c \in Nat
  BY <1>1, FS_CardinalityType
<1>3. c = 0 <=> Sh!Starts(b) = {}
  BY <1>1, FS_EmptySet
<1>4. Sh!Count(b) = Sh!Min({c, MaxParts})
  BY SameCount DEF Sh!Count
<1>5. Sh!Nth(b, 1) = {} => c \in {0, 1}
  BY NthOne
<1>6. MaxParts \in Nat /\ MaxParts >= 2
  BY ShellSizes
<1> HIDE DEF c
<1>7. CASE c <= MaxParts
  <2>1. Sh!Min({c, MaxParts}) = c
    BY <1>2, <1>6, <1>7, MinIs
  <2> QED
    BY <1>2, <1>3, <1>4, <1>5, <2>1
<1>8. CASE ~(c <= MaxParts)
  <2>1. Sh!Min({c, MaxParts}) = MaxParts
    BY <1>2, <1>6, <1>8, MinIs
  <2> QED
    BY <1>2, <1>3, <1>4, <1>5, <1>6, <1>8, <2>1
<1> QED
  BY <1>7, <1>8

LEMMA PartsSize == MaxParts \in Nat /\ MaxParts >= 2
BY ShellSizes

LEMMA SplitIs ==
  ASSUME NEW b \in Buffers
  PROVE  /\ Sh!Split(b) \in Buffers
         /\ \A i \in Sh!Offsets : b[i] = Sh!NUL => Sh!Split(b)[i] = Sh!NUL
         /\ \A i \in Sh!Offsets : b[i] # Sh!Space => Sh!Split(b)[i] = b[i]
         /\ \A i \in Sh!Offsets : Sh!Split(b)[i] \in {b[i], Sh!NUL}
         /\ \A i \in Sh!Offsets : i \in Sh!First(b) .. Sh!ScanEnd(b) - 1 /\ b[i] = Sh!Space
                => Sh!Split(b)[i] = Sh!NUL
<1>1. Sh!Split(b) \in Buffers
  <2>1. Sh!NUL \in Sh!Content
    BY ShellSizes
  <2> QED
    BY <2>1 DEF Sh!Split, Buffers
<1> QED
  BY <1>1 DEF Sh!Split

LEMMA SlotsAre ==
  ASSUME NEW b, Sh!Ended(b)
  PROVE  /\ Sh!Starts(b) = {} => Sh!SlotsAfter(b)[0] = parts[0]
         /\ Sh!Starts(b) # {} => Sh!SlotsAfter(b)[0] = Sh!First(b)
         /\ Sh!SlotsAfter(b)[1] = Sh!Unset => Sh!Nth(b, 1) = {}
<1>1. 0 \in 0 .. MaxParts - 1 /\ 1 \in 0 .. MaxParts - 1
  <2>1. MaxParts \in Nat /\ MaxParts >= 2
    BY PartsSize
  <2> QED
    BY <2>1
<1>2. ASSUME Sh!Starts(b) = {} PROVE Sh!SlotsAfter(b)[0] = parts[0]
  <2>1. Sh!Nth(b, 0) = {}
    BY <1>2, NthZero
  <2> QED
    BY <1>1, <2>1 DEF Sh!SlotsAfter
<1>3. ASSUME Sh!Starts(b) # {} PROVE Sh!SlotsAfter(b)[0] = Sh!First(b)
  <2>1. Sh!Nth(b, 0) = {Sh!First(b)}
    BY <1>3, NthZero
  <2> QED
    BY <1>1, <2>1 DEF Sh!SlotsAfter
<1>4. ASSUME Sh!Nth(b, 1) # {} PROVE Sh!SlotsAfter(b)[1] # Sh!Unset
  <2>1. Sh!SlotsAfter(b)[1] = CHOOSE i \in Sh!Nth(b, 1) : TRUE
    BY <1>1, <1>4 DEF Sh!SlotsAfter
  <2>2. Sh!SlotsAfter(b)[1] \in Sh!Nth(b, 1)
    BY <1>4, <2>1
  <2>3. Sh!SlotsAfter(b)[1] \in Sh!Offsets
    BY <2>2, StartsAre, NthHas
  <2> QED
    BY <2>3, ShellSizes
<1> QED
  BY <1>2, <1>3, <1>4

LEMMA SlotsTyped ==
  ASSUME NEW b, Sh!Ended(b), parts \in [0 .. MaxParts - 1 -> 0 .. BufferSize]
  PROVE  Sh!SlotsAfter(b) \in [0 .. MaxParts - 1 -> 0 .. BufferSize]
<1> SUFFICES ASSUME NEW k \in 0 .. MaxParts - 1, Sh!Nth(b, k) # {}
             PROVE  (CHOOSE i \in Sh!Nth(b, k) : TRUE) \in 0 .. BufferSize
  BY DEF Sh!SlotsAfter
<1>1. (CHOOSE i \in Sh!Nth(b, k) : TRUE) \in Sh!Nth(b, k)
  OBVIOUS
<1>2. (CHOOSE i \in Sh!Nth(b, k) : TRUE) \in Sh!Offsets
  BY <1>1, NthHas, StartsAre
<1>3. BufferSize \in Nat /\ Sh!Offsets = 0 .. BufferSize - 1
  BY OffsetsAre
<1> QED
  BY <1>2, <1>3

\* The scan goes past the end of the first word.
LEMMA ScanPasses ==
  ASSUME NEW b, Sh!Ended(b), Sh!Starts(b) # {},
         NEW s \in Nat, Sh!First(b) <= s, s < Sh!End(b, 0),
         \A k \in Sh!First(b) .. s - 1 : b[k] # Sh!Space
  PROVE  Sh!ScanEnd(b) \in Nat /\ s < Sh!ScanEnd(b)
<1>1. CASE Sh!Nth(b, MaxParts - 1) = {}
  <2>1. Sh!ScanEnd(b) = Sh!End(b, 0)
    BY <1>1 DEF Sh!ScanEnd
  <2> QED
    BY <2>1, StartsAre
<1>2. CASE Sh!Nth(b, MaxParts - 1) # {}
  <2> DEFINE p == Sh!ScanEnd(b)
  <2>1. p \in Sh!Nth(b, MaxParts - 1)
    BY <1>2 DEF Sh!ScanEnd
  <2> HIDE DEF p
  <2>2. p \in Sh!Starts(b) /\ p \in Nat /\ Sh!First(b) \in {0, 1} /\ Sh!First(b) <= p
    BY <2>1, NthHas, StartsAre
  <2>3. p # Sh!First(b)
    <3>1. ASSUME p = Sh!First(b) PROVE FALSE
      <4>1. p \in Sh!Nth(b, 0)
        BY <3>1, NthZero
      <4>2. Cardinality({j \in Sh!Starts(b) : j < p}) = 0
        BY <4>1, NthHas
      <4>3. Cardinality({j \in Sh!Starts(b) : j < p}) = MaxParts - 1
        BY <2>1, NthHas
      <4>4. MaxParts \in Nat /\ MaxParts >= 2
        BY PartsSize
      <4>5. MaxParts - 1 # 0
        BY <4>4
      <4> QED
        BY <4>2, <4>3, <4>5
    <3> QED
      BY <3>1
  <2>4. b[p - 1] = Sh!Space
    BY <2>2, <2>3, StartsAre
  <2>5. ~(p - 1 \in Sh!First(b) .. s - 1)
    BY <2>4
  <2>6. s < p
    BY <2>2, <2>3, <2>5
  <2> QED
    BY <2>2, <2>6 DEF p
<1> QED
  BY <1>1, <1>2

\* strsplit's first part is the first word of the text.
LEMMA WordIs ==
  ASSUME NEW b \in Buffers, Sh!Ended(b), Sh!Starts(b) # {},
         ~Sh!TwoDelimiters(Sh!Text(b, 0))
  PROVE  Sh!Text(Sh!Split(b), Sh!First(b)) = Sh!FirstWord(Sh!Text(b, 0))
<1> DEFINE E == Sh!End(b, 0)
<1> DEFINE f == Sh!First(b)
<1> DEFINE text == Sh!Text(b, 0)
<1>1. BufferSize \in Nat /\ Sh!Offsets = 0 .. BufferSize - 1
  BY OffsetsAre
<1>2. \E i \in 0 .. BufferSize - 1 : b[i] = Sh!NUL
  BY <1>1 DEF Sh!Ended
<1>3. /\ E \in 0 .. BufferSize - 1 /\ E \in Nat /\ b[E] = Sh!NUL
      /\ \A k \in 0 .. E - 1 : b[k] # Sh!NUL
  BY <1>2, EndFound
<1>4. f \in {0, 1} /\ f \in Nat /\ f < E
  BY StartsAre
<1>5. /\ text \in Seq(Sh!Content) /\ Len(text) = E /\ DOMAIN text = 1 .. E
      /\ \A k \in 1 .. E : text[k] = b[k - 1]
  <2>1. /\ text \in Seq(Sh!Content) /\ Len(text) = E - 0 /\ DOMAIN text = 1 .. E - 0
        /\ \A k \in 1 .. E - 0 : text[k] = b[0 + k - 1]
    BY <1>2, TextIs
  <2>2. E - 0 = E /\ \A k \in 1 .. E : 0 + k - 1 = k - 1
    BY <1>3
  <2> QED
    BY <2>1, <2>2
<1>6. f = 0 => b[0] # Sh!Space
  BY DEF Sh!First
<1>7. f = 1 => b[0] = Sh!Space
  BY DEF Sh!First
<1>8. ~(Len(text) >= 2 /\ text[1] = Sh!Space /\ text[2] = Sh!Space)
  BY DEF Sh!TwoDelimiters
<1> HIDE DEF E, f, text
<1>9. b[f] # Sh!Space
  <2>1. CASE f = 0
    BY <1>6, <2>1
  <2>2. CASE f = 1
    <3>1. 1 \in 1 .. E /\ 2 \in 1 .. E /\ E >= 2 /\ 1 - 1 = 0 /\ 2 - 1 = 1
      BY <1>3, <1>4, <2>2
    <3>2. text[1] = b[0] /\ text[2] = b[1]
      BY <1>5, <3>1
    <3> QED
      BY <1>5, <1>7, <1>8, <2>2, <3>1, <3>2
  <2> QED
    BY <1>4, <2>1, <2>2
<1> DEFINE W == {i \in f .. E : i = E \/ b[i] = Sh!Space}
<1>10. W \subseteq Nat /\ E \in W
  BY <1>3, <1>4
<1>11. PICK s \in W : \A y \in W : s <= y
  BY <1>10, Least
<1>12. s \in Nat /\ f <= s /\ s <= E /\ (s = E \/ b[s] = Sh!Space)
  BY <1>10, <1>11
<1>13. \A y \in f .. E : y = E \/ b[y] = Sh!Space => s <= y
  BY <1>11
<1> HIDE DEF W
<1>14. \A k \in f .. s - 1 : b[k] # Sh!Space /\ b[k] # Sh!NUL /\ k \in Sh!Offsets
  <2> SUFFICES ASSUME NEW k \in f .. s - 1
               PROVE  b[k] # Sh!Space /\ b[k] # Sh!NUL /\ k \in Sh!Offsets
    OBVIOUS
  <2>1. k \in Nat /\ k \in f .. E /\ k \in 0 .. E - 1 /\ ~(s <= k) /\ k \in 0 .. BufferSize - 1
    BY <1>1, <1>3, <1>4, <1>12
  <2> QED
    BY <1>1, <1>3, <1>13, <2>1
<1>15. f < s
  <2>1. f # s
    BY <1>4, <1>9, <1>12
  <2> QED
    BY <1>4, <1>12, <2>1
(* The word in the text. *)
<1> DEFINE letters == {i \in DOMAIN text : text[i] # Sh!Space}
<1>16. letters # {} /\ Sh!Min(letters) = f + 1
  <2>1. letters \subseteq Nat
    BY <1>5
  <2>2. f + 1 \in 1 .. E /\ (f + 1) - 1 = f
    BY <1>3, <1>4
  <2>3. f + 1 \in letters
    BY <1>5, <1>9, <2>2
  <2>4. \A y \in letters : f + 1 <= y
    <3> SUFFICES ASSUME NEW y \in letters PROVE f + 1 <= y
      OBVIOUS
    <3>1. y \in 1 .. E /\ text[y] # Sh!Space /\ text[y] = b[y - 1]
      BY <1>5
    <3>2. ASSUME f = 1 PROVE y # 1
      <4>1. ASSUME y = 1 PROVE FALSE
        <5>1. y - 1 = 0
          BY <4>1
        <5> QED
          BY <1>7, <3>1, <3>2, <5>1
      <4> QED
        BY <4>1
    <3> QED
      BY <1>4, <3>1, <3>2
  <2> QED
    BY <2>1, <2>3, <2>4, MinIs
<1> DEFINE Z == {i \in f + 1 .. Len(text) + 1 : i > Len(text) \/ text[i] = Sh!Space}
<1>17. Sh!Min(Z) = s + 1
  <2>1. Z \subseteq Nat
    BY <1>3, <1>4, <1>5
  <2>2. s + 1 \in Z
    <3>1. s + 1 \in f + 1 .. Len(text) + 1
      BY <1>3, <1>4, <1>5, <1>12
    <3>2. s = E => s + 1 > Len(text)
      BY <1>3, <1>5
    <3>3. s # E => text[s + 1] = Sh!Space
      <4>1. s # E => s + 1 \in 1 .. E /\ (s + 1) - 1 = s
        BY <1>3, <1>4, <1>12
      <4> QED
        BY <1>5, <1>12, <4>1
    <3> QED
      BY <3>1, <3>2, <3>3
  <2>3. \A y \in Z : s + 1 <= y
    <3> SUFFICES ASSUME NEW y \in Z PROVE s + 1 <= y
      OBVIOUS
    <3>1. y \in f + 1 .. E + 1 /\ (y > E \/ text[y] = Sh!Space)
      BY <1>5
    <3>2. y - 1 \in f .. E
      BY <1>3, <1>4, <3>1
    <3>3. y > E => y - 1 = E
      BY <1>3, <1>4, <3>1
    <3>4. ~(y > E) => b[y - 1] = Sh!Space
      <4>1. ~(y > E) => y \in 1 .. E
        BY <1>3, <1>4, <3>1
      <4> QED
        BY <1>5, <3>1, <4>1
    <3>5. s <= y - 1
      BY <1>13, <3>2, <3>3, <3>4
    <3> QED
      BY <1>12, <3>1, <3>5, <1>3, <1>4
  <2> QED
    BY <2>1, <2>2, <2>3, MinIs
<1>18. Sh!FirstWord(text) = SubSeq(text, f + 1, s + 1 - 1)
  <2> HIDE DEF letters, Z
  <2>1. Sh!FirstWord(text) =
          IF letters = {} THEN <<>>
          ELSE SubSeq(text, Sh!Min(letters), Sh!Min({i \in Sh!Min(letters) .. Len(text) + 1 :
                                 i > Len(text) \/ text[i] = Sh!Space}) - 1)
    BY Zenon DEF Sh!FirstWord, letters
  <2>2. Sh!FirstWord(text) = SubSeq(text, Sh!Min(letters), Sh!Min({i \in Sh!Min(letters) .. Len(text) + 1 :
                                 i > Len(text) \/ text[i] = Sh!Space}) - 1)
    BY <1>16, <2>1, Zenon
  <2>3. Sh!FirstWord(text) = SubSeq(text, f + 1, Sh!Min({i \in f + 1 .. Len(text) + 1 :
                                 i > Len(text) \/ text[i] = Sh!Space}) - 1)
    BY <1>16, <2>2, Zenon
  <2>4. Sh!FirstWord(text) = SubSeq(text, f + 1, Sh!Min(Z) - 1)
    BY <2>3, Zenon DEF Z
  <2> QED
    <3>1. Sh!Min(Z) - 1 = s /\ s + 1 - 1 = s
      BY <1>12, <1>17
    <3> QED
      BY <2>4, <3>1, Zenon
<1> HIDE DEF letters, Z
(* The word in the buffer. *)
<1> DEFINE c == Sh!Split(b)
<1>19. c \in Buffers /\ s \in f .. BufferSize - 1 /\ c[s] = Sh!NUL
  <2>1. s \in Sh!Offsets /\ s \in f .. BufferSize - 1
    BY <1>1, <1>3, <1>4, <1>12
  <2>2. CASE s = E
    BY <1>3, <2>1, <2>2, SplitIs
  <2>3. CASE s # E
    <3>1. s < E /\ b[s] = Sh!Space
      BY <1>3, <1>12, <2>3
    <3>2. \A k \in f .. s - 1 : b[k] # Sh!Space
      BY <1>14
    <3>3. Sh!ScanEnd(b) \in Nat /\ s < Sh!ScanEnd(b)
      BY <1>12, <3>1, <3>2, ScanPasses DEF E, f
    <3>4. s \in f .. Sh!ScanEnd(b) - 1
      BY <1>4, <1>12, <3>3
    <3> QED
      BY <2>1, <3>1, <3>4, SplitIs DEF f
  <2> QED
    BY <2>1, <2>2, <2>3, SplitIs
<1>20. \A k \in f .. s - 1 : c[k] = b[k] /\ c[k] # Sh!NUL
  BY <1>14, SplitIs
<1> HIDE DEF c
<1>21. Sh!End(c, f) = s
  BY <1>4, <1>19, <1>20, EndIs
<1>22. /\ Sh!Text(c, f) \in Seq(Sh!Content) /\ Len(Sh!Text(c, f)) = s - f
       /\ \A k \in 1 .. s - f : Sh!Text(c, f)[k] = c[f + k - 1]
  BY <1>4, <1>19, <1>21, TextIs
<1>23. /\ SubSeq(text, f + 1, s) \in Seq(Sh!Content) /\ Len(SubSeq(text, f + 1, s)) = s - f
       /\ \A k \in 1 .. s - f : SubSeq(text, f + 1, s)[k] = text[f + 1 + k - 1]
  <2>1. f + 1 \in Int /\ s \in Int /\ s - (f + 1) + 1 = s - f /\ f + 1 <= s
    BY <1>4, <1>12, <1>15
  <2>2. \A i \in f + 1 .. s : text[i] \in Sh!Content
    <3> SUFFICES ASSUME NEW i \in f + 1 .. s PROVE text[i] \in Sh!Content
      OBVIOUS
    <3>1. i \in 1 .. Len(text)
      BY <1>3, <1>4, <1>5, <1>12
    <3> QED
      BY <1>5, <3>1, ElementOfSeq
  <2> QED
    BY <2>1, <2>2, SubSeqProperties
<1>24. \A k \in 1 .. s - f : Sh!Text(c, f)[k] = SubSeq(text, f + 1, s)[k]
  <2> SUFFICES ASSUME NEW k \in 1 .. s - f
               PROVE  c[f + k - 1] = text[f + 1 + k - 1]
    BY <1>22, <1>23
  <2>1. f + k - 1 \in f .. s - 1 /\ f + 1 + k - 1 \in 1 .. E /\ (f + 1 + k - 1) - 1 = f + k - 1
    BY <1>3, <1>4, <1>12
  <2> QED
    BY <1>5, <1>20, <2>1
<1>25. Sh!Text(c, f) = SubSeq(text, f + 1, s)
  BY <1>22, <1>23, <1>24, SeqEqual
<1>26. s + 1 - 1 = s
  BY <1>12
<1> QED
  BY <1>18, <1>25, <1>26 DEF c, f, text

(***************************************************************************)
(* The shell's steps keep its invariant.                                   *)
(***************************************************************************)
LEMMA ShellFacts ==
  ASSUME Sh!SIInv
  PROVE  /\ buffer \in Buffers /\ parts \in [0 .. MaxParts - 1 -> 0 .. BufferSize]
         /\ status \in {"reading", "program", "wild", "smashed"}
         /\ line \in Seq(Marks) /\ input_size = Len(line) /\ input_size \in Nat
         /\ erasing \in {"never", "before", "last"} /\ entered \in {"zeros", "junk"}
         /\ ran.text \in Seq(Sh!Content) /\ ran.word \in Seq(Sh!Content)
         /\ status = "reading" => /\ input_size <= BufferSize
                                  /\ \A i \in 1 .. input_size : buffer[i - 1] = line[i]
                                  /\ input_size > 0 => buffer[0] # Sh!NUL
<1>1. Sh!TypeOK /\ Sh!LineTyped /\ Sh!BufferHoldsLine
  BY DEF Sh!SIInv
<1>2. buffer \in Buffers /\ parts \in [0 .. MaxParts - 1 -> 0 .. BufferSize]
      /\ status \in {"reading", "program", "wild", "smashed"} /\ input_size = Len(line)
      /\ erasing \in {"never", "before", "last"} /\ entered \in {"zeros", "junk"}
      /\ ran.text \in Seq(Sh!Content) /\ ran.word \in Seq(Sh!Content)
  BY <1>1 DEF Sh!TypeOK, Buffers
<1>3. line \in Seq(Marks) /\ (status = "reading" => input_size <= BufferSize)
  BY <1>1 DEF Sh!LineTyped, Marks
<1>4. input_size \in Nat
  BY <1>2, <1>3, LenProperties
<1>5. status = "reading" => \A i \in 1 .. input_size : buffer[i - 1] = line[i]
  BY <1>1 DEF Sh!BufferHoldsLine
<1>6. ASSUME status = "reading", input_size > 0 PROVE buffer[0] # Sh!NUL
  <2>1. 1 \in 1 .. input_size /\ 1 - 1 = 0
    BY <1>4, <1>6
  <2>2. buffer[0] = line[1]
    BY <1>5, <1>6, <2>1
  <2>3. line[1] \in Marks
    BY <1>2, <1>3, <2>1, ElementOfSeq
  <2> QED
    BY <2>2, <2>3, ShellSizes
<1> QED
  BY <1>2, <1>3, <1>4, <1>5, <1>6

LEMMA ShellMade ==
  ASSUME buffer' \in Buffers, parts' \in [0 .. MaxParts - 1 -> 0 .. BufferSize],
         status' \in {"reading", "program", "wild", "smashed"}, line' \in Seq(Marks),
         input_size' = Len(line'), erasing' \in {"never", "before", "last"},
         entered' \in {"zeros", "junk"},
         ran'.text \in Seq(Sh!Content), ran'.word \in Seq(Sh!Content),
         status' = "reading" => input_size' <= BufferSize,
         Sh!BufferHoldsLine', Sh!StraysApart', Sh!FirstPart', Sh!WordFound',
         Sh!WildOnlyWithoutWords'
  PROVE  Sh!SIInv'
<1>1. Sh!TypeOK'
  BY DEF Sh!TypeOK, Buffers
<1>2. Sh!LineTyped'
  BY DEF Sh!LineTyped, Marks
<1> QED
  BY <1>1, <1>2 DEF Sh!SIInv

\* What may be behind the line, as StraysApart has it.
Behind(b, e, from, size, i) ==
  /\ from = "zeros" => b[i] # Sh!Junk
  /\ e = "never" => b[i] \in {Sh!NUL, Sh!Junk}
  /\ b[i] \in {Sh!NUL, Sh!Junk} \/ (i + 1 < size /\ b[i + 1] = Sh!NUL)
  /\ b[i] = Sh!Junk => \A k \in i .. size - 1 : b[k] \in {Sh!NUL, Sh!Junk}

LEMMA StraysAre ==
  /\ Sh!StraysApart <=>
         (status = "reading" =>
              \A i \in input_size .. BufferSize - 1 : Behind(buffer, erasing, entered, BufferSize, i))
  /\ Sh!StraysApart' <=>
         (status' = "reading" =>
              \A i \in input_size' .. BufferSize - 1 :
                  Behind(buffer', erasing', entered', BufferSize, i))
BY DEF Sh!StraysApart, Behind

\* Cells that keep what they hold or are cleared are as good as before.
LEMMA BehindKept ==
  ASSUME NEW b \in Buffers, NEW c \in Buffers, NEW e, NEW f, NEW from,
         NEW i \in Sh!Offsets, Behind(b, e, from, BufferSize, i), f = "never" => e = "never",
         \A k \in Sh!Offsets : k >= i => c[k] \in {b[k], Sh!NUL}
  PROVE  Behind(c, f, from, BufferSize, i)
<1>1. BufferSize \in Nat /\ Sh!Offsets = 0 .. BufferSize - 1 /\ Sh!Junk # Sh!NUL
  BY ShellSizes
<1>2. c[i] \in {b[i], Sh!NUL} /\ (i + 1 < BufferSize => c[i + 1] \in {b[i + 1], Sh!NUL})
  BY <1>1
<1>3. /\ from = "zeros" => c[i] # Sh!Junk
      /\ f = "never" => c[i] \in {Sh!NUL, Sh!Junk}
      /\ c[i] \in {Sh!NUL, Sh!Junk} \/ (i + 1 < BufferSize /\ c[i + 1] = Sh!NUL)
  BY <1>1, <1>2 DEF Behind
<1>4. ASSUME c[i] = Sh!Junk, NEW k \in i .. BufferSize - 1 PROVE c[k] \in {Sh!NUL, Sh!Junk}
  <2>1. b[i] = Sh!Junk
    BY <1>1, <1>2, <1>4
  <2>2. b[k] \in {Sh!NUL, Sh!Junk}
    BY <2>1 DEF Behind
  <2>3. k \in Sh!Offsets /\ k >= i
    BY <1>1
  <2> QED
    BY <2>2, <2>3
<1> QED
  BY <1>3, <1>4 DEF Behind

\* A stack that no key has been written to yet.
LEMMA NothingBehind ==
  ASSUME NEW b, NEW e, NEW from,
         \A i \in 0 .. BufferSize - 1 :
             b[i] \in {Sh!NUL, Sh!Junk} /\ (from = "zeros" => b[i] = Sh!NUL)
  PROVE  \A i \in 0 .. BufferSize - 1 : Behind(b, e, from, BufferSize, i)
<1> SUFFICES ASSUME NEW i \in 0 .. BufferSize - 1 PROVE Behind(b, e, from, BufferSize, i)
  OBVIOUS
<1>1. BufferSize \in Nat /\ Sh!Junk # Sh!NUL
  BY ShellSizes
<1>2. \A k \in i .. BufferSize - 1 : k \in 0 .. BufferSize - 1
  BY <1>1
<1> QED
  BY <1>1, <1>2 DEF Behind

\* Entry clears everything: nothing remains to be said of what was before.
LEMMA EntryKept ==
  ASSUME Sh!SIInv, Sh!Entry, ran' = ran
  PROVE  Sh!SIInv'
<1>1. /\ entered' \in {"zeros", "junk"} /\ input_size' = 0 /\ line' = <<>> /\ erasing' = "never"
      /\ buffer' \in [Sh!Offsets -> IF entered' = "zeros" THEN {Sh!NUL} ELSE {Sh!NUL, Sh!Junk}]
      /\ parts' = [k \in 0 .. MaxParts - 1 |-> Sh!Unset] /\ status' = "reading"
  BY DEF Sh!Entry
<1>2. buffer' \in Buffers
  <2>1. Sh!NUL \in Sh!Content /\ Sh!Junk \in Sh!Content
    BY ShellSizes
  <2> QED
    BY <1>1, <2>1 DEF Buffers
<1>3. BufferSize \in Nat /\ BufferSize >= 2 /\ Sh!Offsets = 0 .. BufferSize - 1 /\ Sh!Unset = BufferSize
  BY OffsetsAre DEF Sh!Unset
<1>4. parts' \in [0 .. MaxParts - 1 -> 0 .. BufferSize]
  BY <1>1, <1>3
<1>5. line' \in Seq(Marks) /\ Len(line') = 0 /\ input_size' = Len(line') /\ input_size' <= BufferSize
  BY <1>1, <1>3
<1>6. Sh!BufferHoldsLine'
  BY <1>1 DEF Sh!BufferHoldsLine
<1>7. Sh!StraysApart'
  <2>1. \A i \in 0 .. BufferSize - 1 :
            buffer'[i] \in {Sh!NUL, Sh!Junk} /\ (entered' = "zeros" => buffer'[i] = Sh!NUL)
    BY <1>1, <1>3
  <2> QED
    BY <1>1, <1>3, <2>1, NothingBehind, StraysAre
<1>8. Sh!FirstPart'
  <2>1. MaxParts \in Nat /\ MaxParts >= 2
    BY PartsSize
  <2>2. parts'[0] = Sh!Unset /\ Sh!Unset # 1
    BY <1>1, <1>3, <2>1
  <2> QED
    BY <2>2 DEF Sh!FirstPart
<1>9. Sh!WordFound'
  BY DEF Sh!SIInv, Sh!WordFound
<1>10. Sh!WildOnlyWithoutWords'
  BY <1>1 DEF Sh!WildOnlyWithoutWords
<1>11. ran'.text \in Seq(Sh!Content) /\ ran'.word \in Seq(Sh!Content)
  BY ShellFacts
<1>12. status' \in {"reading", "program", "wild", "smashed"} /\ erasing' \in {"never", "before", "last"}
  BY <1>1
<1> QED
  BY <1>1, <1>2, <1>4, <1>5, <1>6, <1>7, <1>8, <1>9, <1>10, <1>11, <1>12, ShellMade

LEMMA TypeKept ==
  ASSUME Sh!SIInv, NEW c \in Marks, Sh!Type(c)
  PROVE  /\ Sh!SIInv' /\ line' = Append(line, c) /\ status = "reading"
<1>1. /\ status = "reading" /\ input_size' = input_size + 1 /\ line' = Append(line, c)
      /\ erasing' = (IF erasing = "last" THEN "before" ELSE erasing)
      /\ parts' = parts /\ entered' = entered /\ ran' = ran
      /\ IF input_size < BufferSize
         THEN buffer' = [buffer EXCEPT ![input_size] = c] /\ status' = status
         ELSE buffer' = buffer /\ status' = "smashed"
  BY DEF Sh!Type, Sh!Read, Sh!Stored
<1>2. /\ buffer \in Buffers /\ parts \in [0 .. MaxParts - 1 -> 0 .. BufferSize]
      /\ line \in Seq(Marks) /\ input_size = Len(line) /\ input_size \in Nat
      /\ erasing \in {"never", "before", "last"} /\ entered \in {"zeros", "junk"}
      /\ ran.text \in Seq(Sh!Content) /\ ran.word \in Seq(Sh!Content)
      /\ input_size <= BufferSize
      /\ \A i \in 1 .. input_size : buffer[i - 1] = line[i]
      /\ input_size > 0 => buffer[0] # Sh!NUL
  BY <1>1, ShellFacts
<1>3. BufferSize \in Nat /\ Sh!Offsets = 0 .. BufferSize - 1 /\ c \in Sh!Content /\ c # Sh!NUL
  BY ShellSizes
<1>4. /\ line' \in Seq(Marks) /\ Len(line') = input_size + 1 /\ line'[input_size + 1] = c
      /\ \A i \in 1 .. input_size : line'[i] = line[i]
  BY <1>1, <1>2, AppendProperties
<1>5. buffer' \in Buffers
  BY <1>1, <1>2, <1>3 DEF Buffers
<1>6. Sh!WordFound'
  BY <1>1 DEF Sh!SIInv, Sh!WordFound
<1>7. erasing' \in {"never", "before", "last"} /\ (erasing' = "never" => erasing = "never")
  BY <1>1, <1>2
<1>8. status' # "wild" /\ status' \in {"reading", "program", "wild", "smashed"}
  BY <1>1
<1>9. Sh!WildOnlyWithoutWords'
  BY <1>8 DEF Sh!WildOnlyWithoutWords
<1>10. ASSUME status' = "reading"
       PROVE  /\ input_size < BufferSize /\ input_size \in Sh!Offsets /\ buffer'[input_size] = c
              /\ \A i \in Sh!Offsets : i # input_size => buffer'[i] = buffer[i]
  BY <1>1, <1>2, <1>3, <1>10 DEF Buffers
<1>11. status' = "reading" => input_size' <= BufferSize
  BY <1>1, <1>2, <1>3, <1>10
<1>12. Sh!BufferHoldsLine'
  <2> SUFFICES ASSUME status' = "reading", NEW i \in 1 .. input_size'
               PROVE  buffer'[i - 1] = line'[i]
    BY DEF Sh!BufferHoldsLine
  <2>1. CASE i = input_size + 1
    <3>1. i - 1 = input_size
      BY <1>2, <2>1
    <3> QED
      BY <1>4, <1>10, <2>1, <3>1
  <2>2. CASE i # input_size + 1
    <3>1. i \in 1 .. input_size /\ i - 1 # input_size /\ i - 1 \in Sh!Offsets
      BY <1>1, <1>2, <1>3, <1>10, <2>2
    <3> QED
      BY <1>2, <1>4, <1>10, <3>1
  <2> QED
    BY <2>1, <2>2
<1>13. Sh!StraysApart'
  <2> SUFFICES ASSUME status' = "reading", NEW i \in input_size' .. BufferSize - 1
               PROVE  Behind(buffer', erasing', entered', BufferSize, i)
    BY StraysAre
  <2>1. i \in Nat /\ i \in input_size .. BufferSize - 1 /\ i > input_size /\ i \in Sh!Offsets
    BY <1>1, <1>2, <1>3
  <2>2. \A k \in Sh!Offsets : k >= i => k # input_size
    BY <1>2, <1>3, <2>1
  <2>3. Behind(buffer, erasing, entered, BufferSize, i)
    BY <1>1, <2>1, StraysAre DEF Sh!SIInv
  <2>4. \A k \in Sh!Offsets : k >= i => buffer'[k] \in {buffer[k], Sh!NUL}
    BY <1>10, <2>2
  <2> QED
    BY <1>1, <1>2, <1>5, <1>7, <2>1, <2>3, <2>4, BehindKept
<1>14. Sh!FirstPart'
  <2> SUFFICES ASSUME status' = "reading"
               PROVE  parts[0] \in {0, 1, Sh!Unset} /\ buffer'[0] # Sh!NUL
    BY <1>1 DEF Sh!FirstPart
  <2>1. parts[0] \in {0, 1, Sh!Unset}
    BY <1>1 DEF Sh!SIInv, Sh!FirstPart
  <2>2. CASE input_size = 0
    BY <1>3, <1>10, <2>1, <2>2
  <2>3. CASE input_size # 0
    <3>1. input_size > 0 /\ 0 \in Sh!Offsets
      BY <1>2, <1>3, <1>10, <2>3
    <3> QED
      BY <1>2, <1>10, <2>1, <2>3, <3>1
  <2> QED
    BY <2>2, <2>3
<1>15. Sh!SIInv'
  BY <1>1, <1>2, <1>4, <1>5, <1>6, <1>7, <1>8, <1>9, <1>11, <1>12, <1>13, <1>14, ShellMade
<1> QED
  BY <1>1, <1>15

LEMMA BackspaceKept ==
  ASSUME Sh!SIInv, Sh!Backspace
  PROVE  /\ Sh!SIInv' /\ line' = SubSeq(line, 1, Len(line) - 1)
         /\ status = "reading" /\ Len(line) > 0
<1>1. /\ status = "reading" /\ input_size # 0 /\ input_size' = input_size - 1
      /\ line' = SubSeq(line, 1, Len(line) - 1) /\ erasing' = "last"
      /\ parts' = parts /\ entered' = entered /\ ran' = ran
      /\ IF input_size < BufferSize
         THEN buffer' = [buffer EXCEPT ![input_size] = Sh!NUL] /\ status' = status
         ELSE buffer' = buffer /\ status' = "smashed"
  BY DEF Sh!Backspace, Sh!Read, Sh!Cleared, Sh!Erased
<1>2. /\ buffer \in Buffers /\ parts \in [0 .. MaxParts - 1 -> 0 .. BufferSize]
      /\ line \in Seq(Marks) /\ input_size = Len(line) /\ input_size \in Nat
      /\ entered \in {"zeros", "junk"}
      /\ ran.text \in Seq(Sh!Content) /\ ran.word \in Seq(Sh!Content)
      /\ input_size <= BufferSize
      /\ \A i \in 1 .. input_size : buffer[i - 1] = line[i]
      /\ input_size > 0 => buffer[0] # Sh!NUL
  BY <1>1, ShellFacts
<1>3. BufferSize \in Nat /\ Sh!Offsets = 0 .. BufferSize - 1 /\ Sh!NUL \in Sh!Content
  BY ShellSizes
<1>4. /\ line' \in Seq(Marks) /\ Len(line') = input_size - 1
      /\ \A i \in 1 .. input_size - 1 : line'[i] = line[i]
  <2>1. \A i \in 1 .. input_size - 1 : line[i] \in Marks /\ 1 + i - 1 = i
    BY <1>2, ElementOfSeq
  <2>2. input_size - 1 - 1 + 1 = input_size - 1 /\ (1 <= input_size - 1 \/ input_size - 1 = 0)
    BY <1>1, <1>2
  <2>3. /\ SubSeq(line, 1, input_size - 1) \in Seq(Marks)
        /\ Len(SubSeq(line, 1, input_size - 1)) = input_size - 1
        /\ \A i \in 1 .. input_size - 1 : SubSeq(line, 1, input_size - 1)[i] = line[i]
    BY <1>2, <2>1, <2>2, SubSeqProperties
  <2> QED
    BY <1>1, <1>2, <2>3
<1>5. buffer' \in Buffers
  BY <1>1, <1>2, <1>3 DEF Buffers
<1>6. Sh!WordFound'
  BY <1>1 DEF Sh!SIInv, Sh!WordFound
<1>7. erasing' \in {"never", "before", "last"} /\ erasing' # "never"
  BY <1>1
<1>8. status' # "wild" /\ status' \in {"reading", "program", "wild", "smashed"}
  BY <1>1
<1>9. Sh!WildOnlyWithoutWords'
  BY <1>8 DEF Sh!WildOnlyWithoutWords
<1>10. ASSUME status' = "reading"
       PROVE  /\ input_size < BufferSize /\ input_size \in Sh!Offsets /\ buffer'[input_size] = Sh!NUL
              /\ \A i \in Sh!Offsets : i # input_size => buffer'[i] = buffer[i]
  BY <1>1, <1>2, <1>3, <1>10 DEF Buffers
<1>11. status' = "reading" => input_size' <= BufferSize
  BY <1>1, <1>2, <1>3
<1>12. Sh!BufferHoldsLine'
  <2> SUFFICES ASSUME status' = "reading", NEW i \in 1 .. input_size'
               PROVE  buffer'[i - 1] = line'[i]
    BY DEF Sh!BufferHoldsLine
  <2>1. i \in 1 .. input_size - 1 /\ i \in 1 .. input_size /\ i - 1 # input_size /\ i - 1 \in Sh!Offsets
    BY <1>1, <1>2, <1>3, <1>10
  <2> QED
    BY <1>2, <1>4, <1>10, <2>1
<1>13. Sh!StraysApart'
  <2> SUFFICES ASSUME status' = "reading", NEW i \in input_size' .. BufferSize - 1
               PROVE  Behind(buffer', erasing', entered', BufferSize, i)
    BY StraysAre
  <2>0. Sh!Junk # Sh!NUL /\ Sh!Junk \notin Marks
    BY ShellSizes
  <2>1. CASE i = input_size - 1
    <3>1. i + 1 = input_size /\ i \in Sh!Offsets /\ i # input_size
      BY <1>1, <1>2, <1>3, <1>10, <2>1
    <3>2. buffer'[i] = line[input_size] /\ line[input_size] \in Marks
      <4>1. input_size \in 1 .. input_size /\ input_size \in 1 .. Len(line)
        BY <1>1, <1>2
      <4>2. buffer[input_size - 1] = line[input_size] /\ line[input_size] \in Marks
        BY <1>2, <4>1, ElementOfSeq
      <4> QED
        BY <1>10, <2>1, <3>1, <4>2
    <3>3. buffer'[i + 1] = Sh!NUL /\ i + 1 < BufferSize
      BY <1>10, <3>1
    <3> QED
      BY <1>7, <2>0, <3>2, <3>3 DEF Behind
  <2>2. CASE i = input_size
    BY <1>7, <1>10, <2>0, <2>2 DEF Behind
  <2>3. CASE i # input_size - 1 /\ i # input_size
    <3>1. i \in Nat /\ i \in input_size .. BufferSize - 1 /\ i > input_size /\ i \in Sh!Offsets
      BY <1>1, <1>2, <1>3, <2>3
    <3>2. \A k \in Sh!Offsets : k >= i => k # input_size
      BY <1>2, <1>3, <3>1
    <3>3. Behind(buffer, erasing, entered, BufferSize, i)
      BY <1>1, <3>1, StraysAre DEF Sh!SIInv
    <3>4. \A k \in Sh!Offsets : k >= i => buffer'[k] \in {buffer[k], Sh!NUL}
      BY <1>10, <3>2
    <3> QED
      BY <1>1, <1>2, <1>5, <1>7, <3>1, <3>3, <3>4, BehindKept
  <2> QED
    BY <2>1, <2>2, <2>3
<1>14. Sh!FirstPart'
  <2> SUFFICES ASSUME status' = "reading"
               PROVE  parts[0] \in {0, 1, Sh!Unset} /\ buffer'[0] # Sh!NUL
    BY <1>1 DEF Sh!FirstPart
  <2>1. parts[0] \in {0, 1, Sh!Unset}
    BY <1>1 DEF Sh!SIInv, Sh!FirstPart
  <2>2. input_size > 0 /\ 0 \in Sh!Offsets
    BY <1>1, <1>2, <1>3, <1>10
  <2> QED
    BY <1>1, <1>2, <1>10, <2>1, <2>2
<1>15. Sh!SIInv'
  <2>1. input_size' = Len(line')
    BY <1>1, <1>4
  <2> QED
    BY <1>1, <1>2, <1>4, <1>5, <1>6, <1>7, <1>8, <1>9, <1>11, <1>12, <1>13, <1>14, <2>1, ShellMade
<1>16. Len(line) > 0
  BY <1>1, <1>2
<1> QED
  BY <1>1, <1>15, <1>16

LEMMA UnendedKept ==
  ASSUME Sh!SIInv, Sh!EnterUnended
  PROVE  Sh!SIInv'
<1>1. /\ status = "reading" /\ ~Sh!Ended(buffer) /\ status' = "wild"
      /\ buffer' = buffer /\ input_size' = input_size /\ parts' = parts /\ line' = line
      /\ erasing' = erasing /\ entered' = entered /\ ran' = ran
  BY DEF Sh!EnterUnended, Sh!Read
<1>2. /\ buffer \in Buffers /\ parts \in [0 .. MaxParts - 1 -> 0 .. BufferSize]
      /\ line \in Seq(Marks) /\ input_size = Len(line) /\ input_size \in Nat
      /\ erasing \in {"never", "before", "last"} /\ entered \in {"zeros", "junk"}
      /\ ran.text \in Seq(Sh!Content) /\ ran.word \in Seq(Sh!Content)
  BY ShellFacts
<1>3. BufferSize \in Nat /\ BufferSize >= 2 /\ Sh!Offsets = 0 .. BufferSize - 1
  BY OffsetsAre
<1>4. Sh!WordFound'
  BY <1>1 DEF Sh!SIInv, Sh!WordFound
<1>5. Sh!BufferHoldsLine' /\ Sh!StraysApart' /\ Sh!FirstPart'
  BY <1>1 DEF Sh!BufferHoldsLine, Sh!StraysApart, Sh!FirstPart
<1>6. entered = "junk" \/ input_size = BufferSize
  <2> SUFFICES ASSUME entered = "zeros", input_size # BufferSize PROVE FALSE
    BY <1>2
  <2>1. input_size <= BufferSize
    BY <1>1, ShellFacts
  <2>2. BufferSize - 1 \in input_size .. BufferSize - 1 /\ ~(BufferSize - 1 + 1 < BufferSize)
    BY <1>2, <1>3, <2>1
  <2>3. Behind(buffer, erasing, entered, BufferSize, BufferSize - 1)
    BY <1>1, <2>2, StraysAre DEF Sh!SIInv
  <2>4. buffer[BufferSize - 1] = Sh!NUL
    BY <2>2, <2>3 DEF Behind
  <2>5. BufferSize - 1 \in Sh!Offsets
    BY <1>3
  <2> QED
    BY <1>1, <2>4, <2>5 DEF Sh!Ended
<1>7. Sh!WildOnlyWithoutWords'
  <2>1. ~Sh!Ended(buffer')
    BY <1>1
  <2> QED
    BY <1>1, <1>6, <2>1 DEF Sh!WildOnlyWithoutWords
<1>8. status' # "reading" /\ status' \in {"reading", "program", "wild", "smashed"}
  BY <1>1
<1> QED
  BY <1>1, <1>2, <1>4, <1>5, <1>7, <1>8, ShellMade

LEMMA EnterKept ==
  ASSUME Sh!SIInv, Sh!Enter
  PROVE  Sh!SIInv' /\ line' = <<>> /\ status = "reading"
<1> DEFINE split == Sh!Split(buffer)
<1> DEFINE slots == Sh!SlotsAfter(buffer)
<1> DEFINE word == IF slots[0] = Sh!Unset THEN <<>> ELSE Sh!Text(split, slots[0])
<1>1. /\ status = "reading" /\ Sh!Ended(buffer) /\ parts' = slots
      /\ ran' = [text |-> Sh!Text(buffer, 0), typed |-> line, word |-> word,
                 count |-> Sh!Count(buffer)]
      /\ status' \in IF Sh!Unset \in Sh!Follows(slots, word) THEN {"wild"}
                     ELSE IF word = <<Run>> THEN {"reading", "program"} ELSE {"reading"}
      /\ buffer' = Sh!Emptied(split)
      /\ input_size' = 0 /\ line' = <<>>
      /\ erasing' = (IF erasing = "never" THEN "never" ELSE "before")
      /\ entered' = entered
  BY DEF Sh!Enter, Sh!Read
<1>2. /\ ran'.text = Sh!Text(buffer, 0) /\ ran'.word = word /\ ran'.count = Sh!Count(buffer)
  BY <1>1
<1>3. /\ buffer \in Buffers /\ parts \in [0 .. MaxParts - 1 -> 0 .. BufferSize]
      /\ line \in Seq(Marks) /\ input_size = Len(line) /\ input_size \in Nat
      /\ erasing \in {"never", "before", "last"} /\ entered \in {"zeros", "junk"}
      /\ input_size <= BufferSize
      /\ input_size > 0 => buffer[0] # Sh!NUL
  BY <1>1, ShellFacts
<1>4. BufferSize \in Nat /\ BufferSize >= 2 /\ Sh!Offsets = 0 .. BufferSize - 1
  BY OffsetsAre
<1>5. /\ split \in Buffers /\ \A i \in Sh!Offsets : buffer[i] = Sh!NUL => split[i] = Sh!NUL
      /\ \A i \in Sh!Offsets : split[i] \in {buffer[i], Sh!NUL}
  BY <1>3, SplitIs
<1>6. /\ Sh!Starts(buffer) = {} => slots[0] = parts[0]
      /\ Sh!Starts(buffer) # {} => slots[0] = Sh!First(buffer)
      /\ slots[1] = Sh!Unset => Sh!Nth(buffer, 1) = {}
      /\ slots \in [0 .. MaxParts - 1 -> 0 .. BufferSize]
  BY <1>1, <1>3, SlotsAre, SlotsTyped
<1>7. \E i \in 0 .. BufferSize - 1 : buffer[i] = Sh!NUL
  BY <1>1, <1>4 DEF Sh!Ended
<1>8. /\ Sh!End(buffer, 0) \in 0 .. BufferSize - 1 /\ Sh!End(buffer, 0) \in Nat
      /\ buffer[Sh!End(buffer, 0)] = Sh!NUL
  BY <1>7, EndFound
<1>9. /\ Sh!First(buffer) \in {0, 1}
      /\ Sh!First(buffer) < Sh!End(buffer, 0) <=> Sh!Starts(buffer) # {}
  BY <1>1, StartsAre
<1>10. parts[0] \in {0, 1, Sh!Unset}
       /\ (parts[0] = 1 /\ buffer[0] = Sh!NUL => \E i \in 1 .. BufferSize - 1 : buffer[i] = Sh!NUL)
  BY <1>1 DEF Sh!SIInv, Sh!FirstPart
<1>11. Sh!Unset = BufferSize
  BY DEF Sh!Unset
<1>12. slots[0] \in {0, 1, Sh!Unset}
  BY <1>6, <1>9, <1>10
\* At or after the first part there is a NUL.
<1>13. slots[0] # Sh!Unset => \E i \in slots[0] .. BufferSize - 1 : buffer[i] = Sh!NUL
  <2>1. CASE slots[0] = 0
    BY <1>7, <2>1
  <2>2. CASE slots[0] = 1
    <3>1. CASE Sh!End(buffer, 0) = 0
      <4>1. Sh!Starts(buffer) = {}
        BY <1>9, <3>1
      <4> QED
        BY <1>6, <1>8, <1>10, <2>2, <3>1, <4>1
    <3>2. CASE Sh!End(buffer, 0) # 0
      <4>1. Sh!End(buffer, 0) \in 1 .. BufferSize - 1
        BY <1>4, <1>8, <3>2
      <4> QED
        BY <1>8, <2>2, <4>1
    <3> QED
      BY <3>1, <3>2
  <2> QED
    BY <1>12, <2>1, <2>2
<1> HIDE DEF split, slots
<1>14. ran'.text \in Seq(Sh!Content)
  BY <1>2, <1>3, <1>7, TextIs
<1>15. ran'.word \in Seq(Sh!Content)
  <2>1. CASE slots[0] = Sh!Unset
    BY <1>2, <2>1, EmptySeq
  <2>2. CASE slots[0] # Sh!Unset
    <3>1. slots[0] \in Nat
      BY <1>12, <2>2
    <3>2. \E i \in slots[0] .. BufferSize - 1 : split[i] = Sh!NUL
      <4>1. PICK i \in slots[0] .. BufferSize - 1 : buffer[i] = Sh!NUL
        BY <1>13, <2>2
      <4>2. i \in Sh!Offsets
        BY <1>4, <3>1
      <4> QED
        BY <1>5, <4>1, <4>2
    <3>3. Sh!Text(split, slots[0]) \in Seq(Sh!Content)
      BY <1>5, <3>1, <3>2, TextIs
    <3> QED
      BY <1>2, <2>2, <3>3
  <2> QED
    BY <2>1, <2>2
<1> HIDE DEF word
<1>16. /\ buffer' \in Buffers
       /\ \A i \in Sh!Offsets : split[i] = Sh!NUL => buffer'[i] = Sh!NUL
       /\ \A i \in Sh!Offsets : buffer[i] = Sh!NUL => buffer'[i] = Sh!NUL
       /\ \A i \in Sh!Offsets : i < input_size => buffer'[i] = Sh!NUL
       /\ \A i \in Sh!Offsets : buffer'[i] \in {buffer[i], Sh!NUL}
  <2>1. Sh!NUL \in Sh!Content
    BY ShellSizes
  <2>2. buffer' = [i \in Sh!Offsets |-> IF i < input_size THEN Sh!NUL ELSE split[i]]
    BY <1>1 DEF Sh!Emptied
  <2> QED
    BY <1>5, <2>1, <2>2 DEF Buffers
<1>17. line' \in Seq(Marks) /\ input_size' = Len(line') /\ input_size' <= BufferSize
  BY <1>1, <1>4, EmptySeq
<1>18. Sh!BufferHoldsLine'
  BY <1>1 DEF Sh!BufferHoldsLine
<1>19. Sh!StraysApart'
  <2> SUFFICES ASSUME NEW i \in 0 .. BufferSize - 1
               PROVE  Behind(buffer', erasing', entered', BufferSize, i)
    BY <1>1, StraysAre
  <2>1. i \in Sh!Offsets /\ i \in Nat
    BY <1>4
  <2>2. CASE i < input_size
    <3>1. buffer'[i] = Sh!NUL /\ Sh!Junk # Sh!NUL
      BY <1>16, <2>1, <2>2, ShellSizes
    <3> QED
      BY <3>1 DEF Behind
  <2>3. CASE ~(i < input_size)
    <3>1. i \in input_size .. BufferSize - 1
      BY <1>3, <2>1, <2>3
    <3>2. Behind(buffer, erasing, entered, BufferSize, i)
      BY <1>1, <3>1, StraysAre DEF Sh!SIInv
    <3>3. erasing' = "never" => erasing = "never"
      BY <1>1
    <3> QED
      BY <1>1, <1>3, <1>16, <2>1, <3>2, <3>3, BehindKept
  <2> QED
    BY <2>2, <2>3
<1>20. Sh!FirstPart'
  <2>1. parts'[0] = 1 => \E i \in 1 .. BufferSize - 1 : buffer'[i] = Sh!NUL
    <3> SUFFICES ASSUME slots[0] = 1 PROVE \E i \in 1 .. BufferSize - 1 : buffer'[i] = Sh!NUL
      BY <1>1
    <3>1. slots[0] # Sh!Unset
      BY <1>4, <1>11
    <3>2. PICK i \in 1 .. BufferSize - 1 : buffer[i] = Sh!NUL
      BY <1>13, <3>1
    <3>3. i \in Sh!Offsets
      BY <1>4
    <3> QED
      BY <1>16, <3>2, <3>3
  <2>2. parts'[0] \in {0, 1, Sh!Unset}
    BY <1>1, <1>12
  <2> QED
    BY <2>1, <2>2 DEF Sh!FirstPart
<1>21. Sh!WordFound'
  <2> SUFFICES ASSUME Sh!Count(buffer) > 0, ~Sh!TwoDelimiters(Sh!Text(buffer, 0))
               PROVE  word = Sh!FirstWord(Sh!Text(buffer, 0))
    BY <1>2 DEF Sh!WordFound
  <2>1. Sh!Starts(buffer) # {}
    BY <1>1, CountIs
  <2>2. slots[0] = Sh!First(buffer) /\ slots[0] # Sh!Unset
    BY <1>4, <1>6, <1>9, <1>11, <2>1
  <2>3. word = Sh!Text(split, Sh!First(buffer))
    BY <2>2 DEF word
  <2> QED
    BY <1>1, <1>3, <2>1, <2>3, WordIs DEF split
<1>22. Sh!WildOnlyWithoutWords'
  <2> SUFFICES ASSUME status' = "wild"
               PROVE  Sh!Count(buffer) = 0 \/ (Sh!Count(buffer) = 1 /\ word = <<Run>>)
    BY <1>2 DEF Sh!WildOnlyWithoutWords
  <2>1. Sh!Unset \in Sh!Follows(slots, word)
    BY <1>1
  <2>2. slots[0] = Sh!Unset \/ (word = <<Run>> /\ slots[1] = Sh!Unset)
    BY <2>1 DEF Sh!Follows
  <2>3. CASE slots[0] = Sh!Unset
    <3>1. Sh!Starts(buffer) = {}
      BY <1>4, <1>6, <1>9, <1>11, <2>3
    <3> QED
      BY <1>1, <3>1, CountIs
  <2>4. CASE word = <<Run>> /\ slots[1] = Sh!Unset
    <3>1. Sh!Count(buffer) \in {0, 1}
      BY <1>1, <1>6, <2>4, CountIs
    <3> QED
      BY <2>4, <3>1
  <2> QED
    BY <2>2, <2>3, <2>4
<1>23. status' \in {"reading", "program", "wild", "smashed"}
       /\ erasing' \in {"never", "before", "last"} /\ entered' \in {"zeros", "junk"}
       /\ parts' \in [0 .. MaxParts - 1 -> 0 .. BufferSize]
  <2>1. status' \in {"reading", "program", "wild"}
    BY <1>1
  <2> QED
    BY <1>1, <1>3, <1>6, <2>1
<1>24. Sh!SIInv'
  BY <1>14, <1>15, <1>16, <1>17, <1>18, <1>19, <1>20, <1>21, <1>22, <1>23, ShellMade
<1> QED
  BY <1>1, <1>24

\* What the command is that runs.
LEMMA CommandIs ==
  ASSUME Sh!SIInv, Sh!Enter
  PROVE  LET rest == SubSeq(ran'.text, Len(line) + 1, Len(ran'.text)) IN
             /\ SubSeq(ran'.text, 1, Len(line)) = line
             /\ \/ rest = <<>>
                \/ erasing # "never" /\ Len(rest) = 1
                \/ entered = "junk" /\ \A i \in DOMAIN rest : rest[i] = Sh!Junk
<1> DEFINE n == input_size
<1> DEFINE E == Sh!End(buffer, 0)
<1> DEFINE text == Sh!Text(buffer, 0)
<1>1. status = "reading" /\ Sh!Ended(buffer) /\ ran'.text = text
  BY DEF Sh!Enter, Sh!Read
<1>2. /\ buffer \in Buffers /\ line \in Seq(Marks) /\ n = Len(line) /\ n \in Nat /\ n <= BufferSize
      /\ \A i \in 1 .. n : buffer[i - 1] = line[i]
  BY <1>1, ShellFacts
<1>3. BufferSize \in Nat /\ BufferSize >= 2 /\ Sh!Offsets = 0 .. BufferSize - 1
  BY OffsetsAre
<1>4. \E i \in 0 .. BufferSize - 1 : buffer[i] = Sh!NUL
  BY <1>1, <1>3 DEF Sh!Ended
<1>5. /\ E \in 0 .. BufferSize - 1 /\ E \in Nat /\ buffer[E] = Sh!NUL
      /\ \A k \in 0 .. E - 1 : buffer[k] # Sh!NUL
  BY <1>4, EndFound
<1>6. /\ text \in Seq(Sh!Content) /\ Len(text) = E /\ \A k \in 1 .. E : text[k] = buffer[k - 1]
  <2>1. /\ text \in Seq(Sh!Content) /\ Len(text) = E - 0
        /\ \A k \in 1 .. E - 0 : text[k] = buffer[0 + k - 1]
    BY <1>2, <1>4, TextIs
  <2>2. E - 0 = E /\ \A k \in 1 .. E : 0 + k - 1 = k - 1
    BY <1>5
  <2> QED
    BY <2>1, <2>2
<1> HIDE DEF n, E, text
\* The line has no NUL.
<1>7. n <= E
  <2> SUFFICES ASSUME E < n PROVE FALSE
    BY <1>2, <1>5
  <2>1. E + 1 \in 1 .. n /\ (E + 1) - 1 = E
    BY <1>2, <1>5
  <2>2. buffer[E] = line[E + 1] /\ line[E + 1] \in Marks
    BY <1>2, <2>1, ElementOfSeq
  <2> QED
    BY <1>5, <2>2, ShellSizes
<1>8. n < BufferSize
  BY <1>2, <1>3, <1>5, <1>7
<1>9. n \in input_size .. BufferSize - 1
  BY <1>2, <1>3, <1>8 DEF n
<1>10. Behind(buffer, erasing, entered, BufferSize, n)
  BY <1>1, <1>9, StraysAre DEF Sh!SIInv, n
<1>11. Sh!Junk # Sh!NUL /\ entered \in {"zeros", "junk"}
  BY <1>1, ShellSizes, ShellFacts
<1>12. buffer[n] = Sh!NUL => E = n
  BY <1>2, <1>5, <1>7
<1>13. \/ E = n
       \/ E = n + 1 /\ erasing # "never"
       \/ entered = "junk" /\ \A k \in n .. E - 1 : buffer[k] = Sh!Junk
  <2>1. CASE buffer[n] \notin {Sh!NUL, Sh!Junk}
    <3>1. erasing # "never" /\ buffer[n + 1] = Sh!NUL
      BY <1>10, <2>1 DEF Behind
    <3>2. E <= n + 1
      BY <1>2, <1>5, <3>1
    <3>3. E \in {n, n + 1}
      BY <1>2, <1>5, <1>7, <3>2
    <3> QED
      BY <3>1, <3>3
  <2>2. CASE buffer[n] = Sh!Junk
    <3>1. entered = "junk"
      BY <1>10, <1>11, <2>2 DEF Behind
    <3>2. ASSUME NEW k \in n .. E - 1 PROVE buffer[k] = Sh!Junk
      <4>1. k \in n .. BufferSize - 1 /\ k \in 0 .. E - 1
        BY <1>2, <1>3, <1>5
      <4> QED
        BY <1>5, <1>10, <2>2, <4>1 DEF Behind
    <3> QED
      BY <3>1, <3>2
  <2> QED
    BY <1>12, <2>1, <2>2
<1>14. /\ SubSeq(text, 1, n) \in Seq(Sh!Content) /\ Len(SubSeq(text, 1, n)) = n
       /\ \A i \in 1 .. n : SubSeq(text, 1, n)[i] = text[i]
  <2>1. \A i \in 1 .. n : text[i] \in Sh!Content /\ 1 + i - 1 = i
    <3> SUFFICES ASSUME NEW i \in 1 .. n PROVE i \in 1 .. Len(text)
      BY <1>2, <1>6, ElementOfSeq
    <3> QED
      BY <1>2, <1>5, <1>6, <1>7
  <2>2. n - 1 + 1 = n /\ (1 <= n \/ n = 0) /\ n \in Int /\ 1 \in Int
    BY <1>2
  <2> QED
    BY <2>1, <2>2, SubSeqProperties
<1>15. line \in Seq(Sh!Content)
  <2>1. Marks \subseteq Sh!Content
    BY ShellSizes
  <2> QED
    BY <1>2, <2>1, SeqMonotonic
<1>16. \A i \in 1 .. n : text[i] = line[i]
  <2> SUFFICES ASSUME NEW i \in 1 .. n PROVE i \in 1 .. E
    BY <1>2, <1>6
  <2> QED
    BY <1>2, <1>5, <1>7
<1>17. SubSeq(text, 1, n) = line
  BY <1>2, <1>14, <1>15, <1>16, SeqEqual
<1> DEFINE rest == SubSeq(text, n + 1, E)
<1>18. /\ Len(rest) = E - n /\ rest \in Seq(Sh!Content)
       /\ \A i \in 1 .. E - n : rest[i] = buffer[n + i - 1]
  <2>1. \A i \in n + 1 .. E : i \in 1 .. Len(text) /\ i \in 1 .. E
    BY <1>2, <1>5, <1>6
  <2>2. \A i \in n + 1 .. E : text[i] \in Sh!Content
    BY <1>6, <2>1, ElementOfSeq
  <2>3. /\ rest \in Seq(Sh!Content)
        /\ Len(rest) = IF n + 1 <= E THEN E - (n + 1) + 1 ELSE 0
        /\ \A i \in 1 .. E - (n + 1) + 1 : rest[i] = text[(n + 1) + i - 1]
    BY <1>2, <1>5, <2>2, SubSeqProperties
  <2>4. (IF n + 1 <= E THEN E - (n + 1) + 1 ELSE 0) = E - n /\ E - (n + 1) + 1 = E - n
    BY <1>2, <1>5, <1>7
  <2>5. ASSUME NEW i \in 1 .. E - n PROVE text[(n + 1) + i - 1] = buffer[n + i - 1]
    <3>1. /\ (n + 1) + i - 1 \in 1 .. E
          /\ (n + 1) + i - 1 = n + i /\ (n + i) - 1 = n + i - 1
      BY <1>2, <1>5, <1>7
    <3>2. PICK j : j = n + i
      OBVIOUS
    <3>3. j \in 1 .. E /\ text[j] = buffer[j - 1]
      BY <1>6, <3>1, <3>2
    <3>4. text[(n + 1) + i - 1] = text[j]
      BY <3>1, <3>2, Zenon
    <3>5. buffer[j - 1] = buffer[n + i - 1]
      BY <3>1, <3>2, Zenon
    <3> QED
      BY <3>3, <3>4, <3>5, Zenon
  <2> QED
    BY <2>3, <2>4, <2>5
<1> HIDE DEF rest
<1>19. E = n => rest = <<>>
  BY <1>2, <1>18, EmptySeq
<1>20. E = n + 1 => Len(rest) = 1
  BY <1>2, <1>18
<1>21. ASSUME \A k \in n .. E - 1 : buffer[k] = Sh!Junk, NEW i \in DOMAIN rest
       PROVE  rest[i] = Sh!Junk
  <2>1. i \in 1 .. E - n
    BY <1>18, <1>21, LenProperties
  <2>2. n + i - 1 \in n .. E - 1
    BY <1>2, <1>5, <2>1
  <2> QED
    BY <1>18, <1>21, <2>1, <2>2
<1>22. rest = SubSeq(ran'.text, Len(line) + 1, Len(ran'.text))
  BY <1>1, <1>2, <1>6 DEF rest
<1>23. SubSeq(ran'.text, 1, Len(line)) = line
  BY <1>1, <1>2, <1>17
<1> QED
  BY <1>13, <1>19, <1>20, <1>21, <1>22, <1>23

LEMMA ExitKept ==
  ASSUME Sh!SIInv, Sh!Exit
  PROVE  Sh!SIInv' /\ line' = <<>> /\ status = "program" /\ status' = "reading"
<1>1. Sh!Entry /\ ran' = ran /\ status = "program"
  BY DEF Sh!Exit
<1>2. Sh!SIInv'
  BY <1>1, EntryKept
<1>3. line' = <<>> /\ status' = "reading"
  BY <1>1 DEF Sh!Entry
<1> QED
  BY <1>1, <1>2, <1>3

LEMMA ShellKept == ASSUME Sh!SIInv, UNCHANGED line_vars PROVE Sh!SIInv'
<1>1. /\ buffer' = buffer /\ input_size' = input_size /\ parts' = parts /\ status' = status
      /\ line' = line /\ erasing' = erasing /\ entered' = entered /\ ran' = ran
  BY DEF line_vars
<1>2. Sh!TypeOK' /\ Sh!LineTyped' /\ Sh!BufferHoldsLine'
  BY <1>1 DEF Sh!SIInv, Sh!TypeOK, Sh!LineTyped, Sh!BufferHoldsLine
<1>3. Sh!StraysApart' /\ Sh!FirstPart'
  BY <1>1, StraysAre DEF Sh!SIInv, Sh!FirstPart
<1>4. Sh!WordFound' /\ Sh!WildOnlyWithoutWords'
  BY <1>1 DEF Sh!SIInv, Sh!WordFound, Sh!WildOnlyWithoutWords
<1> QED
  BY <1>2, <1>3, <1>4 DEF Sh!SIInv

LEMMA ShellBegins == ASSUME Sh!Init PROVE Sh!SIInv
<1>1. /\ entered \in {"zeros", "junk"} /\ input_size = 0 /\ line = <<>> /\ erasing = "never"
      /\ buffer \in [Sh!Offsets -> IF entered = "zeros" THEN {Sh!NUL} ELSE {Sh!NUL, Sh!Junk}]
      /\ parts = [k \in 0 .. MaxParts - 1 |-> Sh!Unset] /\ status = "reading"
      /\ ran = Sh!NoCommand
  BY DEF Sh!Init
<1>2. buffer \in Buffers
  <2>1. Sh!NUL \in Sh!Content /\ Sh!Junk \in Sh!Content
    BY ShellSizes
  <2> QED
    BY <1>1, <2>1 DEF Buffers
<1>3. BufferSize \in Nat /\ BufferSize >= 2 /\ Sh!Offsets = 0 .. BufferSize - 1 /\ Sh!Unset = BufferSize
  BY OffsetsAre DEF Sh!Unset
<1>4. parts \in [0 .. MaxParts - 1 -> 0 .. BufferSize]
  BY <1>1, <1>3
<1>5. line \in Seq(Marks) /\ Len(line) = 0 /\ input_size = Len(line) /\ input_size <= BufferSize
  BY <1>1, <1>3
<1>6. Sh!BufferHoldsLine
  BY <1>1 DEF Sh!BufferHoldsLine
<1>7. Sh!StraysApart
  <2>1. \A i \in 0 .. BufferSize - 1 :
            buffer[i] \in {Sh!NUL, Sh!Junk} /\ (entered = "zeros" => buffer[i] = Sh!NUL)
    BY <1>1, <1>3
  <2> QED
    BY <1>1, <1>3, <2>1, NothingBehind, StraysAre
<1>8. Sh!FirstPart
  <2>1. MaxParts \in Nat /\ MaxParts >= 2
    BY PartsSize
  <2>2. parts[0] = Sh!Unset /\ Sh!Unset # 1
    BY <1>1, <1>3, <2>1
  <2> QED
    BY <2>2 DEF Sh!FirstPart
<1>9. ran.count = 0 /\ ran.text = <<>> /\ ran.word = <<>>
  BY <1>1 DEF Sh!NoCommand
<1>10. Sh!WordFound
  BY <1>9 DEF Sh!WordFound
<1>11. Sh!WildOnlyWithoutWords
  BY <1>1 DEF Sh!WildOnlyWithoutWords
<1>12. Sh!TypeOK
  <2>1. ran.text \in Seq(Sh!Content) /\ ran.word \in Seq(Sh!Content)
    BY <1>9, EmptySeq
  <2> QED
    BY <1>1, <1>2, <1>4, <1>5, <2>1 DEF Sh!TypeOK, Buffers
<1>13. Sh!LineTyped
  BY <1>5 DEF Sh!LineTyped, Marks
<1> QED
  BY <1>6, <1>7, <1>8, <1>10, <1>11, <1>12, <1>13 DEF Sh!SIInv

(***************************************************************************)
(* The picture of the line.                                                *)
(***************************************************************************)
Drawn == Marks \cup {">"}

\* The string stands right before the place in the memory.
Stands(memory, place, string) ==
  Len(string) <= place
  /\ \A i \in 1 .. Len(string) : memory[place - Len(string) + i - 1] = string[i]

\* A text of n characters, in the given place of the cursor, reaches above the screen.
Away(row, col, n) == row = Height - 1 /\ n - col > Width * (Height - 1)

\* One character more.
LEMMA PutExtends ==
  ASSUME T!TIInv, terminal_column < Width, NEW c \in Shades, T!Put(c),
         NEW text \in Seq(Drawn), c \in Drawn,
         Stands(terminal_buffer, Cursor, text) \/ Away(terminal_row, terminal_column, Len(text))
  PROVE  /\ terminal_column' < Width
         /\ \/ Stands(terminal_buffer', Cursor', Append(text, c))
            \/ Away(terminal_row', terminal_column', Len(Append(text, c)))
<1> DEFINE b1 == [terminal_buffer EXCEPT ![T!Cell(terminal_column, terminal_row)] = c]
<1> DEFINE k == Len(text)
<1> DEFINE more == Append(text, c)
<1> DEFINE at == Cursor
<1>1. /\ T!Cell(terminal_column, terminal_row) \in T!Cells
      /\ \/ terminal_column + 1 = Width /\ T!Advance(b1)
         \/ /\ terminal_column + 1 # Width /\ terminal_column' = terminal_column + 1
            /\ terminal_buffer' = b1 /\ terminal_row' = terminal_row
  BY PutSteps
<1>2. /\ terminal_row \in 0 .. Height - 1 /\ terminal_row \in Nat /\ terminal_column \in Nat
      /\ terminal_buffer \in Memory
  BY TerminalFacts
<1>3. /\ Width \in Nat /\ Width > 0 /\ Height \in Nat /\ Height >= 2 /\ MaxCell \in Nat
      /\ Width * (Height - 1) \in Nat /\ T!Scrolled * Width = Width * (Height - 1)
      /\ Width * (Height - 1) + Width <= MaxCell
  BY ScreenSizes
<1>4. /\ k \in Nat /\ more \in Seq(Drawn) /\ Len(more) = k + 1 /\ more[k + 1] = c
      /\ \A i \in 1 .. k : more[i] = text[i]
  BY AppendProperties, LenProperties
<1>5. /\ at = terminal_row * Width + terminal_column /\ at = T!Cell(terminal_column, terminal_row)
      /\ terminal_row * Width \in Nat /\ at \in Nat /\ at \in T!Cells
  <2>1. terminal_row * Width \in Nat
    BY <1>2, <1>3, SMT
  <2>2. at = terminal_row * Width + terminal_column /\ at = T!Cell(terminal_column, terminal_row)
    BY Zenon DEF Cursor, T!Cell
  <2> QED
    BY <1>1, <1>2, <2>1, <2>2
<1>6. b1 \in Memory /\ b1[at] = c /\ \A x \in T!Cells : x # at => b1[x] = terminal_buffer[x]
  BY <1>1, <1>2, <1>5 DEF Memory
<1> HIDE DEF b1, k, more, at
\* Where the text stood it stands, with the character behind it.
<1>7. ASSUME Stands(terminal_buffer, Cursor, text)
      PROVE  /\ k <= at
             /\ \A i \in 1 .. k + 1 : b1[at - k + i - 1] = more[i] /\ at - k + i - 1 \in 0 .. at
  <2>1. k <= at /\ \A i \in 1 .. k : terminal_buffer[at - k + i - 1] = text[i]
    BY <1>7 DEF Stands, k, at
  <2> SUFFICES ASSUME NEW i \in 1 .. k + 1
               PROVE  b1[at - k + i - 1] = more[i] /\ at - k + i - 1 \in 0 .. at
    BY <2>1
  <2>2. at - k + i - 1 \in 0 .. at /\ at - k + i - 1 \in T!Cells
    BY <1>3, <1>4, <1>5, <2>1 DEF T!Cells
  <2>3. CASE i = k + 1
    <3>1. at - k + i - 1 = at
      BY <1>4, <1>5, <2>3
    <3> QED
      BY <1>4, <1>6, <2>2, <2>3, <3>1
  <2>4. CASE i # k + 1
    <3>1. i \in 1 .. k /\ at - k + i - 1 # at
      BY <1>4, <1>5, <2>4
    <3> QED
      BY <1>4, <1>6, <2>1, <2>2, <3>1
  <2> QED
    BY <2>3, <2>4
<1>10. ASSUME Stands(terminal_buffer, Cursor, text) PROVE Stands(b1, at + 1, more)
  <2>1. k + 1 <= at + 1
    BY <1>4, <1>5, <1>7, <1>10
  <2>2. ASSUME NEW i \in 1 .. k + 1 PROVE b1[at + 1 - (k + 1) + i - 1] = more[i]
    <3>1. at + 1 - (k + 1) + i - 1 = at - k + i - 1
      BY <1>4, <1>5
    <3>2. b1[at - k + i - 1] = more[i]
      BY <1>7, <1>10
    <3> QED
      BY <3>1, <3>2
  <2>3. Len(more) = k + 1
    BY <1>4
  <2>4. /\ Len(more) <= at + 1
        /\ \A i \in 1 .. Len(more) : b1[at + 1 - Len(more) + i - 1] = more[i]
    BY <2>1, <2>2, <2>3, Zenon
  <2> QED
    BY <1>4, <1>5, <2>4 DEF Stands
<1>8. CASE /\ terminal_column + 1 # Width /\ terminal_column' = terminal_column + 1
           /\ terminal_buffer' = b1 /\ terminal_row' = terminal_row
  <2>1. terminal_column' < Width
    BY <1>2, <1>3, <1>8
  <2>2. Cursor' = at + 1
    <3>1. Cursor' = terminal_row * Width + (terminal_column + 1)
      BY <1>8, Zenon DEF Cursor
    <3> QED
      BY <1>2, <1>5, <3>1
  <2>3. ASSUME Stands(terminal_buffer, Cursor, text) PROVE Stands(terminal_buffer', Cursor', more)
    BY <1>8, <1>10, <2>2, <2>3
  <2>4. ASSUME Away(terminal_row, terminal_column, k)
        PROVE  Away(terminal_row', terminal_column', Len(more))
    BY <1>2, <1>3, <1>4, <1>8, <2>4 DEF Away
  <2> QED
    BY <2>1, <2>3, <2>4 DEF k, more
<1>9. CASE terminal_column + 1 = Width /\ T!Advance(b1)
  <2>1. terminal_column' = 0 /\ Advances(b1, terminal_row, terminal_buffer', terminal_row')
    BY <1>6, <1>9, AdvanceKept
  <2>2. terminal_column' < Width
    BY <1>3, <2>1
  <2>3. CASE terminal_row + 1 # Height
    <3>1. terminal_row' = terminal_row + 1 /\ terminal_buffer' = b1
      BY <2>1, <2>3 DEF Advances
    <3>2. Cursor' = at + 1
      <4>1. Cursor' = (terminal_row + 1) * Width + 0
        BY <2>1, <3>1, Zenon DEF Cursor
      <4>2. (terminal_row + 1) * Width = terminal_row * Width + Width
        BY <1>2, <1>3, SMT
      <4> QED
        BY <1>2, <1>3, <1>5, <1>9, <4>1, <4>2
    <3>3. Stands(terminal_buffer, Cursor, text)
      <4>1. terminal_row # Height - 1
        BY <1>2, <1>3, <2>3
      <4> QED
        BY <4>1 DEF Away
    <3>5. Stands(terminal_buffer', Cursor', more)
      BY <1>10, <3>1, <3>2, <3>3
    <3> QED
      BY <2>2, <3>5 DEF more
  <2>4. CASE terminal_row + 1 = Height
    <3>1. terminal_row' = terminal_row /\ terminal_buffer' = T!Scroll(b1)
      BY <2>1, <2>4 DEF Advances
    <3>2. terminal_row * Width = Width * (Height - 1) /\ terminal_row = Height - 1
      <4>1. terminal_row = Height - 1
        BY <1>2, <1>3, <2>4
      <4> QED
        BY <1>3, <4>1, SMT
    <3>3. Cursor' = Width * (Height - 1) /\ at = Width * (Height - 1) + Width - 1
      <4>1. Cursor' = terminal_row * Width + 0
        BY <2>1, <3>1, Zenon DEF Cursor
      <4>2. terminal_column = Width - 1
        BY <1>2, <1>3, <1>9
      <4> QED
        BY <1>3, <1>5, <3>2, <4>1, <4>2
    <3>4. CASE Stands(terminal_buffer, Cursor, text) /\ k + 1 <= Width * (Height - 1)
      <4>1. ASSUME NEW i \in 1 .. k + 1
            PROVE  terminal_buffer'[Width * (Height - 1) - (k + 1) + i - 1] = more[i]
        <5> DEFINE x == Width * (Height - 1) - (k + 1) + i - 1
        <5>1. x \in Nat /\ x < Width * (Height - 1) /\ x + Width = at - k + i - 1 /\ x \in T!Cells
          BY <1>3, <1>4, <3>3, <3>4 DEF T!Cells
        <5> HIDE DEF x
        <5>2. terminal_buffer'[x] = b1[x + Width]
          BY <1>3, <3>1, <5>1 DEF T!Scroll
        <5>3. b1[x + Width] = more[i]
          BY <1>7, <3>4, <5>1
        <5> QED
          BY <5>2, <5>3 DEF x
      <4>2. Stands(terminal_buffer', Cursor', more)
        BY <1>4, <3>3, <3>4, <4>1 DEF Stands
      <4> QED
        BY <2>2, <4>2 DEF more
    <3>5. CASE k + 1 > Width * (Height - 1)
      <4>1. Away(terminal_row', terminal_column', Len(more))
        BY <1>3, <1>4, <2>1, <3>1, <3>2, <3>5 DEF Away
      <4> QED
        BY <2>2, <4>1 DEF more
    <3>6. CASE Away(terminal_row, terminal_column, Len(text))
      <4>1. k - terminal_column > Width * (Height - 1)
        BY <3>6 DEF Away, k
      <4>2. k + 1 > Width * (Height - 1)
        BY <1>2, <1>3, <1>4, <4>1
      <4> QED
        BY <3>5, <4>2
    <3>7. k + 1 <= Width * (Height - 1) \/ k + 1 > Width * (Height - 1)
      BY <1>3, <1>4
    <3> QED
      BY <3>4, <3>5, <3>6, <3>7
  <2> QED
    BY <2>3, <2>4
<1> QED
  BY <1>1, <1>8, <1>9

\* What the loop writes.
Texts == (Letters \ {TabKey}) \cup {" ", ">", Break, Wipe}

LEMMA PromptParts ==
  /\ Prompt \in Seq(Drawn) /\ Len(Prompt) = 2 /\ Prompt[1] = ">" /\ Prompt[2] = " "
  /\ SubSeq(Prompt, 1, 0) = <<>> /\ SubSeq(Prompt, 1, 1) = <<">">> /\ SubSeq(Prompt, 1, 2) = Prompt
<1>1. ">" \in Drawn /\ " " \in Drawn
  BY DEF Drawn, Marks, Sh!Space
<1>2. Prompt \in Seq(Drawn) /\ Len(Prompt) = 2 /\ Prompt[1] = ">" /\ Prompt[2] = " "
  <2>1. ASSUME NEW S, NEW x \in S, NEW y \in S
        PROVE  <<x, y>> \in Seq(S) /\ Len(<<x, y>>) = 2 /\ <<x, y>>[1] = x /\ <<x, y>>[2] = y
    OBVIOUS
  <2> QED
    BY <1>1, <2>1 DEF Prompt
<1>3. \A i \in 1 .. 2 : Prompt[i] \in Drawn /\ 1 + i - 1 = i
  <2>1. \A i \in 1 .. 2 : (i = 1 \/ i = 2) /\ 1 + i - 1 = i
    OBVIOUS
  <2>2. Prompt[1] \in Drawn /\ Prompt[2] \in Drawn
    BY <1>1, <1>2, Zenon
  <2> QED
    BY <2>1, <2>2, Zenon
<1>4. SubSeq(Prompt, 1, 0) = <<>>
  <2>1. 1 \in Int /\ 0 \in Int /\ 0 < 1
    OBVIOUS
  <2> QED
    BY <2>1, SubSeqEmpty, Zenon
<1>5. SubSeq(Prompt, 1, 2) = Prompt
  BY <1>2, SubSeqFull
<1>6. SubSeq(Prompt, 1, 1) = <<">">>
  <2>1. \A i \in 1 .. 1 : Prompt[i] \in Drawn /\ i = 1
    BY <1>3
  <2>2. /\ SubSeq(Prompt, 1, 1) \in Seq(Drawn) /\ Len(SubSeq(Prompt, 1, 1)) = 1
        /\ \A i \in 1 .. 1 : SubSeq(Prompt, 1, 1)[i] = Prompt[1 + i - 1]
    BY <2>1, SubSeqProperties
  <2>3. <<">">> \in Seq(Drawn) /\ Len(<<">">>) = 1 /\ <<">">>[1] = ">"
    <3>1. ASSUME NEW S, NEW x \in S PROVE <<x>> \in Seq(S) /\ Len(<<x>>) = 1 /\ <<x>>[1] = x
      OBVIOUS
    <3> QED
      BY <1>1, <3>1
  <2>5. SubSeq(Prompt, 1, 1)[1] = ">"
    <3>1. 1 \in 1 .. 1 /\ 1 + 1 - 1 = 1
      OBVIOUS
    <3> QED
      BY <1>2, <2>2, <3>1
  <2>4. \A i \in 1 .. 1 : SubSeq(Prompt, 1, 1)[i] = <<">">>[i]
    BY <2>1, <2>3, <2>5
  <2> QED
    BY <2>2, <2>3, <2>4, SeqEqual
<1> QED
  BY <1>2, <1>4, <1>5, <1>6

PictureOf(o, l) == (IF Len(o) > 2 THEN <<>> ELSE SubSeq(Prompt, 1, 2 - Len(o))) \o l

LEMMA PictureIs ==
  ASSUME NEW o \in Seq(Texts), NEW l \in Seq(Marks)
  PROVE  /\ o = <<>> => PictureOf(o, l) = Prompt \o l
         /\ l = <<>> /\ Len(o) >= 2 => PictureOf(o, l) = <<>>
         /\ l = <<>> /\ Len(o) = 1 => PictureOf(o, l) = <<">">>
<1>1. Len(o) \in Nat
  BY LenProperties
<1>2. ASSUME o = <<>> PROVE PictureOf(o, l) = Prompt \o l
  <2>1. Len(o) = 0 /\ ~(Len(o) > 2) /\ 2 - Len(o) = 2
    BY <1>2
  <2> QED
    BY <2>1, PromptParts DEF PictureOf
<1>3. ASSUME l = <<>>, Len(o) >= 2 PROVE PictureOf(o, l) = <<>>
  <2>1. <<>> \o <<>> = <<>>
    OBVIOUS
  <2>2. CASE Len(o) > 2
    BY <1>3, <2>1, <2>2 DEF PictureOf
  <2>3. CASE Len(o) = 2
    <3>1. ~(Len(o) > 2) /\ 2 - Len(o) = 0
      BY <2>3
    <3> QED
      BY <1>3, <2>1, <3>1, PromptParts DEF PictureOf
  <2> QED
    <3>1. \A n \in Nat : n >= 2 => n > 2 \/ n = 2
      OBVIOUS
    <3> QED
      BY <1>1, <1>3, <2>2, <2>3, <3>1, Zenon
<1>4. ASSUME l = <<>>, Len(o) = 1 PROVE PictureOf(o, l) = <<">">>
  <2>1. ~(Len(o) > 2) /\ 2 - Len(o) = 1
    BY <1>4
  <2>2. <<">">> \o <<>> = <<">">>
    OBVIOUS
  <2> QED
    BY <1>4, <2>1, <2>2, PromptParts DEF PictureOf
<1> QED
  BY <1>2, <1>3, <1>4

LEMMA MarksDrawn ==
  ASSUME NEW l \in Seq(Marks)
  PROVE  l \in Seq(Drawn) /\ Prompt \o l \in Seq(Drawn) /\ Len(Prompt \o l) = 2 + Len(l)
<1>1. l \in Seq(Drawn)
  <2>1. Marks \subseteq Drawn
    BY DEF Drawn
  <2> QED
    BY <2>1, SeqMonotonic
<1>2. Prompt \o l \in Seq(Drawn) /\ Len(Prompt \o l) = 2 + Len(l)
  <2>1. Prompt \in Seq(Drawn) /\ Len(Prompt) = 2
    BY PromptParts
  <2>2. Prompt \o l \in Seq(Drawn) /\ Len(Prompt \o l) = Len(Prompt) + Len(l)
    BY <1>1, <2>1, ConcatProperties
  <2> QED
    BY <2>1, <2>2
<1> QED
  BY <1>1, <1>2

\* Before a step, and after one.
LEMMA PictureBefore ==
  ASSUME PictureHolds, status = "reading", odd = "no", out # <<>> => Head(out) # Break,
         NEW picture \in Seq(Drawn), picture = PictureOf(out, line)
  PROVE  /\ terminal_column < Width
         /\ Stands(terminal_buffer, Cursor, picture)
            \/ Away(terminal_row, terminal_column, Len(picture))
<1>1. Picture = picture /\ DOMAIN picture = 1 .. Len(picture)
  BY LenProperties DEF Picture, PictureOf
<1>2. /\ terminal_column < Width
      /\ Shows(Len(picture), picture) \/ ScrolledAway(Len(picture))
  BY <1>1 DEF PictureHolds
<1>3. Shows(Len(picture), picture) => Stands(terminal_buffer, Cursor, picture)
  BY <1>1, Zenon DEF Shows, Stands
<1>4. ScrolledAway(Len(picture)) => Away(terminal_row, terminal_column, Len(picture))
  BY Zenon DEF ScrolledAway, Away
<1> QED
  BY <1>2, <1>3, <1>4

LEMMA PictureAfter ==
  ASSUME status' = "reading" /\ odd' = "no" /\ (out' # <<>> => Head(out') # Break) =>
           /\ terminal_column' < Width
           /\ \E picture \in Seq(Drawn) :
                 /\ picture = PictureOf(out', line')
                 /\ Stands(terminal_buffer', Cursor', picture)
                    \/ Away(terminal_row', terminal_column', Len(picture))
  PROVE  PictureHolds'
<1> SUFFICES ASSUME status' = "reading", odd' = "no", out' # <<>> => Head(out') # Break
             PROVE  /\ terminal_column' < Width
                    /\ Shows(Len(Picture), Picture)' \/ ScrolledAway(Len(Picture))'
  BY DEF PictureHolds
<1>1. PICK picture \in Seq(Drawn) :
                 /\ picture = PictureOf(out', line')
                 /\ Stands(terminal_buffer', Cursor', picture)
                    \/ Away(terminal_row', terminal_column', Len(picture))
  OBVIOUS
<1>2. Picture' = picture /\ DOMAIN picture = 1 .. Len(picture)
  BY <1>1, LenProperties DEF Picture, PictureOf
<1>3. Stands(terminal_buffer', Cursor', picture) => Shows(Len(Picture), Picture)'
  BY <1>2 DEF Shows, Stands
<1>4. Away(terminal_row', terminal_column', Len(picture)) => ScrolledAway(Len(Picture))'
  BY <1>2 DEF ScrolledAway, Away
<1> QED
  BY <1>1, <1>3, <1>4

\* One character less.
LEMMA RubShortens ==
  ASSUME T!TIInv, T!delete_last_char, terminal_column # 0, terminal_column < Width,
         NEW text \in Seq(Drawn), NEW less \in Seq(Drawn), NEW n \in Nat,
         n + 1 = Len(text), n = Len(less), \A i \in 1 .. n : less[i] = text[i],
         Stands(terminal_buffer, Cursor, text) \/ Away(terminal_row, terminal_column, Len(text))
  PROVE  /\ terminal_column' < Width
         /\ \/ Stands(terminal_buffer', Cursor', less)
            \/ Away(terminal_row', terminal_column', Len(less))
<1> DEFINE at == Cursor
<1>1. /\ terminal_column > 0 /\ terminal_column' = terminal_column - 1 /\ terminal_row' = terminal_row
      /\ terminal_buffer' = [terminal_buffer EXCEPT ![T!Cell(terminal_column', terminal_row')] = " "]
  BY Zenon DEF T!delete_last_char
<1>2. /\ terminal_row \in 0 .. Height - 1 /\ terminal_row \in Nat /\ terminal_column \in Nat
      /\ terminal_buffer \in Memory
  BY TerminalFacts
<1>3. Width \in Nat /\ Width > 0 /\ Height \in Nat /\ Height >= 2 /\ Width * (Height - 1) \in Nat
  BY ScreenSizes
<1>4. /\ at = terminal_row * Width + terminal_column /\ terminal_row * Width \in Nat
      /\ at \in Nat /\ Cursor' = at - 1 /\ T!Cell(terminal_column', terminal_row') = at - 1
  <2>1. terminal_row * Width \in Nat
    BY <1>2, <1>3, SMT
  <2>2. at = terminal_row * Width + terminal_column
    BY Zenon DEF Cursor
  <2>3. Cursor' = terminal_row * Width + (terminal_column - 1)
    BY <1>1, Zenon DEF Cursor
  <2>4. T!Cell(terminal_column', terminal_row') = terminal_row * Width + (terminal_column - 1)
    BY <1>1, Zenon DEF T!Cell
  <2> QED
    BY <1>2, <2>1, <2>2, <2>3, <2>4
<1> HIDE DEF at
<1>5. \A x \in T!Cells : x # at - 1 => terminal_buffer'[x] = terminal_buffer[x]
  BY <1>1, <1>2, <1>4 DEF Memory
<1>6. terminal_column' < Width
  <2>1. terminal_column - 1 < Width
    BY <1>2, <1>3
  <2> QED
    BY <1>1, <2>1, Zenon
<1>7. ASSUME Stands(terminal_buffer, Cursor, text) PROVE Stands(terminal_buffer', Cursor', less)
  <2>1. Len(text) <= at /\ \A i \in 1 .. Len(text) : terminal_buffer[at - Len(text) + i - 1] = text[i]
    BY <1>7, Zenon DEF Stands, at
  <2>2. n + 1 <= at /\ \A i \in 1 .. n + 1 : terminal_buffer[at - (n + 1) + i - 1] = text[i]
    BY <2>1, Zenon
  <2>3. ASSUME NEW i \in 1 .. n PROVE terminal_buffer'[at - 1 - n + i - 1] = less[i]
    <3>1. i \in 1 .. n + 1 /\ at - 1 - n + i - 1 = at - (n + 1) + i - 1
          /\ at - 1 - n + i - 1 # at - 1 /\ at - 1 - n + i - 1 \in Nat /\ at - 1 - n + i - 1 < at - 1
      <4>1. at \in Nat /\ n + 1 <= at
        BY <1>4, <2>2
      <4> QED
        BY <4>1
    <3>2. at - 1 - n + i - 1 \in T!Cells
      <4>1. at - 1 < Width * Height
        <5>1. terminal_column - 1 \in T!Columns
          <6>1. terminal_column > 0 /\ terminal_column \in Nat
            BY <1>1, <1>2
          <6>2. terminal_column - 1 \in 0 .. Width - 1
            BY <1>3, <6>1
          <6> QED
            BY <6>2 DEF T!Columns
        <5>2. T!Cell(terminal_column - 1, terminal_row) = at - 1
          BY <1>1, <1>4
        <5> QED
          BY <1>2, <5>1, <5>2, CellAt
      <4>2. \A v \in Nat, u \in Int, w \in Nat, x \in Nat : v < u /\ u < w /\ w <= x => v \in 0 .. x
        OBVIOUS
      <4>3. Width * Height \in Nat /\ MaxCell \in Nat /\ Width * Height <= MaxCell
        BY ScreenSizes
      <4>4. at - 1 \in Int
        BY <1>4
      <4>5. at - 1 - n + i - 1 \in 0 .. MaxCell
        BY <3>1, <4>1, <4>2, <4>3, <4>4, Zenon
      <4> QED
        BY <4>5 DEF T!Cells
    <3> QED
      BY <1>5, <2>2, <3>1, <3>2
  <2>4. n <= at - 1
    BY <1>4, <2>2
  <2>5. Len(less) <= Cursor' /\ \A i \in 1 .. Len(less) : terminal_buffer'[Cursor' - Len(less) + i - 1] = less[i]
    BY <1>4, <2>3, <2>4, Zenon
  <2> QED
    BY <1>4, <2>5 DEF Stands
<1>8. ASSUME Away(terminal_row, terminal_column, Len(text))
      PROVE  Away(terminal_row', terminal_column', Len(less))
  <2>1. terminal_row = Height - 1 /\ n + 1 - terminal_column > Width * (Height - 1)
    <3>1. terminal_row = Height - 1 /\ Len(text) - terminal_column > Width * (Height - 1)
      BY <1>8, Zenon DEF Away
    <3>2. n + 1 = Len(text)
      OBVIOUS
    <3> QED
      BY <1>2, <1>3, <3>1, <3>2
  <2>2. n - (terminal_column - 1) > Width * (Height - 1)
    BY <1>2, <1>3, <2>1
  <2> QED
    BY <1>1, <2>1, <2>2 DEF Away
<1> QED
  BY <1>6, <1>7, <1>8

(***************************************************************************)
(* The steps of the whole keep the invariant.                              *)
(***************************************************************************)
LEMMA ConsoleFacts ==
  ASSUME CIInv
  PROVE  /\ Sh!SIInv /\ T!TIInv /\ odd \in {"yes", "no"} /\ OutHolds /\ PictureHolds
         /\ out \in Seq(Texts)
         /\ status = "reading" /\ out # <<>> =>
                /\ line = <<>> /\ out[Len(out)] = " "
                /\ Len(out) >= 2 => out[Len(out) - 1] = ">"
                /\ Len(out) >= 3 => out[Len(out) - 2] = Break
         /\ line \in Seq(Marks) /\ Len(line) \in Nat
         /\ status \in {"reading", "program", "wild", "smashed"}
<1>1. Sh!SIInv /\ T!TIInv /\ odd \in {"yes", "no"} /\ OutHolds /\ PictureHolds
  BY DEF CIInv
<1>2. out \in Seq(Texts)
  BY <1>1 DEF OutHolds, Texts
<1>3. status = "reading" /\ out # <<>> =>
                /\ line = <<>> /\ out[Len(out)] = " "
                /\ Len(out) >= 2 => out[Len(out) - 1] = ">"
                /\ Len(out) >= 3 => out[Len(out) - 2] = Break
  BY <1>1, Zenon DEF OutHolds
<1>4. line \in Seq(Marks) /\ Len(line) \in Nat
      /\ status \in {"reading", "program", "wild", "smashed"}
  BY <1>1, ShellFacts
<1> QED
  BY <1>1, <1>2, <1>3, <1>4

LEMMA Apart ==
  /\ Break # " " /\ Break # ">" /\ Wipe # " " /\ Wipe # ">" /\ Break # Wipe
  /\ TabKey # Break /\ TabKey # Wipe /\ TabKey # ">" /\ TabKey # " " /\ TabKey \in Letters
  /\ Break \notin Letters /\ Wipe \notin Letters
<1>1. Break # " " /\ Break # ">" /\ Wipe # " " /\ Wipe # ">" /\ Break # Wipe
  BY DEF Break, Wipe
<1>2. TabKey \in Letters /\ TabKey # ">" /\ Break \notin Letters /\ Wipe \notin Letters
  BY ConsoleAssumption
<1>3. " " \notin Letters
  BY ConsoleAssumption DEF Sh!ShellAssumption, Sh!Space
<1> QED
  BY <1>1, <1>2, <1>3

LEMMA WriteKept == ASSUME CIInv, Write PROVE CIInv'
<1> DEFINE c == Head(out)
<1> DEFINE n == Len(out)
<1>1. /\ out # <<>> /\ Shown(c) /\ out' = Tail(out) /\ odd' = odd /\ UNCHANGED line_vars
  BY DEF Write
<1>2. /\ Sh!SIInv /\ T!TIInv /\ odd \in {"yes", "no"} /\ OutHolds /\ PictureHolds
      /\ out \in Seq(Texts)
      /\ status = "reading" /\ out # <<>> =>
             /\ line = <<>> /\ out[n] = " "
             /\ n >= 2 => out[n - 1] = ">"
             /\ n >= 3 => out[n - 2] = Break
      /\ line \in Seq(Marks)
  BY ConsoleFacts
<1>3. status' = status /\ line' = line
  BY <1>1 DEF line_vars
<1>4. /\ c \in Texts /\ c = out[1] /\ out' \in Seq(Texts) /\ Len(out') = n - 1
      /\ \A i \in 1 .. Len(out') : out'[i] = out[i + 1]
  <2>1. c \in Texts /\ out' \in Seq(Texts) /\ Len(out') = n - 1
        /\ \A i \in 1 .. Len(out') : out'[i] = out[i + 1]
    BY <1>1, <1>2, HeadTailProperties
  <2>2. c = out[1]
    <3>1. ASSUME NEW S, NEW s \in Seq(S), s # <<>> PROVE Head(s) = s[1]
      OBVIOUS
    <3>2. out \in Seq(Texts) /\ out # <<>>
      BY <1>1, <1>2
    <3> QED
      BY <3>1, <3>2, Zenon DEF c
  <2> QED
    BY <2>1, <2>2
<1>5. n \in Nat /\ n # 0 /\ Len(out') \in Nat /\ (out' # <<>> => Len(out') # 0)
  <2>1. n \in Nat /\ Len(out') \in Nat
    BY <1>2, <1>4, LenProperties
  <2>2. n # 0
    BY <1>1, <1>2, EmptySeq
  <2>3. out' # <<>> => Len(out') # 0
    BY <1>4, EmptySeq
  <2> QED
    BY <2>1, <2>2, <2>3
<1>6. PICK m \in Nat : m = Len(out')
  BY <1>5
<1> HIDE DEF c, n
<1>7. n = m + 1 /\ (out' # <<>> => m >= 1)
  BY <1>4, <1>5, <1>6
<1>8. c \in Letters \cup {" ", ">", Break, Wipe}
  BY <1>4 DEF Texts
<1>9. Sh!SIInv' /\ T!TIInv'
  BY <1>1, <1>2, <1>8, ShellKept, ShownKept
<1>10. OutHolds'
  <2>1. status' = "reading" /\ out' # <<>> =>
           /\ line' = <<>>
           /\ out'[Len(out')] = " "
           /\ Len(out') >= 2 => out'[Len(out') - 1] = ">"
           /\ Len(out') >= 3 => out'[Len(out') - 2] = Break
    <3> SUFFICES ASSUME status = "reading", out' # <<>>
                 PROVE  /\ line = <<>>
                        /\ out'[m] = " "
                        /\ m >= 2 => out'[m - 1] = ">"
                        /\ m >= 3 => out'[m - 2] = Break
      BY <1>3, <1>6
    <3>1. m >= 1 /\ n = m + 1
      BY <1>7
    <3>2. \A i \in 1 .. m : out'[i] = out[i + 1]
      BY <1>4, <1>6
    <3>3. out'[m] = out[n]
      BY <1>6, <3>1, <3>2
    <3>4. m >= 2 => n >= 2 /\ out'[m - 1] = out[n - 1]
      <4>1. m >= 2 => m - 1 \in 1 .. m /\ m - 1 + 1 = n - 1 /\ n >= 2
        BY <1>6, <3>1
      <4> QED
        BY <3>2, <4>1
    <3>5. m >= 3 => n >= 3 /\ out'[m - 2] = out[n - 2]
      <4>1. m >= 3 => m - 2 \in 1 .. m /\ m - 2 + 1 = n - 2 /\ n >= 3
        BY <1>6, <3>1
      <4> QED
        BY <3>2, <4>1
    <3> QED
      BY <1>1, <1>2, <3>3, <3>4, <3>5
  <2> QED
    BY <1>4, <2>1 DEF OutHolds, Texts
\* The prompt's two characters are the last, and a line break comes before them.
<1>11. ASSUME status = "reading"
       PROVE  /\ line = <<>> /\ (n = 1 => c = " ") /\ (n = 2 => c = ">")
  <2>1. line = <<>> /\ out[n] = " " /\ (n >= 2 => out[n - 1] = ">")
    BY <1>1, <1>2, <1>11
  <2>2. n = 1 => c = " "
    BY <1>4, <2>1
  <2>3. n = 2 => c = ">"
    <3>1. n = 2 => n >= 2 /\ n - 1 = 1
      OBVIOUS
    <3> QED
      BY <1>4, <2>1, <3>1
  <2> QED
    BY <2>1, <2>2, <2>3
<1>12. PictureHolds'
  <2> SUFFICES ASSUME status = "reading", odd = "no"
               PROVE  /\ terminal_column' < Width
                      /\ \E picture \in Seq(Drawn) :
                            /\ picture = PictureOf(out', line')
                            /\ Stands(terminal_buffer', Cursor', picture)
                               \/ Away(terminal_row', terminal_column', Len(picture))
    BY <1>1, <1>3, PictureAfter
  <2> DEFINE now == PictureOf(out, line)
  <2> DEFINE then == PictureOf(out', line')
  <2>1. line = <<>> /\ line' = <<>> /\ (n = 1 => c = " ") /\ (n = 2 => c = ">")
    BY <1>3, <1>11
  <2>2. /\ n >= 2 => now = <<>>
        /\ n = 1 => now = <<">">>
        /\ m >= 2 => then = <<>>
        /\ m = 1 => then = <<">">>
        /\ m = 0 => then = Prompt \o <<>>
    <3>1. out' = <<>> <=> m = 0
      BY <1>4, <1>6, EmptySeq
    <3> QED
      BY <1>2, <1>3, <1>4, <1>6, <2>1, <3>1, PictureIs DEF n
  <2> HIDE DEF now, then
  <2>3. <<>> \in Seq(Drawn) /\ Len(<<>>) = 0 /\ Cursor' \in Nat /\ Stands(terminal_buffer', Cursor', <<>>)
    <3>1. terminal_row' \in Nat /\ terminal_column' \in Nat
      <4>1. terminal_row' \in 0 .. Height - 1 /\ terminal_column' \in Nat
        BY <1>9 DEF T!TIInv, T!TypeOK
      <4> QED
        BY <4>1, ScreenSizes
    <3>2. terminal_row' * Width \in Nat
      <4>1. \A a, b \in Nat : a * b \in Nat
        OBVIOUS
      <4>2. Width \in Nat
        BY ScreenSizes
      <4> QED
        BY <3>1, <4>1, <4>2, Zenon
    <3>3. Cursor' \in Nat
      BY <3>1, <3>2 DEF Cursor
    <3>4. <<>> \in Seq(Drawn) /\ Len(<<>>) = 0
      BY EmptySeq
    <3>5. Stands(terminal_buffer', Cursor', <<>>)
      BY <3>3, <3>4 DEF Stands
    <3> QED
      BY <3>3, <3>4, <3>5
  <2>4. CASE c \in {Break, Wipe}
    <3>1. m >= 2
      <4>1. n # 1 /\ n # 2
        BY <2>1, <2>4, Apart, Zenon
      <4>2. n # 0
        BY <1>5, Zenon
      <4> QED
        BY <1>6, <1>7, <4>1, <4>2, SMT
    <3>2. terminal_column' = 0
      <4>1. CASE c = Break
        <5>1. T!Newline
          BY <1>1, <4>1, Apart DEF Shown
        <5> QED
          BY <5>1 DEF T!Newline, T!Advance
      <4>2. CASE c = Wipe
        <5>1. T!terminal_initialize
          BY <1>1, <4>2, Apart DEF Shown
        <5> QED
          BY <5>1 DEF T!terminal_initialize
      <4> QED
        BY <2>4, <4>1, <4>2
    <3>3. terminal_column' < Width
      BY <3>2, ScreenSizes
    <3> QED
      BY <2>2, <2>3, <3>1, <3>3 DEF then
  <2>5. CASE c \notin {Break, Wipe}
    <3>1. c \in Shades /\ c \in Drawn /\ T!Put(c)
      <4>1. c \in Shades /\ c # TabKey
        BY <1>4, <2>5, Apart DEF Texts, Shades
      <4>2. T!Put(c)
        BY <1>1, <2>5, <4>1 DEF Shown
      <4>3. c \in Drawn
        BY <4>1 DEF Shades, Drawn, Marks, Sh!Space
      <4> QED
        BY <4>1, <4>2, <4>3
    <3>2. Head(out) # Break
      BY <2>5 DEF c
    <3>3. ASSUME NEW picture \in Seq(Drawn), picture = now
          PROVE  /\ terminal_column' < Width
                 /\ \/ Stands(terminal_buffer', Cursor', Append(picture, c))
                    \/ Away(terminal_row', terminal_column', Len(Append(picture, c)))
      <4>1. /\ terminal_column < Width
            /\ Stands(terminal_buffer, Cursor, picture)
               \/ Away(terminal_row, terminal_column, Len(picture))
        BY <1>2, <3>2, <3>3, PictureBefore DEF now
      <4> QED
        BY <1>2, <3>1, <4>1, PutExtends
    <3>4. <<">">> \in Seq(Drawn) /\ Append(<<>>, ">") = <<">">> /\ Append(<<">">>, " ") = <<">", " ">>
          /\ <<">", " ">> \in Seq(Drawn)
      <4>1. ASSUME NEW S, NEW x \in S, NEW y \in S
            PROVE  <<x>> \in Seq(S) /\ <<x, y>> \in Seq(S)
                   /\ Append(<<>>, x) = <<x>> /\ Append(<<x>>, y) = <<x, y>>
        <5>1. <<x>> \in Seq(S) /\ <<x, y>> \in Seq(S)
          OBVIOUS
        <5>2. Append(<<>>, x) = <<x>>
          OBVIOUS
        <5>3. Append(<<x>>, y) = <<x, y>>
          <6>1. /\ Len(<<x>>) = 1 /\ <<x>>[1] = x
                /\ Len(<<x, y>>) = 2 /\ <<x, y>>[1] = x /\ <<x, y>>[2] = y
            OBVIOUS
          <6> DEFINE one == <<x>>
          <6> DEFINE two == <<x, y>>
          <6> HIDE DEF one, two
          <6>2. one \in Seq(S) /\ Len(one) = 1 /\ one[1] = x
                /\ two \in Seq(S) /\ Len(two) = 2 /\ two[1] = x /\ two[2] = y
            BY <5>1, <6>1 DEF one, two
          <6>3. /\ Append(one, y) \in Seq(S) /\ Len(Append(one, y)) = 2
                /\ Append(one, y)[1] = x /\ Append(one, y)[2] = y
            <7>1. /\ Append(one, y) \in Seq(S) /\ Len(Append(one, y)) = Len(one) + 1
                  /\ \A i \in 1 .. Len(one) : Append(one, y)[i] = one[i]
                  /\ Append(one, y)[Len(one) + 1] = y
              <8>1. ASSUME NEW q \in Seq(S)
                    PROVE  /\ Append(q, y) \in Seq(S) /\ Len(Append(q, y)) = Len(q) + 1
                           /\ \A i \in 1 .. Len(q) : Append(q, y)[i] = q[i]
                           /\ Append(q, y)[Len(q) + 1] = y
                BY AppendProperties
              <8> QED
                BY <6>2, <8>1, Zenon
            <7>2. 1 \in 1 .. 1 /\ 1 + 1 = 2
              OBVIOUS
            <7> QED
              BY <6>2, <7>1, <7>2
          <6>4. \A i \in 1 .. 2 : Append(one, y)[i] = two[i]
            <7>1. \A i \in 1 .. 2 : i = 1 \/ i = 2
              OBVIOUS
            <7> QED
              BY <6>2, <6>3, <7>1, Zenon
          <6>5. Append(one, y) = two
            BY <6>2, <6>3, <6>4, SeqEqual
          <6> QED
            BY <6>5 DEF one, two
        <5> QED
          BY <5>1, <5>2, <5>3
      <4>2. ">" \in Drawn /\ " " \in Drawn
        BY DEF Drawn, Marks, Sh!Space
      <4> QED
        BY <4>1, <4>2
    <3>5. CASE m >= 2
      <4>1. n >= 2
        BY <1>6, <1>7, <3>5
      <4>2. terminal_column' < Width
        BY <2>2, <2>3, <3>3, <4>1
      <4> QED
        BY <2>2, <2>3, <3>5, <4>2 DEF then
    <3>6. CASE m = 1
      <4>1. n = 2 /\ n >= 2
        BY <1>7, <3>6
      <4>2. /\ terminal_column' < Width
            /\ \/ Stands(terminal_buffer', Cursor', Append(<<>>, c))
               \/ Away(terminal_row', terminal_column', Len(Append(<<>>, c)))
        BY <2>2, <2>3, <3>3, <4>1
      <4>3. Append(<<>>, c) = <<">">>
        BY <2>1, <3>4, <4>1
      <4> QED
        BY <2>2, <3>4, <3>6, <4>2, <4>3 DEF then
    <3>7. CASE m = 0
      <4>1. n = 1
        BY <1>7, <3>7
      <4>2. /\ terminal_column' < Width
            /\ \/ Stands(terminal_buffer', Cursor', Append(<<">">>, c))
               \/ Away(terminal_row', terminal_column', Len(Append(<<">">>, c)))
        BY <2>2, <3>3, <3>4, <4>1
      <4>3. Append(<<">">>, c) = Prompt
        BY <2>1, <3>4, <4>1 DEF Prompt
      <4>4. Prompt \o <<>> = Prompt /\ Prompt \in Seq(Drawn)
        BY <3>4, ConcatEmptySeq DEF Prompt
      <4> QED
        BY <2>2, <3>7, <4>2, <4>3, <4>4 DEF then
    <3> QED
      BY <1>6, <3>5, <3>6, <3>7
  <2> QED
    BY <2>4, <2>5
<1> QED
  BY <1>1, <1>2, <1>9, <1>10, <1>12 DEF CIInv

\* With nothing left to write, the picture is the prompt and the line.
LEMMA PictureWaiting ==
  ASSUME CIInv, out = <<>>, status = "reading", odd = "no"
  PROVE  /\ Prompt \o line \in Seq(Drawn) /\ Len(Prompt \o line) = 2 + Len(line)
         /\ terminal_column < Width
         /\ Stands(terminal_buffer, Cursor, Prompt \o line)
            \/ Away(terminal_row, terminal_column, Len(Prompt \o line))
<1>1. line \in Seq(Marks) /\ out \in Seq(Texts) /\ PictureHolds
  BY ConsoleFacts
<1>2. Prompt \o line \in Seq(Drawn) /\ Len(Prompt \o line) = 2 + Len(line)
  BY <1>1, MarksDrawn
<1>3. Prompt \o line = PictureOf(out, line)
  BY <1>1, PictureIs
<1>4. /\ terminal_column < Width
      /\ Stands(terminal_buffer, Cursor, Prompt \o line)
         \/ Away(terminal_row, terminal_column, Len(Prompt \o line))
  BY <1>1, <1>2, <1>3, PictureBefore
<1> QED
  BY <1>2, <1>4

LEMMA PictureComes ==
  ASSUME out' = <<>>, line' \in Seq(Marks),
         status' = "reading" /\ odd' = "no" =>
             /\ terminal_column' < Width
             /\ Stands(terminal_buffer', Cursor', Prompt \o line')
                \/ Away(terminal_row', terminal_column', Len(Prompt \o line'))
  PROVE  PictureHolds'
<1>1. <<>> \in Seq(Texts)
  BY EmptySeq
<1>2. PictureOf(<<>>, line') = Prompt \o line'
  BY <1>1, PictureIs
<1>3. Prompt \o line' \in Seq(Drawn)
  BY MarksDrawn
<1> QED
  BY <1>2, <1>3, PictureAfter

LEMMA OutEmpty == ASSUME out' = <<>> PROVE OutHolds'
<1>1. out' \in Seq((Letters \ {TabKey}) \cup {" ", ">", Break, Wipe})
  BY EmptySeq
<1> QED
  BY <1>1 DEF OutHolds

LEMMA LongerLine ==
  ASSUME NEW l \in Seq(Marks), NEW c \in Marks
  PROVE  Append(Prompt \o l, c) = Prompt \o Append(l, c) /\ Append(l, c) \in Seq(Marks)
<1>1. Prompt \in Seq(Drawn) /\ l \in Seq(Drawn) /\ Prompt \o l \in Seq(Drawn) /\ c \in Drawn
  BY PromptParts, MarksDrawn DEF Drawn
<1>2. <<c>> \in Seq(Drawn)
  <2>1. ASSUME NEW S, NEW x \in S PROVE <<x>> \in Seq(S)
    OBVIOUS
  <2> QED
    BY <1>1, <2>1
<1>3. Append(Prompt \o l, c) = (Prompt \o l) \o <<c>>
  BY <1>1, AppendIsConcat
<1>4. Append(l, c) = l \o <<c>>
  BY <1>1, AppendIsConcat
<1>5. (Prompt \o l) \o <<c>> = Prompt \o (l \o <<c>>)
  BY <1>1, <1>2, ConcatAssociative
<1>6. Append(l, c) \in Seq(Marks)
  BY AppendProperties
<1> QED
  BY <1>3, <1>4, <1>5, <1>6

LEMMA ShorterLine ==
  ASSUME NEW l \in Seq(Marks), Len(l) > 0
  PROVE  LET less == SubSeq(l, 1, Len(l) - 1)
         IN  /\ less \in Seq(Marks)
             /\ Len(Prompt \o less) = Len(l) + 1
             /\ \A i \in 1 .. Len(l) + 1 : (Prompt \o less)[i] = (Prompt \o l)[i]
<1> DEFINE n == Len(l)
<1> DEFINE less == SubSeq(l, 1, n - 1)
<1>1. n \in Nat /\ n > 0
  BY LenProperties
<1>2. \A i \in 1 .. n - 1 : l[i] \in Marks
  <2> SUFFICES ASSUME NEW i \in 1 .. n - 1 PROVE l[i] \in Marks
    OBVIOUS
  <2>1. i \in 1 .. n
    BY <1>1
  <2> QED
    BY <2>1, ElementOfSeq
<1>3. n - 1 \in Nat /\ n - 1 \in Int /\ 1 \in Int
  BY <1>1
<1>4. /\ less \in Seq(Marks) /\ Len(less) = n - 1
      /\ \A i \in 1 .. n - 1 : less[i] = l[i]
  <2>1. /\ less \in Seq(Marks)
        /\ Len(less) = (IF 1 <= n - 1 THEN n - 1 - 1 + 1 ELSE 0)
        /\ \A i \in 1 .. n - 1 - 1 + 1 : less[i] = l[1 + i - 1]
    BY <1>2, <1>3, SubSeqProperties
  <2> HIDE DEF less, n
  <2>2. Len(less) = n - 1
    BY <1>1, <2>1
  <2>3. n - 1 - 1 + 1 = n - 1
    BY <1>1
  <2>4. \A i \in 1 .. n - 1 : 1 + i - 1 = i
    BY <1>1
  <2> QED
    BY <2>1, <2>2, <2>3, <2>4
<1>5. l \in Seq(Drawn) /\ less \in Seq(Drawn) /\ Prompt \in Seq(Drawn) /\ Len(Prompt) = 2
  BY <1>4, MarksDrawn, PromptParts
<1> HIDE DEF less
<1>6. ASSUME NEW q \in Seq(Drawn)
      PROVE  /\ Len(Prompt \o q) = 2 + Len(q)
             /\ \A i \in 1 .. 2 + Len(q) : (Prompt \o q)[i] =
                    IF i <= 2 THEN Prompt[i] ELSE q[i - 2]
  <2>1. /\ Len(Prompt \o q) = Len(Prompt) + Len(q)
        /\ \A i \in 1 .. Len(Prompt) + Len(q) : (Prompt \o q)[i] =
               IF i <= Len(Prompt) THEN Prompt[i] ELSE q[i - Len(Prompt)]
    BY <1>5, ConcatProperties
  <2> QED
    BY <1>5, <2>1, Zenon
<1>7. /\ Len(Prompt \o less) = 2 + Len(less)
      /\ \A i \in 1 .. 2 + Len(less) : (Prompt \o less)[i] =
             IF i <= 2 THEN Prompt[i] ELSE less[i - 2]
      /\ \A i \in 1 .. 2 + n : (Prompt \o l)[i] = IF i <= 2 THEN Prompt[i] ELSE l[i - 2]
  BY <1>5, <1>6, Zenon DEF n
<1> HIDE DEF n
<1>8. Len(Prompt \o less) = n + 1
  BY <1>1, <1>4, <1>7
<1>9. ASSUME NEW i \in 1 .. n + 1
      PROVE  (Prompt \o less)[i] = (Prompt \o l)[i]
  <2>1. i \in 1 .. 2 + Len(less) /\ i \in 1 .. 2 + n /\ (i > 2 => i - 2 \in 1 .. n - 1)
    BY <1>1, <1>4
  <2>2. CASE i <= 2
    BY <1>7, <2>1, <2>2
  <2>3. CASE ~(i <= 2)
    <3>1. i > 2
      BY <2>3
    <3>2. less[i - 2] = l[i - 2]
      BY <1>4, <2>1, <3>1
    <3> QED
      BY <1>7, <2>1, <2>3, <3>2
  <2> QED
    BY <2>2, <2>3
<1> QED
  BY <1>4, <1>8, <1>9 DEF n, less

LEMMA KeyKept == ASSUME CIInv, NEW c \in Letters \cup {" "}, Type(c) PROVE CIInv'
<1>1. /\ out = <<>> /\ Sh!Type(c) /\ Shown(c) /\ out' = out
      /\ c = TabKey => odd' = "yes"
      /\ c # TabKey => odd' = odd
  BY DEF Type
<1>2. Sh!SIInv /\ T!TIInv /\ odd \in {"yes", "no"} /\ line \in Seq(Marks)
  BY ConsoleFacts
<1>3. c \in Marks /\ c \in Letters \cup {" ", ">", Break, Wipe} /\ c # Break /\ c # Wipe
  BY Apart DEF Marks, Sh!Space
<1>4. Sh!SIInv' /\ line' = Append(line, c) /\ status = "reading"
  BY <1>1, <1>2, <1>3, TypeKept
<1>5. T!TIInv'
  BY <1>1, <1>2, <1>3, ShownKept
<1>6. odd' \in {"yes", "no"}
  BY <1>1, <1>2
<1>7. OutHolds'
  BY <1>1, OutEmpty
<1>8. /\ line' \in Seq(Marks) /\ Prompt \o line' = Append(Prompt \o line, c)
  BY <1>2, <1>3, <1>4, LongerLine
<1>9. ASSUME odd' = "no"
      PROVE  /\ terminal_column' < Width
             /\ Stands(terminal_buffer', Cursor', Prompt \o line')
                \/ Away(terminal_row', terminal_column', Len(Prompt \o line'))
  <2>1. c # TabKey /\ odd = "no"
    BY <1>1, <1>9
  <2>2. T!Put(c)
    BY <1>1, <1>3, <2>1 DEF Shown
  <2>3. c \in Shades /\ c \in Drawn
    BY <1>3, <2>1 DEF Shades, Drawn
  <2>4. /\ Prompt \o line \in Seq(Drawn)
        /\ terminal_column < Width
        /\ Stands(terminal_buffer, Cursor, Prompt \o line)
           \/ Away(terminal_row, terminal_column, Len(Prompt \o line))
    BY <1>1, <1>4, <2>1, PictureWaiting
  <2>5. /\ terminal_column' < Width
        /\ \/ Stands(terminal_buffer', Cursor', Append(Prompt \o line, c))
           \/ Away(terminal_row', terminal_column', Len(Append(Prompt \o line, c)))
    BY <1>2, <2>2, <2>3, <2>4, PutExtends
  <2> QED
    BY <1>8, <2>5
<1>10. PictureHolds'
  BY <1>1, <1>8, <1>9, PictureComes
<1> QED
  BY <1>4, <1>5, <1>6, <1>7, <1>10 DEF CIInv

LEMMA RubKept == ASSUME CIInv, Backspace PROVE CIInv'
<1>1. /\ out = <<>> /\ Sh!Backspace /\ T!delete_last_char /\ out' = out
      /\ terminal_column = 0 => odd' = "yes"
      /\ terminal_column # 0 => odd' = odd
  BY DEF Backspace, Rubbed
<1>2. Sh!SIInv /\ T!TIInv /\ odd \in {"yes", "no"} /\ line \in Seq(Marks) /\ Len(line) \in Nat
  BY ConsoleFacts
<1>3. /\ Sh!SIInv' /\ line' = SubSeq(line, 1, Len(line) - 1)
      /\ status = "reading" /\ Len(line) > 0
  BY <1>1, <1>2, BackspaceKept
<1>4. T!TIInv'
  BY <1>1, <1>2, DeleteKept
<1>5. odd' \in {"yes", "no"}
  BY <1>1, <1>2
<1>6. OutHolds'
  BY <1>1, OutEmpty
<1>7. /\ line' \in Seq(Marks) /\ Len(Prompt \o line') = Len(line) + 1
      /\ \A i \in 1 .. Len(line) + 1 : (Prompt \o line')[i] = (Prompt \o line)[i]
  BY <1>2, <1>3, ShorterLine
<1>8. ASSUME odd' = "no"
      PROVE  /\ terminal_column' < Width
             /\ Stands(terminal_buffer', Cursor', Prompt \o line')
                \/ Away(terminal_row', terminal_column', Len(Prompt \o line'))
  <2>1. terminal_column # 0 /\ odd = "no"
    BY <1>1, <1>8
  <2>2. /\ Prompt \o line \in Seq(Drawn) /\ Len(Prompt \o line) = 2 + Len(line)
        /\ terminal_column < Width
        /\ Stands(terminal_buffer, Cursor, Prompt \o line)
           \/ Away(terminal_row, terminal_column, Len(Prompt \o line))
    BY <1>1, <1>3, <2>1, PictureWaiting
  <2>3. Prompt \o line' \in Seq(Drawn)
    BY <1>7, MarksDrawn
  <2>4. PICK n \in Nat : n = Len(line) + 1
    BY <1>2
  <2>5. n + 1 = Len(Prompt \o line) /\ n = Len(Prompt \o line')
    BY <1>2, <1>7, <2>2, <2>4
  <2>6. \A i \in 1 .. n : (Prompt \o line')[i] = (Prompt \o line)[i]
    BY <1>7, <2>4
  <2> DEFINE text == Prompt \o line
  <2> DEFINE less == Prompt \o line'
  <2>7. /\ text \in Seq(Drawn) /\ less \in Seq(Drawn)
        /\ n + 1 = Len(text) /\ n = Len(less) /\ \A i \in 1 .. n : less[i] = text[i]
        /\ Stands(terminal_buffer, Cursor, text) \/ Away(terminal_row, terminal_column, Len(text))
    BY <2>2, <2>3, <2>5, <2>6
  <2> HIDE DEF text, less
  <2>8. /\ terminal_column' < Width
        /\ \/ Stands(terminal_buffer', Cursor', less)
           \/ Away(terminal_row', terminal_column', Len(less))
    BY <1>1, <1>2, <2>1, <2>2, <2>7, RubShortens
  <2> QED
    BY <2>8 DEF less
<1>9. PictureHolds'
  BY <1>1, <1>7, <1>8, PictureComes
<1> QED
  BY <1>3, <1>4, <1>5, <1>6, <1>9 DEF CIInv

\* What ends with the next prompt ends with a line break and the two characters.
LEMMA EndsWithPrompt ==
  ASSUME NEW a \in Seq(Texts)
  PROVE  LET o == a \o NextPrompt
         IN  /\ o \in Seq(Texts) /\ Len(o) = Len(a) + 3 /\ o # <<>>
             /\ o[Len(o)] = " " /\ o[Len(o) - 1] = ">" /\ o[Len(o) - 2] = Break
             /\ \A i \in 1 .. Len(a) : o[i] = a[i]
             /\ o[Len(a) + 1] = Break
<1>1. Break \in Texts /\ ">" \in Texts /\ " " \in Texts
  BY DEF Texts
<1>2. NextPrompt \in Seq(Texts) /\ Len(NextPrompt) = 3
      /\ NextPrompt[1] = Break /\ NextPrompt[2] = ">" /\ NextPrompt[3] = " "
  <2>1. ASSUME NEW S, NEW x \in S, NEW y \in S, NEW z \in S
        PROVE  /\ <<x>> \in Seq(S) /\ Len(<<x>>) = 1 /\ <<x>>[1] = x
               /\ <<y, z>> \in Seq(S) /\ Len(<<y, z>>) = 2 /\ <<y, z>>[1] = y /\ <<y, z>>[2] = z
    OBVIOUS
  <2> DEFINE one == <<Break>>
  <2>2. /\ one \in Seq(Texts) /\ Len(one) = 1 /\ one[1] = Break
        /\ Prompt \in Seq(Texts) /\ Len(Prompt) = 2 /\ Prompt[1] = ">" /\ Prompt[2] = " "
    BY <1>1, <2>1 DEF Prompt
  <2> HIDE DEF one
  <2>3. ASSUME NEW p \in Seq(Texts), NEW q \in Seq(Texts), Len(p) = 1, Len(q) = 2
        PROVE  /\ p \o q \in Seq(Texts) /\ Len(p \o q) = 3
               /\ (p \o q)[1] = p[1] /\ (p \o q)[2] = q[1] /\ (p \o q)[3] = q[2]
    <3>1. /\ p \o q \in Seq(Texts) /\ Len(p \o q) = Len(p) + Len(q)
          /\ \A i \in 1 .. Len(p) + Len(q) : (p \o q)[i] =
                 IF i <= Len(p) THEN p[i] ELSE q[i - Len(p)]
      BY ConcatProperties
    <3>2. 1 + 2 = 3
      OBVIOUS
    <3> DEFINE r == p \o q
    <3>3. r \in Seq(Texts) /\ Len(r) = 3
          /\ \A i \in 1 .. 3 : r[i] = IF i <= 1 THEN p[i] ELSE q[i - 1]
      BY <2>3, <3>1, <3>2, Zenon
    <3> HIDE DEF r
    <3>4. r[1] = p[1] /\ r[2] = q[1] /\ r[3] = q[2]
      <4>1. /\ 1 \in 1 .. 3 /\ 2 \in 1 .. 3 /\ 3 \in 1 .. 3
            /\ 1 <= 1 /\ ~(2 <= 1) /\ ~(3 <= 1) /\ 2 - 1 = 1 /\ 3 - 1 = 2
        OBVIOUS
      <4> QED
        BY <3>3, <4>1
    <3> QED
      BY <3>3, <3>4 DEF r
  <2>4. NextPrompt = one \o Prompt
    BY DEF NextPrompt, one
  <2>5. /\ one \o Prompt \in Seq(Texts) /\ Len(one \o Prompt) = 3
        /\ (one \o Prompt)[1] = one[1] /\ (one \o Prompt)[2] = Prompt[1]
        /\ (one \o Prompt)[3] = Prompt[2]
    BY <2>2, <2>3, Zenon
  <2> QED
    BY <2>2, <2>4, <2>5, Zenon
<1> DEFINE o == a \o NextPrompt
<1>3. PICK k \in Nat : k = Len(a)
  BY LenProperties
<1>4. /\ o \in Seq(Texts) /\ Len(o) = k + 3
      /\ \A i \in 1 .. k + 3 : o[i] = IF i <= k THEN a[i] ELSE NextPrompt[i - k]
  <2>1. /\ o \in Seq(Texts) /\ Len(o) = Len(a) + Len(NextPrompt)
        /\ \A i \in 1 .. Len(a) + Len(NextPrompt) : o[i] =
               IF i <= Len(a) THEN a[i] ELSE NextPrompt[i - Len(a)]
    BY <1>2, ConcatProperties
  <2> HIDE DEF o
  <2> QED
    BY <1>2, <1>3, <2>1, Zenon
<1> HIDE DEF o
<1>5. o[k + 1] = Break /\ o[k + 2] = ">" /\ o[k + 3] = " " /\ \A i \in 1 .. k : o[i] = a[i]
  <2>1. /\ k + 1 \in 1 .. k + 3 /\ k + 2 \in 1 .. k + 3 /\ k + 3 \in 1 .. k + 3
        /\ k + 1 - k = 1 /\ k + 2 - k = 2 /\ k + 3 - k = 3
        /\ ~(k + 1 <= k) /\ ~(k + 2 <= k) /\ ~(k + 3 <= k)
    OBVIOUS
  <2>2. o[k + 1] = NextPrompt[1] /\ o[k + 2] = NextPrompt[2] /\ o[k + 3] = NextPrompt[3]
    BY <1>4, <2>1
  <2>3. \A i \in 1 .. k : i \in 1 .. k + 3 /\ i <= k
    OBVIOUS
  <2> QED
    BY <1>2, <1>4, <2>2, <2>3
<1>6. o # <<>>
  <2>1. Len(o) # 0
    BY <1>4
  <2> QED
    BY <2>1, EmptySeq
<1>7. o[Len(o)] = " " /\ o[Len(o) - 1] = ">" /\ o[Len(o) - 2] = Break
  <2>1. PICK n \in Nat : n = Len(o) /\ n = k + 3
    BY <1>4
  <2>2. n - 1 = k + 2 /\ n - 2 = k + 1
    BY <2>1
  <2>3. o[n] = " " /\ o[n - 1] = ">" /\ o[n - 2] = Break
    BY <1>5, <2>1, <2>2, Zenon
  <2> QED
    BY <2>1, <2>3, Zenon
<1> QED
  BY <1>3, <1>4, <1>5, <1>6, <1>7 DEF o

\* A step that leaves a line break to be written first.
LEMMA BreakComes ==
  ASSUME out' # <<>>, Head(out') = Break
  PROVE  PictureHolds'
BY PictureAfter

LEMMA OutComes ==
  ASSUME out' \in Seq(Texts),
         status' = "reading" => /\ line' = <<>>
                                /\ out'[Len(out')] = " "
                                /\ out'[Len(out') - 1] = ">"
                                /\ out'[Len(out') - 2] = Break
  PROVE  OutHolds'
<1>1. out' \in Seq((Letters \ {TabKey}) \cup {" ", ">", Break, Wipe})
  BY DEF Texts
<1> QED
  BY <1>1, Zenon DEF OutHolds

LEMMA HeadIs == ASSUME NEW S, NEW s \in Seq(S), s # <<>> PROVE Head(s) = s[1]
OBVIOUS

LEMMA BreakAlone == <<Break>> \in Seq(Texts) /\ Len(<<Break>>) = 1 /\ <<Break>>[1] = Break
<1>1. ASSUME NEW S, NEW x \in S PROVE <<x>> \in Seq(S) /\ Len(<<x>>) = 1 /\ <<x>>[1] = x
  OBVIOUS
<1>2. Break \in Texts
  BY DEF Texts
<1> QED
  BY <1>1, <1>2

LEMMA EntersKept == ASSUME CIInv, Enter PROVE CIInv'
<1> DEFINE one == <<Break>>
<1>1. PICK text \in Outputs :
         out' = one \o (IF status' = "reading" THEN text \o NextPrompt ELSE <<>>)
  BY DEF Enter
<1>2. /\ Sh!Enter \/ Sh!EnterUnended
      /\ odd' = "no" /\ UNCHANGED screen_vars
  BY DEF Enter
<1>3. Sh!SIInv /\ T!TIInv
  BY ConsoleFacts
<1>4. Sh!SIInv' /\ T!TIInv' /\ (status' = "reading" => line' = <<>>)
  <2>1. CASE Sh!Enter
    BY <1>2, <1>3, <2>1, EnterKept, ScreenKept
  <2>2. CASE Sh!EnterUnended
    <3>1. status' = "wild"
      BY <2>2 DEF Sh!EnterUnended
    <3> QED
      BY <1>2, <1>3, <2>2, <3>1, UnendedKept, ScreenKept
  <2> QED
    BY <1>2, <2>1, <2>2
<1>5. text \in Seq(Texts)
  <2>1. text \in Seq((Letters \ {TabKey}) \cup {" ", Break, Wipe})
    BY <1>1, ConsoleAssumption
  <2>2. (Letters \ {TabKey}) \cup {" ", Break, Wipe} \subseteq Texts
    BY DEF Texts
  <2> QED
    BY <2>1, <2>2, SeqMonotonic
<1>6. one \in Seq(Texts) /\ Len(one) = 1 /\ one[1] = Break
  BY BreakAlone
<1> HIDE DEF one
<1>7. CASE status' = "reading"
  <2> DEFINE a == one \o text
  <2>1. a \in Seq(Texts) /\ a[1] = Break /\ 1 \in 1 .. Len(a)
    <3>1. /\ a \in Seq(Texts) /\ Len(a) = Len(one) + Len(text)
          /\ \A i \in 1 .. Len(one) + Len(text) : a[i] =
                 IF i <= Len(one) THEN one[i] ELSE text[i - Len(one)]
      BY <1>5, <1>6, ConcatProperties
    <3>2. Len(text) \in Nat
      BY <1>5, LenProperties
    <3> HIDE DEF a
    <3>3. 1 \in 1 .. Len(one) + Len(text) /\ 1 <= Len(one)
      BY <1>6, <3>2
    <3>4. a[1] = Break
      BY <1>6, <3>1, <3>3
    <3> QED
      BY <3>1, <3>3, <3>4
  <2>2. NextPrompt \in Seq(Texts)
    <3>1. <<>> \in Seq(Texts)
      BY EmptySeq
    <3>2. one \in Seq(Texts) /\ Prompt \in Seq(Texts)
      <4>1. ASSUME NEW S, NEW x \in S, NEW y \in S PROVE <<x, y>> \in Seq(S)
        OBVIOUS
      <4>2. ">" \in Texts /\ " " \in Texts
        BY DEF Texts
      <4> QED
        BY <1>6, <4>1, <4>2 DEF Prompt
    <3> QED
      BY <3>2, ConcatProperties DEF NextPrompt, one
  <2>3. out' = a \o NextPrompt
    <3>1. (one \o text) \o NextPrompt = one \o (text \o NextPrompt)
      BY <1>5, <1>6, <2>2, ConcatAssociative
    <3>2. out' = one \o (text \o NextPrompt)
      BY <1>1, <1>7, Zenon
    <3> QED
      BY <3>1, <3>2
  <2> HIDE DEF a
  <2>4. /\ out' \in Seq(Texts) /\ out' # <<>>
        /\ out'[Len(out')] = " " /\ out'[Len(out') - 1] = ">" /\ out'[Len(out') - 2] = Break
        /\ \A i \in 1 .. Len(a) : out'[i] = a[i]
    BY <2>1, <2>3, EndsWithPrompt
  <2>5. Head(out') = Break
    <3>1. out'[1] = Break
      BY <2>1, <2>4
    <3>2. Head(out') = out'[1]
      BY <2>4, HeadIs
    <3> QED
      BY <3>1, <3>2
  <2>6. OutHolds' /\ PictureHolds'
    BY <1>4, <2>4, <2>5, BreakComes, OutComes
  <2> QED
    BY <1>2, <1>4, <2>6 DEF CIInv
<1>8. CASE status' # "reading"
  <2>1. out' = one
    <3>1. one \o <<>> = one
      BY <1>6, ConcatEmptySeq
    <3> QED
      BY <1>1, <1>8, <3>1
  <2>2. one # <<>>
    <3>1. Len(<<>>) = 0 /\ 1 # 0
      OBVIOUS
    <3> QED
      BY <1>6, <3>1, Zenon
  <2>3. Head(one) = Break
    BY <1>6, <2>2, HeadIs
  <2>4. OutHolds' /\ PictureHolds'
    BY <1>6, <1>8, <2>1, <2>2, <2>3, BreakComes, OutComes
  <2> QED
    BY <1>2, <1>4, <2>4 DEF CIInv
<1> QED
  BY <1>7, <1>8

LEMMA ExitsKept == ASSUME CIInv, Exit PROVE CIInv'
<1>1. Sh!Exit /\ out' = NextPrompt /\ odd' = "no" /\ UNCHANGED screen_vars
  BY DEF Exit
<1>2. Sh!SIInv' /\ T!TIInv' /\ line' = <<>>
  BY <1>1, ConsoleFacts, ExitKept, ScreenKept
<1>3. <<>> \in Seq(Texts) /\ Len(<<>>) = 0
  BY EmptySeq
<1>4. out' = <<>> \o NextPrompt
  <2>1. ASSUME NEW S, NEW x \in S, NEW y \in S
        PROVE <<x>> \in Seq(S) /\ <<x, y>> \in Seq(S)
    OBVIOUS
  <2>2. ">" \in Texts /\ " " \in Texts /\ Break \in Texts
    BY DEF Texts
  <2>3. <<Break>> \in Seq(Texts) /\ Prompt \in Seq(Texts)
    BY <2>1, <2>2 DEF Prompt
  <2>4. NextPrompt \in Seq(Texts)
    BY <2>3, ConcatProperties DEF NextPrompt
  <2> QED
    BY <1>1, <2>4, ConcatEmptySeq
<1>5. /\ out' \in Seq(Texts) /\ out' # <<>>
      /\ out'[Len(out')] = " " /\ out'[Len(out') - 1] = ">" /\ out'[Len(out') - 2] = Break
      /\ out'[0 + 1] = Break
  BY <1>3, <1>4, EndsWithPrompt
<1>6. Head(out') = Break
  <2>1. 0 + 1 = 1
    OBVIOUS
  <2>2. Head(out') = out'[1]
    BY <1>5, HeadIs
  <2> QED
    BY <1>5, <2>1, <2>2
<1>7. OutHolds' /\ PictureHolds'
  BY <1>2, <1>5, <1>6, BreakComes, OutComes
<1> QED
  BY <1>1, <1>2, <1>7 DEF CIInv

LEMMA ConsoleKept == ASSUME CIInv, UNCHANGED vars PROVE CIInv'
<1>1. /\ UNCHANGED line_vars /\ UNCHANGED screen_vars /\ out' = out /\ odd' = odd
  BY DEF vars
<1>2. Sh!SIInv' /\ T!TIInv'
  BY <1>1, ConsoleFacts, ShellKept, ScreenKept
<1>3. status' = status /\ line' = line
  BY <1>1 DEF line_vars
<1>4. terminal_row' = terminal_row /\ terminal_column' = terminal_column /\ terminal_buffer' = terminal_buffer
  BY <1>1 DEF screen_vars
<1>5. OutHolds'
  BY <1>1, <1>3 DEF CIInv, OutHolds
<1>6. PictureHolds'
  <2>1. Picture' = Picture /\ Cursor' = Cursor
    BY <1>1, <1>3, <1>4 DEF Picture, Cursor
  <2>2. PictureHolds
    BY DEF CIInv
  <2> QED
    BY <1>1, <1>3, <1>4, <2>1, <2>2 DEF PictureHolds, Shows, ScrolledAway
<1> QED
  BY <1>1, <1>2, <1>5, <1>6 DEF CIInv

LEMMA ConsoleBegins == ASSUME Init PROVE CIInv
<1>1. Sh!Init /\ T!Init /\ out = Prompt /\ odd = "no"
  BY DEF Init
<1>2. Sh!SIInv /\ T!TIInv
  BY <1>1, ShellBegins, ScreenBegins
<1>3. line = <<>> /\ terminal_row = 0 /\ terminal_column = 0
  BY <1>1, Zenon DEF Sh!Init, T!Init
<1>4. /\ Prompt \in Seq(Texts) /\ Len(Prompt) = 2 /\ Prompt[1] = ">" /\ Prompt[2] = " "
  <2>1. ASSUME NEW S, NEW x \in S, NEW y \in S PROVE <<x, y>> \in Seq(S)
    OBVIOUS
  <2>2. ">" \in Texts /\ " " \in Texts
    BY DEF Texts
  <2>3. Prompt \in Seq(Texts)
    BY <2>1, <2>2 DEF Prompt
  <2> QED
    BY <2>3, PromptParts
<1>5. OutHolds
  <2>1. Prompt \in Seq((Letters \ {TabKey}) \cup {" ", ">", Break, Wipe})
    BY <1>4 DEF Texts
  <2>2. Len(Prompt) >= 2 /\ ~(Len(Prompt) >= 3) /\ Len(Prompt) - 1 = 1
    <3>1. 2 >= 2 /\ ~(2 >= 3) /\ 2 - 1 = 1
      OBVIOUS
    <3> QED
      BY <1>4, <3>1, Zenon
  <2> QED
    BY <1>1, <1>3, <1>4, <2>1, <2>2, Zenon DEF OutHolds
<1>6. PictureHolds
  <2>1. <<>> \in Seq(Marks) /\ <<>> \in Seq(Drawn) /\ Len(<<>>) = 0
    BY EmptySeq
  <2>2. PictureOf(Prompt, <<>>) = <<>>
    <3>1. Len(Prompt) >= 2
      <4>1. 2 >= 2
        OBVIOUS
      <4> QED
        BY <1>4, <4>1, Zenon
    <3> QED
      BY <1>4, <2>1, <3>1, PictureIs
  <2>3. Picture = <<>>
    BY <1>1, <1>3, <2>2 DEF Picture, PictureOf
  <2>4. terminal_column < Width
    BY <1>3, ScreenSizes
  <2>5. Shows(Len(<<>>), <<>>)
    <3>1. Cursor = 0 * Width + 0
      BY <1>3 DEF Cursor
    <3>2. 0 * Width + 0 = 0
      BY ScreenSizes
    <3>3. DOMAIN <<>> = {}
      OBVIOUS
    <3> QED
      BY <2>1, <3>1, <3>2, <3>3 DEF Shows
  <2> QED
    BY <2>3, <2>4, <2>5, Zenon DEF PictureHolds
<1> QED
  BY <1>1, <1>2, <1>5, <1>6 DEF CIInv

\* The buffer, the screen and the picture of the line stay in step.
THEOREM ConsoleInvariant == Spec => []CIInv
<1>1. CIInv /\ [Next]_vars => CIInv'
  <2> SUFFICES ASSUME CIInv, [Next]_vars PROVE CIInv'
    OBVIOUS
  <2>1. CASE Write
    BY <2>1, WriteKept
  <2>2. CASE Backspace
    BY <2>2, RubKept
  <2>3. CASE Enter
    BY <2>3, EntersKept
  <2>4. CASE Exit
    BY <2>4, ExitsKept
  <2>5. ASSUME NEW c \in Letters \cup {" "}, Type(c) PROVE CIInv'
    BY <2>5, KeyKept
  <2>6. CASE UNCHANGED vars
    BY <2>6, ConsoleKept
  <2> QED
    BY <2>1, <2>2, <2>3, <2>4, <2>5, <2>6 DEF Next
<1> QED
  BY <1>1, ConsoleBegins, PTL DEF Spec

\* Between two keys the screen shows the prompt and the line right before the
\* cursor: the loop of kernel_main and the terminal's wrapping, scrolling and
\* deleting keep in step, on every screen and for every line that leaves the
\* prompt on it.
THEOREM ScreenIsLine == Spec => []ScreenShowsLine
<1>1. CIInv => ScreenShowsLine
  <2> SUFFICES ASSUME CIInv, status = "reading", out = <<>>, odd = "no",
                      2 + Len(line) <= Width * (Height - 1)
               PROVE  Shows(2 + Len(line), Prompt \o line)
    BY DEF ScreenShowsLine, Waiting
  <2>1. /\ Prompt \o line \in Seq(Drawn) /\ Len(Prompt \o line) = 2 + Len(line)
        /\ \/ Stands(terminal_buffer, Cursor, Prompt \o line)
           \/ Away(terminal_row, terminal_column, Len(Prompt \o line))
    BY PictureWaiting
  <2>2. ~Away(terminal_row, terminal_column, Len(Prompt \o line))
    <3>1. T!TIInv /\ Len(line) \in Nat
      BY ConsoleFacts
    <3>2. terminal_column \in Nat /\ Width * (Height - 1) \in Nat
      BY <3>1, TerminalFacts, ScreenSizes
    <3>3. ~((2 + Len(line)) - terminal_column > Width * (Height - 1))
      BY <3>1, <3>2
    <3>4. ~Away(terminal_row, terminal_column, 2 + Len(line))
      BY <3>3, Zenon DEF Away
    <3> QED
      BY <2>1, <3>4, Zenon
  <2>3. DOMAIN (Prompt \o line) = 1 .. Len(Prompt \o line)
    BY <2>1, LenProperties
  <2> QED
    BY <2>1, <2>2, <2>3, Zenon DEF Stands, Shows
<1> QED
  BY <1>1, ConsoleInvariant, PTL

\* The terminal under the loop: the cursor is back on the screen with the next
\* line, and the screen ends with what the prompt, the keys and the commands
\* wrote (terminal_putchar, scroll and delete_last_char of drivers/vga.c).
THEOREM TerminalServes == Spec => []TerminalHolds
<1>1. CIInv => TerminalHolds
  BY DEF CIInv, T!TIInv, TerminalHolds
<1> QED
  BY <1>1, ConsoleInvariant, PTL

\* The line under the screen: input_buffer holds what was typed, the word that
\* run_command looks up is the line's first, and only a line without a word, or
\* `run` alone, makes it follow a slot of parts that strsplit has not set.
THEOREM LineIsHeld == Spec => []LineHolds
<1>1. CIInv => LineHolds
  <2> SUFFICES ASSUME CIInv PROVE LineHolds
    OBVIOUS
  <2>1. Sh!SIInv /\ T!TIInv /\ odd \in {"yes", "no"} /\ out \in Seq(Texts)
    BY ConsoleFacts
  <2>2. out \in Seq(Letters \cup {" ", ">", Break, Wipe})
    <3>1. Texts \subseteq Letters \cup {" ", ">", Break, Wipe}
      BY DEF Texts
    <3> QED
      BY <2>1, <3>1, SeqMonotonic
  <2>3. Sh!TypeOK /\ T!TypeOK /\ Sh!BufferHoldsLine /\ Sh!WildOnlyWithoutWords /\ Sh!WordFound
    BY <2>1 DEF Sh!SIInv, T!TIInv
  <2>4. Sh!WordOfTheLine
    BY <2>3 DEF Sh!WordFound, Sh!WordOfTheLine
  <2> QED
    BY <2>1, <2>2, <2>3, <2>4 DEF LineHolds, TypeOK
<1> QED
  BY <1>1, ConsoleInvariant, PTL

\* The command that runs is the line that was typed, on every stack: followed by
\* nothing, by the one character backspace has left, or by what a used stack held.
THEOREM CommandIsLine == Spec => RunsWhatWasTyped
<1>1. CIInv => [Sh!Enter => LET rest == SubSeq(ran'.text, Len(line) + 1, Len(ran'.text)) IN
                    /\ SubSeq(ran'.text, 1, Len(line)) = line
                    /\ \/ rest = <<>>
                       \/ erasing # "never" /\ Len(rest) = 1
                       \/ entered = "junk" /\ \A i \in DOMAIN rest : rest[i] = Sh!Junk]_(Sh!vars)
  BY ConsoleFacts, CommandIs
<1>2. Spec => Sh!RunsTheLine
  BY <1>1, ConsoleInvariant, PTL DEF Sh!RunsTheLine
<1> QED
  BY <1>2, PTL DEF RunsWhatWasTyped
==============================================================================
