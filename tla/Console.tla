-------------------------------- MODULE Console --------------------------------
(***************************************************************************)
(* The text screen: console.c's cursor, line wrapping and scrolling, the   *)
(* number printing of kputn, and the info line that the timer handler      *)
(* draws with the same functions (info_line.c).                            *)
(*                                                                         *)
(* Every caller runs with interrupts off (system calls and the timer       *)
(* handler; SVGA, which does not, leaves text mode), so a call is one      *)
(* step.  Colours and the copy on the serial port are left out.            *)
(***************************************************************************)
EXTENDS Integers, SequencesExt

CONSTANTS
  Columns,      \* 80
  Bottom,       \* the last row of text: 22
  MemRows,      \* rows of video memory; the screen shows Bottom + 3 of them
  Label,        \* "Running Processes:  ", a sequence of characters
  Chars,        \* what programs print with PUTC, besides newlines
  Numbers,      \* what they print with PNUM, and what proccount may be
  UlongSpan,    \* values of an unsigned long: 2^32
  Positions,    \* what they pass to SETX and SETY
  MaxPrinted    \* bound: characters and newlines since the last clrscr

ASSUME ConsoleAssumption ==
  /\ Label \in Seq(Range(Label))
  /\ Columns \in Nat /\ Len(Label) + 2 <= Columns
  /\ Bottom \in Nat \ {0}
  /\ MemRows \in Nat /\ MemRows >= Bottom + 3
  /\ Numbers \subseteq Int
  /\ UlongSpan \in Nat \ {0}
  /\ Positions \subseteq Nat
  /\ MaxPrinted \in Nat

Row    == 0 .. MemRows - 1
Column == 0 .. Columns - 1
Info   == Bottom + 2            \* the info line: row 24
NL     == "\n"
Zero   == ""                    \* a cell without a character
digits == <<"0", "1", "2", "3", "4", "5", "6", "7", "8", "9">>
Cell   == Chars \cup {Zero} \cup Range(digits) \cup Range(Label)

VARIABLES
  video,        \* the characters in video memory
  x, y,         \* the cursor
  scrole,       \* whether printing below the text scrolls
  lines,        \* history: the lines printed since the last clrscr
  moved,        \* history: a program has moved the cursor since then
  gap           \* history: a line has ended below the rows of text

history == <<lines, moved, gap>>
consoleVars == <<video, x, y, scrole, history>>

ConsoleTypeOK ==
  /\ video \in [Row -> [Column -> Cell]]
  /\ x \in 0 .. Columns \cup Positions
  /\ y \in Row \cup Positions
  /\ scrole \in BOOLEAN
  /\ lines \in Seq(Seq(Cell))
  /\ moved \in BOOLEAN
  /\ gap \in BOOLEAN

Cleared == [r \in Row |-> [c \in Column |-> Zero]]

\* init() has cleared the screen.
ConsoleInit ==
  /\ video = Cleared
  /\ x = 0
  /\ y = 0
  /\ scrole = TRUE
  /\ lines = << << >> >>
  /\ moved = FALSE
  /\ gap = FALSE

--------------------------------------------------------------------------------
(* Printing, on a screen [video, x, y, scrole].                            *)

\* The rows move up, down to Bottom, and the rest of the screen is cleared,
\* the info line included.  What lies behind the screen stays.
Scrolled(vid) ==
  [r \in Row |-> IF r < Bottom THEN vid[r + 1]
                 ELSE IF r <= Info THEN Cleared[r] ELSE vid[r]]

\* Mutant: a line takes one character too many.
Breaks_Late(s, char) == char = NL \/ s.x > Columns

Breaks(s, char) == char = NL \/ s.x > Columns - 1

\* Mutant: y is not stepped back.
RowAfter_Same(row, scrolls) == row

\* The row the character goes to: y--, after scrolling.
RowAfter(row, scrolls) == IF scrolls THEN row - 1 ELSE row

kputc(s, char) ==
  LET col     == IF Breaks(s, char) THEN 0 ELSE s.x
      row     == IF Breaks(s, char) THEN s.y + 1 ELSE s.y
      scrolls == s.scrole /\ row > Bottom
      vid     == IF scrolls THEN Scrolled(s.video) ELSE s.video
      to      == RowAfter(row, scrolls)
  IN  IF char = NL
        THEN [s EXCEPT !.x = col, !.y = row]
        ELSE [s EXCEPT !.video = [vid EXCEPT ![to][col] = char],
                       !.x = col + 1, !.y = to]

kputs(s, string) ==
  LET after[n \in 0 .. Len(string)] ==
        IF n = 0 THEN s ELSE kputc(after[n - 1], string[n])
  IN  after[Len(string)]

\* kputn in base 10: the number as an unsigned long.
Numeral(number) ==
  LET ulong == number % UlongSpan
      numeral[n \in 0 .. ulong] ==
        IF n < 10 THEN <<digits[n + 1]>>
                  ELSE Append(numeral[n \div 10], digits[(n % 10) + 1])
  IN  numeral[ulong]

\* There is room for any number behind the label (ten digits in 60 columns),
\* and the label has no digits.
ASSUME InfoAssumption ==
  /\ \A number \in Numbers : Len(Label) + Len(Numeral(number)) <= Columns
  /\ Range(Label) \cap Range(digits) = {}

Screen == [video |-> video, x |-> x, y |-> y, scrole |-> scrole]

Show(s) == video' = s.video /\ x' = s.x /\ y' = s.y /\ scrole' = s.scrole

--------------------------------------------------------------------------------
(* The system calls of programs.                                           *)

\* The history of what is printed: a line that is full goes on in the next.
Extended(ls, char) ==
  IF char = NL THEN Append(ls, << >>)
  ELSE IF Len(Last(ls)) = Columns THEN Append(ls, <<char>>)
  ELSE [ls EXCEPT ![Len(ls)] = Append(@, char)]

\* The same of a whole string.
Continued(ls, string) ==
  LET upTo[n \in 0 .. Len(string)] ==
        IF n = 0 THEN ls ELSE Extended(upTo[n - 1], string[n])
  IN  upTo[Len(string)]

Printed == Len(lines) - 1 + Len(FlattenSeq(lines))

kprintf(string) ==
  /\ Printed + Len(string) <= MaxPrinted
  /\ y < MemRows - 2
  /\ Show(kputs(Screen, string))
  /\ lines' = Continued(lines, string)
  /\ gap' = (gap \/ (string = <<NL>> /\ y > Bottom))
  /\ UNCHANGED moved

Putc(char) == kprintf(<<char>>)
Pnum(number) == kprintf(Numeral(number))

Clrscr ==
  /\ video' = [r \in Row |-> IF r <= Info THEN Cleared[r] ELSE video[r]]
  /\ x' = 0
  /\ y' = 0
  /\ lines' = << << >> >>
  /\ moved' = FALSE
  /\ gap' = FALSE
  /\ UNCHANGED scrole

Setx(i) == x' = i /\ moved' = TRUE /\ UNCHANGED <<video, y, scrole, lines, gap>>
Sety(i) == y' = i /\ moved' = TRUE /\ UNCHANGED <<video, x, scrole, lines, gap>>

--------------------------------------------------------------------------------
(* drawinfo, from the timer handler.                                       *)

\* The emptied line with the label in it, from column 2.  The number is to
\* start at column Len(Label), over the last two characters of the label.
InfoLabel ==
  [c \in Column |-> IF c - 1 \in DOMAIN Label THEN Label[c - 1] ELSE Zero]

\* Mutant: the line is not emptied before.
drawinfo_NotEmptied(tcount) ==
  LET labelled == [c \in Column |-> IF c - 1 \in DOMAIN Label THEN Label[c - 1]
                                                             ELSE video[Info][c]]
      s == kputs([video |-> [video EXCEPT ![Info] = labelled],
                  x |-> Len(Label), y |-> Info, scrole |-> FALSE], Numeral(tcount))
  IN  Show([s EXCEPT !.x = x, !.y = y, !.scrole = TRUE]) /\ UNCHANGED history

drawinfo(tcount) ==
  LET s == kputs([video |-> [video EXCEPT ![Info] = InfoLabel],
                  x |-> Len(Label), y |-> Info, scrole |-> FALSE], Numeral(tcount))
  IN  Show([s EXCEPT !.x = x, !.y = y, !.scrole = TRUE]) /\ UNCHANGED history

ConsoleNext ==
  \/ \E char \in Chars \cup {NL} : Putc(char)
  \/ \E number \in Numbers : Pnum(number)
  \/ Clrscr
  \/ \E i \in Positions : Setx(i) \/ Sety(i)
  \/ \E tcount \in Numbers : drawinfo(tcount)

ConsoleSpec == ConsoleInit /\ [][ConsoleNext]_consoleVars

--------------------------------------------------------------------------------
(* Properties                                                              *)

\* The cells of a line of text.
Cells(line) == [c \in Column |-> IF c + 1 \in DOMAIN line THEN line[c + 1] ELSE Zero]

\* What is on the screen is the end of what was printed, the last line in the
\* cursor's row: nothing is lost at the edge, in scrolling, or to the info
\* line.  Not so after a line has ended below the text: see the README.
ShowsTail ==
  ~moved /\ ~gap =>
    \A n \in DOMAIN lines :
      LET row == y - (Len(lines) - n) IN
        row \in 0 .. Bottom => video[row] = Cells(lines[n])

Value(char) == CHOOSE d \in 0 .. 9 : digits[d + 1] = char

\* The number a reader sees after the label.
ShownNumber(row) ==
  LET read[c \in 0 .. Columns] ==
        IF c <= Len(Label) THEN 0
        ELSE IF row[c - 1] \in Range(digits) THEN 10 * read[c - 1] + Value(row[c - 1])
        ELSE read[c - 1]
  IN  read[Columns]

\* A tick between two system calls leaves text and cursor as they were,
\* wherever a program has put the cursor, and the info line shows the count,
\* whatever it showed before: a longer number, or text a program put there.
InfoDrawn ==
  [][\A tcount \in Numbers : drawinfo(tcount) =>
       /\ \A r \in Row \ {Info} : video'[r] = video[r]
       /\ <<x, y, scrole>>' = <<x, y, scrole>>
       /\ ShownNumber(video'[Info]) = tcount % UlongSpan]_consoleVars
================================================================================
