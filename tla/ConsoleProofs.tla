------------------------------ MODULE ConsoleProofs ----------------------------
(***************************************************************************)
(* For any screen, label, numbers and characters: what is on the screen is *)
(* the end of what was printed, and the timer handler's info line disturbs *)
(* neither text nor cursor and shows the number.                           *)
(*                                                                         *)
(* The loops over a string's characters and over a number's digits are     *)
(* recursive functions.  Iterates and Induct are what the proofs need of   *)
(* recursion, about sets and functions rather than about operators.        *)
(***************************************************************************)
EXTENDS Console, SequenceTheorems, WellFoundedInduction, TLAPS

--------------------------------------------------------------------------------
(* Recursion.                                                              *)

\* A set of natural numbers has a least member.
LEMMA Least ==
  ASSUME NEW T, T \subseteq Nat, T # {}
  PROVE  \E m \in T : \A k \in T : m <= k
<1>1. PICK m \in T : \A k \in T : ~(<<k, m>> \in OpToRel(<, Nat))
  BY NatLessThanWellFounded, WFMin
<1>2. \A k \in T : ~(k < m)
  BY <1>1 DEF OpToRel
<1> QED
  BY <1>2

\* Induction up to n.
LEMMA Induct ==
  ASSUME NEW n \in Nat, NEW T, 0 \in T, \A k \in 1 .. n : k - 1 \in T => k \in T
  PROVE  \A k \in 0 .. n : k \in T
<1> DEFINE U == {k \in 0 .. n : k \notin T}
<1>1. SUFFICES ASSUME U # {} PROVE FALSE
  BY Zenon
<1>2. U \subseteq Nat
  OBVIOUS
<1> HIDE DEF U
<1>3. PICK m \in U : \A k \in U : m <= k
  BY <1>1, <1>2, Least
<1>4. m \in 0 .. n /\ m \notin T
  BY DEF U
<1>5. m \in 1 .. n
  BY <1>4
<1>6. m - 1 \in 0 .. n /\ m - 1 \notin U
  BY <1>2, <1>3, <1>5
<1> QED
  BY <1>4, <1>5, <1>6 DEF U

\* A recursion over 0 .. n has a solution.
Solves(f, n, c, F) == f[0] = c /\ \A k \in 1 .. n : f[k] = F[<<k, f[k - 1]>>]

LEMMA Iterates ==
  ASSUME NEW n \in Nat, NEW S, NEW c \in S, NEW F \in [(1 .. n) \X S -> S]
  PROVE  \E f \in [0 .. n -> S] : Solves(f, n, c, F)
<1> USE DEF Solves
<1> DEFINE T == {m \in 0 .. n : \E f \in [0 .. m -> S] : Solves(f, m, c, F)}
<1>1. 0 \in T
  <2> DEFINE f == [k \in 0 .. 0 |-> c]
  <2>1. f \in [0 .. 0 -> S] /\ f[0] = c
    OBVIOUS
  <2>2. ~\E k \in 1 .. 0 : TRUE
    OBVIOUS
  <2> HIDE DEF f
  <2> QED
    BY <2>1, <2>2
<1>2. ASSUME NEW m \in 1 .. n, m - 1 \in T
      PROVE  m \in T
  <2>1. PICK f \in [0 .. m - 1 -> S] : Solves(f, m - 1, c, F)
    BY <1>2
  <2> DEFINE g == [k \in 0 .. m |-> IF k = m THEN F[<<m, f[m - 1]>>] ELSE f[k]]
  <2>2. \A k \in 0 .. m - 1 : g[k] = f[k] /\ f[k] \in S
    OBVIOUS
  <2>3. g[m] = F[<<m, f[m - 1]>>] /\ F[<<m, f[m - 1]>>] \in S
    OBVIOUS
  <2>4. g \in [0 .. m -> S]
    BY <2>2, <2>3
  <2> HIDE DEF g
  <2>5. \A k \in 1 .. m : g[k] = F[<<k, g[k - 1]>>]
    <3>1. TAKE k \in 1 .. m
    <3>2. k - 1 \in 0 .. m - 1 /\ g[k - 1] = f[k - 1]
      BY <2>2
    <3>3. CASE k = m
      BY <2>3, <3>2, <3>3
    <3>4. CASE k # m
      <4>1. k \in 1 .. m - 1
        BY <3>4
      <4> QED
        BY <2>1, <2>2, <3>2, <4>1
    <3> QED
      BY <3>3, <3>4
  <2>6. g[0] = c
    BY <2>1, <2>2
  <2> QED
    BY <2>4, <2>5, <2>6
<1> HIDE DEF T
<1>3. n \in T
  BY <1>1, <1>2, Induct
<1> QED
  BY <1>3 DEF T

--------------------------------------------------------------------------------
(* Printing.                                                               *)

Screens == [video : [Row -> [Column -> Cell]], x : Nat, y : Nat, scrole : BOOLEAN]
Glyphs  == Cell \cup {NL}

LEMMA ConsoleFacts ==
  /\ Columns \in Nat /\ Columns >= 2 /\ Columns - 1 \in Column
  /\ Len(Label) \in Nat /\ Len(Label) + 2 <= Columns
  /\ Bottom \in Nat /\ Bottom >= 1
  /\ MemRows \in Nat /\ MemRows >= Bottom + 3
  /\ Info \in Row /\ Info = Bottom + 2
  /\ Zero \in Cell
<1>1. Len(Label) \in Nat
  BY ConsoleAssumption, LenProperties
<1> QED
  BY <1>1, ConsoleAssumption DEF Info, Row, Column, Cell

LEMMA ClearedType == Cleared \in [Row -> [Column -> Cell]]
BY ConsoleFacts DEF Cleared

LEMMA ScrolledType ==
  ASSUME NEW vid \in [Row -> [Column -> Cell]]
  PROVE  Scrolled(vid) \in [Row -> [Column -> Cell]]
<1>1. ASSUME NEW r \in Row, r < Bottom
      PROVE  r + 1 \in Row
  BY <1>1, ConsoleFacts DEF Row
<1> QED
  BY <1>1, ClearedType DEF Scrolled

LEMMA KputcCases ==
  ASSUME NEW s \in Screens, NEW char \in Glyphs
  PROVE  LET row == IF Breaks(s, char) THEN s.y + 1 ELSE s.y
             col == IF Breaks(s, char) THEN 0 ELSE s.x
             vid == IF s.scrole /\ row > Bottom THEN Scrolled(s.video) ELSE s.video
             to  == IF s.scrole /\ row > Bottom THEN row - 1 ELSE row
         IN  /\ row \in Nat /\ col \in Column /\ to \in Nat
             /\ vid \in [Row -> [Column -> Cell]]
             /\ kputc(s, char).scrole = s.scrole
             /\ char = NL => /\ kputc(s, char).video = s.video
                             /\ kputc(s, char).x = 0
                             /\ kputc(s, char).y = s.y + 1
             /\ char # NL => /\ kputc(s, char).video = [vid EXCEPT ![to][col] = char]
                             /\ kputc(s, char).x = col + 1
                             /\ kputc(s, char).y = to
             /\ kputc(s, char) \in Screens
<1> DEFINE row == IF Breaks(s, char) THEN s.y + 1 ELSE s.y
           col == IF Breaks(s, char) THEN 0 ELSE s.x
           vid == IF s.scrole /\ row > Bottom THEN Scrolled(s.video) ELSE s.video
           to  == IF s.scrole /\ row > Bottom THEN row - 1 ELSE row
<1>1. s.video \in [Row -> [Column -> Cell]] /\ s.x \in Nat /\ s.y \in Nat /\ s.scrole \in BOOLEAN
  BY DEF Screens
<1>2. row \in Nat /\ to \in Nat
  <2>1. row \in Nat
    BY <1>1
  <2>2. Bottom \in Nat
    BY ConsoleFacts
  <2> HIDE DEF row
  <2>3. row > Bottom => row - 1 \in Nat
    BY <2>1, <2>2
  <2> QED
    BY <2>1, <2>3
<1>3. col \in Column
  <2>1. CASE Breaks(s, char)
    BY <2>1, ConsoleFacts DEF Column
  <2>2. CASE ~Breaks(s, char)
    <3>1. ~(s.x > Columns - 1)
      BY <2>2 DEF Breaks
    <3>2. s.x \in 0 .. Columns - 1
      BY <1>1, <3>1, ConsoleFacts
    <3> QED
      BY <2>2, <3>2 DEF Column
  <2> QED
    BY <2>1, <2>2
<1>4. vid \in [Row -> [Column -> Cell]]
  BY <1>1, ScrolledType
<1>5. kputc(s, char) = IF char = NL THEN [s EXCEPT !.x = col, !.y = row]
                       ELSE [s EXCEPT !.video = [vid EXCEPT ![to][col] = char],
                                      !.x = col + 1, !.y = to]
  BY DEF kputc, RowAfter
<1>6. char = NL => col = 0 /\ row = s.y + 1
  BY DEF Breaks
<1> HIDE DEF row, col, vid, to
<1>7. CASE char = NL
  <2>1. kputc(s, char) = [s EXCEPT !.x = 0, !.y = s.y + 1]
    BY <1>5, <1>6, <1>7
  <2>2. [s EXCEPT !.x = 0, !.y = s.y + 1] \in Screens
    <3>1. s.y + 1 \in Nat /\ 0 \in Nat
      BY <1>1
    <3> QED
      BY <3>1 DEF Screens
  <2>3. /\ kputc(s, char).video = s.video /\ kputc(s, char).x = 0
        /\ kputc(s, char).y = s.y + 1 /\ kputc(s, char).scrole = s.scrole
    BY <2>1 DEF Screens
  <2> QED
    BY <1>2, <1>3, <1>4, <1>7, <2>1, <2>2, <2>3 DEF row, col, vid, to
<1>8. CASE char # NL
  <2> DEFINE new == [vid EXCEPT ![to][col] = char]
  <2>0. char \in Cell
    BY <1>8 DEF Glyphs
  <2>1. new \in [Row -> [Column -> Cell]]
    BY <1>3, <1>4, <2>0
  <2> HIDE DEF new
  <2>2. kputc(s, char) = [s EXCEPT !.video = new, !.x = col + 1, !.y = to]
    BY <1>5, <1>8 DEF new
  <2>3. col + 1 \in Nat
    BY <1>3, ConsoleFacts DEF Column
  <2>4. [s EXCEPT !.video = new, !.x = col + 1, !.y = to] \in Screens
    BY <1>1, <1>2, <2>1, <2>3 DEF Screens
  <2>5. /\ kputc(s, char).video = new /\ kputc(s, char).x = col + 1
        /\ kputc(s, char).y = to /\ kputc(s, char).scrole = s.scrole
    BY <2>2 DEF Screens
  <2> QED
    BY <1>2, <1>3, <1>4, <1>8, <2>2, <2>4, <2>5 DEF row, col, vid, to, new
<1> QED
  BY <1>7, <1>8

\* No new row, and no scrolling.
LEMMA KputcInRow ==
  ASSUME NEW s \in Screens, NEW char \in Glyphs, char # NL, ~Breaks(s, char), ~s.scrole
  PROVE  /\ kputc(s, char).scrole = s.scrole
         /\ kputc(s, char).x = s.x + 1 /\ kputc(s, char).y = s.y
         /\ kputc(s, char).video = [s.video EXCEPT ![s.y][s.x] = char]
<1> DEFINE row == IF Breaks(s, char) THEN s.y + 1 ELSE s.y
           col == IF Breaks(s, char) THEN 0 ELSE s.x
           vid == IF s.scrole /\ row > Bottom THEN Scrolled(s.video) ELSE s.video
           to  == IF s.scrole /\ row > Bottom THEN row - 1 ELSE row
<1>1. /\ kputc(s, char).scrole = s.scrole
      /\ kputc(s, char).video = [vid EXCEPT ![to][col] = char]
      /\ kputc(s, char).x = col + 1 /\ kputc(s, char).y = to
  BY KputcCases, Zenon
<1>2. row = s.y /\ col = s.x /\ vid = s.video /\ to = s.y
  OBVIOUS
<1> QED
  BY <1>1, <1>2

\* The screens in the course of kputs.
LEMMA Kputs ==
  ASSUME NEW s \in Screens, NEW string \in Seq(Glyphs)
  PROVE  \E f \in [0 .. Len(string) -> Screens] :
           /\ f[0] = s
           /\ \A k \in 1 .. Len(string) : f[k] = kputc(f[k - 1], string[k])
           /\ kputs(s, string) = f[Len(string)]
<1> DEFINE n == Len(string)
           F == [p \in (1 .. n) \X Screens |-> kputc(p[2], string[p[1]])]
           after[k \in 0 .. n] == IF k = 0 THEN s ELSE kputc(after[k - 1], string[k])
<1>0. n \in Nat /\ \A k \in 1 .. n : string[k] \in Glyphs
  BY LenProperties, ElementOfSeq
<1>1. F \in [(1 .. n) \X Screens -> Screens]
  BY <1>0, KputcCases
<1>2. \A k \in 1 .. n, t \in Screens : F[<<k, t>>] = kputc(t, string[k])
  OBVIOUS
<1>3. kputs(s, string) = after[n]
  BY DEF kputs
<1> HIDE DEF n, F
<1>4. PICK f \in [0 .. n -> Screens] : Solves(f, n, s, F)
  BY <1>0, <1>1, Iterates, Zenon
<1>5. \A k \in 1 .. n : f[k] = kputc(f[k - 1], string[k])
  <2>1. \A k \in 1 .. n : k - 1 \in 0 .. n
    BY <1>0
  <2> QED
    BY <1>2, <1>4, <2>1 DEF Solves
<1>6. f = [k \in 0 .. n |-> IF k = 0 THEN s ELSE kputc(f[k - 1], string[k])]
  BY <1>0, <1>4, <1>5 DEF Solves
<1>7. after = [k \in 0 .. n |-> IF k = 0 THEN s ELSE kputc(after[k - 1], string[k])]
  BY <1>6, Zenon DEF after
<1> HIDE DEF after
<1> DEFINE T == {k \in 0 .. n : after[k] = f[k]}
<1>8. 0 \in T
  BY <1>0, <1>4, <1>7 DEF Solves
<1>9. ASSUME NEW k \in 1 .. n, k - 1 \in T
      PROVE  k \in T
  BY <1>0, <1>5, <1>7, <1>9
<1>10. n \in T
  <2>1. n \in 0 .. n
    BY <1>0
  <2> HIDE DEF T
  <2>2. \A k \in 0 .. n : k \in T
    BY <1>0, <1>8, <1>9, Induct, Zenon
  <2> QED
    BY <2>1, <2>2
<1> QED
  BY <1>3, <1>4, <1>5, <1>10 DEF n, Solves

--------------------------------------------------------------------------------
(* The history.                                                            *)

Lines == {ls \in Seq(Seq(Cell)) : ls # << >>}

LEMMA LinesFacts ==
  ASSUME NEW ls \in Lines
  PROVE  /\ Len(ls) \in Nat /\ Len(ls) >= 1 /\ DOMAIN ls = 1 .. Len(ls)
         /\ \A n \in 1 .. Len(ls) : ls[n] \in Seq(Cell)
         /\ Last(ls) = ls[Len(ls)] /\ Last(ls) \in Seq(Cell)
         /\ Len(Last(ls)) \in Nat
<1>1. ls \in Seq(Seq(Cell)) /\ ls # << >>
  BY DEF Lines
<1>2. Len(ls) \in Nat \ {0} /\ DOMAIN ls = 1 .. Len(ls)
  BY <1>1, EmptySeq, LenProperties
<1>3. \A n \in 1 .. Len(ls) : ls[n] \in Seq(Cell)
  BY <1>1, ElementOfSeq
<1>4. Last(ls) = ls[Len(ls)] /\ Last(ls) \in Seq(Cell)
  BY <1>2, <1>3 DEF Last
<1> QED
  BY <1>2, <1>3, <1>4, LenProperties

\* A new line.
LEMMA AppendLine ==
  ASSUME NEW ls \in Lines, NEW line \in Seq(Cell)
  PROVE  /\ Append(ls, line) \in Lines
         /\ Len(Append(ls, line)) = Len(ls) + 1
         /\ \A n \in 1 .. Len(ls) : Append(ls, line)[n] = ls[n]
         /\ Last(Append(ls, line)) = line
<1>1. ls \in Seq(Seq(Cell))
  BY DEF Lines
<1>2. /\ Append(ls, line) \in Seq(Seq(Cell)) /\ Append(ls, line) # << >>
      /\ Len(Append(ls, line)) = Len(ls) + 1
      /\ \A n \in 1 .. Len(ls) : Append(ls, line)[n] = ls[n]
      /\ Append(ls, line)[Len(ls) + 1] = line
  BY <1>1, AppendProperties
<1> QED
  BY <1>2 DEF Lines, Last

\* Another character at the end of the last line.
Longer(ls, char) == [ls EXCEPT ![Len(ls)] = Append(@, char)]

LEMMA LongerLine ==
  ASSUME NEW ls \in Lines, NEW char \in Cell
  PROVE  /\ Longer(ls, char) \in Lines
         /\ Len(Longer(ls, char)) = Len(ls)
         /\ \A n \in 1 .. Len(ls) :
              Longer(ls, char)[n] = IF n = Len(ls) THEN Append(Last(ls), char) ELSE ls[n]
         /\ Last(Longer(ls, char)) = Append(Last(ls), char)
<1> DEFINE line == Append(Last(ls), char)
<1>1. ls \in Seq(Seq(Cell)) /\ Len(ls) \in 1 .. Len(ls) /\ Len(ls) >= 1
  BY LinesFacts DEF Lines
<1>2. Last(ls) = ls[Len(ls)] /\ line \in Seq(Cell)
  BY LinesFacts, AppendProperties
<1>3. Longer(ls, char) = [ls EXCEPT ![Len(ls)] = line]
  BY <1>2 DEF Longer
<1> HIDE DEF line
<1>4. /\ Longer(ls, char) \in Seq(Seq(Cell))
      /\ Len(Longer(ls, char)) = Len(ls)
      /\ \A n \in 1 .. Len(ls) : Longer(ls, char)[n] = IF n = Len(ls) THEN line ELSE ls[n]
  BY <1>1, <1>2, <1>3, ExceptSeq
<1>5. Longer(ls, char) # << >>
  BY <1>1, <1>4, EmptySeq
<1>6. Last(Longer(ls, char)) = line
  BY <1>1, <1>4 DEF Last
<1> QED
  BY <1>4, <1>5, <1>6 DEF Lines, line

LEMMA ExtendedCases ==
  ASSUME NEW ls \in Lines, NEW char \in Glyphs
  PROVE  /\ char = NL => Extended(ls, char) = Append(ls, << >>)
         /\ char # NL /\ Len(Last(ls)) = Columns =>
              Extended(ls, char) = Longer(Append(ls, << >>), char)
         /\ char # NL /\ Len(Last(ls)) # Columns => Extended(ls, char) = Longer(ls, char)
         /\ Extended(ls, char) \in Lines
<1>1. CASE char = NL
  <2>1. Extended(ls, char) = Append(ls, << >>)
    BY <1>1 DEF Extended
  <2> QED
    BY <1>1, <2>1, AppendLine, EmptySeq
<1>2. CASE char # NL /\ Len(Last(ls)) = Columns
  <2>0. char \in Cell
    BY <1>2 DEF Glyphs
  <2>1. Extended(ls, char) = Append(ls, <<char>>)
    BY <1>2 DEF Extended
  <2> DEFINE new == Append(ls, << >>)
  <2>2. new \in Lines /\ Len(new) = Len(ls) + 1 /\ Last(new) = << >>
        /\ \A n \in 1 .. Len(ls) : new[n] = ls[n]
    BY AppendLine, EmptySeq
  <2> HIDE DEF new
  <2>3. <<char>> \in Seq(Cell) /\ Append(<< >>, char) = <<char>>
    BY <2>0
  <2>4. /\ Append(ls, <<char>>) \in Lines
        /\ Len(Append(ls, <<char>>)) = Len(ls) + 1
        /\ \A n \in 1 .. Len(ls) : Append(ls, <<char>>)[n] = ls[n]
        /\ Last(Append(ls, <<char>>)) = <<char>>
    BY <2>3, AppendLine
  <2>5. /\ Longer(new, char) \in Lines
        /\ Len(Longer(new, char)) = Len(new)
        /\ \A n \in 1 .. Len(new) :
             Longer(new, char)[n] = IF n = Len(new) THEN Append(Last(new), char) ELSE new[n]
    BY <2>0, <2>2, LongerLine
  <2>6. \A n \in 1 .. Len(ls) + 1 : Append(ls, <<char>>)[n] = Longer(new, char)[n]
    <3>1. TAKE n \in 1 .. Len(ls) + 1
    <3>2. CASE n = Len(ls) + 1
      <4>1. Append(ls, <<char>>)[n] = <<char>>
        BY <2>4, <3>2 DEF Last
      <4> QED
        BY <2>2, <2>3, <2>5, <3>2, <4>1
    <3>3. CASE n # Len(ls) + 1
      <4>1. n \in 1 .. Len(ls)
        BY <3>3, LinesFacts
      <4> QED
        BY <2>2, <2>4, <2>5, <3>1, <3>3, <4>1
    <3> QED
      BY <3>2, <3>3
  <2>7. Append(ls, <<char>>) = Longer(new, char)
    <3>1. Append(ls, <<char>>) \in Seq(Seq(Cell)) /\ Longer(new, char) \in Seq(Seq(Cell))
      BY <2>4, <2>5 DEF Lines
    <3> QED
      BY <2>2, <2>4, <2>5, <2>6, <3>1, SeqEqual
  <2> QED
    BY <1>2, <2>1, <2>4, <2>7 DEF new
<1>3. CASE char # NL /\ Len(Last(ls)) # Columns
  <2>1. char \in Cell
    BY <1>3 DEF Glyphs
  <2>2. Extended(ls, char) = Longer(ls, char)
    BY <1>3 DEF Extended, Longer
  <2> QED
    BY <1>3, <2>1, <2>2, LongerLine
<1> QED
  BY <1>1, <1>2, <1>3

\* The lines in the course of a string.
LEMMA Continues ==
  ASSUME NEW ls \in Lines, NEW string \in Seq(Glyphs)
  PROVE  \E f \in [0 .. Len(string) -> Lines] :
           /\ f[0] = ls
           /\ \A k \in 1 .. Len(string) : f[k] = Extended(f[k - 1], string[k])
           /\ Continued(ls, string) = f[Len(string)]
<1> DEFINE n == Len(string)
           F == [p \in (1 .. n) \X Lines |-> Extended(p[2], string[p[1]])]
           upTo[k \in 0 .. n] == IF k = 0 THEN ls ELSE Extended(upTo[k - 1], string[k])
<1>0. n \in Nat /\ \A k \in 1 .. n : string[k] \in Glyphs
  BY LenProperties, ElementOfSeq
<1>1. F \in [(1 .. n) \X Lines -> Lines]
  BY <1>0, ExtendedCases
<1>2. \A k \in 1 .. n, t \in Lines : F[<<k, t>>] = Extended(t, string[k])
  OBVIOUS
<1>3. Continued(ls, string) = upTo[n]
  BY DEF Continued
<1> HIDE DEF n, F
<1>4. PICK f \in [0 .. n -> Lines] : Solves(f, n, ls, F)
  BY <1>0, <1>1, Iterates, Zenon
<1>5. \A k \in 1 .. n : f[k] = Extended(f[k - 1], string[k])
  <2>1. \A k \in 1 .. n : k - 1 \in 0 .. n
    BY <1>0
  <2> QED
    BY <1>2, <1>4, <2>1 DEF Solves
<1>6. f = [k \in 0 .. n |-> IF k = 0 THEN ls ELSE Extended(f[k - 1], string[k])]
  BY <1>0, <1>4, <1>5 DEF Solves
<1>7. upTo = [k \in 0 .. n |-> IF k = 0 THEN ls ELSE Extended(upTo[k - 1], string[k])]
  BY <1>6, Zenon DEF upTo
<1> HIDE DEF upTo
<1> DEFINE T == {k \in 0 .. n : upTo[k] = f[k]}
<1>8. 0 \in T
  BY <1>0, <1>4, <1>7 DEF Solves
<1>9. ASSUME NEW k \in 1 .. n, k - 1 \in T
      PROVE  k \in T
  BY <1>0, <1>5, <1>7, <1>9
<1>10. n \in T
  <2>1. n \in 0 .. n
    BY <1>0
  <2> HIDE DEF T
  <2>2. \A k \in 0 .. n : k \in T
    BY <1>0, <1>8, <1>9, Induct, Zenon
  <2> QED
    BY <2>1, <2>2
<1> QED
  BY <1>3, <1>4, <1>5, <1>10 DEF n, Solves

--------------------------------------------------------------------------------
(* What the screen shows of the lines.                                     *)

\* The lines are in the rows that end with row, and below them is nothing.
Shows(vid, row, ls) ==
  /\ \A n \in 1 .. Len(ls) :
       row - (Len(ls) - n) \in 0 .. Bottom => vid[row - (Len(ls) - n)] = Cells(ls[n])
  /\ \A r \in row + 1 .. Bottom : vid[r] = Cells(<< >>)

\* Where the cursor is while nobody else moves it.
Follows(s, ls) ==
  /\ s.scrole
  /\ s.x = Len(Last(ls)) /\ s.x <= Columns
  /\ s.y <= Bottom + 1
  /\ s.y = Bottom + 1 => s.x = 0
  /\ Shows(s.video, s.y, ls)

LEMMA EmptyCells == \A r \in Row : Cleared[r] = Cells(<< >>)
<1>1. DOMAIN << >> = {}
  OBVIOUS
<1> QED
  BY <1>1 DEF Cleared, Cells

LEMMA AppendCells ==
  ASSUME NEW line \in Seq(Cell), NEW char \in Cell
  PROVE  Cells(Append(line, char)) = [Cells(line) EXCEPT ![Len(line)] = char]
<1>1. /\ Len(line) \in Nat /\ DOMAIN line = 1 .. Len(line)
      /\ DOMAIN Append(line, char) = 1 .. Len(line) + 1
      /\ \A i \in 1 .. Len(line) : Append(line, char)[i] = line[i]
      /\ Append(line, char)[Len(line) + 1] = char
  <2>1. Append(line, char) \in Seq(Cell)
    BY AppendProperties
  <2> QED
    BY <2>1, AppendProperties, LenProperties
<1> DEFINE longer == Append(line, char)
<1> HIDE DEF longer
<1>2. ASSUME NEW c \in Column
      PROVE  Cells(longer)[c] = [Cells(line) EXCEPT ![Len(line)] = char][c]
  <2>1. c \in Nat
    BY ConsoleFacts DEF Column
  <2>2. CASE c = Len(line)
    <3>1. Cells(longer)[c] = char
      BY <1>1, <2>1, <2>2 DEF Cells, longer
    <3> QED
      BY <2>2, <3>1 DEF Cells
  <2>3. CASE c # Len(line)
    <3>1. c + 1 \in 1 .. Len(line) + 1 <=> c + 1 \in 1 .. Len(line)
      <4>1. Len(line) \in Nat
        BY <1>1
      <4> QED
        BY <4>1, <2>1, <2>3
    <3>2. c + 1 \in DOMAIN longer <=> c + 1 \in DOMAIN line
      BY <1>1, <3>1 DEF longer
    <3>3. c + 1 \in DOMAIN line => longer[c + 1] = line[c + 1]
      BY <1>1 DEF longer
    <3>4. Cells(longer)[c] = Cells(line)[c]
      BY <3>2, <3>3 DEF Cells
    <3> QED
      BY <2>3, <3>4 DEF Cells
  <2> QED
    BY <2>2, <2>3
<1>3. Cells(longer) = [c \in Column |-> Cells(longer)[c]]
  BY DEF Cells
<1>4. [Cells(line) EXCEPT ![Len(line)] = char]
        = [c \in Column |-> [Cells(line) EXCEPT ![Len(line)] = char][c]]
  BY DEF Cells
<1> QED
  BY <1>2, <1>3, <1>4 DEF longer

\* The cursor goes to the next row.
LEMMA ShowsNext ==
  ASSUME NEW vid, NEW row \in Nat, NEW ls \in Lines, Shows(vid, row, ls)
  PROVE  Shows(vid, row + 1, Append(ls, << >>))
<1> DEFINE new == Append(ls, << >>)
<1>1. /\ Len(new) = Len(ls) + 1 /\ new[Len(ls) + 1] = << >>
      /\ \A n \in 1 .. Len(ls) : new[n] = ls[n]
  BY AppendLine, EmptySeq DEF Last
<1>2. Len(ls) \in Nat /\ Bottom \in Nat
  BY LinesFacts, ConsoleFacts
<1> HIDE DEF new
<1>3. ASSUME NEW n \in 1 .. Len(new), row + 1 - (Len(new) - n) \in 0 .. Bottom
      PROVE  vid[row + 1 - (Len(new) - n)] = Cells(new[n])
  <2>1. CASE n = Len(ls) + 1
    <3>1. row + 1 - (Len(new) - n) = row + 1 /\ row + 1 \in row + 1 .. Bottom
      BY <1>1, <1>2, <1>3, <2>1
    <3> QED
      BY <1>1, <2>1, <3>1 DEF Shows
  <2>2. CASE n # Len(ls) + 1
    <3>1. n \in 1 .. Len(ls) /\ row + 1 - (Len(new) - n) = row - (Len(ls) - n)
      BY <1>1, <1>2, <2>2
    <3> QED
      BY <1>1, <1>3, <3>1 DEF Shows
  <2> QED
    BY <2>1, <2>2
<1>4. \A r \in row + 1 + 1 .. Bottom : vid[r] = Cells(<< >>)
  BY <1>2 DEF Shows
<1> QED
  BY <1>3, <1>4 DEF Shows, new

\* The rows move up when the last line, still empty, is below the text.
LEMMA ShowsScrolled ==
  ASSUME NEW vid, NEW row \in Nat, row = Bottom + 1, NEW ls \in Lines,
         Shows(vid, row, ls), Last(ls) = << >>
  PROVE  Shows(Scrolled(vid), Bottom, ls)
<1>1. /\ Len(ls) \in Nat /\ Bottom \in Nat /\ 0 .. Bottom \subseteq Row
      /\ ls[Len(ls)] = << >>
  BY LinesFacts, ConsoleFacts DEF Row
<1>2. ASSUME NEW n \in 1 .. Len(ls), Bottom - (Len(ls) - n) \in 0 .. Bottom
      PROVE  Scrolled(vid)[Bottom - (Len(ls) - n)] = Cells(ls[n])
  <2>1. CASE n = Len(ls)
    <3>1. Bottom - (Len(ls) - n) = Bottom /\ Bottom \in Row /\ Bottom <= Info
      BY <1>1, <2>1, ConsoleFacts
    <3>2. Scrolled(vid)[Bottom] = Cleared[Bottom]
      BY <1>1, <3>1 DEF Scrolled
    <3> QED
      BY <1>1, <2>1, <3>1, <3>2, EmptyCells
  <2>2. CASE n # Len(ls)
    <3> DEFINE r == Bottom - (Len(ls) - n)
    <3>1. r \in Row /\ r < Bottom /\ r + 1 \in 0 .. Bottom
          /\ r + 1 = Bottom + 1 - (Len(ls) - n)
      BY <1>1, <1>2, <2>2
    <3>2. Scrolled(vid)[r] = vid[r + 1]
      BY <3>1 DEF Scrolled
    <3>3. vid[r + 1] = Cells(ls[n])
      <4>1. row - (Len(ls) - n) = r + 1
        BY <3>1, <1>1
      <4> QED
        BY <3>1, <4>1 DEF Shows
    <3> QED
      BY <3>2, <3>3
  <2> QED
    BY <2>1, <2>2
<1>3. \A r \in Bottom + 1 .. Bottom : FALSE
  BY <1>1
<1> QED
  BY <1>2, <1>3 DEF Shows

\* The character is written at the end of the last line.
LEMMA ShowsWritten ==
  ASSUME NEW vid \in [Row -> [Column -> Cell]], NEW row \in 0 .. Bottom, NEW ls \in Lines,
         NEW char \in Cell, Shows(vid, row, ls)
  PROVE  Shows([vid EXCEPT ![row][Len(Last(ls))] = char], row, Longer(ls, char))
<1> DEFINE new == [vid EXCEPT ![row][Len(Last(ls))] = char]
<1>1. /\ Len(ls) \in Nat /\ Len(ls) >= 1 /\ Bottom \in Nat /\ row \in Row
      /\ 0 .. Bottom \subseteq Row
      /\ Last(ls) \in Seq(Cell) /\ Last(ls) = ls[Len(ls)]
  BY LinesFacts, ConsoleFacts DEF Row
<1>2. /\ Len(Longer(ls, char)) = Len(ls)
      /\ \A n \in 1 .. Len(ls) :
           Longer(ls, char)[n] = IF n = Len(ls) THEN Append(Last(ls), char) ELSE ls[n]
  BY LongerLine
<1>3. \A r \in Row : new[r] = IF r = row THEN [vid[row] EXCEPT ![Len(Last(ls))] = char] ELSE vid[r]
  BY <1>1
<1>4. vid[row] = Cells(Last(ls))
  <2>1. Len(ls) \in 1 .. Len(ls) /\ row - (Len(ls) - Len(ls)) = row
    BY <1>1
  <2> QED
    BY <1>1, <2>1 DEF Shows
<1>5. new[row] = Cells(Append(Last(ls), char))
  BY <1>1, <1>3, <1>4, AppendCells
<1> HIDE DEF new
<1>6. ASSUME NEW n \in 1 .. Len(ls), row - (Len(ls) - n) \in 0 .. Bottom
      PROVE  new[row - (Len(ls) - n)] = Cells(Longer(ls, char)[n])
  <2>1. CASE n = Len(ls)
    <3>1. row - (Len(ls) - n) = row
      BY <1>1, <2>1
    <3> QED
      BY <1>2, <1>5, <2>1, <3>1
  <2>2. CASE n # Len(ls)
    <3>1. row - (Len(ls) - n) \in Row /\ row - (Len(ls) - n) # row
      BY <1>1, <1>6, <2>2
    <3>2. new[row - (Len(ls) - n)] = Cells(ls[n])
      BY <1>3, <1>6, <3>1 DEF Shows
    <3> QED
      BY <1>2, <2>2, <3>2
  <2> QED
    BY <2>1, <2>2
<1>7. \A r \in row + 1 .. Bottom : new[r] = Cells(<< >>)
  <2>1. \A r \in row + 1 .. Bottom : r \in Row /\ r # row
    BY <1>1
  <2> QED
    BY <1>3, <2>1 DEF Shows
<1> QED
  BY <1>2, <1>6, <1>7 DEF Shows, new

\* One character, or a newline that does not end a line below the text.
LEMMA FollowsChar ==
  ASSUME NEW s \in Screens, NEW ls \in Lines, NEW char \in Glyphs,
         Follows(s, ls), char = NL => s.y <= Bottom
  PROVE  Follows(kputc(s, char), Extended(ls, char))
<1> DEFINE row == IF Breaks(s, char) THEN s.y + 1 ELSE s.y
           col == IF Breaks(s, char) THEN 0 ELSE s.x
           vid == IF s.scrole /\ row > Bottom THEN Scrolled(s.video) ELSE s.video
           to  == IF s.scrole /\ row > Bottom THEN row - 1 ELSE row
           new == IF Len(Last(ls)) = Columns THEN Append(ls, << >>) ELSE ls
<1>1. /\ s.x \in Nat /\ s.y \in Nat /\ s.scrole /\ s.x = Len(Last(ls)) /\ s.x <= Columns
      /\ s.y <= Bottom + 1 /\ (s.y = Bottom + 1 => s.x = 0)
      /\ Shows(s.video, s.y, ls)
  BY DEF Follows, Screens
<1>2. Columns \in Nat /\ Columns >= 2 /\ Bottom \in Nat
  BY ConsoleFacts
<1>3. CASE char = NL
  <2>1. /\ kputc(s, char).video = s.video /\ kputc(s, char).x = 0
        /\ kputc(s, char).y = s.y + 1 /\ kputc(s, char).scrole = s.scrole
    BY <1>3, KputcCases
  <2>2. Extended(ls, char) = Append(ls, << >>) /\ Last(Append(ls, << >>)) = << >>
    BY <1>3, ExtendedCases, AppendLine, EmptySeq
  <2>3. Shows(s.video, s.y + 1, Append(ls, << >>))
    BY <1>1, ShowsNext
  <2>4. s.y + 1 <= Bottom + 1
    BY <1>1, <1>2, <1>3
  <2> QED
    BY <1>1, <1>2, <2>1, <2>2, <2>3, <2>4, EmptySeq DEF Follows
<1>4. CASE char # NL
  <2>0. char \in Cell
    BY <1>4 DEF Glyphs
  <2>1. /\ row \in Nat /\ to \in Nat /\ vid \in [Row -> [Column -> Cell]]
        /\ kputc(s, char).scrole = s.scrole
        /\ kputc(s, char).video = [vid EXCEPT ![to][col] = char]
        /\ kputc(s, char).x = col + 1 /\ kputc(s, char).y = to
    BY <1>4, KputcCases, Zenon
  <2>2. new \in Lines /\ Extended(ls, char) = Longer(new, char)
    BY <1>4, ExtendedCases, AppendLine, EmptySeq
  <2>3. /\ Shows(s.video, row, new) /\ col = Len(Last(new)) /\ col < Columns
        /\ row <= Bottom + 1 /\ (row = Bottom + 1 => Last(new) = << >>)
    <3>1. CASE s.x = Columns
      <4>1. row = s.y + 1 /\ col = 0 /\ s.y <= Bottom
        BY <1>1, <1>2, <3>1 DEF Breaks
      <4>2. new = Append(ls, << >>) /\ Last(new) = << >>
        BY <1>1, <3>1, AppendLine, EmptySeq
      <4>3. Shows(s.video, row, new)
        BY <1>1, <4>1, <4>2, ShowsNext
      <4> QED
        BY <1>1, <1>2, <4>1, <4>2, <4>3, EmptySeq
    <3>2. CASE s.x # Columns
      <4>1. row = s.y /\ col = s.x /\ new = ls
        BY <1>1, <1>2, <1>4, <3>2 DEF Breaks
      <4>2. row = Bottom + 1 => Last(new) = << >>
        BY <1>1, <4>1, LinesFacts, EmptySeq
      <4> QED
        BY <1>1, <1>2, <3>2, <4>1, <4>2
    <3> QED
      BY <3>1, <3>2
  <2> HIDE DEF row, col, new
  <2>4. to <= Bottom /\ Shows(vid, to, new)
    <3>1. CASE row <= Bottom
      BY <1>2, <2>1, <2>3, <3>1
    <3>2. CASE row = Bottom + 1
      <4>1. vid = Scrolled(s.video) /\ to = Bottom
        BY <1>1, <1>2, <3>2
      <4>2. Shows(Scrolled(s.video), Bottom, new)
        BY <2>1, <2>2, <2>3, <3>2, ShowsScrolled
      <4> QED
        BY <1>2, <4>1, <4>2
    <3> QED
      BY <1>2, <2>1, <2>3, <3>1, <3>2
  <2> HIDE DEF vid, to
  <2>5. Shows([vid EXCEPT ![to][col] = char], to, Longer(new, char))
    <3>1. to \in 0 .. Bottom
      BY <1>2, <2>1, <2>4
    <3> QED
      BY <2>0, <2>1, <2>2, <2>3, <2>4, <3>1, ShowsWritten
  <2>6. Len(Last(Longer(new, char))) = col + 1
    <3>1. Last(Longer(new, char)) = Append(Last(new), char) /\ Last(new) \in Seq(Cell)
      BY <2>0, <2>2, LongerLine, LinesFacts
    <3> QED
      BY <2>0, <2>3, <3>1, AppendProperties
  <2>7. col + 1 <= Columns /\ to <= Bottom + 1 /\ to # Bottom + 1
    <3>1. col \in Nat
      BY <2>2, <2>3, LinesFacts
    <3> QED
      BY <1>2, <2>1, <2>3, <2>4, <3>1
  <2> QED
    BY <1>1, <2>1, <2>2, <2>5, <2>6, <2>7 DEF Follows
<1> QED
  BY <1>3, <1>4

\* A string.
LEMMA FollowsString ==
  ASSUME NEW s \in Screens, NEW ls \in Lines, NEW string \in Seq(Glyphs), Follows(s, ls),
         \/ \A k \in 1 .. Len(string) : string[k] # NL
         \/ string = <<NL>> /\ s.y <= Bottom
  PROVE  Follows(kputs(s, string), Continued(ls, string))
<1>0. Len(string) \in Nat /\ \A k \in 1 .. Len(string) : string[k] \in Glyphs
  BY LenProperties, ElementOfSeq
<1>1. PICK f \in [0 .. Len(string) -> Screens] :
        /\ f[0] = s
        /\ \A k \in 1 .. Len(string) : f[k] = kputc(f[k - 1], string[k])
        /\ kputs(s, string) = f[Len(string)]
  BY Kputs
<1>2. PICK g \in [0 .. Len(string) -> Lines] :
        /\ g[0] = ls
        /\ \A k \in 1 .. Len(string) : g[k] = Extended(g[k - 1], string[k])
        /\ Continued(ls, string) = g[Len(string)]
  BY Continues
<1> DEFINE T == {k \in 0 .. Len(string) : Follows(f[k], g[k])}
<1>3. 0 \in T
  BY <1>0, <1>1, <1>2
<1>4. ASSUME NEW k \in 1 .. Len(string), k - 1 \in T
      PROVE  k \in T
  <2>1. k - 1 \in 0 .. Len(string) /\ k \in 0 .. Len(string) /\ string[k] \in Glyphs
    BY <1>0
  <2>2. string[k] = NL => f[k - 1].y <= Bottom
    <3>1. CASE \A j \in 1 .. Len(string) : string[j] # NL
      BY <3>1
    <3>2. CASE string = <<NL>> /\ s.y <= Bottom
      <4>1. k = 1
        BY <3>2
      <4> QED
        BY <1>1, <3>2, <4>1
    <3> QED
      BY <3>1, <3>2
  <2>3. f[k - 1] \in Screens /\ g[k - 1] \in Lines
    BY <2>1
  <2>4. Follows(kputc(f[k - 1], string[k]), Extended(g[k - 1], string[k]))
    BY <1>4, <2>1, <2>2, <2>3, FollowsChar
  <2> QED
    BY <1>1, <1>2, <2>1, <2>4
<1>5. Len(string) \in T
  <2>1. Len(string) \in 0 .. Len(string)
    BY <1>0
  <2> HIDE DEF T
  <2>2. \A k \in 0 .. Len(string) : k \in T
    BY <1>0, <1>3, <1>4, Induct, Zenon
  <2> QED
    BY <2>1, <2>2
<1> QED
  BY <1>1, <1>2, <1>5

--------------------------------------------------------------------------------
(* Numbers.                                                                *)

Digit == Range(digits)

LEMMA Digits ==
  /\ digits \in [1 .. 10 -> Digit] /\ DOMAIN digits = 1 .. 10
  /\ Digit \subseteq Cell /\ NL \notin Digit /\ Zero \notin Digit
  /\ \A d, e \in 0 .. 9 : digits[d + 1] = digits[e + 1] => d = e
<1>1. DOMAIN digits = 1 .. 10 /\ digits \in [1 .. 10 -> Digit]
  BY DEF Digit, Range, digits
<1>2. Digit = {"0", "1", "2", "3", "4", "5", "6", "7", "8", "9"}
  <2>1. \A char \in Digit : \E i \in 1 .. 10 : char = digits[i]
    BY <1>1 DEF Digit, Range
  <2>2. 1 .. 10 = {1, 2, 3, 4, 5, 6, 7, 8, 9, 10}
    OBVIOUS
  <2>3. /\ digits[1] = "0" /\ digits[2] = "1" /\ digits[3] = "2" /\ digits[4] = "3"
        /\ digits[5] = "4" /\ digits[6] = "5" /\ digits[7] = "6" /\ digits[8] = "7"
        /\ digits[9] = "8" /\ digits[10] = "9"
    BY DEF digits
  <2>4. \A i \in 1 .. 10 : digits[i] \in Digit
    BY <1>1
  <2> QED
    BY <2>1, <2>2, <2>3, <2>4
<1>3. NL \notin Digit /\ Zero \notin Digit
  BY <1>2 DEF NL, Zero
<1>4. Digit \subseteq Cell
  BY DEF Digit, Cell
<1>5. \A d, e \in 0 .. 9 : digits[d + 1] = digits[e + 1] => d = e
  <2>1. 0 .. 9 = {0, 1, 2, 3, 4, 5, 6, 7, 8, 9}
    OBVIOUS
  <2> QED
    BY <2>1 DEF digits
<1> QED
  BY <1>1, <1>3, <1>4, <1>5

\* The numerals of the numbers up to m.
Numerals(f, m) ==
  \A n \in 0 .. m :
    f[n] = IF n < 10 THEN <<digits[n + 1]>> ELSE Append(f[n \div 10], digits[(n % 10) + 1])

LEMMA NumeralsExist ==
  ASSUME NEW m \in Nat
  PROVE  \E f \in [0 .. m -> Seq(Digit)] : Numerals(f, m)
<1> DEFINE T == {k \in 0 .. m : \E f \in [0 .. k -> Seq(Digit)] : Numerals(f, k)}
<1>1. \A n \in Nat : n % 10 \in 0 .. 9 /\ (n >= 10 => n \div 10 \in 0 .. n - 1)
  OBVIOUS
<1>2. 0 \in T
  <2> DEFINE f == [n \in 0 .. 0 |-> <<digits[n + 1]>>]
  <2>1. digits[1] \in Digit
    BY Digits
  <2>2. f \in [0 .. 0 -> Seq(Digit)]
    BY <2>1
  <2>3. Numerals(f, 0)
    BY DEF Numerals
  <2> HIDE DEF f
  <2> QED
    BY <2>2, <2>3
<1>3. ASSUME NEW k \in 1 .. m, k - 1 \in T
      PROVE  k \in T
  <2>1. PICK f \in [0 .. k - 1 -> Seq(Digit)] : Numerals(f, k - 1)
    BY <1>3
  <2> DEFINE last == IF k < 10 THEN <<digits[k + 1]>> ELSE Append(f[k \div 10], digits[(k % 10) + 1])
             g == [n \in 0 .. k |-> IF n = k THEN last ELSE f[n]]
  <2>2. last \in Seq(Digit)
    <3>1. CASE k < 10
      <4>1. k + 1 \in 1 .. 10
        BY <3>1
      <4>2. digits[k + 1] \in Digit
        BY <4>1, Digits, Zenon
      <4>3. last = <<digits[k + 1]>>
        BY <3>1, Zenon
      <4> HIDE DEF last
      <4> QED
        BY <4>2, <4>3
    <3>2. CASE k >= 10
      <4>1. k \div 10 \in 0 .. k - 1 /\ (k % 10) + 1 \in 1 .. 10
        BY <1>1, <3>2
      <4>2. f[k \div 10] \in Seq(Digit) /\ digits[(k % 10) + 1] \in Digit
        BY <4>1, Digits
      <4> QED
        BY <3>2, <4>2, AppendProperties
    <3> QED
      BY <3>1, <3>2
  <2>3. \A n \in 0 .. k - 1 : g[n] = f[n]
    OBVIOUS
  <2>4. g[k] = last
    OBVIOUS
  <2>5. g \in [0 .. k -> Seq(Digit)]
    <3> HIDE DEF last
    <3> QED
      BY <2>2
  <2> HIDE DEF g
  <2>6. Numerals(g, k)
    <3>1. ASSUME NEW n \in 0 .. k
          PROVE  g[n] = IF n < 10 THEN <<digits[n + 1]>>
                                  ELSE Append(g[n \div 10], digits[(n % 10) + 1])
      <4>1. n >= 10 => g[n \div 10] = f[n \div 10]
        <5>1. n >= 10 => n \div 10 \in 0 .. k - 1
          BY <1>1
        <5> QED
          BY <2>3, <5>1
      <4>2. CASE n = k
        BY <2>4, <4>1, <4>2
      <4>3. CASE n # k
        <5>1. n \in 0 .. k - 1
          BY <4>3
        <5> QED
          <6>1. f[n] = IF n < 10 THEN <<digits[n + 1]>>
                                 ELSE Append(f[n \div 10], digits[(n % 10) + 1])
            BY <2>1, <5>1 DEF Numerals
          <6>2. g[n] = f[n]
            BY <2>3, <5>1
          <6> QED
            BY <4>1, <6>1, <6>2
      <4> QED
        BY <4>2, <4>3
    <3> QED
      BY <3>1 DEF Numerals
  <2> QED
    BY <2>5, <2>6
<1>4. m \in T
  <2>1. m \in 0 .. m
    OBVIOUS
  <2> HIDE DEF T
  <2>2. \A k \in 0 .. m : k \in T
    BY <1>2, <1>3, Induct, Zenon
  <2> QED
    BY <2>1, <2>2
<1> QED
  BY <1>4

\* What the loop of kputn goes through.
LEMMA NumeralIs ==
  ASSUME NEW number \in Int
  PROVE  /\ number % UlongSpan \in Nat
         /\ \E f \in [0 .. number % UlongSpan -> Seq(Digit)] :
              Numerals(f, number % UlongSpan) /\ Numeral(number) = f[number % UlongSpan]
<1> DEFINE m == number % UlongSpan
           numeral[n \in 0 .. m] ==
             IF n < 10 THEN <<digits[n + 1]>>
                       ELSE Append(numeral[n \div 10], digits[(n % 10) + 1])
<1>1. m \in Nat
  BY ConsoleAssumption
<1>2. Numeral(number) = numeral[m]
  BY DEF Numeral
<1> HIDE DEF m
<1>3. PICK f \in [0 .. m -> Seq(Digit)] : Numerals(f, m)
  BY <1>1, NumeralsExist, Zenon
<1>4. f = [n \in 0 .. m |-> IF n < 10 THEN <<digits[n + 1]>>
                            ELSE Append(f[n \div 10], digits[(n % 10) + 1])]
  BY <1>3 DEF Numerals
<1>5. numeral = [n \in 0 .. m |-> IF n < 10 THEN <<digits[n + 1]>>
                                  ELSE Append(numeral[n \div 10], digits[(n % 10) + 1])]
  BY <1>4, Zenon DEF numeral
<1> HIDE DEF numeral
<1> DEFINE T == {k \in 0 .. m : \A n \in 0 .. k : numeral[n] = f[n]}
<1>6. 0 \in T
  BY <1>1, <1>4, <1>5
<1>7. ASSUME NEW k \in 1 .. m, k - 1 \in T
      PROVE  k \in T
  <2>1. k >= 10 => k \div 10 \in 0 .. k - 1
    OBVIOUS
  <2>2. numeral[k] = f[k]
    <3>1. k >= 10 => numeral[k \div 10] = f[k \div 10]
      BY <1>7, <2>1
    <3>2. k \in 0 .. m
      BY <1>1
    <3> QED
      <4>1. f[k] = IF k < 10 THEN <<digits[k + 1]>>
                             ELSE Append(f[k \div 10], digits[(k % 10) + 1])
        BY <1>3, <3>2, Zenon DEF Numerals
      <4>2. numeral[k] = IF k < 10 THEN <<digits[k + 1]>>
                                   ELSE Append(numeral[k \div 10], digits[(k % 10) + 1])
        BY <1>5, <3>2, Zenon
      <4> QED
        BY <3>1, <4>1, <4>2
  <2>3. \A n \in 0 .. k : n \in 0 .. k - 1 \/ n = k
    OBVIOUS
  <2> QED
    BY <1>1, <1>7, <2>2, <2>3
<1>8. numeral[m] = f[m]
  <2>1. m \in 0 .. m
    BY <1>1
  <2>2. \A k \in 0 .. m : k \in T
    <3> HIDE DEF T
    <3> QED
      BY <1>1, <1>6, <1>7, Induct, Zenon
  <2> QED
    BY <2>1, <2>2
<1> QED
  BY <1>1, <1>2, <1>3, <1>8 DEF m

\* Reading cells from the left.
Reads(read, row) ==
  \A c \in 0 .. Columns :
    read[c] = IF c <= Len(Label) THEN 0
              ELSE IF row[c - 1] \in Digit THEN 10 * read[c - 1] + Value(row[c - 1])
              ELSE read[c - 1]

LEMMA ValueOfDigit ==
  /\ \A d \in 0 .. 9 : Value(digits[d + 1]) = d
  /\ \A char \in Digit : Value(char) \in 0 .. 9
<1>1. ASSUME NEW d \in 0 .. 9
      PROVE  Value(digits[d + 1]) = d
  <2>1. \A e \in 0 .. 9 : digits[e + 1] = digits[d + 1] <=> e = d
    BY Digits
  <2> QED
    BY <2>1, Zenon DEF Value
<1>2. ASSUME NEW char \in Digit
      PROVE  Value(char) \in 0 .. 9
  <2>1. PICK i \in 1 .. 10 : char = digits[i]
    BY Digits DEF Digit, Range
  <2>2. i - 1 \in 0 .. 9 /\ (i - 1) + 1 = i
    OBVIOUS
  <2> QED
    BY <1>1, <2>1, <2>2
<1> QED
  BY <1>1, <1>2

LEMMA ShownNumberIs ==
  ASSUME NEW row
  PROVE  \E read \in [0 .. Columns -> Nat] :
           Reads(read, row) /\ ShownNumber(row) = read[Columns]
<1> DEFINE next(c, v) ==
             IF c <= Len(Label) THEN 0
             ELSE IF row[c - 1] \in Digit THEN 10 * v + Value(row[c - 1]) ELSE v
           F == [p \in (1 .. Columns) \X Nat |-> next(p[1], p[2])]
           shown[c \in 0 .. Columns] ==
             IF c <= Len(Label) THEN 0
             ELSE IF row[c - 1] \in Digit THEN 10 * shown[c - 1] + Value(row[c - 1])
             ELSE shown[c - 1]
<1>0. Columns \in Nat /\ Len(Label) \in Nat
  BY ConsoleFacts
<1>1. ASSUME NEW c \in 1 .. Columns, NEW v \in Nat
      PROVE  next(c, v) \in Nat
  BY ValueOfDigit
<1>2. F \in [(1 .. Columns) \X Nat -> Nat]
  BY <1>1
<1>3. \A c \in 1 .. Columns, v \in Nat : F[<<c, v>>] = next(c, v)
  OBVIOUS
<1> HIDE DEF F
<1>4. PICK read \in [0 .. Columns -> Nat] : Solves(read, Columns, 0, F)
  <2>1. 0 \in Nat
    OBVIOUS
  <2> QED
    BY <1>0, <1>2, <2>1, Iterates, Zenon
<1>5. Reads(read, row)
  <2>1. ASSUME NEW c \in 0 .. Columns, c # 0
        PROVE  read[c] = next(c, read[c - 1])
    <3>1. c \in 1 .. Columns /\ c - 1 \in 0 .. Columns
      BY <1>0, <2>1
    <3>2. read[c - 1] \in Nat
      BY <3>1
    <3> QED
      BY <1>3, <1>4, <3>1, <3>2 DEF Solves
  <2>2. read[0] = 0
    BY <1>4 DEF Solves
  <2> QED
    BY <1>0, <2>1, <2>2 DEF Reads
<1>6. ShownNumber(row) = shown[Columns]
  BY DEF ShownNumber, Digit
<1>7. read = [c \in 0 .. Columns |->
               IF c <= Len(Label) THEN 0
               ELSE IF row[c - 1] \in Digit THEN 10 * read[c - 1] + Value(row[c - 1])
               ELSE read[c - 1]]
  BY <1>5 DEF Reads
<1>8. shown = [c \in 0 .. Columns |->
                IF c <= Len(Label) THEN 0
                ELSE IF row[c - 1] \in Digit THEN 10 * shown[c - 1] + Value(row[c - 1])
                ELSE shown[c - 1]]
  BY <1>7, Zenon DEF shown
<1> HIDE DEF shown
<1> DEFINE T == {c \in 0 .. Columns : shown[c] = read[c]}
<1>9. 0 \in T
  BY <1>0, <1>7, <1>8
<1>10. ASSUME NEW c \in 1 .. Columns, c - 1 \in T
       PROVE  c \in T
  <2>1. c \in 0 .. Columns /\ shown[c - 1] = read[c - 1]
    BY <1>0, <1>10
  <2>2. shown[c] = IF c <= Len(Label) THEN 0
                   ELSE IF row[c - 1] \in Digit THEN 10 * shown[c - 1] + Value(row[c - 1])
                   ELSE shown[c - 1]
    BY <1>8, <2>1, Zenon
  <2> QED
    BY <1>5, <2>1, <2>2 DEF Reads
<1>11. shown[Columns] = read[Columns]
  <2>1. Columns \in 0 .. Columns
    BY <1>0
  <2>2. \A c \in 0 .. Columns : c \in T
    <3> HIDE DEF T
    <3> QED
      BY <1>0, <1>9, <1>10, Induct, Zenon
  <2> QED
    BY <2>1, <2>2
<1> QED
  BY <1>5, <1>6, <1>11

\* A number is read as it was written.
LEMMA ReadsNumeral ==
  ASSUME NEW m \in Nat, NEW f \in [0 .. m -> Seq(Digit)], Numerals(f, m),
         NEW row, NEW read \in [0 .. Columns -> Nat], Reads(read, row),
         Len(Label) + Len(f[m]) <= Columns,
         \A i \in 1 .. Len(f[m]) : row[Len(Label) + i - 1] = f[m][i]
  PROVE  read[Len(Label) + Len(f[m])] = m
<1> DEFINE L == Len(Label)
           Written(n) == L + Len(f[n]) <= Columns
                         /\ \A i \in 1 .. Len(f[n]) : row[L + i - 1] = f[n][i]
           T == {k \in 0 .. m : \A n \in 0 .. k : Written(n) => read[L + Len(f[n])] = n}
<1>0. Columns \in Nat /\ L \in Nat
  BY ConsoleFacts
<1>1. ASSUME NEW n \in 0 .. m, n < 10, Written(n)
      PROVE  read[L + Len(f[n])] = n
  <2>1. f[n] = <<digits[n + 1]>>
    BY <1>1 DEF Numerals
  <2>2. Len(f[n]) = 1 /\ row[L] = digits[n + 1] /\ L + 1 \in 0 .. Columns
    BY <1>0, <1>1, <2>1
  <2>3. digits[n + 1] \in Digit /\ Value(digits[n + 1]) = n
    <3>1. n \in 0 .. 9 /\ n + 1 \in 1 .. 10
      BY <1>1
    <3>2. digits[n + 1] \in Digit
      BY <3>1, Digits
    <3>3. Value(digits[n + 1]) = n
      BY <3>1, ValueOfDigit, Zenon
    <3> QED
      BY <3>2, <3>3
  <2>4. read[L] = 0 /\ L \in 0 .. Columns
    BY <1>0, <2>2 DEF Reads
  <2>5. (L + 1) - 1 = L /\ ~(L + 1 <= L)
    BY <1>0
  <2>6. read[L + 1] = 10 * read[L] + Value(row[L])
    BY <2>2, <2>3, <2>5 DEF Reads
  <2> QED
    BY <2>2, <2>3, <2>4, <2>6
<1>2. 0 \in T
  <2>1. 0 \in 0 .. m
    OBVIOUS
  <2>2. \A n \in 0 .. 0 : n \in 0 .. m /\ n < 10
    OBVIOUS
  <2> HIDE DEF Written
  <2> QED
    BY <1>1, <2>1, <2>2
<1>3. ASSUME NEW k \in 1 .. m, k - 1 \in T
      PROVE  k \in T
  <2>1. ASSUME k >= 10, Written(k)
        PROVE  read[L + Len(f[k])] = k
    <3> DEFINE h == k \div 10
               d == k % 10
    <3>1. h \in 0 .. k - 1 /\ d \in 0 .. 9 /\ k = 10 * h + d /\ k \in 0 .. m
      BY <2>1
    <3>2. f[k] = Append(f[h], digits[d + 1])
      <4>1. f[k] = IF k < 10 THEN <<digits[k + 1]>>
                             ELSE Append(f[k \div 10], digits[(k % 10) + 1])
        BY <3>1, Zenon DEF Numerals
      <4>2. ~(k < 10)
        BY <2>1
      <4> QED
        BY <4>1, <4>2, Zenon
    <3>3. f[h] \in Seq(Digit) /\ digits[d + 1] \in Digit /\ Value(digits[d + 1]) = d
      <4> HIDE DEF h, d
      <4>1. h \in 0 .. m /\ d + 1 \in 1 .. 10
        BY <3>1
      <4>2. f[h] \in Seq(Digit) /\ digits[d + 1] \in Digit
        BY <4>1, Digits
      <4>3. Value(digits[d + 1]) = d
        BY <3>1, ValueOfDigit, Zenon
      <4> QED
        BY <4>2, <4>3
    <3> HIDE DEF h, d
    <3> DEFINE len == Len(f[h])
    <3>4. /\ len \in Nat /\ Len(f[k]) = len + 1
          /\ \A i \in 1 .. len : f[k][i] = f[h][i]
          /\ f[k][len + 1] = digits[d + 1]
      BY <3>2, <3>3, AppendProperties, LenProperties
    <3>5. Written(h)
      <4>1. L + len <= Columns
        BY <1>0, <2>1, <3>4
      <4>2. \A i \in 1 .. len : i \in 1 .. Len(f[k])
        BY <3>4
      <4> QED
        BY <2>1, <3>4, <4>1, <4>2
    <3>6. read[L + len] = h
      <4> HIDE DEF Written
      <4> QED
        BY <1>3, <3>1, <3>5
    <3>7. row[L + len] = digits[d + 1]
      <4>1. len + 1 \in 1 .. Len(f[k]) /\ L + (len + 1) - 1 = L + len
        BY <1>0, <3>4
      <4> QED
        BY <2>1, <3>4, <4>1
    <3>8. /\ L + len + 1 \in 0 .. Columns /\ ~(L + len + 1 <= L)
          /\ (L + len + 1) - 1 = L + len /\ L + Len(f[k]) = L + len + 1
      <4>1. L + Len(f[k]) <= Columns
        BY <2>1
      <4>2. L \in Nat /\ Columns \in Nat
        BY <1>0
      <4> HIDE DEF L, Written
      <4>3. len \in Nat /\ Len(f[k]) = len + 1
        BY <3>4
      <4> HIDE DEF len
      <4> QED
        BY <4>1, <4>2, <4>3
    <3> HIDE DEF len
    <3>9. read[L + len + 1] = 10 * read[L + len] + Value(row[L + len])
      BY <3>3, <3>7, <3>8 DEF Reads
    <3> QED
      BY <3>1, <3>3, <3>6, <3>7, <3>8, <3>9
  <2>0. k \in 0 .. m
    OBVIOUS
  <2> HIDE DEF Written
  <2>2. k < 10 /\ Written(k) => read[L + Len(f[k])] = k
    BY <1>1, <2>0
  <2>3. Written(k) => read[L + Len(f[k])] = k
    BY <2>1, <2>2
  <2>4. \A n \in 0 .. k - 1 : Written(n) => read[L + Len(f[n])] = n
    BY <1>3
  <2>5. \A n \in 0 .. k : n \in 0 .. k - 1 \/ n = k
    OBVIOUS
  <2>6. \A n \in 0 .. k : Written(n) => read[L + Len(f[n])] = n
    BY <2>3, <2>4, <2>5
  <2> QED
    BY <2>0, <2>6
<1>4. m \in T
  <2>1. m \in 0 .. m
    OBVIOUS
  <2>2. \A k \in 0 .. m : k \in T
    <3> HIDE DEF T
    <3> QED
      BY <1>2, <1>3, Induct, Zenon
  <2> QED
    BY <2>1, <2>2
<1> QED
  BY <1>4

--------------------------------------------------------------------------------
(* The info line.                                                          *)

\* The screen drawinfo prints the number on.
Labelled(vid) ==
  [video |-> [vid EXCEPT ![Info] = InfoLabel], x |-> Len(Label), y |-> Info, scrole |-> FALSE]

LEMMA InfoLabelFacts ==
  /\ InfoLabel \in [Column -> Cell]
  /\ \A c \in Column : InfoLabel[c] \notin Digit
<1>1. \A i \in DOMAIN Label : Label[i] \in Range(Label)
  BY DEF Range
<1>2. Range(Label) \subseteq Cell /\ Range(Label) \cap Digit = {}
  BY InfoAssumption DEF Cell, Digit
<1>3. Zero \in Cell /\ Zero \notin Digit
  BY Digits, ConsoleFacts
<1> QED
  BY <1>1, <1>2, <1>3 DEF InfoLabel

\* After k digits.
Drawn(t, vid, string, k) ==
  /\ ~t.scrole /\ t.y = Info /\ t.x = Len(Label) + k
  /\ \A r \in Row \ {Info} : t.video[r] = vid[r]
  /\ \A i \in 1 .. k : t.video[Info][Len(Label) + i - 1] = string[i]
  /\ \A c \in Column : c >= Len(Label) + k => t.video[Info][c] = InfoLabel[c]

LEMMA DrawsDigit ==
  ASSUME NEW vid, NEW string \in Seq(Digit), Len(Label) + Len(string) <= Columns,
         NEW k \in 1 .. Len(string), NEW t \in Screens, Drawn(t, vid, string, k - 1)
  PROVE  Drawn(kputc(t, string[k]), vid, string, k)
<1> DEFINE L == Len(Label)
           new == kputc(t, string[k])
<1>0. Columns \in Nat /\ L \in Nat /\ Info \in Row /\ Len(string) \in Nat /\ k \in Nat
  BY ConsoleFacts, LenProperties
<1>1. string[k] \in Glyphs /\ string[k] # NL
  <2>1. string[k] \in Digit
    BY ElementOfSeq
  <2> QED
    BY <2>1, Digits DEF Glyphs
<1>2. /\ t.video \in [Row -> [Column -> Cell]]
      /\ ~t.scrole /\ t.y = Info /\ t.x = L + k - 1
  BY <1>0 DEF Screens, Drawn
<1>3. L + k - 1 \in Column /\ ~(t.x > Columns - 1)
  BY <1>0, <1>2 DEF Column
<1>4. ~Breaks(t, string[k])
  BY <1>1, <1>3 DEF Breaks
<1>5. /\ new.scrole = t.scrole /\ new.x = t.x + 1 /\ new.y = t.y
      /\ new.video = [t.video EXCEPT ![Info][L + k - 1] = string[k]]
  <2>1. /\ kputc(t, string[k]).scrole = t.scrole
        /\ kputc(t, string[k]).x = t.x + 1 /\ kputc(t, string[k]).y = t.y
        /\ kputc(t, string[k]).video = [t.video EXCEPT ![t.y][t.x] = string[k]]
    BY <1>1, <1>2, <1>4, KputcInRow, Zenon
  <2> QED
    BY <1>2, <2>1
<1> HIDE DEF new
<1>6. \A r \in Row \ {Info} : new.video[r] = vid[r]
  BY <1>2, <1>5 DEF Drawn
<1>7. \A c \in Column : new.video[Info][c] = IF c = L + k - 1 THEN string[k] ELSE t.video[Info][c]
  <2>1. t.video[Info] \in [Column -> Cell]
    BY <1>0, <1>2
  <2>2. new.video[Info] = [t.video[Info] EXCEPT ![L + k - 1] = string[k]]
    BY <1>0, <1>2, <1>5
  <2> QED
    BY <2>1, <2>2
<1>8. \A i \in 1 .. k : new.video[Info][L + i - 1] = string[i]
  <2>1. TAKE i \in 1 .. k
  <2>2. L + i - 1 \in Column
    BY <1>0, <1>3 DEF Column
  <2>3. CASE i = k
    BY <1>7, <2>2, <2>3
  <2>4. CASE i # k
    <3>1. i \in 1 .. k - 1 /\ L + i - 1 # L + k - 1
      BY <1>0, <2>4
    <3>2. t.video[Info][L + i - 1] = string[i]
      BY <3>1 DEF Drawn
    <3> QED
      BY <1>7, <2>2, <3>1, <3>2
  <2> QED
    BY <2>3, <2>4
<1>9. \A c \in Column : c >= L + k => new.video[Info][c] = InfoLabel[c]
  <2>1. ASSUME NEW c \in Column, c >= L + k
        PROVE  c >= L + (k - 1) /\ c # L + k - 1
    BY <1>0, <2>1 DEF Column
  <2> QED
    BY <1>7, <2>1 DEF Drawn
<1>10. ~new.scrole /\ new.y = Info /\ new.x = L + k
  BY <1>0, <1>2, <1>5
<1> QED
  BY <1>6, <1>8, <1>9, <1>10 DEF Drawn, new

LEMMA DrawsString ==
  ASSUME NEW vid \in [Row -> [Column -> Cell]], NEW string \in Seq(Digit),
         Len(Label) + Len(string) <= Columns
  PROVE  /\ kputs(Labelled(vid), string) \in Screens
         /\ Drawn(kputs(Labelled(vid), string), vid, string, Len(string))
<1>0. Len(string) \in Nat /\ Len(Label) \in Nat /\ Info \in Row
  BY ConsoleFacts, LenProperties
<1>1. Labelled(vid) \in Screens
  <2>1. Info \in Nat
    BY <1>0 DEF Row
  <2> QED
    BY <1>0, <2>1, InfoLabelFacts DEF Labelled, Screens
<1>2. string \in Seq(Glyphs)
  BY Digits DEF Glyphs
<1>3. PICK f \in [0 .. Len(string) -> Screens] :
        /\ f[0] = Labelled(vid)
        /\ \A k \in 1 .. Len(string) : f[k] = kputc(f[k - 1], string[k])
        /\ kputs(Labelled(vid), string) = f[Len(string)]
  BY <1>1, <1>2, Kputs
<1> DEFINE T == {k \in 0 .. Len(string) : Drawn(f[k], vid, string, k)}
<1>4. 0 \in T
  <2>1. Drawn(Labelled(vid), vid, string, 0)
    BY <1>0 DEF Drawn, Labelled
  <2> QED
    BY <1>0, <1>3, <2>1
<1>5. ASSUME NEW k \in 1 .. Len(string), k - 1 \in T
      PROVE  k \in T
  <2>1. k - 1 \in 0 .. Len(string) /\ k \in 0 .. Len(string)
    BY <1>0
  <2>2. f[k - 1] \in Screens
    BY <2>1
  <2>3. Drawn(kputc(f[k - 1], string[k]), vid, string, k)
    BY <1>5, <2>2, DrawsDigit
  <2> QED
    BY <1>3, <2>1, <2>3
<1>6. Len(string) \in T
  <2>1. Len(string) \in 0 .. Len(string)
    BY <1>0
  <2> HIDE DEF T
  <2>2. \A k \in 0 .. Len(string) : k \in T
    BY <1>0, <1>4, <1>5, Induct, Zenon
  <2> QED
    BY <2>1, <2>2
<1> QED
  BY <1>0, <1>3, <1>6

\* What a reader sees after the label is the number.
LEMMA ShowsNumber ==
  ASSUME NEW vid, NEW number \in Numbers, NEW t, Drawn(t, vid, Numeral(number), Len(Numeral(number)))
  PROVE  ShownNumber(t.video[Info]) = number % UlongSpan
<1> DEFINE m == number % UlongSpan
           row == t.video[Info]
           L == Len(Label)
<1>0. Columns \in Nat /\ L \in Nat /\ number \in Int
  BY ConsoleFacts, ConsoleAssumption
<1>1. m \in Nat
  BY <1>0, NumeralIs
<1>2. PICK f \in [0 .. m -> Seq(Digit)] : Numerals(f, m) /\ Numeral(number) = f[m]
  BY <1>0, NumeralIs
<1>3. PICK read \in [0 .. Columns -> Nat] : Reads(read, row) /\ ShownNumber(row) = read[Columns]
  BY ShownNumberIs, Zenon
<1> HIDE DEF m
<1> DEFINE len == Len(f[m])
<1>4. len \in Nat /\ L + len <= Columns
  <2>1. f[m] \in Seq(Digit)
    BY <1>1
  <2> QED
    BY <1>2, <2>1, InfoAssumption, LenProperties
<1>5. \A i \in 1 .. len : row[L + i - 1] = f[m][i]
  BY <1>2 DEF Drawn
<1>6. \A c \in Column : c >= L + len => row[c] \notin Digit
  BY <1>2, InfoLabelFacts DEF Drawn
<1> HIDE DEF row
<1>7. read[L + len] = m
  BY <1>1, <1>2, <1>3, <1>4, <1>5, ReadsNumeral
<1> HIDE DEF len, L
<1> DEFINE rest == Columns - (L + len)
           T == {j \in 0 .. rest : read[L + len + j] = m}
<1>8. rest \in Nat
  BY <1>0, <1>4
<1>9. 0 \in T
  BY <1>0, <1>4, <1>7, <1>8
<1>10. ASSUME NEW j \in 1 .. rest, j - 1 \in T
       PROVE  j \in T
  <2> DEFINE c == L + len + j
  <2>1. c \in 0 .. Columns /\ c - 1 \in Column /\ c - 1 >= L + len /\ ~(c <= L) /\ j \in 0 .. rest
        /\ c - 1 = L + len + (j - 1)
    BY <1>0, <1>4 DEF Column
  <2>2. row[c - 1] \notin Digit
    BY <1>6, <2>1
  <2> HIDE DEF c
  <2>3. read[c] = read[c - 1]
    BY <1>3, <2>1, <2>2 DEF Reads, L
  <2>4. read[c - 1] = m
    BY <1>10, <2>1
  <2> QED
    BY <2>1, <2>3, <2>4 DEF c
<1>11. read[Columns] = m
  <2>1. rest \in 0 .. rest /\ L + len + rest = Columns
    BY <1>0, <1>4, <1>8
  <2>2. \A j \in 0 .. rest : j \in T
    <3> HIDE DEF T, rest
    <3> QED
      BY <1>8, <1>9, <1>10, Induct, Zenon
  <2> QED
    BY <2>1, <2>2
<1> QED
  BY <1>3, <1>11 DEF m, row

--------------------------------------------------------------------------------
(* The cursor stays in video memory.                                       *)

Fits(s, b) == s.scrole /\ s.x \in 0 .. Columns \cup Positions /\ s.y <= b

LEMMA FitsChar ==
  ASSUME NEW s \in Screens, NEW char \in Glyphs, NEW b \in Nat, b >= Bottom, Fits(s, b)
  PROVE  /\ char # NL => Fits(kputc(s, char), b)
         /\ char = NL => Fits(kputc(s, char), b + 1)
<1> DEFINE row == IF Breaks(s, char) THEN s.y + 1 ELSE s.y
           col == IF Breaks(s, char) THEN 0 ELSE s.x
           to  == IF s.scrole /\ row > Bottom THEN row - 1 ELSE row
<1>0. Columns \in Nat /\ Bottom \in Nat /\ s.y \in Nat /\ s.scrole /\ s.y <= b
  BY ConsoleFacts DEF Fits, Screens
<1>1. CASE char = NL
  <2>1. kputc(s, char).x = 0 /\ kputc(s, char).y = s.y + 1 /\ kputc(s, char).scrole = s.scrole
    BY <1>1, KputcCases
  <2> QED
    BY <1>0, <1>1, <2>1 DEF Fits
<1>2. CASE char # NL
  <2>1. /\ col \in Column /\ kputc(s, char).scrole = s.scrole
        /\ kputc(s, char).x = col + 1 /\ kputc(s, char).y = to
    BY <1>2, KputcCases, Zenon
  <2>2. to <= b
    BY <1>0
  <2> HIDE DEF col, to
  <2>3. col + 1 \in 0 .. Columns
    BY <1>0, <2>1 DEF Column
  <2> QED
    BY <1>0, <1>2, <2>1, <2>2, <2>3 DEF Fits
<1> QED
  BY <1>1, <1>2

LEMMA FitsString ==
  ASSUME NEW s \in Screens, NEW string \in Seq(Glyphs), NEW b \in Nat, b >= Bottom, Fits(s, b),
         \/ \A k \in 1 .. Len(string) : string[k] # NL
         \/ string = <<NL>>
  PROVE  kputs(s, string) \in Screens /\ Fits(kputs(s, string), b + 1)
<1>0. /\ Len(string) \in Nat /\ \A k \in 1 .. Len(string) : string[k] \in Glyphs
      /\ s.y \in Nat
  BY LenProperties, ElementOfSeq DEF Screens
<1>1. PICK f \in [0 .. Len(string) -> Screens] :
        /\ f[0] = s
        /\ \A k \in 1 .. Len(string) : f[k] = kputc(f[k - 1], string[k])
        /\ kputs(s, string) = f[Len(string)]
  BY Kputs
<1>2. CASE string = <<NL>>
  <2>1. Len(string) = 1 /\ string[1] = NL /\ NL \in Glyphs
    BY <1>2 DEF Glyphs
  <2>2. kputs(s, string) = kputc(s, NL) /\ kputs(s, string) \in Screens
    BY <1>1, <2>1
  <2> QED
    BY <2>1, <2>2, FitsChar
<1>3. CASE \A k \in 1 .. Len(string) : string[k] # NL
  <2> DEFINE T == {k \in 0 .. Len(string) : Fits(f[k], b)}
  <2>1. 0 \in T
    BY <1>0, <1>1
  <2>2. ASSUME NEW k \in 1 .. Len(string), k - 1 \in T
        PROVE  k \in T
    <3>1. k - 1 \in 0 .. Len(string) /\ k \in 0 .. Len(string)
          /\ string[k] \in Glyphs /\ string[k] # NL
      BY <1>0, <1>3
    <3>2. f[k - 1] \in Screens
      BY <3>1
    <3>3. Fits(kputc(f[k - 1], string[k]), b)
      BY <2>2, <3>1, <3>2, FitsChar
    <3> QED
      BY <1>1, <3>1, <3>3
  <2>3. Len(string) \in T /\ Len(string) \in 0 .. Len(string)
    <3>1. Len(string) \in 0 .. Len(string)
      BY <1>0
    <3> HIDE DEF T
    <3>2. \A k \in 0 .. Len(string) : k \in T
      BY <1>0, <2>1, <2>2, Induct, Zenon
    <3> QED
      BY <3>1, <3>2
  <2>4. kputs(s, string) \in Screens /\ Fits(kputs(s, string), b)
    BY <1>1, <2>3
  <2>5. kputs(s, string).y \in Nat
    BY <2>4 DEF Screens
  <2> QED
    BY <2>4, <2>5 DEF Fits
<1> QED
  BY <1>2, <1>3

--------------------------------------------------------------------------------
(* The inductive invariant.                                                *)

Invariant ==
  /\ ConsoleTypeOK
  /\ scrole
  /\ lines \in Lines
  /\ ~moved /\ ~gap => Follows(Screen, lines)

LEMMA ScreenType ==
  ASSUME ConsoleTypeOK
  PROVE  Screen \in Screens
<1>1. x \in Nat /\ y \in Nat
  BY ConsoleFacts, ConsoleAssumption DEF ConsoleTypeOK, Row
<1> QED
  BY <1>1 DEF ConsoleTypeOK, Screen, Screens

\* A cleared text area shows no lines.
LEMMA ShowsCleared ==
  ASSUME NEW vid, \A r \in 0 .. Bottom : vid[r] = Cleared[r]
  PROVE  /\ << << >> >> \in Lines /\ Last(<< << >> >>) = << >>
         /\ Shows(vid, 0, << << >> >>)
<1>1. \A r \in 0 .. Bottom : vid[r] = Cells(<< >>)
  <2>1. 0 .. Bottom \subseteq Row
    BY ConsoleFacts DEF Row
  <2> QED
    BY <2>1, EmptyCells
<1>2. << >> \in Seq(Cell)
  BY EmptySeq
<1> DEFINE ls == << << >> >>
<1>3. ls \in Seq(Seq(Cell)) /\ ls # << >> /\ Len(ls) = 1 /\ ls[1] = << >>
  BY <1>2
<1> HIDE DEF ls
<1>4. ls \in Lines /\ Last(ls) = << >>
  BY <1>3 DEF Lines, Last
<1>5. Shows(vid, 0, ls)
  <2>1. \A n \in 1 .. Len(ls) : 0 - (Len(ls) - n) = 0 /\ ls[n] = << >>
    <3>1. 1 .. Len(ls) = {1} /\ 0 - (Len(ls) - 1) = 0
      BY <1>3
    <3> QED
      BY <1>3, <3>1
  <2>2. \A r \in 0 + 1 .. Bottom : r \in 0 .. Bottom
    OBVIOUS
  <2> QED
    BY <1>1, <1>3, <2>1, <2>2 DEF Shows
<1> QED
  BY <1>4, <1>5 DEF ls

LEMMA InitInvariant == ConsoleInit => Invariant
<1> SUFFICES ASSUME ConsoleInit PROVE Invariant
  OBVIOUS
<1>1. lines \in Lines /\ Last(lines) = << >> /\ Shows(video, 0, lines)
  BY ShowsCleared DEF ConsoleInit
<1>2. ConsoleTypeOK
  <2>1. 0 \in Row /\ 0 \in 0 .. Columns
    BY ConsoleFacts DEF Row
  <2> QED
    BY <1>1, <2>1, ClearedType DEF ConsoleInit, ConsoleTypeOK, Lines
<1>3. Follows(Screen, lines)
  <2>1. Len(Last(lines)) = 0
    BY <1>1
  <2> QED
    BY <1>1, <2>1, ConsoleFacts DEF Follows, Screen, ConsoleInit
<1> QED
  BY <1>1, <1>2, <1>3 DEF Invariant, ConsoleInit

LEMMA PrintStep ==
  ASSUME Invariant, NEW string \in Seq(Glyphs), kprintf(string),
         \/ \A k \in 1 .. Len(string) : string[k] # NL
         \/ string = <<NL>>
  PROVE  Invariant'
<1> DEFINE s == kputs(Screen, string)
           b == IF y <= Bottom THEN Bottom ELSE y
<1>0. /\ ConsoleTypeOK /\ Screen \in Screens /\ lines \in Lines
      /\ Bottom \in Nat /\ MemRows \in Nat /\ MemRows >= Bottom + 3 /\ y \in Nat /\ y < MemRows - 2
  <2>1. y \in Nat
    BY ConsoleAssumption, ConsoleFacts DEF Invariant, ConsoleTypeOK, Row
  <2> QED
    BY <2>1, ScreenType, ConsoleFacts DEF Invariant, kprintf
<1>1. b \in Nat /\ b >= Bottom /\ y <= b /\ b + 1 < MemRows
  BY <1>0
<1>2. Fits(Screen, b)
  BY <1>1 DEF Fits, Screen, Invariant, ConsoleTypeOK
<1> HIDE DEF b
<1>3. s \in Screens /\ Fits(s, b + 1)
  BY <1>0, <1>1, <1>2, FitsString
<1>4. video' = s.video /\ x' = s.x /\ y' = s.y /\ scrole' = s.scrole
      /\ lines' = Continued(lines, string)
      /\ gap' = (gap \/ (string = <<NL>> /\ y > Bottom)) /\ moved' = moved
  BY DEF kprintf, Show
<1>5. lines' \in Lines
  <2>1. PICK g \in [0 .. Len(string) -> Lines] : Continued(lines, string) = g[Len(string)]
    BY <1>0, Continues
  <2>2. Len(string) \in 0 .. Len(string)
    BY LenProperties
  <2> QED
    BY <1>4, <2>1, <2>2
<1>6. ~moved' /\ ~gap' => Follows(s, lines')
  <2>1. SUFFICES ASSUME ~moved', ~gap' PROVE Follows(s, lines')
    OBVIOUS
  <2>2. Follows(Screen, lines)
    BY <1>4, <2>1 DEF Invariant
  <2>3. string = <<NL>> => Screen.y <= Bottom
    <3>1. string = <<NL>> => ~(y > Bottom)
      BY <1>4, <2>1, Zenon
    <3> QED
      BY <1>0, <3>1 DEF Screen
  <2> QED
    BY <1>0, <1>4, <2>2, <2>3, FollowsString
<1> HIDE DEF s
<1>7. y' \in Row /\ x' \in 0 .. Columns \cup Positions /\ scrole'
  BY <1>0, <1>1, <1>3, <1>4 DEF Fits, Screens, Row
<1>8. ConsoleTypeOK'
  <2>1. video' \in [Row -> [Column -> Cell]]
    BY <1>3, <1>4 DEF Screens
  <2>2. moved' \in BOOLEAN /\ gap' \in BOOLEAN
    BY <1>4 DEF Invariant, ConsoleTypeOK
  <2> QED
    BY <1>5, <1>7, <2>1, <2>2 DEF ConsoleTypeOK, Lines
<1>9. Screen' = s
  BY <1>3, <1>4 DEF Screen, Screens
<1> QED
  BY <1>5, <1>6, <1>7, <1>8, <1>9 DEF Invariant


\* The timer handler.
LEMMA DrawStep ==
  ASSUME Invariant, NEW tcount \in Numbers, drawinfo(tcount)
  PROVE  /\ Invariant'
         /\ \A r \in Row \ {Info} : video'[r] = video[r]
         /\ <<x, y, scrole>>' = <<x, y, scrole>>
         /\ ShownNumber(video'[Info]) = tcount % UlongSpan
<1> DEFINE string == Numeral(tcount)
           s == kputs(Labelled(video), string)
<1>0. /\ ConsoleTypeOK /\ video \in [Row -> [Column -> Cell]] /\ scrole
      /\ Bottom \in Nat /\ 0 .. Bottom \subseteq Row \ {Info}
      /\ tcount \in Int
  BY ConsoleFacts, ConsoleAssumption DEF Invariant, ConsoleTypeOK, Row, Info
<1>1. string \in Seq(Digit) /\ Len(Label) + Len(string) <= Columns
  <2>1. PICK f \in [0 .. tcount % UlongSpan -> Seq(Digit)] : Numeral(tcount) = f[tcount % UlongSpan]
    BY <1>0, NumeralIs
  <2>2. tcount % UlongSpan \in 0 .. tcount % UlongSpan
    BY <1>0, NumeralIs
  <2> QED
    BY <2>1, <2>2, InfoAssumption
<1>2. s \in Screens /\ Drawn(s, video, string, Len(string))
  BY <1>0, <1>1, DrawsString
<1>3. /\ video' = s.video /\ x' = x /\ y' = y /\ scrole' = TRUE
      /\ lines' = lines /\ moved' = moved /\ gap' = gap
  <2>1. \A t \in Screens : /\ [t EXCEPT !.x = x, !.y = y, !.scrole = TRUE].video = t.video
                           /\ [t EXCEPT !.x = x, !.y = y, !.scrole = TRUE].x = x
                           /\ [t EXCEPT !.x = x, !.y = y, !.scrole = TRUE].y = y
                           /\ [t EXCEPT !.x = x, !.y = y, !.scrole = TRUE].scrole = TRUE
    BY DEF Screens
  <2>2. Show([s EXCEPT !.x = x, !.y = y, !.scrole = TRUE]) /\ UNCHANGED history
    BY DEF drawinfo, Labelled
  <2> HIDE DEF s
  <2> QED
    BY <1>2, <2>1, <2>2 DEF Show, history
<1>4. \A r \in Row \ {Info} : video'[r] = video[r]
  BY <1>2, <1>3 DEF Drawn
<1>5. ShownNumber(video'[Info]) = tcount % UlongSpan
  BY <1>2, <1>3, ShowsNumber
<1>6. video' \in [Row -> [Column -> Cell]]
  <2> HIDE DEF s
  <2> QED
    BY <1>2, <1>3 DEF Screens
<1> HIDE DEF s, string
<1>7. ConsoleTypeOK'
  BY <1>0, <1>3, <1>6 DEF ConsoleTypeOK
<1>8. ASSUME Follows(Screen, lines)
      PROVE  Follows(Screen, lines)'
  <2>1. \A n \in 1 .. Len(lines) : y - (Len(lines) - n) \in 0 .. Bottom =>
          video'[y - (Len(lines) - n)] = Cells(lines[n])
    BY <1>0, <1>4, <1>8 DEF Follows, Shows, Screen
  <2>2. \A r \in y + 1 .. Bottom : video'[r] = Cells(<< >>)
    <3>1. y \in Nat
      BY <1>0, ConsoleAssumption DEF ConsoleTypeOK, Row
    <3>2. \A r \in y + 1 .. Bottom : r \in 0 .. Bottom
      BY <1>0, <3>1
    <3> QED
      BY <1>0, <1>4, <1>8, <3>2 DEF Follows, Shows, Screen
  <2>3. Shows(video', y, lines)
    BY <2>1, <2>2 DEF Shows
  <2> QED
    BY <1>3, <1>8, <2>3 DEF Follows, Screen
<1>9. <<x, y, scrole>>' = <<x, y, scrole>>
  BY <1>0, <1>3
<1> QED
  BY <1>3, <1>4, <1>5, <1>7, <1>8, <1>9 DEF Invariant

LEMMA ClearStep ==
  ASSUME Invariant, Clrscr
  PROVE  Invariant'
<1>1. video' \in [Row -> [Column -> Cell]]
  BY ClearedType DEF Invariant, ConsoleTypeOK, Clrscr
<1>2. \A r \in 0 .. Bottom : video'[r] = Cleared[r]
  <2>1. \A r \in 0 .. Bottom : r \in Row /\ r <= Info
    BY ConsoleFacts DEF Row
  <2> QED
    BY <2>1 DEF Clrscr
<1>3. lines' \in Lines /\ Last(lines') = << >> /\ Shows(video', 0, lines')
  BY <1>2, ShowsCleared DEF Clrscr
<1>4. ConsoleTypeOK'
  <2>1. 0 \in Row /\ 0 \in 0 .. Columns
    BY ConsoleFacts DEF Row
  <2> QED
    BY <1>1, <1>3, <2>1 DEF Invariant, ConsoleTypeOK, Clrscr, Lines
<1>5. Follows(Screen, lines)'
  <2>1. Len(Last(lines')) = 0
    BY <1>3
  <2> QED
    BY <1>3, <2>1, ConsoleFacts DEF Follows, Screen, Clrscr, Invariant
<1> QED
  BY <1>3, <1>4, <1>5 DEF Invariant, Clrscr

LEMMA StepInvariant == Invariant /\ [ConsoleNext]_consoleVars => Invariant'
<1> SUFFICES ASSUME Invariant, [ConsoleNext]_consoleVars PROVE Invariant'
  OBVIOUS
<1>1. ASSUME NEW char \in Chars \cup {NL}, Putc(char)
      PROVE  Invariant'
  <2>1. char \in Glyphs
    BY DEF Glyphs, Cell
  <2>2. <<char>> \in Seq(Glyphs) /\ Len(<<char>>) = 1 /\ <<char>>[1] = char
    BY <2>1
  <2>3. \/ \A k \in 1 .. Len(<<char>>) : <<char>>[k] # NL
        \/ <<char>> = <<NL>>
    BY <2>2
  <2> QED
    BY <1>1, <2>2, <2>3, PrintStep DEF Putc
<1>2. ASSUME NEW number \in Numbers, Pnum(number)
      PROVE  Invariant'
  <2>1. Numeral(number) \in Seq(Digit)
    <3>1. number \in Int
      BY ConsoleAssumption
    <3>2. PICK f \in [0 .. number % UlongSpan -> Seq(Digit)] : Numeral(number) = f[number % UlongSpan]
      BY <3>1, NumeralIs
    <3>3. number % UlongSpan \in 0 .. number % UlongSpan
      BY <3>1, NumeralIs
    <3> QED
      BY <3>2, <3>3
  <2>2. Numeral(number) \in Seq(Glyphs)
    BY <2>1, Digits DEF Glyphs
  <2>3. \A k \in 1 .. Len(Numeral(number)) : Numeral(number)[k] # NL
    BY <2>1, Digits, ElementOfSeq
  <2> QED
    BY <1>2, <2>2, <2>3, PrintStep DEF Pnum
<1>3. ASSUME NEW i \in Positions, Setx(i) \/ Sety(i)
      PROVE  Invariant'
  BY <1>3 DEF Invariant, ConsoleTypeOK, Setx, Sety
<1>4. CASE UNCHANGED consoleVars
  BY <1>4 DEF Invariant, ConsoleTypeOK, consoleVars, history, Follows, Screen, Shows
<1> QED
  BY <1>1, <1>2, <1>3, <1>4, ClearStep, DrawStep DEF ConsoleNext

--------------------------------------------------------------------------------

\* As long as nobody else moves the cursor, kputs keeps it where the text on the
\* screen ends, with nothing in the rows below.
THEOREM Invariance == ConsoleSpec => []Invariant
<1> QED
  BY InitInvariant, StepInvariant, PTL DEF ConsoleSpec

\* The cursor stays in the memory behind the screen, or where a program put
\* it, and every row is made of what was printed.
THEOREM TypeCorrect == ConsoleSpec => []ConsoleTypeOK
<1>1. Invariant => ConsoleTypeOK
  BY DEF Invariant
<1> QED
  BY <1>1, Invariance, PTL

\* Wrapping, scrolling and the timer handler lose nothing of the end of what
\* was printed, whatever the size of the screen and the numbers.
THEOREM ShowsTailCorrect == ConsoleSpec => []ShowsTail
<1>1. Invariant => ShowsTail
  <2> SUFFICES ASSUME Invariant, ~moved, ~gap, NEW n \in DOMAIN lines,
                      y - (Len(lines) - n) \in 0 .. Bottom
               PROVE  video[y - (Len(lines) - n)] = Cells(lines[n])
    BY DEF ShowsTail
  <2>1. lines \in Lines /\ Shows(video, y, lines)
    BY DEF Invariant, Follows, Screen
  <2>2. n \in 1 .. Len(lines)
    BY <2>1, LinesFacts
  <2> QED
    BY <2>1, <2>2 DEF Shows
<1> QED
  BY <1>1, Invariance, PTL

\* The timer handler leaves text and cursor alone, and the number that can be
\* read from the info line is the one it was given.
THEOREM InfoDrawnCorrect == ConsoleSpec => InfoDrawn
<1>1. Invariant /\ [ConsoleNext]_consoleVars =>
        [\A tcount \in Numbers : drawinfo(tcount) =>
           /\ \A r \in Row \ {Info} : video'[r] = video[r]
           /\ <<x, y, scrole>>' = <<x, y, scrole>>
           /\ ShownNumber(video'[Info]) = tcount % UlongSpan]_consoleVars
  BY DrawStep
<1> QED
  BY <1>1, Invariance, PTL DEF ConsoleSpec, InfoDrawn
================================================================================
