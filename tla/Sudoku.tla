------------------------------- MODULE Sudoku -------------------------------
(***************************************************************************)
(* arcade._sudoku: one verified puzzle, disguised by permuting its digits, *)
(* its bands and stacks, the rows and columns within them, and by          *)
(* transposing it.  Rows, columns and boxes are numbered from 0.           *)
(*                                                                         *)
(* A template is a record: the side of its boxes, its clues (0 where it is *)
(* blank), its solution, and three bounds: the permutations of a band or   *)
(* of the bands that are tried, those of the digits, and the solved grids  *)
(* that are tried as other solutions.                                      *)
(***************************************************************************)
EXTENDS Integers, FiniteSets, Functions

CONSTANTS
  Name,      \* names of templates
  Template   \* [Name -> [box, clues, solution, orders, digitOrders, rivals]]

VARIABLES
  template,             \* name of _SUDOKU and _SUDOKU_SOLUTION; it stays
  digits, rows, cols,   \* the draws of the random stream, in its order
  grid, solution,       \* the puzzle and its solution, once made
  pc

vars == <<template, digits, rows, cols, grid, solution, pc>>

-----------------------------------------------------------------------------
(* Grids of boxes of side b                                                *)

Line(b)   == 0..(b * b - 1)
Digit(b)  == 1..(b * b)
Grids(b)  == [Line(b) -> [Line(b) -> 0..(b * b)]]
Orders(b) == Bijection(0..(b - 1), 0..(b - 1))

Box(b, i) == {x \in Line(b) \X Line(b) : x[1] \div b = i \div b /\ x[2] \div b = i % b}

\* Every row, column and box of a grid has every digit.
Solves(b, g) ==
  \A i \in Line(b) : /\ {g[i][c] : c \in Line(b)} = Digit(b) /\ {g[r][i] : r \in Line(b)} = Digit(b)
                     /\ {g[x[1]][x[2]] : x \in Box(b, i)} = Digit(b)

Completes(b, g, clues) == \A r, c \in Line(b) : clues[r][c] \in {0, g[r][c]}
ClueCount(b, g) == Cardinality({x \in Line(b) \X Line(b) : g[x[1]][x[2]] # 0})

\* What the constants may be.
SudokuAssumption ==
  \A name \in Name :
    LET t == Template[name] IN
    /\ t.box \in Nat \ {0} /\ t.clues \in Grids(t.box) /\ t.solution \in Grids(t.box)
    /\ Solves(t.box, t.solution) /\ Completes(t.box, t.solution, t.clues)
    /\ t.orders \subseteq Orders(t.box) /\ t.digitOrders \subseteq Bijection(Digit(t.box), Digit(t.box))
    /\ \A g \in t.rivals : g \in Grids(t.box) /\ Solves(t.box, g)

-----------------------------------------------------------------------------
(* The disguise                                                            *)

T == Template[template]
B == T.box

\* Mutant of Lines: the bands are not the rows' own.
LinesShifted(bands, within) == [i \in Line(B) |-> (B * bands[i \div B] + within[i \div B][i % B] + 1) % (B * B)]

\* [b * 3 + r for b in shuffled bands for r in a shuffle of its rows]
Lines(bands, within) == [i \in Line(B) |-> B * bands[i \div B] + within[i \div B][i % B]]

LineOrders ==
  {Lines(bands, within) : bands \in T.orders, within \in [0..(B - 1) -> T.orders]}

Init ==
  /\ template \in Name /\ digits = <<>> /\ rows = <<>> /\ cols = <<>> /\ pc = "digits"
  /\ grid = T.clues /\ solution = T.solution

\* digits = [0] + shuffled: a blank stays one.
DrawDigits ==
  /\ pc = "digits" /\ pc' = "rows" /\ UNCHANGED <<template, rows, cols, grid, solution>>
  /\ digits' \in {[n \in 0..(B * B) |-> IF n = 0 THEN 0 ELSE d[n]] : d \in T.digitOrders}
DrawRows ==
  pc = "rows" /\ rows' \in LineOrders /\ pc' = "cols" /\ UNCHANGED <<template, digits, cols, grid, solution>>
DrawCols ==
  pc = "cols" /\ cols' \in LineOrders /\ pc' = "make" /\ UNCHANGED <<template, digits, rows, grid, solution>>

Transform(source, transpose) ==
  [r \in Line(B) |-> [c \in Line(B) |-> digits[IF transpose THEN source[rows[c]][cols[r]]
                                                            ELSE source[rows[r]][cols[c]]]]]

\* The same transformation for the clues and for the solution.
Make ==
  /\ pc = "make" /\ pc' = "done" /\ UNCHANGED <<template, digits, rows, cols>>
  /\ \E transpose \in BOOLEAN : /\ grid' = Transform(T.clues, transpose)
                                /\ solution' = Transform(T.solution, transpose)

Made == pc = "done" /\ UNCHANGED vars

Next == DrawDigits \/ DrawRows \/ DrawCols \/ Make \/ Made

Spec == Init /\ [][Next]_vars

-----------------------------------------------------------------------------
(* Properties                                                              *)

\* Whatever is drawn, the solution solves the puzzle, and as many clues are
\* given as the template has.
SolutionSolves ==
  /\ Solves(B, solution) /\ Completes(B, solution, grid)
  /\ ClueCount(B, grid) = ClueCount(B, T.clues)

\* "... this preserves its single solution": a disguised puzzle has no other.
OneSolution == pc = "done" => \A g \in T.rivals : Completes(B, g, grid) => g = solution
=============================================================================
