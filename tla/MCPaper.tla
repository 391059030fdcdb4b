------------------------------ MODULE MCPaper ------------------------------
(***************************************************************************)
(* Instances for TLC of the parts of Paper: the run checks each of them by *)
(* itself, as a behaviour moves one.                                       *)
(***************************************************************************)
EXTENDS Paper, TLC

\* The headings of render.py, and every kind of block.
Headings == {14, 32, 54}
Blocks == {"blank", "rule", "double", "heading", "styled", "text", "big", "bullet", "checkbox",
           "pre", "scissors"}

\* Two words that fit a line together and one that only fits alone, a "!!!"
\* and a "```".
SomeWords == {[len |-> 2, is |-> "word"], [len |-> 5, is |-> "word"],
              [len |-> 3, is |-> "cut"], [len |-> 3, is |-> "fence"]}
Directives == {"blank", "rule", "double", "cut", "h1", "h2", "centered", "bullet", "todo",
               "styled", "fence", "plain"}

\* Sizes around every limit: empty, a single pixel, a single row, scaled up past
\* the height limit, just as tall as allowed, both half-way roundings there, and
\* past the pixel limit; no caption, and 160 wide letters on narrow paper.
Papers   == {384, 576}
Asked    == {-5, 100, 9999}
Uploads  == {<<0, 5>>, <<1, 1>>, <<5000, 1>>, <<100, 1000>>, <<576, 4096>>, <<1152, 8193>>,
             <<1152, 8195>>, <<6000, 5001>>}
Drawings == {<<1, 1>>, <<1152, 8193>>, <<1152, 8195>>}

\* A 4 x 4 template with one solution, with every permutation.
Grid(n, g) == [r \in 0..(n - 1) |-> [c \in 0..(n - 1) |-> g[r + 1][c + 1]]]
SmallClues == Grid(4, << <<1, 2, 0, 0>>, <<0, 0, 0, 0>>, <<2, 0, 0, 0>>, <<0, 0, 0, 3>> >>)
SmallGrid  == Grid(4, << <<1, 2, 3, 4>>, <<3, 4, 1, 2>>, <<2, 3, 4, 1>>, <<4, 1, 2, 3>> >>)

\* The solved grids of boxes of 2 (288 of them): two bands, each of two rows whose
\* boxes share no digit, and in no column a digit of both.
Band   == {<<p, q>> : p, q \in Permutations(1..4)}
Bands  == {b \in Band : \A i \in {1, 3} : {b[1][i], b[1][i + 1]} \cap {b[2][i], b[2][i + 1]} = {}}
Solved ==
  {Grid(4, s[1] \o s[2]) : s \in {<<a, b>> \in Bands \X Bands :
     \A c \in 1..4 : {a[1][c], a[2][c]} \cap {b[1][c], b[2][c]} = {}}}

\* The program's own 9 x 9 template, with rotations.
RealClues == Grid(9, <<
  <<5,3,0,0,7,0,0,0,0>>, <<6,0,0,1,9,5,0,0,0>>, <<0,9,8,0,0,0,0,6,0>>,
  <<8,0,0,0,6,0,0,0,3>>, <<4,0,0,8,0,3,0,0,1>>, <<7,0,0,0,2,0,0,0,6>>,
  <<0,6,0,0,0,0,2,8,0>>, <<0,0,0,4,1,9,0,0,5>>, <<0,0,0,0,8,0,0,7,9>> >>)
RealGrid == Grid(9, <<
  <<5,3,4,6,7,8,9,1,2>>, <<6,7,2,1,9,5,3,4,8>>, <<1,9,8,3,4,2,5,6,7>>,
  <<8,5,9,7,6,1,4,2,3>>, <<4,2,6,8,5,3,7,9,1>>, <<7,1,3,9,2,4,8,5,6>>,
  <<9,6,1,5,3,7,2,8,4>>, <<2,8,7,4,1,9,6,3,5>>, <<3,4,5,2,8,6,1,7,9>> >>)

Templates ==
  [small |->
    [box |-> 2, clues |-> SmallClues, solution |-> SmallGrid, orders |-> Permutations(0..1),
     digitOrders |-> Permutations(1..4), rivals |-> Solved],
   real |->
    [box |-> 3, clues |-> RealClues, solution |-> RealGrid,
     orders |-> {[i \in 0..2 |-> (i + k) % 3] : k \in 0..1},
     digitOrders |-> {[n \in 1..9 |-> ((n + k) % 9) + 1] : k \in {2, 8}}, rivals |-> {}]]

\* A square so small that the words get in each other's way; two of them cross.
NatureWords == {<<"s", "u", "n">>, <<"l", "e", "a">>, <<"u", "p", "e">>}

\* One start for each part: what the others begin with does not matter.
MCPaperInit ==
  /\ PaperInit
  /\ part = "pictures" \/ width = 576
  /\ part = "sudoku" \/ template = "small"
  /\ part = "words" \/ words = CHOOSE s \in WordSearch!Selections : TRUE
MCPaperSpec == MCPaperInit /\ [][PaperNext]_paperVars
=============================================================================
