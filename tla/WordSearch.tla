----------------------------- MODULE WordSearch -----------------------------
(***************************************************************************)
(* arcade._wordsearch: words are hidden one after the other wherever they  *)
(* fit what is there; when one fits nowhere all are put in rows of their   *)
(* own.  The random stream's choices are nondeterministic.                 *)
(***************************************************************************)
EXTENDS Integers, Sequences, FiniteSets

CONSTANTS
  Size,      \* side of the grid
  Words,     \* _WORDS: sequences of letters
  Count      \* how many of them a puzzle hides

Blank  == "blank"
Filler == "filler"

\* What the constants may be.
WordSearchAssumption ==
  /\ Size \in Nat \ {0} /\ Count \in 1..Size /\ Count <= Cardinality(Words)
  /\ \A w \in Words : w \in Seq(STRING \ {Blank}) /\ Len(w) \in 2..Size

Side == 0..(Size - 1)
Cell == Side \X Side
Directions == ((-1..1) \X (-1..1)) \ {<<0, 0>>}

VARIABLES
  words,        \* the chosen words, in the order they are hidden
  grid,         \* letters
  placements,   \* sequence of [word, cells]
  pc

vars == <<words, grid, placements, pc>>

Selections == {s \in [1..Count -> Words] : \A i, j \in 1..Count : s[i] = s[j] => i = j}
Empty   == [x \in Cell |-> Blank]

Init == words \in Selections /\ grid = Empty /\ placements = <<>> /\ pc = "hide"

\* The cells a word takes from a cell on in a direction.
Cells(word, from, dir) == [i \in 1..Len(word) |-> <<from[1] + (i - 1) * dir[1], from[2] + (i - 1) * dir[2]>>]
Candidates(word) ==
  {cells \in {Cells(word, from, dir) : from \in Cell, dir \in Directions} : cells[Len(word)] \in Cell}

Fits(word, cells) == \A i \in 1..Len(word) : grid[cells[i]] \in {Blank, word[i]}

Written(g, word, cells) ==
  [x \in Cell |-> IF \E i \in 1..Len(word) : cells[i] = x
                  THEN word[CHOOSE i \in 1..Len(word) : cells[i] = x] ELSE g[x]]

Placing == words[Len(placements) + 1]

\* The first candidate of a shuffle that fits: any that does.
Hide ==
  /\ pc = "hide" /\ Len(placements) < Count
  /\ \E cells \in Candidates(Placing) :
       /\ Fits(Placing, cells) /\ grid' = Written(grid, Placing, cells)
       /\ placements' = Append(placements, [word |-> Placing, cells |-> cells])
  /\ UNCHANGED <<words, pc>>

\* When none fits, all begins again.
Fallback ==
  /\ pc = "hide" /\ Len(placements) < Count /\ \A cells \in Candidates(Placing) : ~Fits(Placing, cells)
  /\ grid' = Empty /\ placements' = <<>> /\ pc' = "rows" /\ UNCHANGED words

\* The rows come from a shuffle: none twice.
Fresh(row) == \A i \in DOMAIN placements : placements[i].cells[1][1] # row

\* Each word in a row of its own, at some column where it ends inside.
HideInRow ==
  /\ pc = "rows" /\ Len(placements) < Count
  /\ \E row \in Side, col \in Side :
       LET cells == Cells(Placing, <<row, col>>, <<0, 1>>) IN
       /\ Fresh(row) /\ col + Len(Placing) <= Size /\ grid' = Written(grid, Placing, cells)
       /\ placements' = Append(placements, [word |-> Placing, cells |-> cells])
  /\ UNCHANGED <<words, pc>>

\* Every blank becomes a letter.
Fill ==
  /\ pc \in {"hide", "rows"} /\ Len(placements) = Count /\ pc' = "done"
  /\ grid' = [x \in Cell |-> IF grid[x] = Blank THEN Filler ELSE grid[x]]
  /\ UNCHANGED <<words, placements>>

Done == pc = "done" /\ UNCHANGED vars

Next == Hide \/ Fallback \/ HideInRow \/ Fill \/ Done

Spec == Init /\ [][Next]_vars

-----------------------------------------------------------------------------
(* Properties                                                              *)

\* What is hidden stays readable: no word is overwritten by a later one, by the
\* fallback or by the filling.
WordsReadable ==
  \A i \in DOMAIN placements : \A k \in DOMAIN placements[i].word :
    grid[placements[i].cells[k]] = placements[i].word[k]

\* The puzzle asks for the words it hides: each once, in a straight line.
EveryWordHidden ==
  pc = "done" =>
    /\ {placements[i].word : i \in DOMAIN placements} = {words[i] : i \in 1..Count}
    /\ Len(placements) = Count
    /\ \A i \in DOMAIN placements :
         LET c == placements[i].cells IN
         \E d \in Directions : \A k \in 2..Len(c) : c[k] = <<c[k - 1][1] + d[1], c[k - 1][2] + d[2]>>
=============================================================================
