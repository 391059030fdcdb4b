-------------------------------- MODULE Maze --------------------------------
(***************************************************************************)
(* arcade._maze: a depth-first walk carves passages between the cells of a *)
(* square until each has been seen; the way from the last cell back to the *)
(* first is the solution.                                                  *)
(***************************************************************************)
EXTENDS Integers, Sequences, FiniteSets, SequencesExt

CONSTANT Size    \* side of the square

\* What the constants may be.
MazeAssumption == Size \in Nat /\ Size > 1

Side == 0..(Size - 1)
Cell == Side \X Side
Root == <<0, 0>>
Exit == <<Size - 1, Size - 1>>

\* The wall bits, each with its step and the bit the other side has.
Wall     == {"N", "E", "S", "W"}
Step     == [N |-> <<-1, 0>>, E |-> <<0, 1>>, S |-> <<1, 0>>, W |-> <<0, -1>>]
Opposite == [N |-> "S", E |-> "W", S |-> "N", W |-> "E"]
Beyond(cell, w) == <<cell[1] + Step[w][1], cell[2] + Step[w][2]>>

VARIABLES walls, seen, stack, parent, path, pc

vars == <<walls, seen, stack, parent, path, pc>>

Init ==
  /\ walls = [c \in Cell |-> Wall] /\ seen = {Root} /\ stack = <<Root>>
  /\ parent = [c \in Cell |-> c] /\ path = <<Exit>> /\ pc = "carve"

Options(cell) == {w \in Wall : Beyond(cell, w) \in Cell \ seen}

\* Mutant of Opened: the other side of the passage stays walled.
OpenedHalf(cell, w) == [walls EXCEPT ![cell] = @ \ {w}]

Opened(cell, w) == [walls EXCEPT ![cell] = @ \ {w}, ![Beyond(cell, w)] = @ \ {Opposite[w]}]

\* A turn of the loop: on to a cell not seen, or back when there is none.
Carve ==
  LET top == Last(stack) IN
  /\ pc = "carve" /\ stack # <<>>
  /\ \E w \in Options(top) :
       LET next == Beyond(top, w) IN
       /\ walls' = Opened(top, w) /\ seen' = seen \cup {next}
       /\ parent' = [parent EXCEPT ![next] = top] /\ stack' = Append(stack, next)
  /\ UNCHANGED <<path, pc>>

Backed == Front(stack)

Back ==
  /\ pc = "carve" /\ stack # <<>> /\ Options(Last(stack)) = {} /\ stack' = Backed
  /\ UNCHANGED <<walls, seen, parent, path, pc>>

\* The solution, from the exit back; then the two openings in the border.
Trace ==
  /\ pc = "carve" /\ stack = <<>> /\ path[1] # Root /\ path' = <<parent[path[1]]>> \o path
  /\ UNCHANGED <<walls, seen, stack, parent, pc>>
OpenEnds ==
  /\ pc = "carve" /\ stack = <<>> /\ path[1] = Root /\ pc' = "done"
  /\ walls' = [walls EXCEPT ![Root] = @ \ {"N"}, ![Exit] = @ \ {"S"}]
  /\ UNCHANGED <<seen, stack, parent, path>>

Done == pc = "done" /\ UNCHANGED vars

Next == Carve \/ Back \/ Trace \/ OpenEnds \/ Done

Spec == Init /\ [][Next]_vars

\* The function runs until it returns.
FairSpec == Spec /\ WF_vars(Next)

-----------------------------------------------------------------------------
(* Properties                                                              *)

\* Both cells of a passage agree on it, and the border is closed but for the
\* two openings.
WallsAgree ==
  \A c \in Cell, w \in Wall :
    IF Beyond(c, w) \in Cell THEN (w \in walls[c]) <=> (Opposite[w] \in walls[Beyond(c, w)])
    ELSE w \notin walls[c] => pc = "done" /\ <<c, w>> \in {<<Root, "N">>, <<Exit, "S">>}

\* The cells one passage away.
Joined(c) == {Beyond(c, w) : w \in Wall \ walls[c]} \cap Cell

\* No passage leads out of a set of cells.
Closed(cells) == \A c \in cells : Joined(c) \subseteq cells

Passages == {{x[1], x[2]} : x \in {y \in Cell \X Cell : y[2] \in Joined(y[1])}}

\* "Mazes have one path between every pair of cells": what has been carved joins
\* the cells seen to the root and to no others, with one passage less than there
\* are cells (it is a tree), and in the end those are all.
OnePath ==
  /\ Closed(seen) /\ \A cells \in SUBSET Cell : Root \in cells /\ Closed(cells) => seen \subseteq cells
  /\ Cardinality(Passages) = Cardinality(seen) - 1
  /\ pc = "done" => seen = Cell

\* The solution goes through passages, from the opening to the exit, and visits
\* no cell twice.
SolutionIsOpen ==
  pc = "done" =>
    /\ path[1] = Root /\ Last(path) = Exit /\ Cardinality(ToSet(path)) = Len(path)
    /\ \A i \in 1..(Len(path) - 1) : path[i + 1] \in Joined(path[i])

\* Carving ends: no draw of the random stream keeps the loop going.
CarvingEnds == <>(pc = "done")
=============================================================================
