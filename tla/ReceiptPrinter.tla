--------------------------- MODULE ReceiptPrinter ---------------------------
(***************************************************************************)
(* What open_printer() promises its callers: one job at a time has the     *)
(* printer, only that job prints, a job gets one answer and prints nothing *)
(* after it, and the printer is always let go again.                       *)
(***************************************************************************)
EXTENDS Integers, Sequences

CONSTANT Job
VARIABLES holder, roll, answer

vars == <<holder, roll, answer>>
Nobody == 0

Init == holder = Nobody /\ roll = <<>> /\ answer = [j \in Job |-> "none"]

Take(j) ==
  /\ holder = Nobody /\ answer[j] = "none" /\ holder' = j
  /\ UNCHANGED <<roll, answer>>

Emit ==
  /\ holder # Nobody
  /\ \E p \in {"image", "text", "feed", "cut"} :
       roll' = Append(roll, [job |-> holder, piece |-> p])
  /\ UNCHANGED <<holder, answer>>

\* The job lets go, with its answer or to come back later.
LetGo ==
  /\ holder # Nobody /\ holder' = Nobody
  /\ \/ UNCHANGED answer
     \/ \E a \in {"ok", "printer", "input", "server"} : answer' = [answer EXCEPT ![holder] = a]
  /\ UNCHANGED roll

Next == (\E j \in Job : Take(j)) \/ Emit \/ LetGo
Spec == Init /\ [][Next]_vars /\ []<>(holder = Nobody)
=============================================================================
