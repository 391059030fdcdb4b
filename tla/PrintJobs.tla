------------------------------ MODULE PrintJobs ------------------------------
(***************************************************************************)
(* What the print queue promises about a message, whatever threads, locks, *)
(* restarts and quiet hours do underneath: which status may follow which,  *)
(* and when paper may come out.  PrintQueue is shown to implement it.      *)
(*                                                                         *)
(* A message is accepted once under a fresh id, waits ('scheduled' or      *)
(* 'queued'), is tried, and settles.  Paper comes out only during a try; a *)
(* try starts only from a waiting-to-print or a failed row; a cancelled    *)
(* row can only change if a try had already begun; 'printed' says there is *)
(* paper, and is final; a deleted row never comes back.                    *)
(***************************************************************************)
EXTENDS Integers

CONSTANT MaxMsg   \* bound: messages ever accepted

VARIABLES
  status,   \* messages.status, "absent" without a row
  paper,    \* complete receipts printed
  trying,   \* messages a print attempt is under way for
  nextId    \* next fresh id

vars == <<status, paper, trying, nextId>>

MsgId   == 1..MaxMsg
Waiting == {"scheduled", "queued"}

Init ==
  /\ status = [m \in MsgId |-> "absent"] /\ paper = [m \in MsgId |-> 0]
  /\ trying = {} /\ nextId = 1

Accept ==
  /\ nextId \in MsgId
  /\ \E s \in Waiting : status' = [status EXCEPT ![nextId] = s]
  /\ nextId' = nextId + 1
  /\ UNCHANGED <<paper, trying>>

\* Claimed by the dispatcher, or held back until later.
Move(m) ==
  /\ status[m] \in Waiting
  /\ \E s \in Waiting : status' = [status EXCEPT ![m] = s]
  /\ trying' \in {trying, trying \ {m}}
  /\ UNCHANGED <<paper, nextId>>

\* Cancelled by the friend, or all of a friend's at once by revocation.
Burn ==
  /\ \E M \in SUBSET {m \in MsgId : status[m] \in Waiting} :
       status' = [m \in MsgId |-> IF m \in M THEN "cancelled" ELSE status[m]]
  /\ UNCHANGED <<paper, trying, nextId>>

\* Rows go with their friend, or when the queue had no room.
Drop ==
  /\ \E M \in SUBSET MsgId :
       /\ status' = [m \in MsgId |-> IF m \in M THEN "absent" ELSE status[m]]
       /\ trying' \in SUBSET trying
  /\ UNCHANGED <<paper, nextId>>

Try(m) ==
  /\ status[m] \in {"queued", "failed"}
  /\ trying' = trying \cup {m}
  /\ UNCHANGED <<status, paper, nextId>>

Emit(m) ==
  /\ m \in trying
  /\ paper' = [paper EXCEPT ![m] = @ + 1]
  /\ UNCHANGED <<status, trying, nextId>>

Settle(m) ==
  /\ m \in trying /\ status[m] # "absent"
  /\ \/ paper[m] > 0 /\ status' = [status EXCEPT ![m] = "printed"]
     \/ status[m] # "printed" /\ status' = [status EXCEPT ![m] = "failed"]
  /\ trying' \in {trying, trying \ {m}}
  /\ UNCHANGED <<paper, nextId>>

\* A crash or an offline printer ends tries without a trace.
GiveUp ==
  /\ trying' \in SUBSET trying
  /\ UNCHANGED <<status, paper, nextId>>

\* More leftovers than slots after a restart.
Overflow(m) ==
  /\ status[m] = "queued" /\ m \notin trying
  /\ status' = [status EXCEPT ![m] = "failed"]
  /\ UNCHANGED <<paper, trying, nextId>>

Next ==
  \/ Accept \/ Burn \/ Drop \/ GiveUp
  \/ \E m \in MsgId : Move(m) \/ Try(m) \/ Emit(m) \/ Settle(m) \/ Overflow(m)

Spec == Init /\ [][Next]_vars
=============================================================================
