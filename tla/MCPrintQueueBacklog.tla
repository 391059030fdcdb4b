------------------------ MODULE MCPrintQueueBacklog ------------------------
(* PrintQueue with a history variable: the messages that were waiting when   *)
(* their sender was revoked.                                                 *)
EXTENDS MCPrintQueue

VARIABLE backlog

Revoked(u) == users[u] # "blocked" /\ users'[u] = "blocked"

BacklogInit == Init /\ backlog = {}

BacklogNext ==
  /\ Next
  /\ backlog' = backlog \cup {m \in MsgId :
       status[m] \in {"scheduled", "queued"} /\ Revoked(sender[m])}

BacklogSpec == BacklogInit /\ [][BacklogNext]_<<vars, backlog>>

\* "approving again later cannot unexpectedly deliver an old backlog"
\* (auth/db.py set_status): what waited when its sender was revoked is never
\* claimed for delivery later, and a claim needs an approved sender.
BacklogNeverDelivered ==
  [][\A m \in backlog : ~(status[m] = "scheduled" /\ status'[m] = "queued")]_<<vars, backlog>>
=============================================================================
