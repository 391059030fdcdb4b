------------------------ MODULE PrintQueueRefinement ------------------------
(* PrintQueue implements PrintJobs: statuses, paper and ids are the same, a  *)
(* try is a message in the worker's hands or in an owner retry.              *)
EXTENDS PrintQueue

Trying ==
  {m \in MsgId :
     \/ InHand(m) /\ ~(wstatus = "failed" /\ status[m] = "absent")
     \/ \E t \in Thread : pc[t] \in {"retry", "mark"} /\ tmsg[t] = m}

Jobs == INSTANCE PrintJobs WITH trying <- Trying

\* Every step of the queue, crashes and restarts included, is a legal step of
\* the message lifecycle or leaves it alone.
JobsSpec == Jobs!Spec
=============================================================================
