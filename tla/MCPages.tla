------------------------------ MODULE MCPages ------------------------------
(***************************************************************************)
(* Pages for TLC.  The parts that a behaviour does not move begin in one   *)
(* of their initial states, which nothing in it depends on.                *)
(***************************************************************************)
EXTENDS Pages

MCPagesInit ==
  /\ PagesInit
  /\ part = "page" \/ (account = "none" /\ page = "loading")
  /\ part = "log" \/ \A m \in Message : status[m] = "failed"
  /\ part = "arcade" \/ (<<width, base, key>> = CHOOSE settings \in Width \X Base \X Key : TRUE)

MCPagesSpec == MCPagesInit /\ [][PagesNext]_pagesVars
=============================================================================
