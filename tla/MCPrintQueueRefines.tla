------------------------ MODULE MCPrintQueueRefines ------------------------
(* The small instances of MCPrintQueue, for the refinement.                  *)
EXTENDS MCPrintQueue, PrintQueueRefinement
=============================================================================
