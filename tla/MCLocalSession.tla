--------------------------- MODULE MCLocalSession ---------------------------
(* Values for the model checking of LocalSession. *)
EXTENDS LocalSession

\* async_connect gives up at the end of the list, or one address before it.
MCMaxEndpoints == 1
=============================================================================
