--------------------------- MODULE MCClientList ---------------------------
(* ClientList on four clients, all of which the table can hold. *)
EXTENDS ClientList

=============================================================================
