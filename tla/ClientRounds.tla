--------------------------- MODULE ClientRounds ---------------------------
(***************************************************************************)
(* What the rest of the server relies on when it goes round its clients:   *)
(* a round visits the clients that were listed when it began, in list      *)
(* order, each at most once and none twice; a visit may remove the visited *)
(* client and no other; the round may stop early, and then says so; after  *)
(* it at most one new client is listed.  Closing the server closes the     *)
(* clients one after the other, or all in one step when nobody looks in    *)
(* between.  There are no pointers and no sockets here: this is the        *)
(* promise that the doubly-linked list of ClientList and the serving loop  *)
(* of ServerLoop are both shown to keep.                                   *)
(***************************************************************************)
EXTENDS ClientChain

CONSTANT MaxClients    \* parameters->max_nb_clients

VARIABLES clients,     \* the listed clients
          todo,        \* those the current round has still to visit
          phase        \* where the server is in its rounds

vars == <<clients, todo, phase>>

\* "visited": every client has been; "stopped": the round stopped before.
Phase == {"idle", "round", "visited", "stopped", "closing"}

Init == clients = << >> /\ todo = << >> /\ phase = "idle"

Begin == /\ phase = "idle"
         /\ todo' = clients
         /\ phase' = IF clients = << >> THEN "visited" ELSE "round"
         /\ UNCHANGED clients

\* Visit the next client, drop it or not, and go on or stop there.
Visit == /\ phase = "round"
         /\ todo # << >>
         /\ clients' \in {clients, Unlink(clients, todo[1])}
         /\ \/ /\ todo' = DropAt(todo, 1)
               /\ phase' = IF Len(todo) = 1 THEN "visited" ELSE "round"
            \/ todo' = << >> /\ phase' = "stopped"

Admit == /\ phase \in {"visited", "stopped"}
         /\ \/ UNCHANGED clients
            \/ \E c \in Client : /\ ~ Listed(clients, c)
                                 /\ Len(clients) < MaxClients
                                 /\ clients' = Prepend(clients, c)
         /\ phase' = "idle"
         /\ UNCHANGED todo

Close == /\ phase # "closing"
         /\ phase' = "closing"
         /\ todo' = << >>
         /\ clients' \in {clients, << >>}

CloseOne == /\ phase = "closing"
            /\ clients # << >>
            /\ clients' = DropAt(clients, 1)
            /\ UNCHANGED <<todo, phase>>

Next == Begin \/ Visit \/ Admit \/ Close \/ CloseOne

Spec == Init /\ [][Next]_vars
=============================================================================
