---------------------------- MODULE ClientList ----------------------------
(***************************************************************************)
(* The doubly-linked list of clients of src/server.c and the three walks   *)
(* over it: the serving loop of handleClientRequests(), which saves the    *)
(* next client before a visit that may free the current one, the insertion *)
(* that follows it, and deleteServer(), which frees every client without   *)
(* unlinking any.                                                          *)
(*                                                                         *)
(* chain is a history variable: the list as a sequence.  No guard reads it *)
(* and Represents ties every pointer to it.  live is the set of allocated  *)
(* structures; the fields of a freed one are set to NULL, whatever free()  *)
(* leaves there, and ReadsAreLive says that none of them is read again.    *)
(***************************************************************************)
EXTENDS ClientChain, FiniteSets

CONSTANT MaxClients    \* parameters->max_nb_clients

ASSUME MaxClientsAssumption == MaxClients \in Nat \ {0}

VARIABLES head,         \* server->clients
          nb_clients,   \* server->nb_clients
          next,         \* client->next
          previous,     \* client->previous
          live,         \* history: the clients malloc() gave and free() did not take
          pc,           \* where the server is in its loops (Place)
          current,      \* current_client of the running walk
          chain         \* history: the list as a sequence

vars == <<head, nb_clients, next, previous, live, pc, current, chain>>

\* "visited": the serving loop ran off the list; "stopped": it broke out of it.
Place == {"idle", "walk", "visited", "stopped", "delete", "deleted"}

Pointer == Client \cup {NULL}

TypeOK ==
  /\ head \in Pointer
  /\ nb_clients \in 0..MaxClients
  /\ next \in [Client -> Pointer]
  /\ previous \in [Client -> Pointer]
  /\ live \in SUBSET Client
  /\ pc \in Place
  /\ current \in Pointer
  /\ chain \in Seq(Client)

Init ==
  /\ head = NULL
  /\ nb_clients = 0
  /\ next = [c \in Client |-> NULL]
  /\ previous = [c \in Client |-> NULL]
  /\ live = {}
  /\ pc = "idle"
  /\ current = NULL
  /\ chain = << >>

----------------------------------------------------------------------------
(***************************************************************************)
(* The two list operations.  Each assigns next, previous, head and         *)
(* nb_clients in the order of the code's branches.                         *)
(***************************************************************************)

\* previous, had the old first client kept its pointer (a mutant of the next).
AddWithoutBackLink(c) == [previous EXCEPT ![c] = NULL]

\* previous of the client that was first, once c is inserted before it.
PreviousAfterAdd(c) ==
  [x \in Client |-> IF x = c THEN NULL
                    ELSE IF nb_clients # 0 /\ x = head THEN c ELSE previous[x]]

AddClientToServer(c) ==
  /\ next' = [next EXCEPT ![c] = IF nb_clients = 0 THEN NULL ELSE head]
  /\ previous' = PreviousAfterAdd(c)
  /\ head' = c
  /\ nb_clients' = nb_clients + 1
  /\ live' = live \cup {c}
  /\ chain' = Prepend(chain, c)

\* Mutants of the next three definitions: a neighbour, or the head, still
\* points to the freed client.
RemoveWithoutBackLink(c) == [previous EXCEPT ![c] = NULL]

RemoveWithoutHead(c) == head

\* The neighbours of c skip it; c itself is then freed.
PreviousAfterRemove(c) ==
  [x \in Client |-> IF x = c THEN NULL
                    ELSE IF x = next[c] THEN previous[c] ELSE previous[x]]

NextAfterRemove(c) ==
  [x \in Client |-> IF x = c THEN NULL
                    ELSE IF x = previous[c] THEN next[c] ELSE next[x]]

HeadAfterRemove(c) == IF head = c THEN next[c] ELSE head

RemoveClientFromServer(c) ==
  /\ previous' = PreviousAfterRemove(c)
  /\ next' = NextAfterRemove(c)
  /\ head' = HeadAfterRemove(c)
  /\ nb_clients' = nb_clients - 1
  /\ live' = live \ {c}
  /\ chain' = Unlink(chain, c)

Serving == pc \in {"idle", "walk", "visited", "stopped"}

ListUnchanged == UNCHANGED <<head, nb_clients, next, previous, live, chain>>

----------------------------------------------------------------------------
(***************************************************************************)
(* The walks.                                                              *)
(***************************************************************************)

\* poll() has returned: start from the first client.
BeginWalk ==
  /\ pc = "idle"
  /\ current' = head
  /\ pc' = IF head = NULL THEN "visited" ELSE "walk"
  /\ ListUnchanged

\* A mutant of the next definition: the field is read after the visit.
NextReadAfterVisit == next'[current]

\* next_client, read before the visit.
SavedNext == next[current]

\* One iteration of the serving loop: the current client is removed or kept,
\* then the loop breaks (every ready client handled) or goes on with the
\* saved client.
VisitCurrent ==
  /\ pc = "walk"
  /\ \/ RemoveClientFromServer(current)
     \/ ListUnchanged
  /\ \/ current' = NULL /\ pc' = "stopped"
     \/ /\ current' = SavedNext
        /\ pc' = IF SavedNext = NULL THEN "visited" ELSE "walk"

\* acceptNewClient(), or nothing when the listening socket is not ready.
EndRound ==
  /\ pc \in {"visited", "stopped"}
  /\ \/ \E c \in Client \ live :
          /\ nb_clients # MaxClients
          /\ AddClientToServer(c)
     \/ ListUnchanged
  /\ pc' = "idle"
  /\ UNCHANGED current

\* exit() at any point of the round: cleanClosing() calls deleteServer().
BeginDelete ==
  /\ Serving
  /\ current' = head
  /\ pc' = IF head = NULL THEN "deleted" ELSE "delete"
  /\ ListUnchanged

\* One iteration of deleteServer(): the next client is saved, the current one
\* is deleted and stays linked; the server structure is freed afterwards.
DeleteCurrent ==
  /\ pc = "delete"
  /\ next' = [next EXCEPT ![current] = NULL]
  /\ previous' = [previous EXCEPT ![current] = NULL]
  /\ live' = live \ {current}
  /\ chain' = DropAt(chain, 1)
  /\ current' = SavedNext
  /\ pc' = IF SavedNext = NULL THEN "deleted" ELSE "delete"
  /\ UNCHANGED <<head, nb_clients>>

Next == BeginWalk \/ VisitCurrent \/ EndRound \/ BeginDelete \/ DeleteCurrent

Spec == Init /\ [][Next]_vars

----------------------------------------------------------------------------
(***************************************************************************)
(* Properties.                                                             *)
(***************************************************************************)

\* While the server runs, the next and previous pointers, the head and the
\* count all describe one and the same list: following next from the head, or
\* previous from the last client, meets the nb_clients allocated clients, at
\* most max_nb_clients, each once (addClientToServer(), removeClientFromServer()).
Represents ==
  Serving =>
    /\ IsChain(chain)
    /\ live = { chain[i] : i \in 1..Len(chain) }
    /\ nb_clients = Len(chain) /\ nb_clients <= MaxClients
    /\ head = FirstOf(chain)
    /\ \A i \in 1..Len(chain) :
         /\ next[chain[i]] = IF i < Len(chain) THEN chain[i + 1] ELSE NULL
         /\ previous[chain[i]] = IF i > 1 THEN chain[i - 1] ELSE NULL

\* No walk ever reads a client that has been freed: the one a visit or a
\* deletion is about to dereference is allocated, in the serving loop and in
\* deleteServer() alike.
ReadsAreLive == pc \in {"walk", "delete"} => current \in live

\* deleteServer() frees every client: none is left allocated at its end.
NothingLeaked == pc = "deleted" => live = {}

\* The refinement mapping: what the walk has left, and its place in the round.
Todo == IF pc = "walk" THEN From(chain, current) ELSE << >>

PhaseOf == IF pc \in {"idle", "visited", "stopped"} THEN pc
           ELSE IF pc = "walk" THEN "round" ELSE "closing"

Rounds == INSTANCE ClientRounds WITH clients <- chain, todo <- Todo, phase <- PhaseOf

\* The walks over the pointers are rounds over a list: what is left to visit
\* is what follows the current client, and no removal makes a walk skip a
\* client or visit one twice.
ImplementsRounds == Rounds!Spec
=============================================================================
