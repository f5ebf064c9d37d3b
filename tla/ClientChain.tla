---------------------------- MODULE ClientChain ----------------------------
(***************************************************************************)
(* Reading a list of clients as a sequence without repetition, its first   *)
(* element being the one Server.clients points to.  The operators are the  *)
(* list operations of src/server.c, stripped of their pointers; ClientList *)
(* shows that the pointers implement them, and ServerLoop uses them.       *)
(***************************************************************************)
EXTENDS Naturals, Sequences

CONSTANTS Client,   \* the Client structures malloc() can return
          NULL      \* the null pointer

ASSUME NullAssumption == NULL \notin Client

----------------------------------------------------------------------------

\* A list holds every client at most once.
IsChain(s) == /\ s \in Seq(Client)
              /\ \A i, j \in 1..Len(s) : s[i] = s[j] => i = j

\* c is one of the listed clients.
Listed(s, c) == \E i \in 1..Len(s) : s[i] = c

IndexIn(s, c) == CHOOSE i \in 1..Len(s) : s[i] = c

\* server->clients and client->next.
FirstOf(s) == IF Len(s) = 0 THEN NULL ELSE s[1]

NextIn(s, c) == LET i == IndexIn(s, c)
                IN  IF i < Len(s) THEN s[i + 1] ELSE NULL

\* client->previous.
PreviousIn(s, c) == LET i == IndexIn(s, c)
                    IN  IF i > 1 THEN s[i - 1] ELSE NULL

\* The list without its i-th element.
DropAt(s, i) == [j \in 1..(Len(s) - 1) |-> IF j < i THEN s[j] ELSE s[j + 1]]

\* removeClientFromServer() and addClientToServer().
Unlink(s, c) == DropAt(s, IndexIn(s, c))

Prepend(s, c) == [j \in 1..(Len(s) + 1) |-> IF j = 1 THEN c ELSE s[j - 1]]

\* What is left to visit when c is the current client of a walk.
From(s, c) == IF Listed(s, c)
                THEN LET i == IndexIn(s, c)
                     IN  [j \in 1..(Len(s) - i + 1) |-> s[j + i - 1]]
                ELSE << >>
=============================================================================
