---------------------------- MODULE ServerLoop ----------------------------
(***************************************************************************)
(* handleClientRequests() of src/server.c with every function it calls:    *)
(* one thread goes round poll(), one visit per listed client, accept().    *)
(* The server's steps end at its system calls, so that whatever the peers  *)
(* do in between is interleaved: a socket poll() reported may be reset     *)
(* before it is read or written.                                           *)
(*                                                                         *)
(* The list of clients is a sequence (ClientList shows that the pointers   *)
(* implement it).  A connection is named by its Client structure: it is    *)
(* the same element of Client from connect() to close().  Amounts of bytes *)
(* are counted in small units.  The fields of a removed client are reset,  *)
(* for none of them is read again (NoDanglingClient).                      *)
(***************************************************************************)
EXTENDS ClientChain, Integers, FiniteSets

CONSTANTS
  MaxClients,      \* parameters->max_nb_clients
  QueueMax,        \* parameters->queue_max_length, the listen() backlog
  ReqSize,         \* parameters->request_buffer_size
  HeaderMin,       \* HTTP_HEADER_MIN_LENGTH
  HeaderLen,       \* length of an answer header
  Bodies,          \* the bodies of the cached files: records of Content
  FreshStates,     \* what Client.state may hold when malloc() returns it
  MaxInbox,        \* bound: bytes received and not yet read
  SndBuf           \* bytes a socket's send buffer can hold

WAITING    == "waiting"       \* STATE_WAITING_FOR_REQUEST
PROCESSING == "processing"    \* STATE_PROCESSING_REQUEST
ANSWERING  == "answering"     \* STATE_ANSWERING
UNKNOWN    == "unknown"       \* any other value of the enum's int

ClientState == {WAITING, PROCESSING, ANSWERING, UNKNOWN}

\* HttpContent: nothing to send, a body in memory, or a file to sendfile().
Content == [kind : {"none", "memory", "path"}, length : Nat, offset : Nat]

NoContent == [kind |-> "none", length |-> 0, offset |-> 0]

ASSUME ParametersAssumption ==
  /\ MaxClients \in Nat \ {0}
  /\ QueueMax \in Nat \ {0}
  /\ HeaderMin \in Nat \ {0}
  /\ ReqSize \in Nat /\ ReqSize > HeaderMin
  /\ MaxInbox \in Nat \ {0}
  /\ HeaderLen \in Nat \ {0}
  /\ SndBuf \in Nat /\ SndBuf >= HeaderLen
  /\ Bodies \subseteq { x \in Content : x.kind # "none" /\ x.offset = 0 }
  /\ FreshStates \subseteq ClientState /\ FreshStates # {}

VARIABLES
  \* The Server and the local variables of handleClientRequests().
  pc,               \* "poll", "visit", "content", "accept"; "exited", "killed", "crashed"
  clients,          \* the list server->clients
  nb_clients,       \* server->nb_clients
  polled,           \* polled_sockets, from index 1 on
  accept_ready,     \* POLLIN & polled_sockets[0].revents
  nb_ready,         \* nb_ready_sockets
  nb_handled,       \* nb_handled_sockets
  index,            \* polled_sockets_index
  current,          \* current_client
  next_client,      \* next_client
  \* The fields of each Client.
  state,            \* state
  length,           \* request_buffer_length
  unsent,           \* answer_header_buffer_length - answer_header_buffer_offset
  content,          \* http_answer->content
  \* The kernel and the peers.
  backlog,          \* the connections accept() has not returned yet, oldest first
  socket,           \* "none", "queued", "open", "closed"
  link,             \* what the peer did of the connection (Link)
  inbox,            \* bytes received and not yet read
  outq              \* bytes written and not yet acknowledged

server == <<clients, nb_clients>>
round  == <<polled, accept_ready, nb_ready, nb_handled, index, current, next_client>>
fields == <<state, length, unsent, content>>
net    == <<backlog, socket, link, inbox, outq>>

vars == <<pc, server, round, fields, net>>

\* "fin": the peer will send nothing more; "reset": it reset the connection and
\* ECONNRESET is pending; "lost": another error is pending; "broken": the
\* connection is dead and no error is pending, so that a write raises SIGPIPE.
Link == {"up", "fin", "reset", "lost", "broken"}

Dead(c) == link[c] \in {"reset", "lost", "broken"}

Running == pc \in {"poll", "visit", "content", "accept"}

NoFd == NULL    \* POLL_NO_POLLING

Event == {"POLLIN", "POLLOUT", "POLLHUP"}

TypeOK ==
  /\ pc \in {"poll", "visit", "content", "accept", "exited", "killed", "crashed"}
  /\ clients \in Seq(Client)
  /\ nb_clients \in Nat
  /\ polled \in Seq([fd : Client \cup {NoFd}, revents : SUBSET Event])
  /\ accept_ready \in BOOLEAN
  /\ nb_ready \in Nat
  /\ nb_handled \in Nat
  /\ index \in Nat
  /\ current \in Client \cup {NULL}
  /\ next_client \in Client \cup {NULL}
  /\ state \in [Client -> ClientState]
  /\ length \in [Client -> -1..(ReqSize - 1)]
  /\ unsent \in [Client -> 0..HeaderLen]
  /\ content \in [Client -> Bodies \cup {NoContent}]
  /\ backlog \in Seq(Client)
  /\ socket \in [Client -> {"none", "queued", "open", "closed"}]
  /\ link \in [Client -> Link]
  /\ inbox \in [Client -> 0..MaxInbox]
  /\ outq \in [Client -> 0..SndBuf]

Init ==
  /\ pc = "poll"
  /\ clients = << >> /\ nb_clients = 0
  /\ polled = << >> /\ accept_ready = FALSE
  /\ nb_ready = 0 /\ nb_handled = 0 /\ index = 0
  /\ current = NULL /\ next_client = NULL
  /\ state = [c \in Client |-> UNKNOWN]
  /\ length = [c \in Client |-> 0]
  /\ unsent = [c \in Client |-> 0]
  /\ content = [c \in Client |-> NoContent]
  /\ backlog = << >>
  /\ socket = [c \in Client |-> "none"]
  /\ link = [c \in Client |-> "up"]
  /\ inbox = [c \in Client |-> 0]
  /\ outq = [c \in Client |-> 0]

----------------------------------------------------------------------------
(***************************************************************************)
(* Helpers shared by the steps.                                            *)
(***************************************************************************)

\* c's memory is given back and its connection is over: nothing is left of it.
Forget(c) ==
  /\ state' = [state EXCEPT ![c] = UNKNOWN]
  /\ length' = [length EXCEPT ![c] = 0]
  /\ unsent' = [unsent EXCEPT ![c] = 0]
  /\ content' = [content EXCEPT ![c] = NoContent]
  /\ link' = [link EXCEPT ![c] = "up"]
  /\ inbox' = [inbox EXCEPT ![c] = 0]
  /\ outq' = [outq EXCEPT ![c] = 0]

\* A mutant of CountAfterRemove: the removed client is still counted.
CountNotDecremented == nb_clients

CountAfterRemove == nb_clients - 1

\* removeClientFromServer(): unlinked, counted out, closed, freed.
RemoveClient(c) ==
  /\ clients' = Unlink(clients, c)
  /\ nb_clients' = CountAfterRemove
  /\ socket' = [socket EXCEPT ![c] = "closed"]
  /\ Forget(c)
  /\ UNCHANGED backlog

\* exit(), from the SIGINT handler or handleErrorAndExit(): cleanClosing()
\* calls deleteServer(), which closes the listening socket and every client.
Exit ==
  /\ pc' = "exited"
  /\ clients' = << >> /\ nb_clients' = 0
  /\ socket' = [c \in Client |-> IF Listed(clients, c) \/ socket[c] = "queued"
                                   THEN "closed" ELSE socket[c]]
  /\ backlog' = << >>
  /\ polled' = << >> /\ accept_ready' = FALSE
  /\ nb_ready' = 0 /\ nb_handled' = 0 /\ index' = 0
  /\ current' = NULL /\ next_client' = NULL
  /\ state' = [c \in Client |-> UNKNOWN]
  /\ length' = [c \in Client |-> 0]
  /\ unsent' = [c \in Client |-> 0]
  /\ content' = [c \in Client |-> NoContent]
  /\ link' = [c \in Client |-> "up"]
  /\ inbox' = [c \in Client |-> 0]
  /\ outq' = [c \in Client |-> 0]

\* The process is ended by a signal: no handler of its own runs.
Die(how) == pc' = how /\ UNCHANGED <<server, round, fields, net>>

\* Mutants of EndsRound: the listening socket is taken for a handled one; one
\* client is handled in a round.
EndsRoundEarly(handled) == handled + 1 >= nb_ready \/ next_client = NULL

EndsRoundAtFirst(handled) == handled = 1 \/ next_client = NULL

\* Every ready client has been handled, or there is no client after this one.
EndsRound(handled) == handled = nb_ready \/ next_client = NULL

\* A mutant of SavedNext: the saved pointer does not advance.
NextNotAdvanced(c) == c

\* current_client->next, saved before the visit of c.
SavedNext(c) == NextIn(clients', c)

\* The end of an iteration: break, or go on with the saved client, whose own
\* successor is saved before its visit.
GoOn(handled) ==
  /\ nb_handled' = handled
  /\ IF EndsRound(handled)
       THEN /\ pc' = "accept"
            /\ current' = NULL /\ next_client' = NULL
            /\ UNCHANGED index
       ELSE /\ pc' = "visit"
            /\ current' = next_client
            /\ next_client' = SavedNext(next_client)
            /\ index' = index + 1
  /\ UNCHANGED <<polled, accept_ready, nb_ready>>

----------------------------------------------------------------------------
(***************************************************************************)
(* poll().                                                                 *)
(***************************************************************************)

\* A mutant of Pollable: a client being answered is not polled.
PollableWhenWaiting(c) == state[c] = WAITING

Pollable(c) == state[c] \in {WAITING, ANSWERING}

\* The fd of c's slot: a client in any other state is not polled.
PolledFd(c) == IF Pollable(c) THEN c ELSE NoFd

\* A mutant of Events: hang-ups are not reported.
EventsWithoutHangup(c) ==
  { e \in Event \ {"POLLHUP"} :
      /\ Pollable(c)
      /\ \/ e = "POLLIN" /\ state[c] = WAITING /\ (inbox[c] > 0 \/ link[c] # "up")
         \/ e = "POLLOUT" /\ state[c] = ANSWERING /\ (outq[c] < SndBuf \/ Dead(c)) }

\* What poll() reports of c: the requested event if it holds, and POLLHUP, for
\* which nobody has to ask; nothing for the fd -1.
Events(c) ==
  { e \in Event :
      /\ Pollable(c)
      /\ \/ e = "POLLIN" /\ state[c] = WAITING /\ (inbox[c] > 0 \/ link[c] # "up")
         \/ e = "POLLOUT" /\ state[c] = ANSWERING /\ (outq[c] < SndBuf \/ Dead(c))
         \/ e = "POLLHUP" /\ Dead(c) }

Slot(c) == [fd |-> PolledFd(c), revents |-> Events(c)]

\* A mutant of Slots: a client that is not polled gets no slot.
CompactSlots ==
  LET p == SelectSeq(clients, Pollable) IN [i \in 1..Len(p) |-> Slot(p[i])]

\* The pollfd array of this round, the listening socket's slot left aside.
Slots == [i \in 1..Len(clients) |-> Slot(clients[i])]

ReadySlots(slots) == { i \in 1..Len(slots) : slots[i].revents # {} }

\* One poll(): it has no timeout and returns when a socket is ready.
Poll ==
  /\ pc = "poll"
  /\ polled' = Slots
  /\ accept_ready' = (backlog # << >>)
  /\ nb_ready' = Cardinality(ReadySlots(Slots)) + (IF backlog # << >> THEN 1 ELSE 0)
  /\ nb_ready' > 0
  /\ nb_handled' = 0
  /\ index' = 1
  /\ current' = FirstOf(clients)
  /\ next_client' = IF clients = << >> THEN NULL ELSE NextIn(clients, clients[1])
  /\ pc' = IF clients = << >> THEN "accept" ELSE "visit"
  /\ UNCHANGED <<server, fields, net>>

----------------------------------------------------------------------------
(***************************************************************************)
(* The visit of the current client.                                        *)
(***************************************************************************)

Revents == polled[index].revents

HungUp == "POLLHUP" \in Revents

MayRead == state[current] = WAITING /\ "POLLIN" \in Revents

MayWrite == state[current] = ANSWERING /\ "POLLOUT" \in Revents

\* The peer hung up: the client is removed, and does not count as handled.
RemoveHungUp ==
  /\ pc = "visit" /\ HungUp
  /\ RemoveClient(current)
  /\ GoOn(nb_handled)

\* Nothing to do for this client in this round.
SkipClient ==
  /\ pc = "visit" /\ ~ HungUp /\ ~ MayRead /\ ~ MayWrite
  /\ UNCHANGED <<server, fields, net>>
  /\ GoOn(nb_handled)

\* What read() may return for c when no byte is left: 0 at the end of the stream,
\* -1 when an error is pending; on a live connection it would block.
EmptyReadResults(c) ==
  { n \in {0, -1} : link[c] \in (IF n = 0 THEN {"fin", "broken"} ELSE {"reset", "lost"}) }

\* Mutants of ReadResults and PeerIsGone: the room left in the buffer is
\* ignored; a failed read is taken for the end of the stream, and the end for data.
ReadResultsUnbounded(c) ==
  IF inbox[c] > 0 THEN {inbox[c]} ELSE EmptyReadResults(c)

ErrorMeansGone(n) == n < 0

\* What read() may return for c; it is 0 as well when asked for no byte.
ReadResults(c) ==
  LET room == ReqSize - length[c] - 1
  IN  IF room = 0 THEN {0}
      ELSE IF inbox[c] > 0 THEN {IF inbox[c] < room THEN inbox[c] ELSE room}
      ELSE EmptyReadResults(c)

\* readFromClient()'s test for a connection that has ended.
PeerIsGone(n) == n = 0

\* processClientRequest() once the header is complete: the answer's header is
\* filled and a body chosen.
Answer(c) ==
  /\ state' = [state EXCEPT ![c] = ANSWERING]
  /\ unsent' = [unsent EXCEPT ![c] = HeaderLen]
  /\ \E body \in Bodies \cup {NoContent} : content' = [content EXCEPT ![c] = body]

\* n bytes, or the error -1, are added to the buffer; which of the buffers of at
\* least HeaderMin bytes hold a full header is left open here.
Receive(c, n) ==
  /\ length' = [length EXCEPT ![c] = @ + n]
  /\ inbox' = [inbox EXCEPT ![c] = IF n > 0 THEN @ - n ELSE @]
  /\ link' = [link EXCEPT ![c] = IF n < 0 THEN "broken" ELSE @]
  /\ \/ UNCHANGED <<state, unsent, content>>
     \/ length[c] + n >= HeaderMin /\ Answer(c)
  /\ UNCHANGED <<server, backlog, socket, outq>>

ReadFromClient ==
  /\ pc = "visit" /\ ~ HungUp /\ MayRead
  /\ \E n \in ReadResults(current) : \/ PeerIsGone(n) /\ RemoveClient(current)
                                     \/ ~ PeerIsGone(n) /\ Receive(current, n)
  /\ GoOn(nb_handled + 1)

\* A blocking write of n bytes ends when the send buffer has taken them all.
Send(c, n) ==
  /\ ~ Dead(c)
  /\ outq[c] + n <= SndBuf
  /\ outq' = [outq EXCEPT ![c] = @ + n]
  /\ UNCHANGED <<server, length, backlog, socket, link, inbox>>

\* A write on a dead connection: ECONNRESET removes the client, any other error
\* ends the server, and SIGPIPE, which nobody catches, kills it.
WriteFails(c) ==
  \/ /\ link[c] = "reset"
     /\ RemoveClient(c)
     /\ GoOn(nb_handled + 1)
  \/ link[c] = "lost" /\ Exit
  \/ link[c] = "broken" /\ Die("killed")

\* writeHttpHeaderToClient().  A write that the peer cuts short returns what it
\* has written before the connection died.
WriteHttpHeader ==
  /\ pc = "visit" /\ ~ HungUp /\ MayWrite
  /\ \/ /\ Send(current, unsent[current])
        /\ unsent' = [unsent EXCEPT ![current] = 0]
        /\ pc' = "content"
        /\ UNCHANGED <<round, state, content>>
     \/ /\ Dead(current)
        /\ \E n \in 1..(unsent[current] - 1) :
             unsent' = [unsent EXCEPT ![current] = @ - n]
        /\ UNCHANGED <<server, state, length, content, net>>
        /\ GoOn(nb_handled + 1)
     \/ WriteFails(current)

\* The state a client is in once writeHttpContentToClient() has returned sent.
StateAfterWrite(c, sent) == [state EXCEPT ![c] = IF sent THEN WAITING ELSE @]

\* writeHttpContentToClient() with nothing to write.
WriteNoContent ==
  /\ pc = "content" /\ content[current].kind = "none"
  /\ state' = StateAfterWrite(current, TRUE)
  /\ UNCHANGED <<server, length, unsent, content, net>>
  /\ GoOn(nb_handled + 1)

\* Its result for a body in memory: the offset is compared, and never moved.
BodyIsSent(c) == content[c].offset = content[c].length

WriteBody ==
  /\ pc = "content" /\ content[current].kind = "memory"
  /\ \/ /\ Send(current, content[current].length - content[current].offset)
        /\ state' = StateAfterWrite(current, BodyIsSent(current))
        /\ GoOn(nb_handled + 1)
        /\ UNCHANGED <<unsent, content>>
     \/ WriteFails(current)

\* Its sendfile() branch: the file may be gone, or shorter than it was; once the
\* header is sent, which it is here, the client is removed.
SendFile ==
  /\ pc = "content" /\ content[current].kind = "path"
  /\ \/ Exit
     \/ /\ ~ Dead(current)
        /\ \E n \in 0..(content[current].length - content[current].offset) :
             outq[current] + n <= SndBuf
        /\ RemoveClient(current)
        /\ GoOn(nb_handled + 1)
     \/ WriteFails(current)

----------------------------------------------------------------------------
(***************************************************************************)
(* accept(), and the end of the round.                                     *)
(***************************************************************************)

\* The next round starts with a fresh pollfd array.
EndRound ==
  /\ pc' = "poll"
  /\ polled' = << >> /\ accept_ready' = FALSE
  /\ nb_ready' = 0 /\ nb_handled' = 0 /\ index' = 0
  /\ current' = NULL /\ next_client' = NULL

\* A mutant of ListenerReady: the listening socket waits for a round of its own.
ListenerReadyAlone == accept_ready /\ nb_ready = 1

ListenerReady == accept_ready

NoNewClient ==
  /\ pc = "accept" /\ ~ ListenerReady
  /\ EndRound
  /\ UNCHANGED <<server, fields, net>>

\* A mutant of TableIsFull, off by one.
TableIsOverfull == nb_clients > MaxClients

TableIsFull == nb_clients = MaxClients

\* acceptNewClient() returned NULL, and handleClientRequests() reads its fd.
AcceptWhenFull ==
  /\ pc = "accept" /\ ListenerReady /\ TableIsFull
  /\ Die("crashed")

\* initClient() sets every field but the state.
AcceptNewClient ==
  /\ pc = "accept" /\ ListenerReady /\ ~ TableIsFull
  /\ LET c == backlog[1]
     IN  \/ /\ clients' = Prepend(clients, c)
            /\ nb_clients' = nb_clients + 1
            /\ socket' = [socket EXCEPT ![c] = "open"]
            /\ \E fresh \in FreshStates : state' = [state EXCEPT ![c] = fresh]
            /\ length' = [length EXCEPT ![c] = 0]
            /\ unsent' = [unsent EXCEPT ![c] = 0]
            /\ content' = [content EXCEPT ![c] = NoContent]
            /\ backlog' = DropAt(backlog, 1)
            /\ EndRound
            /\ UNCHANGED <<link, inbox, outq>>
         \/ Dead(c) /\ Exit      \* accept() reports the pending error

Interrupt == Running /\ Exit     \* SIGINT

ServerStep ==
  \/ Poll \/ RemoveHungUp \/ SkipClient \/ ReadFromClient \/ WriteHttpHeader
  \/ WriteNoContent \/ WriteBody \/ SendFile
  \/ NoNewClient \/ AcceptWhenFull \/ AcceptNewClient

----------------------------------------------------------------------------
(***************************************************************************)
(* The peers and the kernel.                                               *)
(***************************************************************************)

Connected(c) == socket[c] \in {"queued", "open"}

Connect(c) ==
  /\ socket[c] = "none" /\ Len(backlog) < QueueMax
  /\ socket' = [socket EXCEPT ![c] = "queued"]
  /\ backlog' = Append(backlog, c)
  /\ UNCHANGED <<link, inbox, outq>>

PeerSend(c) ==
  /\ Connected(c) /\ link[c] = "up" /\ inbox[c] < MaxInbox
  /\ inbox' = [inbox EXCEPT ![c] = @ + 1]
  /\ UNCHANGED <<backlog, socket, link, outq>>

PeerEnd(c) ==
  /\ Connected(c) /\ link[c] = "up"
  /\ link' = [link EXCEPT ![c] = "fin"]
  /\ UNCHANGED <<backlog, socket, inbox, outq>>

\* A reset after the end of the peer's stream leaves no ECONNRESET behind.
PeerReset(c) ==
  /\ Connected(c) /\ ~ Dead(c)
  /\ link' = [link EXCEPT ![c] = IF @ = "up" THEN "reset" ELSE "broken"]
  /\ outq' = [outq EXCEPT ![c] = 0]
  /\ UNCHANGED <<backlog, socket, inbox>>

\* The peer does not answer any more, and the kernel gives up.
PeerLost(c) ==
  /\ Connected(c) /\ ~ Dead(c)
  /\ link' = [link EXCEPT ![c] = "lost"]
  /\ outq' = [outq EXCEPT ![c] = 0]
  /\ UNCHANGED <<backlog, socket, inbox>>

\* The peer acknowledges a byte of what was written.
PeerDrain(c) ==
  /\ outq[c] > 0
  /\ outq' = [outq EXCEPT ![c] = @ - 1]
  /\ UNCHANGED <<backlog, socket, link, inbox>>

PeerStep ==
  /\ Running
  /\ \E c \in Client : \/ Connect(c) \/ PeerSend(c) \/ PeerEnd(c)
                       \/ PeerReset(c) \/ PeerLost(c) \/ PeerDrain(c)
  /\ UNCHANGED <<pc, server, round, fields>>

Drain(c) == Running /\ PeerDrain(c) /\ UNCHANGED <<pc, server, round, fields>>

Next == ServerStep \/ Interrupt \/ PeerStep

Spec == Init /\ [][Next]_vars

\* The thread is never descheduled for ever, and a peer whose connection lives
\* goes on acknowledging what it is sent; nothing else has to happen.
FairSpec == Spec /\ WF_vars(ServerStep) /\ \A c \in Client : WF_vars(Drain(c))

----------------------------------------------------------------------------
(***************************************************************************)
(* Safety.                                                                 *)
(***************************************************************************)

Visiting == pc \in {"visit", "content"}

\* The current client and the saved one are still listed when the loop reads
\* them, whatever was removed in between (handleClientRequests() 656-705).
NoDanglingClient ==
  Visiting => /\ Listed(clients, current)
              /\ next_client = NextIn(clients, current)

\* Slot and client advance together: from the current one on, the pollfd at the
\* running index belongs to the client being visited, although the list has
\* lost clients since the array was built (handleClientRequests() 603-705).
SlotMatchesClient ==
  Visiting =>
    LET left == From(clients, current)
    IN  /\ index + Len(left) - 1 = Len(polled)
        /\ \A k \in 1..Len(left) : polled[index + k - 1].fd = PolledFd(left[k])

\* When the loop over the clients ends, by break or not, no slot that poll()
\* reported is left unvisited: counting the handled sockets, which leaves out
\* hang-ups and the listening socket, never stops it too early.
NoReadySocketSkipped ==
  pc = "accept" => \A i \in (index + 1)..Len(polled) : polled[i].revents = {}

\* The table: the count is the list's length, so that the pollfd array of
\* nb_clients + 1 slots has one for every client, and the table never exceeds
\* its size; a socket is open exactly while its client is listed, so that none
\* is closed twice or left open, and none is left when the server has exited.
TableAgrees ==
  /\ pc # "exited" => /\ nb_clients = Len(clients)
                      /\ nb_clients <= MaxClients
                      /\ \A c \in Client : socket[c] = "open" <=> Listed(clients, c)
  /\ pc = "exited" => \A c \in Client : socket[c] \in {"none", "closed"}

\* read() never gets a negative size or more room than the buffer has: a failed
\* read, which counts the length down to -1, happens on a dead connection only,
\* and the next poll() removes that client before its next read
\* (readFromClient() 400-425).
ReadFitsBuffer ==
  pc = "visit" /\ ~ HungUp /\ MayRead => length[current] \in 0..(ReqSize - 1)

\* The refinement mapping: the clients that the walk has left, and its place in
\* the round; a loop that did not stop early has passed the last slot.
Todo == IF Visiting THEN From(clients, current) ELSE << >>

PhaseOf ==
  IF pc = "poll" THEN "idle"
  ELSE IF Visiting THEN "round"
  ELSE IF pc = "accept" THEN (IF index < Len(polled) THEN "stopped" ELSE "visited")
  ELSE "closing"

Rounds == INSTANCE ClientRounds WITH todo <- Todo, phase <- PhaseOf

\* Whatever the peers do between two system calls, and however often a client is
\* removed while it is visited, by its read, its header, its body or its hang-up,
\* the loop makes the rounds that the pointers of ClientList make: each listed
\* client is visited at most once in a round and in list order, a visit removes
\* no other client, and a new one comes between rounds (server.c 590-716).
ImplementsRounds == Rounds!Spec

----------------------------------------------------------------------------
(***************************************************************************)
(* What comments of the code say of it, and runs refute.                   *)
(***************************************************************************)

\* writeToClient(), server.c 580: once the whole answer, header and body, has
\* been sent, the client is back to waiting for a request.
SentAnswerEndsAnswering ==
  [][\A c \in Client :
       /\ pc = "content" /\ current = c
       /\ content[c].kind = "memory" /\ outq'[c] = outq[c] + content[c].length
       => state'[c] = WAITING]_vars

\* acceptNewClient(), server.c 371: without a free slot it fails and returns
\* NULL, and the server goes on.
FullTableIsSurvived == pc # "crashed"

\* acceptNewClient(), server.c 367: the client it returns is initialized, hence
\* waiting for its first request.
AcceptedClientWaits ==
  [][\A c \in Client : socket[c] = "queued" /\ socket'[c] = "open"
                        => state'[c] = WAITING]_vars

----------------------------------------------------------------------------
(***************************************************************************)
(* Liveness.                                                               *)
(***************************************************************************)

Down == ~ Running

\* A polled client whose connection died is removed (POLLHUP, or the failed
\* read or write that comes first), however busy the others keep the server.
HangupIsNoticed ==
  \A c \in Client :
    socket[c] = "open" /\ Pollable(c) /\ Dead(c) ~> Down \/ socket[c] = "closed"

\* A client that waits for a request and has sent its last byte is removed.
EndOfStreamIsNoticed ==
  \A c \in Client :
    socket[c] = "open" /\ state[c] = WAITING /\ link[c] = "fin" /\ inbox[c] = 0
      ~> Down \/ socket[c] = "closed"

\* What a waiting client sends is read, until a request is complete or the
\* client goes: no other client starves it.
InputIsRead ==
  \A c \in Client :
    socket[c] = "open" /\ state[c] = WAITING /\ inbox[c] > 0
      ~> Down \/ socket[c] = "closed" \/ state[c] = ANSWERING \/ inbox[c] = 0

\* The header of every answer is sent, or its client removed.
HeaderIsSent ==
  \A c \in Client : unsent[c] > 0 ~> Down \/ unsent[c] = 0

\* A connection that reached the backlog is accepted, or the server is down.
ConnectionIsAccepted ==
  \A c \in Client : socket[c] = "queued" ~> Down \/ socket[c] = "open"
=============================================================================
