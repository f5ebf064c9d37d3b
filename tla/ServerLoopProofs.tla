------------------------- MODULE ServerLoopProofs -------------------------
(***************************************************************************)
(* The safety of the server's loop, for every number of clients, every     *)
(* table, buffer and backlog size, and every set of bodies.                *)
(*                                                                         *)
(* The inductive invariant has two halves.  DataInv is about the clients,  *)
(* and every step but Poll and the end of a visit may disturb it; RoundInv *)
(* is about the walk over them, and holds again whenever a visit ends      *)
(* (GoOn), whether its client is still listed or not.                      *)
(***************************************************************************)
EXTENDS ServerLoop, ClientChainProofs, FiniteSetTheorems

\* The conjuncts of TypeOK about the clients, and those about the round.
DataTypes ==
  /\ clients \in Seq(Client)
  /\ nb_clients \in Nat
  /\ state \in [Client -> ClientState]
  /\ length \in [Client -> -1..(ReqSize - 1)]
  /\ unsent \in [Client -> 0..HeaderLen]
  /\ content \in [Client -> Bodies \cup {NoContent}]
  /\ backlog \in Seq(Client)
  /\ socket \in [Client -> {"none", "queued", "open", "closed"}]
  /\ link \in [Client -> Link]
  /\ inbox \in [Client -> 0..MaxInbox]
  /\ outq \in [Client -> 0..SndBuf]

RoundTypes ==
  /\ pc \in {"poll", "visit", "content", "accept", "exited", "killed", "crashed"}
  /\ polled \in Seq([fd : Client \cup {NoFd}, revents : SUBSET Event])
  /\ accept_ready \in BOOLEAN
  /\ nb_ready \in Nat
  /\ nb_handled \in Nat
  /\ index \in Nat
  /\ current \in Client \cup {NULL}
  /\ next_client \in Client \cup {NULL}

\* The list, the backlog and the sockets agree.
TableInv ==
  /\ IsChain(clients)
  /\ nb_clients = Len(clients)
  /\ nb_clients <= MaxClients
  /\ IsChain(backlog)
  /\ \A c \in Client : /\ socket[c] = "open" <=> Listed(clients, c)
                       /\ socket[c] = "queued" <=> Listed(backlog, c)

\* A length counted down to -1 comes from a read on a dead connection.
ErrorsAreFinal == \A c \in Client : length[c] < 0 => Dead(c)

DataInv == DataTypes /\ TableInv /\ ErrorsAreFinal

\* The current client is the p-th one, and what is left of the array, from
\* index on, is about what is left of the list, from p on.
VisitAt(p) ==
  /\ p \in 1..Len(clients)
  /\ current = clients[p]
  /\ next_client = IF p < Len(clients) THEN clients[p + 1] ELSE NULL
  /\ index >= 1
  /\ Len(polled) - index = Len(clients) - p
  /\ \A k \in 0..(Len(clients) - p) :
       /\ polled[index + k].fd = PolledFd(clients[p + k])
       /\ length[clients[p + k]] < 0 /\ Pollable(clients[p + k])
            => "POLLHUP" \in polled[index + k].revents

OneVisit == Visiting => \E p \in 1..Len(clients) : VisitAt(p)

\* The ready slots before the i-th one.
ReadyBefore(i) == { k \in ReadySlots(polled) : k < i }

\* Every handled socket has a ready slot of its own, before index.
HandledWereReady ==
  Visiting => /\ Cardinality(ReadySlots(polled)) <= nb_ready
              /\ nb_handled <= Cardinality(ReadyBefore(index))
              /\ pc = "content" => Revents # {}

RoundInv == RoundTypes /\ OneVisit /\ HandledWereReady /\ NoReadySocketSkipped

NobodyIsLeft == pc = "exited" => clients = << >> /\ backlog = << >>

IInv == DataInv /\ RoundInv /\ NobodyIsLeft

----------------------------------------------------------------------------

LEMMA TypesAreTypeOK == DataTypes /\ RoundTypes <=> TypeOK
BY DEF DataTypes, RoundTypes, TypeOK

\* The constants, one fact each.
LEMMA Constants ==
  /\ ReqSize \in Nat /\ ReqSize > 1
  /\ HeaderLen \in Nat /\ HeaderLen > 0
  /\ SndBuf \in Nat
  /\ MaxInbox \in Nat
  /\ MaxClients \in Nat /\ MaxClients > 0
  /\ NULL \notin Client
  /\ FreshStates \subseteq ClientState
  /\ \A x \in Bodies \cup {NoContent} :
       x.offset = 0 /\ x.length \in Nat /\ x.length - x.offset \in Nat
BY ParametersAssumption, NullAssumption DEF NoContent, Content

\* Ready slots are finitely many.
LEMMA ReadyIsFinite ==
  ASSUME NEW s, Len(s) \in Nat
  PROVE  /\ IsFiniteSet(ReadySlots(s))
         /\ Cardinality(ReadySlots(s)) \in Nat
<1>1. IsFiniteSet(1..Len(s))
  BY FS_Interval
<1>2. ReadySlots(s) \in SUBSET (1..Len(s))
  BY DEF ReadySlots
<1> QED
  BY <1>1, <1>2, FS_Subset, FS_CardinalityType

LEMMA InitIInv == Init => IInv
<1> SUFFICES ASSUME Init PROVE IInv
  OBVIOUS
<1>1. IsChain(clients) /\ IsChain(backlog) /\ Len(clients) = 0
      /\ \A c : ~ Listed(clients, c) /\ ~ Listed(backlog, c)
  BY EmptyIsChain DEF Init
<1>2. DataTypes
  <2>1. 0 \in 0..HeaderLen /\ 0 \in 0..MaxInbox /\ 0 \in 0..SndBuf /\ 0 \in -1..(ReqSize - 1)
    BY Constants
  <2>2. UNKNOWN \in ClientState /\ "up" \in Link /\ clients \in Seq(Client) /\ backlog \in Seq(Client)
    BY <1>1 DEF ClientState, Link, IsChain
  <2> QED
    BY <2>1, <2>2 DEF Init, DataTypes
<1>3. RoundTypes
  BY EmptySeq DEF Init, RoundTypes
<1>4. TableInv /\ ErrorsAreFinal
  BY <1>1, Constants DEF Init, TableInv, ErrorsAreFinal
<1> QED
  BY <1>2, <1>3, <1>4
  DEF Init, IInv, DataInv, RoundInv, OneVisit, HandledWereReady, NoReadySocketSkipped,
      Visiting, NobodyIsLeft

\* exit(), wherever it is called.
LEMMA ExitKeepsIInv == IInv /\ Exit => IInv'
<1> SUFFICES ASSUME IInv, Exit PROVE IInv'
  OBVIOUS
<1>1. IsChain(clients') /\ IsChain(backlog') /\ Len(clients') = 0
      /\ \A c : ~ Listed(clients', c) /\ ~ Listed(backlog', c)
  BY EmptyIsChain DEF Exit
<1>2. \A c \in Client : socket'[c] \in {"none", "closed"}
  BY DEF Exit, IInv, DataInv, TableInv, DataTypes
<1>3. DataTypes'
  <2>1. 0 \in 0..HeaderLen /\ 0 \in 0..MaxInbox /\ 0 \in 0..SndBuf /\ 0 \in -1..(ReqSize - 1)
    BY Constants
  <2>2. UNKNOWN \in ClientState /\ "up" \in Link
        /\ clients' \in Seq(Client) /\ backlog' \in Seq(Client)
    BY <1>1 DEF ClientState, Link, IsChain
  <2>3. socket' \in [Client -> {"none", "queued", "open", "closed"}]
    BY <1>2 DEF Exit
  <2> QED
    BY <2>1, <2>2, <2>3 DEF Exit, DataTypes
<1>4. RoundTypes'
  BY EmptySeq DEF Exit, RoundTypes
<1>5. TableInv'
  BY <1>1, <1>2, Constants DEF Exit, TableInv
<1>6. ErrorsAreFinal'
  BY DEF Exit, ErrorsAreFinal
<1> QED
  BY <1>3, <1>4, <1>5, <1>6
  DEF Exit, IInv, DataInv, RoundInv, OneVisit, HandledWereReady, NoReadySocketSkipped,
      Visiting, NobodyIsLeft

\* A signal that ends the process changes nothing but pc.
LEMMA DieKeepsIInv ==
  ASSUME IInv, NEW how \in {"killed", "crashed"}, Die(how)
  PROVE  IInv'
<1>1. /\ pc' = how
      /\ UNCHANGED <<clients, nb_clients, polled, accept_ready, nb_ready, nb_handled, index,
                     current, next_client, state, length, unsent, content, backlog, socket,
                     link, inbox, outq>>
  BY DEF Die, server, round, fields, net
<1>2. DataInv'
  BY <1>1 DEF IInv, DataInv, DataTypes, TableInv, ErrorsAreFinal, Dead
<1>3. RoundTypes'
  BY <1>1 DEF IInv, RoundInv, RoundTypes
<1> QED
  BY <1>1, <1>2, <1>3
  DEF IInv, RoundInv, OneVisit, HandledWereReady, NoReadySocketSkipped, Visiting, NobodyIsLeft

----------------------------------------------------------------------------
(***************************************************************************)
(* The two lemmas every visit is made of: a client is removed, and the     *)
(* walk goes on.                                                           *)
(***************************************************************************)

\* The current client is listed, at an index.
LEMMA CurrentIsListed ==
  ASSUME IInv, Visiting
  PROVE  \E p \in 1..Len(clients) : VisitAt(p) /\ current = clients[p]
BY DEF IInv, RoundInv, OneVisit, VisitAt

LEMMA RemoveKeepsData ==
  ASSUME DataInv, NEW p \in 1..Len(clients), RemoveClient(clients[p])
  PROVE  DataInv'
<1> DEFINE c == clients[p]
           d == DropAt(clients, p)
<1>1. IsChain(clients) /\ Len(clients) \in Nat /\ c \in Client
  BY ChainElements DEF DataInv, TableInv
<1>2. clients' = d
  BY <1>1, UnlinkIsDrop DEF RemoveClient
<1>3. /\ IsChain(d)
      /\ Len(d) = Len(clients) - 1
      /\ \A x : Listed(d, x) <=> Listed(clients, x) /\ x # c
  BY <1>1, DropAtIsChain
<1>4. ~ Listed(backlog, c)
  BY <1>1, IndexOfElement DEF DataInv, TableInv
<1> HIDE DEF c, d
<1>5. /\ socket' = [socket EXCEPT ![c] = "closed"]
      /\ nb_clients' = nb_clients - 1
      /\ backlog' = backlog
      /\ Forget(c)
  BY DEF RemoveClient, CountAfterRemove, c
<1>6. DataTypes'
  <2>1. 0 \in 0..HeaderLen /\ 0 \in 0..MaxInbox /\ 0 \in 0..SndBuf /\ 0 \in -1..(ReqSize - 1)
    BY Constants
  <2>2. UNKNOWN \in ClientState /\ "up" \in Link
    BY DEF ClientState, Link
  <2>3. nb_clients' \in Nat /\ clients' \in Seq(Client)
    BY <1>1, <1>2, <1>3, <1>5 DEF DataInv, TableInv, IsChain
  <2>4. socket' \in [Client -> {"none", "queued", "open", "closed"}] /\ backlog' \in Seq(Client)
    BY <1>1, <1>5 DEF DataInv, DataTypes
  <2> QED
    BY <2>1, <2>2, <2>3, <2>4, <1>5 DEF DataInv, DataTypes, Forget
<1>7. TableInv'
  <2>1. \A x \in Client : /\ socket'[x] = "open" <=> socket[x] = "open" /\ x # c
                          /\ socket'[x] = "queued" <=> socket[x] = "queued" /\ x # c
    BY <1>5 DEF DataInv, DataTypes
  <2>2. \A x \in Client : /\ socket'[x] = "open" <=> Listed(clients', x)
                          /\ socket'[x] = "queued" <=> Listed(backlog', x)
    BY <2>1, <1>2, <1>3, <1>4, <1>5 DEF DataInv, TableInv
  <2>3. nb_clients' = Len(clients') /\ nb_clients' <= MaxClients
    BY <1>1, <1>2, <1>3, <1>5, Constants DEF DataInv, TableInv
  <2> QED
    BY <2>2, <2>3, <1>2, <1>3, <1>5 DEF DataInv, TableInv
<1>8. ErrorsAreFinal'
  BY <1>1, <1>5 DEF DataInv, DataTypes, ErrorsAreFinal, Forget, Dead
<1> QED
  BY <1>6, <1>7, <1>8 DEF DataInv

\* The visit of current is over.  Its client is still listed, or it is not: what
\* is left of the list and of the array moves by one place in the same way.
LEMMA GoOnKeepsVisit ==
  ASSUME IInv, Visiting, NEW handled, GoOn(handled),
         NEW p \in 1..Len(clients), VisitAt(p),
         \/ clients' = clients
         \/ clients' = Unlink(clients, current),
         \A c \in Client \ {current} : state'[c] = state[c] /\ length'[c] = length[c]
  PROVE  OneVisit'
<1>1. /\ IsChain(clients) /\ Len(clients) \in Nat
      /\ \A i \in 1..Len(clients) : clients[i] \in Client
      /\ current = clients[p] /\ index \in Nat /\ Len(polled) \in Nat /\ polled' = polled
  BY ChainElements, LenProperties
  DEF IInv, DataInv, TableInv, RoundInv, RoundTypes, VisitAt, GoOn
<1>2. CASE EndsRound(handled)
  BY <1>2 DEF GoOn, OneVisit, Visiting
<1>3. CASE ~ EndsRound(handled)
  <2>1. /\ pc' = "visit"
        /\ current' = next_client
        /\ next_client' = NextIn(clients', next_client)
        /\ index' = index + 1
        /\ next_client # NULL
    BY <1>3 DEF GoOn, SavedNext, EndsRound
  <2>2. p < Len(clients) /\ next_client = clients[p + 1]
    BY <2>1 DEF VisitAt
  \* The new current client is at n in the new list, and every client from
  \* there on was one place further from p in the old one.
  <2>3. \E n \in 1..Len(clients') :
          /\ IsChain(clients')
          /\ Len(clients') \in Nat
          /\ Len(clients') - n = Len(clients) - (p + 1)
          /\ \A k \in 0..(Len(clients') - n) : clients'[n + k] = clients[p + 1 + k]
    <3>1. CASE clients' = clients
      <4>1. p + 1 \in 1..Len(clients)
        BY <2>2, <1>1
      <4> QED
        BY <3>1, <4>1, <1>1
    <3>2. CASE clients' = Unlink(clients, current)
      <4> DEFINE d == DropAt(clients, p)
      <4>1. clients' = d
        BY <3>2, <1>1, UnlinkIsDrop
      <4>2. /\ IsChain(d)
            /\ Len(d) = Len(clients) - 1
            /\ \A j \in 1..(Len(clients) - 1) :
                 d[j] = IF j < p THEN clients[j] ELSE clients[j + 1]
        BY <1>1, DropAtIsChain
      <4> HIDE DEF d
      <4>3. p \in 1..Len(d) /\ Len(d) \in Nat /\ Len(d) - p = Len(clients) - (p + 1)
        BY <4>2, <2>2, <1>1
      <4>4. ASSUME NEW k \in 0..(Len(d) - p) PROVE d[p + k] = clients[p + 1 + k]
        <5>1. p + k \in 1..(Len(clients) - 1) /\ ~ (p + k < p) /\ (p + k) + 1 = p + 1 + k
          BY <4>2, <4>3, <1>1
        <5> QED
          BY <5>1, <4>2
      <4> QED
        BY <4>1, <4>2, <4>3, <4>4
    <3> QED
      BY <3>1, <3>2
  <2>4. PICK n \in 1..Len(clients') :
          /\ IsChain(clients')
          /\ Len(clients') \in Nat
          /\ Len(clients') - n = Len(clients) - (p + 1)
          /\ \A k \in 0..(Len(clients') - n) : clients'[n + k] = clients[p + 1 + k]
    BY <2>3
  <2>5. clients'[n] = clients[p + 1]
    <3>1. 0 \in 0..(Len(clients') - n) /\ n + 0 = n /\ p + 1 + 0 = p + 1
      BY <2>4, <1>1
    <3> QED
      BY <3>1, <2>4
  <2>6. next_client' = IF n < Len(clients') THEN clients'[n + 1] ELSE NULL
    BY <2>1, <2>2, <2>4, <2>5, NextAt
  <2>7. ASSUME NEW k \in 0..(Len(clients') - n)
        PROVE  (/\ polled[index + k].fd = PolledFd(clients[n + k])
                /\ length[clients[n + k]] < 0 /\ Pollable(clients[n + k])
                     => "POLLHUP" \in polled[index + k].revents)'
    <3> DEFINE c == clients[p + (k + 1)]
    <3>1. /\ k + 1 \in 0..(Len(clients) - p)
          /\ p + (k + 1) \in 1..Len(clients)
          /\ p + (k + 1) # p
          /\ index' + k = index + (k + 1)
          /\ p + 1 + k = p + (k + 1)
      <4>1. k \in 0..(Len(clients) - (p + 1))
        BY <2>4
      <4>2. Len(clients) \in Nat /\ p \in 1..Len(clients) /\ index \in Nat /\ index' = index + 1
        BY <2>1, <1>1
      <4>3. Len(clients) - p \in Nat /\ k \in Nat /\ k + 1 <= Len(clients) - p
        BY <4>1, <4>2
      <4>4. /\ k + 1 \in 0..(Len(clients) - p) /\ p + (k + 1) \in 1..Len(clients)
            /\ p + (k + 1) # p
        BY <4>2, <4>3
      <4>5. index' + k = index + (k + 1) /\ p + 1 + k = p + (k + 1)
        BY <4>2, <4>3
      <4> QED
        BY <4>4, <4>5
    <3>2. c \in Client \ {current}
      BY <3>1, <1>1 DEF IsChain
    <3>3. clients'[n + k] = c
      BY <3>1, <2>4
    <3> HIDE DEF c
    <3>4. state'[c] = state[c] /\ length'[c] = length[c]
      BY <3>2
    <3>5. /\ polled[index + (k + 1)].fd = PolledFd(c)
          /\ length[c] < 0 /\ Pollable(c) => "POLLHUP" \in polled[index + (k + 1)].revents
      BY <3>1 DEF VisitAt, c
    <3> QED
      BY <3>1, <3>3, <3>4, <3>5, <1>1 DEF PolledFd, Pollable
  <2>8. /\ index' >= 1
        /\ Len(polled') - index' = Len(clients') - n
    BY <2>1, <2>4, <1>1 DEF VisitAt
  <2>9. VisitAt(n)'
    BY <2>1, <2>2, <2>4, <2>5, <2>6, <2>7, <2>8 DEF VisitAt
  <2> QED
    BY <2>4, <2>9 DEF OneVisit
<1> QED
  BY <1>2, <1>3

\* Counting the handled sockets never ends the loop before the last ready slot.
LEMMA GoOnKeepsCount ==
  ASSUME IInv, Visiting, NEW handled, GoOn(handled),
         NEW p \in 1..Len(clients), VisitAt(p),
         \/ handled = nb_handled
         \/ handled = nb_handled + 1 /\ Revents # {}
  PROVE  HandledWereReady' /\ NoReadySocketSkipped' /\ handled \in Nat
<1> DEFINE R == ReadySlots(polled)
           B == ReadyBefore(index)
           A == ReadyBefore(index + 1)
<1>1. /\ index \in Nat /\ Len(polled) \in Nat /\ nb_ready \in Nat /\ nb_handled \in Nat
      /\ polled' = polled /\ nb_ready' = nb_ready /\ nb_handled' = handled
  BY LenProperties DEF IInv, RoundInv, RoundTypes, GoOn
<1>2. IsFiniteSet(R) /\ Cardinality(R) \in Nat
  BY <1>1, ReadyIsFinite
<1>3. A \in SUBSET R /\ B \in SUBSET A
  BY <1>1 DEF ReadyBefore, ReadySlots
<1>4. /\ IsFiniteSet(A) /\ Cardinality(A) \in Nat /\ Cardinality(A) <= Cardinality(R)
      /\ Cardinality(R) = Cardinality(A) => R = A
  BY <1>2, <1>3, FS_Subset, FS_CardinalityType
<1>5. IsFiniteSet(B) /\ Cardinality(B) \in Nat /\ Cardinality(B) <= Cardinality(A)
  BY <1>3, <1>4, FS_Subset, FS_CardinalityType
<1>6. handled \in Nat /\ handled <= Cardinality(A)
  <2>1. nb_handled <= Cardinality(B)
    BY DEF IInv, RoundInv, HandledWereReady
  <2>2. CASE handled = nb_handled
    BY <2>1, <2>2, <1>1, <1>4, <1>5
  <2>3. CASE handled = nb_handled + 1 /\ Revents # {}
    <3>1. index \in 1..Len(polled)
      BY <1>1, ChainElements DEF VisitAt, IInv, DataInv, TableInv
    <3>2. A = B \cup {index} /\ index \notin B
      BY <2>3, <3>1, <1>1 DEF ReadyBefore, ReadySlots, Revents
    <3>3. Cardinality(A) = Cardinality(B) + 1
      BY <3>2, <1>5, FS_AddElement
    <3> QED
      BY <2>1, <2>3, <3>3, <1>1, <1>4, <1>5
  <2> QED
    BY <2>2, <2>3
<1>7. Cardinality(R) <= nb_ready
  BY DEF IInv, RoundInv, HandledWereReady
<1>8. CASE EndsRound(handled)
  <2>1. pc' = "accept" /\ index' = index
    BY <1>8 DEF GoOn
  <2>2. ASSUME NEW i \in (index + 1)..Len(polled) PROVE polled[i].revents = {}
    <3>1. CASE next_client = NULL
      <4>1. p = Len(clients)
        <5>1. p < Len(clients) => p + 1 \in 1..Len(clients)
          BY ChainElements DEF IInv, DataInv, TableInv
        <5> QED
          BY <5>1, <3>1, ChainElements, Constants DEF VisitAt, IInv, DataInv, TableInv
      <4>2. index = Len(polled)
        BY <4>1, <1>1, ChainElements DEF VisitAt, IInv, DataInv, TableInv
      <4> QED
        BY <4>2, <2>2, <1>1
    <3>2. CASE handled = nb_ready
      <4>1. Cardinality(A) = Cardinality(R)
        BY <3>2, <1>2, <1>4, <1>6, <1>7, <1>1
      <4>2. i \notin A /\ i \in 1..Len(polled)
        BY <2>2, <1>1 DEF ReadyBefore
      <4> QED
        BY <4>1, <4>2, <1>4 DEF ReadySlots
    <3> QED
      BY <3>1, <3>2, <1>8 DEF EndsRound
  <2> QED
    BY <2>1, <2>2, <1>1, <1>6 DEF HandledWereReady, NoReadySocketSkipped, Visiting
<1>9. CASE ~ EndsRound(handled)
  <2>1. pc' = "visit" /\ index' = index + 1
    BY <1>9 DEF GoOn
  <2>2. ReadySlots(polled)' = R /\ ReadyBefore(index)' = A
    BY <2>1, <1>1 DEF ReadyBefore, ReadySlots
  <2> QED
    BY <2>1, <2>2, <1>1, <1>6, <1>7 DEF HandledWereReady, NoReadySocketSkipped, Visiting
<1> QED
  BY <1>8, <1>9

\* Both together: whatever a visit did, the round goes on as it should.
LEMMA GoOnKeepsRound ==
  ASSUME IInv, Visiting, NEW handled, GoOn(handled),
         \/ handled = nb_handled
         \/ handled = nb_handled + 1 /\ Revents # {},
         \/ clients' = clients
         \/ clients' = Unlink(clients, current),
         \A c \in Client \ {current} : state'[c] = state[c] /\ length'[c] = length[c]
  PROVE  RoundInv' /\ NobodyIsLeft'
<1>1. PICK p \in 1..Len(clients) : VisitAt(p)
  BY CurrentIsListed
<1>2. OneVisit'
  BY <1>1, GoOnKeepsVisit
<1>3. HandledWereReady' /\ NoReadySocketSkipped' /\ handled \in Nat
  BY <1>1, GoOnKeepsCount
<1>4. pc' \in {"visit", "accept"}
  BY DEF GoOn
<1>5. current' \in Client \cup {NULL} /\ next_client' \in Client \cup {NULL}
  <2>1. CASE pc' = "accept"
    BY <2>1 DEF GoOn
  <2>2. CASE pc' = "visit"
    <3>1. PICK q \in 1..Len(clients') : VisitAt(q)'
      BY <2>2, <1>2 DEF OneVisit, Visiting
    <3>2. clients' \in Seq(Client)
      <4>1. IsChain(clients')
        BY <1>1, UnlinkIsDrop, DropAtIsChain, SMTT(30) DEF IInv, DataInv, TableInv, VisitAt
      <4> QED
        BY <4>1 DEF IsChain
    <3> QED
      BY <3>1, <3>2, ElementOfSeq, LenProperties DEF VisitAt
  <2> QED
    BY <2>1, <2>2, <1>4
<1>6. RoundTypes'
  BY <1>3, <1>4, <1>5 DEF IInv, RoundInv, RoundTypes, GoOn
<1> QED
  BY <1>2, <1>3, <1>4, <1>6 DEF RoundInv, NobodyIsLeft

----------------------------------------------------------------------------
(***************************************************************************)
(* One lemma per action.                                                   *)
(***************************************************************************)

\* What poll() reports of the clients it was given.
LEMMA SlotsAreSlots ==
  ASSUME DataInv
  PROVE  /\ Slots \in Seq([fd : Client \cup {NoFd}, revents : SUBSET Event])
         /\ Len(Slots) = Len(clients)
         /\ Len(clients) \in Nat
         /\ \A i \in 1..Len(clients) :
              /\ Slots[i].fd = PolledFd(clients[i])
              /\ length[clients[i]] < 0 /\ Pollable(clients[i]) => "POLLHUP" \in Slots[i].revents
<1> DEFINE Pollfd == [fd : Client \cup {NoFd}, revents : SUBSET Event]
<1>1. IsChain(clients) /\ Len(clients) \in Nat /\ \A i \in 1..Len(clients) : clients[i] \in Client
  BY ChainElements DEF DataInv, TableInv
<1>2. \A c \in Client : Slot(c) \in Pollfd
  BY DEF Slot, PolledFd, Events
<1> HIDE DEF Pollfd
<1>3. Slots \in [1..Len(clients) -> Pollfd]
  BY <1>1, <1>2 DEF Slots
<1>4. Slots \in Seq(Pollfd) /\ Len(Slots) = Len(clients)
  BY <1>1, <1>3, FunctionIsSeq
<1>5. ASSUME NEW i \in 1..Len(clients)
      PROVE  /\ Slots[i].fd = PolledFd(clients[i])
             /\ length[clients[i]] < 0 /\ Pollable(clients[i]) => "POLLHUP" \in Slots[i].revents
  <2>1. Slots[i] = Slot(clients[i]) /\ clients[i] \in Client
    BY <1>1 DEF Slots
  <2>2. length[clients[i]] < 0 => Dead(clients[i])
    BY <2>1 DEF DataInv, ErrorsAreFinal
  <2> QED
    BY <2>1, <2>2 DEF Slot, Events, Event
<1> QED
  BY <1>1, <1>4, <1>5 DEF Pollfd

LEMMA PollKeepsIInv == IInv /\ Poll => IInv'
<1> SUFFICES ASSUME IInv, Poll PROVE IInv'
  OBVIOUS
<1>1. /\ UNCHANGED <<clients, nb_clients, state, length, unsent, content, backlog, socket,
                     link, inbox, outq>>
      /\ polled' = Slots /\ index' = 1 /\ nb_handled' = 0
      /\ pc' \in {"accept", "visit"}
  BY DEF Poll, server, fields, net
<1>2. DataInv'
  BY <1>1 DEF IInv, DataInv, DataTypes, TableInv, ErrorsAreFinal, Dead
<1>3. /\ Slots \in Seq([fd : Client \cup {NoFd}, revents : SUBSET Event])
      /\ Len(Slots) = Len(clients)
      /\ Len(clients) \in Nat
      /\ IsChain(clients)
      /\ \A i \in 1..Len(clients) :
           /\ clients[i] \in Client
           /\ Slots[i].fd = PolledFd(clients[i])
           /\ length[clients[i]] < 0 /\ Pollable(clients[i]) => "POLLHUP" \in Slots[i].revents
  BY SlotsAreSlots, ChainElements DEF IInv, DataInv, TableInv
<1>4. Cardinality(ReadySlots(Slots)) \in Nat /\ nb_ready' \in Nat
      /\ Cardinality(ReadySlots(Slots)) <= nb_ready'
  BY <1>3, ReadyIsFinite DEF Poll
<1>5. CASE clients = << >>
  <2>1. Len(Slots) = 0 /\ current' = NULL /\ next_client' = NULL /\ pc' = "accept"
    BY <1>3, <1>5, EmptySeq DEF Poll, FirstOf
  <2>2. RoundTypes'
    BY <2>1, <1>1, <1>3, <1>4 DEF Poll, RoundTypes
  <2>3. NoReadySocketSkipped'
    BY <2>1, <1>1 DEF NoReadySocketSkipped
  <2> QED
    BY <2>1, <2>2, <2>3, <1>2
    DEF IInv, RoundInv, OneVisit, HandledWereReady, Visiting, NobodyIsLeft
<1>6. CASE clients # << >>
  <2>1. Len(clients) > 0
    BY <1>3, <1>6, EmptySeq DEF IsChain
  <2>2. 1 \in 1..Len(clients)
    BY <2>1, <1>3
  <2>3. /\ pc' = "visit"
        /\ current' = clients[1]
        /\ next_client' = IF 1 < Len(clients) THEN clients[1 + 1] ELSE NULL
    BY <2>1, <2>2, <1>3, <1>6, NextAt DEF Poll, FirstOf
  <2>4. VisitAt(1)'
    <3>1. ASSUME NEW k \in 0..(Len(clients) - 1)
          PROVE  (/\ polled[index + k].fd = PolledFd(clients[1 + k])
                  /\ length[clients[1 + k]] < 0 /\ Pollable(clients[1 + k])
                       => "POLLHUP" \in polled[index + k].revents)'
      <4>1. 1 + k \in 1..Len(clients)
        BY <1>3
      <4>2. clients' = clients /\ length' = length /\ state' = state /\ polled' = Slots
            /\ index' = 1
        BY <1>1
      <4> QED
        BY <4>1, <4>2, <1>3 DEF PolledFd, Pollable
    <3>2. clients' = clients
      BY <1>1
    <3> QED
      BY <3>1, <3>2, <2>2, <2>3, <1>1, <1>3 DEF VisitAt
  <2>5. OneVisit'
    BY <2>2, <2>4, <1>1 DEF OneVisit
  <2>6. HandledWereReady'
    <3>1. ReadyBefore(index)' = {}
      BY <1>1 DEF ReadyBefore, ReadySlots
    <3>2. ReadySlots(polled)' = ReadySlots(Slots)
      BY <1>1 DEF ReadySlots
    <3> QED
      BY <3>1, <3>2, <2>3, <1>1, <1>4, FS_EmptySet DEF HandledWereReady
  <2>7. RoundTypes'
    <3>1. next_client' \in Client \cup {NULL} /\ current' \in Client \cup {NULL}
      BY <2>1, <2>2, <2>3, <1>3
    <3> QED
      BY <3>1, <2>3, <1>1, <1>3, <1>4 DEF RoundTypes, Poll
  <2> QED
    BY <2>3, <2>5, <2>6, <2>7, <1>2 DEF IInv, RoundInv, NoReadySocketSkipped, NobodyIsLeft
<1> QED
  BY <1>5, <1>6

\* removeClientFromServer() on the current client, then the next one.
LEMMA RemoveAndGoOn ==
  ASSUME IInv, Visiting, NEW handled, RemoveClient(current), GoOn(handled),
         \/ handled = nb_handled
         \/ handled = nb_handled + 1 /\ Revents # {}
  PROVE  IInv'
<1>1. DataInv'
  BY CurrentIsListed, RemoveKeepsData DEF IInv
<1>2. clients' = Unlink(clients, current)
  BY DEF RemoveClient
<1>3. \A c \in Client \ {current} : state'[c] = state[c] /\ length'[c] = length[c]
  BY DEF RemoveClient, Forget, IInv, DataInv, DataTypes
<1> QED
  BY <1>1, <1>2, <1>3, GoOnKeepsRound DEF IInv

LEMMA RemoveHungUpKeepsIInv == IInv /\ RemoveHungUp => IInv'
BY RemoveAndGoOn DEF RemoveHungUp, Visiting, IInv, RoundInv, RoundTypes

LEMMA SkipClientKeepsIInv == IInv /\ SkipClient => IInv'
<1> SUFFICES ASSUME IInv, SkipClient PROVE IInv'
  OBVIOUS
<1>1. /\ UNCHANGED <<clients, nb_clients, state, length, unsent, content, backlog, socket,
                     link, inbox, outq>>
      /\ GoOn(nb_handled) /\ Visiting
  BY DEF SkipClient, server, fields, net, Visiting
<1>2. DataInv'
  BY <1>1 DEF IInv, DataInv, DataTypes, TableInv, ErrorsAreFinal, Dead
<1>3. RoundInv' /\ NobodyIsLeft'
  BY <1>1, GoOnKeepsRound
<1> QED
  BY <1>2, <1>3 DEF IInv

\* A step that leaves the table alone keeps DataInv if it keeps what the current
\* client's fields may hold, and nobody else's fields change.
LEMMA VisitKeepsIInv ==
  ASSUME IInv, Visiting, NEW handled, GoOn(handled), DataTypes', ErrorsAreFinal',
         clients' = clients, nb_clients' = nb_clients, backlog' = backlog, socket' = socket,
         \/ handled = nb_handled
         \/ handled = nb_handled + 1 /\ Revents # {},
         \A c \in Client \ {current} : state'[c] = state[c] /\ length'[c] = length[c]
  PROVE  IInv'
<1>1. TableInv'
  BY DEF IInv, DataInv, TableInv
<1>2. RoundInv' /\ NobodyIsLeft'
  BY GoOnKeepsRound
<1> QED
  BY <1>1, <1>2 DEF IInv, DataInv

\* The current client is a client.
LEMMA CurrentIsClient == IInv /\ Visiting => current \in Client
BY CurrentIsListed, ChainElements DEF IInv, DataInv, TableInv

\* A client whose length is -1 has hung up by the time it is visited.
LEMMA ReadHasRoom ==
  IInv /\ pc = "visit" /\ ~ HungUp /\ MayRead => length[current] \in 0..(ReqSize - 1)
<1> SUFFICES ASSUME IInv, pc = "visit", ~ HungUp, MayRead
             PROVE  length[current] \in 0..(ReqSize - 1)
  OBVIOUS
<1>1. PICK p \in 1..Len(clients) : VisitAt(p) /\ current = clients[p]
  BY CurrentIsListed DEF Visiting
<1>2. current \in Client /\ Len(clients) \in Nat /\ index \in Nat
  BY <1>1, ChainElements DEF IInv, DataInv, TableInv, RoundInv, RoundTypes
<1>3. 0 \in 0..(Len(clients) - p) /\ index + 0 = index /\ p + 0 = p
  BY <1>2
<1>4. length[current] < 0 /\ Pollable(current) => "POLLHUP" \in Revents
  BY <1>1, <1>3 DEF VisitAt, Revents
<1>5. ~ (length[current] < 0)
  BY <1>4 DEF MayRead, Pollable, HungUp
<1>6. length[current] \in -1..(ReqSize - 1)
  BY <1>2 DEF IInv, DataInv, DataTypes
<1> QED
  BY <1>5, <1>6, Constants

LEMMA ReadFromClientKeepsIInv == IInv /\ ReadFromClient => IInv'
<1> SUFFICES ASSUME IInv, ReadFromClient PROVE IInv'
  OBVIOUS
<1>1. /\ Visiting /\ pc = "visit" /\ ~ HungUp /\ MayRead /\ Revents # {}
      /\ GoOn(nb_handled + 1) /\ nb_handled \in Nat
  BY DEF ReadFromClient, Visiting, MayRead, IInv, RoundInv, RoundTypes
<1>2. PICK n \in ReadResults(current) : \/ PeerIsGone(n) /\ RemoveClient(current)
                                        \/ ~ PeerIsGone(n) /\ Receive(current, n)
  BY DEF ReadFromClient
<1>3. CASE RemoveClient(current)
  BY <1>1, <1>3, RemoveAndGoOn
<1>4. CASE ~ PeerIsGone(n) /\ Receive(current, n)
  <2>1. current \in Client /\ length[current] \in 0..(ReqSize - 1)
    BY <1>1, CurrentIsClient, ReadHasRoom
  <2>2. inbox[current] \in 0..MaxInbox /\ ReqSize \in Nat /\ MaxInbox \in Nat
    BY <2>1, Constants DEF IInv, DataInv, DataTypes
  <2>3. /\ n \in -1..MaxInbox /\ n # 0
        /\ length[current] + n \in -1..(ReqSize - 1)
        /\ n > 0 => n <= inbox[current]
        /\ n < 0 => link[current] \in {"reset", "lost"}
    <3>1. n # 0
      BY <1>4 DEF PeerIsGone
    <3>2. CASE n \in EmptyReadResults(current)
      BY <3>1, <3>2, <2>1, <2>2 DEF EmptyReadResults
    <3>3. CASE n \notin EmptyReadResults(current)
      <4>1. /\ inbox[current] > 0
            /\ n = IF inbox[current] < ReqSize - length[current] - 1
                     THEN inbox[current] ELSE ReqSize - length[current] - 1
        BY <3>1, <3>3 DEF ReadResults
      <4> QED
        BY <4>1, <3>1, <2>1, <2>2
    <3> QED
      BY <3>2, <3>3
  <2>4. DataTypes'
    <3>1. length' \in [Client -> -1..(ReqSize - 1)]
      BY <1>4, <2>1, <2>3 DEF Receive, IInv, DataInv, DataTypes
    <3>2. inbox' \in [Client -> 0..MaxInbox]
      <4>1. (IF n > 0 THEN inbox[current] - n ELSE inbox[current]) \in 0..MaxInbox
        BY <2>2, <2>3
      <4> QED
        BY <4>1, <1>4 DEF Receive, IInv, DataInv, DataTypes
    <3>3. link' \in [Client -> Link]
      BY <1>4 DEF Receive, IInv, DataInv, DataTypes, Link
    <3>4. /\ state' \in [Client -> ClientState]
          /\ unsent' \in [Client -> 0..HeaderLen]
          /\ content' \in [Client -> Bodies \cup {NoContent}]
      <4>1. CASE UNCHANGED <<state, unsent, content>>
        BY <4>1 DEF IInv, DataInv, DataTypes
      <4>2. CASE Answer(current)
        <5>1. ANSWERING \in ClientState /\ HeaderLen \in 0..HeaderLen
          BY Constants DEF ClientState
        <5> QED
          BY <4>2, <5>1 DEF Answer, IInv, DataInv, DataTypes
      <4> QED
        BY <4>1, <4>2, <1>4 DEF Receive
    <3> QED
      BY <3>1, <3>2, <3>3, <3>4, <1>4 DEF Receive, server, IInv, DataInv, DataTypes
  <2>5. ErrorsAreFinal'
    <3> SUFFICES ASSUME NEW c \in Client, length'[c] < 0 PROVE Dead(c)'
      BY DEF ErrorsAreFinal
    <3>1. CASE c = current
      <4>1. length'[c] = length[current] + n
        BY <3>1, <2>1, <1>4 DEF Receive, IInv, DataInv, DataTypes
      <4>2. n < 0
        BY <4>1, <2>1, <2>3
      <4> QED
        BY <4>2, <3>1, <2>1, <1>4 DEF Receive, Dead, IInv, DataInv, DataTypes
    <3>2. CASE c # current
      BY <3>2, <1>4 DEF Receive, Dead, IInv, DataInv, DataTypes, ErrorsAreFinal
    <3> QED
      BY <3>1, <3>2
  <2>6. \A c \in Client \ {current} : state'[c] = state[c] /\ length'[c] = length[c]
    BY <1>4 DEF Receive, Answer, IInv, DataInv, DataTypes
  <2>7. clients' = clients /\ nb_clients' = nb_clients /\ backlog' = backlog /\ socket' = socket
    BY <1>4 DEF Receive, server
  <2> QED
    BY <2>4, <2>5, <2>6, <2>7, <1>1, VisitKeepsIInv
<1> QED
  BY <1>2, <1>3, <1>4

\* A failed write.
LEMMA WriteFailsKeepsIInv ==
  ASSUME IInv, Visiting, Revents # {}, WriteFails(current)
  PROVE  IInv'
BY RemoveAndGoOn, ExitKeepsIInv, DieKeepsIInv DEF WriteFails

\* In the content step too, the current slot is a ready one.
LEMMA ContentIsReady == IInv /\ pc = "content" => Visiting /\ Revents # {}
BY DEF IInv, RoundInv, HandledWereReady, Visiting

LEMMA WriteHttpHeaderKeepsIInv == IInv /\ WriteHttpHeader => IInv'
<1> SUFFICES ASSUME IInv, WriteHttpHeader PROVE IInv'
  OBVIOUS
<1>1. Visiting /\ Revents # {} /\ pc = "visit"
  BY DEF WriteHttpHeader, MayWrite, Visiting
<1>2. current \in Client
  BY <1>1, CurrentIsClient
<1>3. unsent[current] \in 0..HeaderLen /\ outq[current] \in 0..SndBuf
      /\ HeaderLen \in Nat /\ SndBuf \in Nat
  BY <1>2, Constants DEF IInv, DataInv, DataTypes
<1>4. CASE /\ Send(current, unsent[current])
           /\ unsent' = [unsent EXCEPT ![current] = 0]
           /\ pc' = "content"
           /\ UNCHANGED <<round, state, content>>
  <2>1. /\ UNCHANGED <<clients, nb_clients, length, state, content, backlog, socket, link, inbox,
                       polled, accept_ready, nb_ready, nb_handled, index, current, next_client>>
        /\ outq' = [outq EXCEPT ![current] = @ + unsent[current]]
        /\ outq[current] + unsent[current] <= SndBuf
    BY <1>4 DEF Send, server, round
  <2>2. outq' \in [Client -> 0..SndBuf] /\ unsent' \in [Client -> 0..HeaderLen]
    BY <2>1, <1>2, <1>3, <1>4 DEF IInv, DataInv, DataTypes
  <2>3. DataInv'
    BY <2>1, <2>2 DEF IInv, DataInv, DataTypes, TableInv, ErrorsAreFinal, Dead
  <2>4. RoundTypes'
    BY <2>1, <1>4 DEF IInv, RoundInv, RoundTypes
  <2>5. OneVisit'
    BY <2>1, <1>1 DEF IInv, RoundInv, OneVisit, VisitAt, PolledFd, Pollable
  <2>6. HandledWereReady'
    BY <2>1, <1>1 DEF IInv, RoundInv, HandledWereReady, ReadyBefore, ReadySlots, Revents
  <2> QED
    BY <2>3, <2>4, <2>5, <2>6, <1>4 DEF IInv, RoundInv, NoReadySocketSkipped, NobodyIsLeft
<1>5. CASE /\ Dead(current)
           /\ \E n \in 1..(unsent[current] - 1) :
                unsent' = [unsent EXCEPT ![current] = @ - n]
           /\ UNCHANGED <<server, state, length, content, net>>
           /\ GoOn(nb_handled + 1)
  <2>1. UNCHANGED <<clients, nb_clients, length, state, content, backlog, socket, link, inbox,
                    outq>>
    BY <1>5 DEF server, net
  <2>2. unsent' \in [Client -> 0..HeaderLen]
    <3>1. PICK n \in 1..(unsent[current] - 1) : unsent' = [unsent EXCEPT ![current] = @ - n]
      BY <1>5
    <3>2. unsent[current] - n \in 0..HeaderLen
      BY <1>3
    <3> QED
      BY <3>1, <3>2 DEF IInv, DataInv, DataTypes
  <2>3. DataTypes' /\ ErrorsAreFinal'
    BY <2>1, <2>2 DEF IInv, DataInv, DataTypes, ErrorsAreFinal, Dead
  <2> QED
    BY <2>1, <2>3, <1>1, <1>5, VisitKeepsIInv
<1> QED
  BY <1>1, <1>4, <1>5, WriteFailsKeepsIInv DEF WriteHttpHeader

\* A state after writing is a state, and only the current client's changes.
LEMMA StateAfterWriteIsState ==
  ASSUME IInv, Visiting, NEW sent
  PROVE  /\ StateAfterWrite(current, sent) \in [Client -> ClientState]
         /\ \A c \in Client \ {current} : StateAfterWrite(current, sent)[c] = state[c]
BY CurrentIsClient DEF StateAfterWrite, ClientState, IInv, DataInv, DataTypes

LEMMA WriteNoContentKeepsIInv == IInv /\ WriteNoContent => IInv'
<1> SUFFICES ASSUME IInv, WriteNoContent PROVE IInv'
  OBVIOUS
<1>1. /\ UNCHANGED <<clients, nb_clients, length, unsent, content, backlog, socket, link, inbox,
                     outq>>
      /\ state' = StateAfterWrite(current, TRUE)
      /\ GoOn(nb_handled + 1)
      /\ Visiting /\ Revents # {}
  BY ContentIsReady DEF WriteNoContent, server, net
<1>2. DataTypes' /\ ErrorsAreFinal'
  BY <1>1, StateAfterWriteIsState DEF IInv, DataInv, DataTypes, ErrorsAreFinal, Dead
<1> QED
  BY <1>1, <1>2, StateAfterWriteIsState, VisitKeepsIInv

LEMMA WriteBodyKeepsIInv == IInv /\ WriteBody => IInv'
<1> SUFFICES ASSUME IInv, WriteBody PROVE IInv'
  OBVIOUS
<1>1. Visiting /\ Revents # {}
  BY ContentIsReady DEF WriteBody
<1>2. current \in Client
  BY <1>1, CurrentIsClient
<1> DEFINE n == content[current].length - content[current].offset
           sent == BodyIsSent(current)
<1>3. CASE /\ Send(current, n)
           /\ state' = StateAfterWrite(current, sent)
           /\ GoOn(nb_handled + 1)
           /\ UNCHANGED <<unsent, content>>
  <2>1. n \in Nat
    BY <1>2, Constants DEF IInv, DataInv, DataTypes
  <2> HIDE DEF n, sent
  <2>2. /\ UNCHANGED <<clients, nb_clients, length, unsent, content, backlog, socket, link, inbox>>
        /\ outq' = [outq EXCEPT ![current] = @ + n]
        /\ outq[current] + n <= SndBuf
    BY <1>3 DEF Send, server
  <2>3. outq' \in [Client -> 0..SndBuf]
    <3>1. outq[current] \in 0..SndBuf /\ SndBuf \in Nat
      BY <1>2, Constants DEF IInv, DataInv, DataTypes
    <3>2. outq[current] + n \in 0..SndBuf
      BY <3>1, <2>1, <2>2
    <3> QED
      BY <3>2, <2>2 DEF IInv, DataInv, DataTypes
  <2>4. state' \in [Client -> ClientState] /\ \A c \in Client \ {current} : state'[c] = state[c]
    BY <1>1, <1>3, StateAfterWriteIsState
  <2>5. DataTypes' /\ ErrorsAreFinal'
    BY <2>2, <2>3, <2>4 DEF IInv, DataInv, DataTypes, ErrorsAreFinal, Dead
  <2> QED
    BY <2>2, <2>4, <2>5, <1>1, <1>3, VisitKeepsIInv
<1> QED
  BY <1>1, <1>3, WriteFailsKeepsIInv DEF WriteBody

LEMMA SendFileKeepsIInv == IInv /\ SendFile => IInv'
<1> SUFFICES ASSUME IInv, SendFile PROVE IInv'
  OBVIOUS
<1>1. Visiting /\ Revents # {}
  BY ContentIsReady DEF SendFile
<1> QED
  BY <1>1, ExitKeepsIInv, RemoveAndGoOn, WriteFailsKeepsIInv DEF SendFile

\* Between two rounds nothing is asked of the walk.
LEMMA EndRoundKeepsRound ==
  ASSUME EndRound
  PROVE  RoundInv' /\ NobodyIsLeft'
<1>1. RoundTypes'
  BY EmptySeq DEF EndRound, RoundTypes
<1> QED
  BY <1>1 DEF EndRound, RoundInv, OneVisit, HandledWereReady, NoReadySocketSkipped,
              Visiting, NobodyIsLeft

LEMMA NoNewClientKeepsIInv == IInv /\ NoNewClient => IInv'
<1> SUFFICES ASSUME IInv, NoNewClient PROVE IInv'
  OBVIOUS
<1>1. DataInv'
  BY DEF NoNewClient, server, fields, net, IInv, DataInv, DataTypes, TableInv,
         ErrorsAreFinal, Dead
<1> QED
  BY <1>1, EndRoundKeepsRound DEF NoNewClient, IInv

\* accept() moves the oldest connection of the backlog to the table.
LEMMA AcceptKeepsData ==
  ASSUME DataInv, ~ TableIsFull, backlog # << >>,
         clients' = Prepend(clients, backlog[1]),
         nb_clients' = nb_clients + 1,
         socket' = [socket EXCEPT ![backlog[1]] = "open"],
         NEW fresh \in FreshStates, state' = [state EXCEPT ![backlog[1]] = fresh],
         length' = [length EXCEPT ![backlog[1]] = 0],
         unsent' = [unsent EXCEPT ![backlog[1]] = 0],
         content' = [content EXCEPT ![backlog[1]] = NoContent],
         backlog' = DropAt(backlog, 1),
         UNCHANGED <<link, inbox, outq>>
  PROVE  DataInv'
<1> DEFINE c == backlog[1]
           p == Prepend(clients, c)
           d == DropAt(backlog, 1)
<1>1. /\ IsChain(clients) /\ Len(clients) \in Nat
      /\ IsChain(backlog) /\ Len(backlog) \in Nat /\ Len(backlog) > 0
  BY ChainElements, EmptySeq DEF DataInv, TableInv, IsChain
<1>2. 1 \in 1..Len(backlog)
  BY <1>1
<1>3. c \in Client /\ Listed(backlog, c)
  BY <1>1, <1>2, ChainElements, IndexOfElement
<1>4. ~ Listed(clients, c)
  BY <1>3 DEF DataInv, TableInv
<1>5. /\ IsChain(p)
      /\ Len(p) = Len(clients) + 1
      /\ \A x : Listed(p, x) <=> Listed(clients, x) \/ x = c
  BY <1>1, <1>3, <1>4, PrependIsChain
<1>6. /\ IsChain(d)
      /\ \A x : Listed(d, x) <=> Listed(backlog, x) /\ x # c
  BY <1>1, <1>2, DropAtIsChain
<1>7. clients' = p /\ backlog' = d
  OBVIOUS
<1>8. /\ socket' = [socket EXCEPT ![c] = "open"]
      /\ state' = [state EXCEPT ![c] = fresh]
      /\ length' = [length EXCEPT ![c] = 0]
      /\ unsent' = [unsent EXCEPT ![c] = 0]
      /\ content' = [content EXCEPT ![c] = NoContent]
  OBVIOUS
<1> HIDE DEF c, p, d
<1>9. DataTypes'
  <2>1. 0 \in 0..HeaderLen /\ 0 \in -1..(ReqSize - 1) /\ fresh \in ClientState
    BY Constants
  <2>2. clients' \in Seq(Client) /\ backlog' \in Seq(Client) /\ nb_clients' \in Nat
    BY <1>5, <1>6, <1>7 DEF IsChain, DataInv, DataTypes
  <2> QED
    BY <2>1, <2>2, <1>8, SMTT(30) DEF DataInv, DataTypes
<1>10. TableInv'
  <2>1. \A x \in Client : /\ socket'[x] = "open" <=> socket[x] = "open" \/ x = c
                          /\ socket'[x] = "queued" <=> socket[x] = "queued" /\ x # c
    BY <1>8 DEF DataInv, DataTypes
  <2>2. \A x \in Client : /\ socket'[x] = "open" <=> Listed(clients', x)
                          /\ socket'[x] = "queued" <=> Listed(backlog', x)
    BY <2>1, <1>5, <1>6, <1>7 DEF DataInv, TableInv
  <2>3. nb_clients' = Len(clients') /\ nb_clients' <= MaxClients
    BY <1>1, <1>5, <1>7, Constants DEF DataInv, TableInv, TableIsFull
  <2> QED
    BY <2>2, <2>3, <1>5, <1>6, <1>7 DEF TableInv
<1>11. ErrorsAreFinal'
  BY <1>8 DEF DataInv, DataTypes, ErrorsAreFinal, Dead
<1> QED
  BY <1>9, <1>10, <1>11 DEF DataInv

LEMMA AcceptNewClientKeepsIInv ==
  ASSUME IInv, AcceptNewClient, backlog # << >>
  PROVE  IInv'
<1>1. CASE Exit
  BY <1>1, ExitKeepsIInv
<1>2. CASE ~ Exit
  <2>1. PICK fresh \in FreshStates : state' = [state EXCEPT ![backlog[1]] = fresh]
    BY <1>2 DEF AcceptNewClient
  <2>2. DataInv'
    BY <2>1, <1>2, AcceptKeepsData DEF AcceptNewClient, IInv
  <2>3. EndRound
    BY <1>2 DEF AcceptNewClient
  <2> QED
    BY <2>2, <2>3, EndRoundKeepsRound DEF IInv
<1> QED
  BY <1>1, <1>2

\* The peers and the kernel touch neither the server's variables nor the fields.
LEMMA PeerStepKeepsIInv == IInv /\ PeerStep => IInv'
<1> SUFFICES ASSUME IInv, PeerStep PROVE IInv'
  OBVIOUS
<1>1. PICK c \in Client : \/ Connect(c) \/ PeerSend(c) \/ PeerEnd(c)
                          \/ PeerReset(c) \/ PeerLost(c) \/ PeerDrain(c)
  BY DEF PeerStep
<1>2. /\ UNCHANGED <<pc, clients, nb_clients, polled, accept_ready, nb_ready, nb_handled, index,
                     current, next_client, state, length, unsent, content>>
      /\ pc # "exited"
  BY DEF PeerStep, server, round, fields, Running
<1>3. RoundInv' /\ NobodyIsLeft'
  <2>1. RoundTypes'
    BY <1>2 DEF IInv, RoundInv, RoundTypes
  <2>2. OneVisit'
    BY <1>2 DEF IInv, RoundInv, OneVisit, Visiting, VisitAt, PolledFd, Pollable
  <2>3. HandledWereReady' /\ NoReadySocketSkipped'
    BY <1>2 DEF IInv, RoundInv, HandledWereReady, NoReadySocketSkipped, Visiting, ReadyBefore,
                ReadySlots, Revents
  <2> QED
    BY <2>1, <2>2, <2>3, <1>2 DEF RoundInv, NobodyIsLeft
<1>4. CASE Connect(c)
  <2>1. /\ socket[c] = "none"
        /\ socket' = [socket EXCEPT ![c] = "queued"]
        /\ backlog' = Append(backlog, c)
        /\ UNCHANGED <<link, inbox, outq>>
    BY <1>4 DEF Connect
  <2>2. DataTypes' /\ ErrorsAreFinal'
    BY <1>2, <2>1, AppendProperties DEF IInv, DataInv, DataTypes, ErrorsAreFinal, Dead
  <2>3. IsChain(backlog) /\ Len(backlog) \in Nat /\ ~ Listed(backlog, c)
    BY <2>1, ChainElements DEF IInv, DataInv, TableInv
  <2>4. /\ backlog' \in Seq(Client)
        /\ Len(backlog') = Len(backlog) + 1
        /\ \A i \in 1..Len(backlog) : backlog'[i] = backlog[i]
        /\ backlog'[Len(backlog) + 1] = c
    BY <2>1, <2>3, AppendProperties DEF IsChain
  <2>5. IsChain(backlog') /\ \A x : Listed(backlog', x) <=> Listed(backlog, x) \/ x = c
    BY <2>3, <2>4 DEF IsChain, Listed
  <2>6. \A x \in Client : /\ socket'[x] = "open" <=> socket[x] = "open"
                          /\ socket'[x] = "queued" <=> socket[x] = "queued" \/ x = c
    BY <2>1 DEF IInv, DataInv, DataTypes
  <2>7. TableInv'
    BY <1>2, <2>5, <2>6 DEF IInv, DataInv, TableInv
  <2> QED
    BY <2>2, <2>7, <1>3 DEF IInv, DataInv
<1>5. CASE PeerSend(c) \/ PeerEnd(c) \/ PeerReset(c) \/ PeerLost(c) \/ PeerDrain(c)
  <2>1. UNCHANGED <<backlog, socket>>
    BY <1>5 DEF PeerSend, PeerEnd, PeerReset, PeerLost, PeerDrain
  <2>2. link' \in [Client -> Link] /\ \A x \in Client : Dead(x) => Dead(x)'
    BY <1>5 DEF PeerSend, PeerEnd, PeerReset, PeerLost, PeerDrain, Dead, Link,
                IInv, DataInv, DataTypes
  <2>3. inbox' \in [Client -> 0..MaxInbox] /\ outq' \in [Client -> 0..SndBuf]
    <3>1. inbox[c] \in 0..MaxInbox /\ outq[c] \in 0..SndBuf /\ 0 \in 0..SndBuf
      BY Constants DEF IInv, DataInv, DataTypes
    <3>2. inbox[c] < MaxInbox => inbox[c] + 1 \in 0..MaxInbox
      BY <3>1, Constants
    <3>3. outq[c] > 0 => outq[c] - 1 \in 0..SndBuf
      BY <3>1, Constants
    <3>4. inbox \in [Client -> 0..MaxInbox] /\ outq \in [Client -> 0..SndBuf]
      BY DEF IInv, DataInv, DataTypes
    <3>5. inbox' \in [Client -> 0..MaxInbox]
      BY <1>5, <3>1, <3>2, <3>4 DEF PeerSend, PeerEnd, PeerReset, PeerLost, PeerDrain
    <3>6. outq' \in [Client -> 0..SndBuf]
      BY <1>5, <3>1, <3>3, <3>4 DEF PeerSend, PeerEnd, PeerReset, PeerLost, PeerDrain
    <3> QED
      BY <3>5, <3>6
  <2>4. DataInv'
    BY <1>2, <2>1, <2>2, <2>3 DEF IInv, DataInv, DataTypes, TableInv, ErrorsAreFinal
  <2> QED
    BY <2>4, <1>3 DEF IInv
<1> QED
  BY <1>1, <1>4, <1>5

----------------------------------------------------------------------------
(***************************************************************************)
(* The invariant, and what follows from it.                                *)
(***************************************************************************)

\* A connection poll() reported is still there when accept() is called: only
\* accept() takes from the backlog.
BacklogWaits == accept_ready => backlog # << >>

LoopInv == IInv /\ BacklogWaits

LEMMA RoundKeepsBacklog ==
  ASSUME BacklogWaits, NEW handled, GoOn(handled), backlog' = backlog
  PROVE  BacklogWaits'
BY DEF GoOn, BacklogWaits

LEMMA StepKeepsBacklog == LoopInv /\ [Next]_vars => BacklogWaits'
<1> SUFFICES ASSUME LoopInv, [Next]_vars PROVE BacklogWaits'
  OBVIOUS
<1>0. BacklogWaits
  BY DEF LoopInv
<1>1. CASE UNCHANGED vars
  BY <1>0, <1>1 DEF vars, round, net, BacklogWaits
<1>2. CASE Exit
  BY <1>2 DEF Exit, BacklogWaits
<1>3. CASE EndRound
  BY <1>3 DEF EndRound, BacklogWaits
<1>4. ASSUME NEW how, Die(how) PROVE BacklogWaits'
  BY <1>0, <1>4 DEF Die, round, net, BacklogWaits
<1>5. ASSUME NEW c, WriteFails(c) PROVE BacklogWaits'
  BY <1>0, <1>2, <1>4, <1>5, RoundKeepsBacklog DEF WriteFails, RemoveClient
<1>6. CASE Poll
  BY <1>6 DEF Poll, net, BacklogWaits
<1>7. CASE RemoveHungUp
  BY <1>0, <1>7, RoundKeepsBacklog DEF RemoveHungUp, RemoveClient
<1>8. CASE SkipClient
  BY <1>0, <1>8, RoundKeepsBacklog DEF SkipClient, net
<1>9. CASE ReadFromClient
  BY <1>0, <1>9, RoundKeepsBacklog DEF ReadFromClient, RemoveClient, Receive
<1>10. CASE WriteHttpHeader
  BY <1>0, <1>5, <1>10, RoundKeepsBacklog DEF WriteHttpHeader, Send, round, net, BacklogWaits
<1>11. CASE WriteNoContent
  BY <1>0, <1>11, RoundKeepsBacklog DEF WriteNoContent, net
<1>12. CASE WriteBody
  BY <1>0, <1>5, <1>12, RoundKeepsBacklog DEF WriteBody, Send
<1>13. CASE SendFile
  BY <1>0, <1>2, <1>5, <1>13, RoundKeepsBacklog DEF SendFile, RemoveClient
<1>14. CASE NoNewClient
  BY <1>3, <1>14 DEF NoNewClient
<1>15. CASE AcceptWhenFull
  BY <1>4, <1>15 DEF AcceptWhenFull
<1>16. CASE AcceptNewClient
  BY <1>2, <1>3, <1>16 DEF AcceptNewClient
<1>17. CASE Interrupt
  BY <1>2, <1>17 DEF Interrupt
<1>18. CASE PeerStep
  <2>1. accept_ready' = accept_ready
    BY <1>18 DEF PeerStep, round
  <2>2. PICK c \in Client : \/ Connect(c) \/ PeerSend(c) \/ PeerEnd(c)
                            \/ PeerReset(c) \/ PeerLost(c) \/ PeerDrain(c)
    BY <1>18 DEF PeerStep
  <2>3. backlog \in Seq(Client)
    BY DEF LoopInv, IInv, DataInv, DataTypes
  <2>4. backlog' = backlog \/ backlog' # << >>
    BY <2>2, <2>3, AppendProperties, EmptySeq
    DEF Connect, PeerSend, PeerEnd, PeerReset, PeerLost, PeerDrain
  <2> QED
    BY <2>1, <2>4, <1>0 DEF BacklogWaits
<1> QED
  BY <1>1, <1>6, <1>7, <1>8, <1>9, <1>10, <1>11, <1>12, <1>13, <1>14, <1>15, <1>16, <1>17,
     <1>18 DEF Next, ServerStep

LEMMA StutterKeepsIInv == IInv /\ UNCHANGED vars => IInv'
<1> SUFFICES ASSUME IInv, UNCHANGED vars PROVE IInv'
  OBVIOUS
<1>1. UNCHANGED <<pc, clients, nb_clients, polled, accept_ready, nb_ready, nb_handled, index,
                  current, next_client, state, length, unsent, content, backlog, socket, link,
                  inbox, outq>>
  BY DEF vars, server, round, fields, net
<1>2. DataInv'
  BY <1>1 DEF IInv, DataInv, DataTypes, TableInv, ErrorsAreFinal, Dead
<1>3. RoundTypes'
  BY <1>1 DEF IInv, RoundInv, RoundTypes
<1>4. OneVisit'
  BY <1>1 DEF IInv, RoundInv, OneVisit, Visiting, VisitAt, PolledFd, Pollable
<1>5. HandledWereReady' /\ NoReadySocketSkipped'
  BY <1>1 DEF IInv, RoundInv, HandledWereReady, NoReadySocketSkipped, Visiting, ReadyBefore,
              ReadySlots, Revents
<1> QED
  BY <1>1, <1>2, <1>3, <1>4, <1>5 DEF IInv, RoundInv, NobodyIsLeft

\* The invariant holds of every execution.
THEOREM InductiveLoopInvariant == Spec => []LoopInv
<1>1. Init => LoopInv
  BY InitIInv DEF Init, LoopInv, BacklogWaits
<1>2. LoopInv /\ [Next]_vars => LoopInv'
  <2> SUFFICES ASSUME LoopInv, [Next]_vars PROVE LoopInv'
    OBVIOUS
  <2>1. BacklogWaits'
    BY StepKeepsBacklog
  <2>2. CASE UNCHANGED vars
    BY <2>1, <2>2, StutterKeepsIInv DEF LoopInv
  <2>3. CASE AcceptWhenFull
    BY <2>1, <2>3, DieKeepsIInv DEF LoopInv, AcceptWhenFull
  <2>4. CASE AcceptNewClient
    BY <2>1, <2>4, AcceptNewClientKeepsIInv DEF LoopInv, BacklogWaits, AcceptNewClient,
                                                ListenerReady
  <2>5. CASE Interrupt
    BY <2>1, <2>5, ExitKeepsIInv DEF LoopInv, Interrupt
  <2> QED
    BY <2>1, <2>2, <2>3, <2>4, <2>5, PollKeepsIInv, RemoveHungUpKeepsIInv,
       SkipClientKeepsIInv, ReadFromClientKeepsIInv, WriteHttpHeaderKeepsIInv,
       WriteNoContentKeepsIInv, WriteBodyKeepsIInv, SendFileKeepsIInv,
       NoNewClientKeepsIInv, PeerStepKeepsIInv
    DEF LoopInv, Next, ServerStep
<1> QED
  BY <1>1, <1>2, PTL DEF Spec

\* Every variable keeps its type; a request's length never exceeds its buffer.
THEOREM LoopTypeCorrect == Spec => []TypeOK
<1>1. LoopInv => TypeOK
  BY TypesAreTypeOK DEF LoopInv, IInv, DataInv, RoundInv
<1> QED
  BY <1>1, InductiveLoopInvariant, PTL

\* The count, the list and the sockets agree, and the table is never exceeded,
\* whatever the peers do and at whatever moment the server exits.
THEOREM TableAlwaysAgrees == Spec => []TableAgrees
<1>1. LoopInv => TableAgrees
  <2> SUFFICES ASSUME LoopInv PROVE TableAgrees
    OBVIOUS
  <2>1. ASSUME pc = "exited", NEW c \in Client PROVE socket[c] \in {"none", "closed"}
    <3>1. ~ Listed(clients, c) /\ ~ Listed(backlog, c)
      BY <2>1, EmptyIsChain DEF LoopInv, IInv, NobodyIsLeft
    <3> QED
      BY <3>1 DEF LoopInv, IInv, DataInv, TableInv, DataTypes
  <2> QED
    BY <2>1 DEF LoopInv, IInv, DataInv, TableInv, TableAgrees
<1> QED
  BY <1>1, InductiveLoopInvariant, PTL

\* The loop reads listed clients only, although it removes them as it goes.
THEOREM NoDanglingClientEver == Spec => []NoDanglingClient
<1>1. LoopInv => NoDanglingClient
  <2> SUFFICES ASSUME LoopInv, Visiting
               PROVE  Listed(clients, current) /\ next_client = NextIn(clients, current)
    BY DEF NoDanglingClient
  <2>1. IInv
    BY DEF LoopInv
  <2>2. PICK p \in 1..Len(clients) : VisitAt(p) /\ current = clients[p]
    BY <2>1, CurrentIsListed
  <2> QED
    BY <2>1, <2>2, IndexOfElement, NextAt DEF VisitAt, IInv, DataInv, TableInv
<1> QED
  BY <1>1, InductiveLoopInvariant, PTL

\* The pollfd array and the list stay in step, although the list shrinks.
THEOREM SlotsAlwaysMatch == Spec => []SlotMatchesClient
<1>1. LoopInv => SlotMatchesClient
  <2> SUFFICES ASSUME LoopInv, Visiting
               PROVE  /\ index + Len(From(clients, current)) - 1 = Len(polled)
                      /\ \A k \in 1..Len(From(clients, current)) :
                           polled[index + k - 1].fd = PolledFd(From(clients, current)[k])
    BY DEF SlotMatchesClient
  <2>1. IInv
    BY DEF LoopInv
  <2>2. PICK p \in 1..Len(clients) : VisitAt(p) /\ current = clients[p]
    BY <2>1, CurrentIsListed
  <2>3. /\ IsChain(clients) /\ Len(clients) \in Nat
        /\ index \in Nat /\ Len(polled) \in Nat
        /\ Len(polled) - index = Len(clients) - p
    BY <2>1, <2>2, ChainElements, LenProperties
    DEF VisitAt, IInv, DataInv, TableInv, RoundInv, RoundTypes
  <2>4. /\ Len(From(clients, current)) = Len(clients) - p + 1
        /\ \A k \in 1..(Len(clients) - p + 1) : From(clients, current)[k] = clients[k + p - 1]
    BY <2>2, <2>3, FromAt
  <2>5. ASSUME NEW k \in 1..(Len(clients) - p + 1)
        PROVE  polled[index + k - 1].fd = PolledFd(clients[k + p - 1])
    <3>1. /\ k - 1 \in 0..(Len(clients) - p)
          /\ index + (k - 1) = index + k - 1 /\ p + (k - 1) = k + p - 1
      BY <2>3
    <3>2. polled[index + (k - 1)].fd = PolledFd(clients[p + (k - 1)])
      BY <2>2, <3>1 DEF VisitAt
    <3> QED
      BY <3>1, <3>2
  <2>6. index + (Len(clients) - p + 1) - 1 = Len(polled)
    BY <2>3
  <2> QED
    BY <2>4, <2>5, <2>6
<1> QED
  BY <1>1, InductiveLoopInvariant, PTL

\* No slot that poll() reported is left unvisited when the loop breaks.
THEOREM NoReadySocketEverSkipped == Spec => []NoReadySocketSkipped
<1>1. LoopInv => NoReadySocketSkipped
  BY DEF LoopInv, IInv, RoundInv
<1> QED
  BY <1>1, InductiveLoopInvariant, PTL

\* read() is never given a size the buffer does not have.
THEOREM ReadsAlwaysFit == Spec => []ReadFitsBuffer
<1>1. LoopInv => ReadFitsBuffer
  BY ReadHasRoom DEF LoopInv, ReadFitsBuffer
<1> QED
  BY <1>1, InductiveLoopInvariant, PTL

----------------------------------------------------------------------------
(***************************************************************************)
(* The loop implements ClientRounds.                                       *)
(***************************************************************************)

\* The operators of ClientRounds are those of ClientChain.
LEMMA RoundsOperators ==
  /\ \A s, i : Rounds!DropAt(s, i) = DropAt(s, i)
  /\ \A s, c : Rounds!Unlink(s, c) = Unlink(s, c)
  /\ \A s, c : Rounds!Prepend(s, c) = Prepend(s, c)
  /\ \A s, c : Rounds!Listed(s, c) <=> Listed(s, c)
BY DEF Rounds!DropAt, Rounds!Unlink, Rounds!IndexIn, Rounds!Prepend, Rounds!Listed,
       DropAt, Unlink, IndexIn, Prepend, Listed

\* Whatever is done of the current client, the end of its visit is a visit of
\* the round: only a break before the last slot stops it.
LEMMA GoOnImplementsVisit ==
  ASSUME IInv, Visiting, NEW handled, GoOn(handled),
         \/ clients' = clients
         \/ clients' = Unlink(clients, current)
  PROVE  Rounds!Visit
<1>1. PICK p \in 1..Len(clients) : VisitAt(p) /\ current = clients[p]
  BY CurrentIsListed
<1>2. /\ IsChain(clients) /\ Len(clients) \in Nat
      /\ index \in Nat /\ Len(polled) \in Nat /\ Len(polled) - index = Len(clients) - p
      /\ next_client = IF p < Len(clients) THEN clients[p + 1] ELSE NULL
      /\ \A j \in 1..Len(clients) : clients[j] # NULL
  BY <1>1, ChainElements, LenProperties, NullAssumption
  DEF VisitAt, IInv, DataInv, TableInv, RoundInv, RoundTypes
<1>3. Todo = From(clients, clients[p]) /\ PhaseOf = "round"
  BY <1>1 DEF Todo, PhaseOf, Visiting
<1>4. /\ Len(Todo) = Len(clients) - p + 1 /\ IsChain(Todo)
      /\ 1 \in 1..Len(Todo) /\ Todo[1] = clients[p]
  BY <1>2, <1>3, FromAt, FromIsChain
<1>5. Todo # << >>
  BY <1>4, EmptyIsChain
<1>6. clients' = clients \/ clients' = DropAt(clients, p)
  BY <1>1, <1>2, UnlinkIsDrop
<1>7. clients' \in {clients, Unlink(clients, Todo[1])}
  BY <1>1, <1>4
<1>8. CASE ~ EndsRound(handled)
  <2>1. pc' = "visit" /\ current' = next_client /\ next_client # NULL
    BY <1>8 DEF GoOn, EndsRound
  <2>2. p < Len(clients) /\ current' = clients[p + 1]
    BY <2>1, <1>2
  <2>3. Len(Todo) # 1
    BY <2>2, <1>2, <1>4
  <2>4. Todo' = DropAt(Todo, 1)
    BY <2>1, <2>2, <1>2, <1>3, <1>6, FromNext DEF Todo, Visiting
  <2>5. PhaseOf' = "round"
    BY <2>1 DEF PhaseOf, Visiting
  <2> QED
    BY <2>3, <2>4, <2>5, <1>3, <1>5, <1>7, RoundsOperators DEF Rounds!Visit
<1>9. CASE EndsRound(handled)
  <2>1. /\ pc' = "accept" /\ index' = index /\ polled' = polled
        /\ Todo' = << >>
        /\ PhaseOf' = IF index < Len(polled) THEN "stopped" ELSE "visited"
    BY <1>9 DEF GoOn, Todo, PhaseOf, Visiting
  <2>2. CASE p < Len(clients)
    <3>1. PhaseOf' = "stopped"
      BY <2>1, <2>2, <1>2
    <3> QED
      BY <3>1, <2>1, <1>3, <1>5, <1>7, RoundsOperators DEF Rounds!Visit
  <2>3. CASE p = Len(clients)
    <3>1. PhaseOf' = "visited" /\ Len(Todo) = 1
      BY <2>1, <2>3, <1>2, <1>4
    <3>2. DropAt(Todo, 1) = << >>
      <4>1. IsChain(DropAt(Todo, 1)) /\ Len(DropAt(Todo, 1)) = Len(Todo) - 1
        BY <1>4, DropAtIsChain
      <4>2. Len(DropAt(Todo, 1)) = 0
        BY <4>1, <3>1
      <4> QED
        BY <4>1, <4>2, EmptySeq DEF IsChain
    <3> QED
      BY <3>1, <3>2, <2>1, <1>3, <1>5, <1>7, RoundsOperators DEF Rounds!Visit
  <2> QED
    BY <2>2, <2>3, <1>1, <1>2
<1> QED
  BY <1>8, <1>9

\* exit() and a signal are the same to the round: it is over.
LEMMA EndImplementsClose ==
  ASSUME Running, \/ Exit
                  \/ \E how \in {"killed", "crashed"} : Die(how)
  PROVE  Rounds!Close
<1>1. /\ pc' \in {"exited", "killed", "crashed"}
      /\ clients' \in {clients, << >>}
  BY DEF Exit, Die, server
<1>2. PhaseOf # "closing"
  BY DEF Running, PhaseOf, Visiting
<1> QED
  BY <1>1, <1>2 DEF Rounds!Close, Todo, PhaseOf, Visiting

LEMMA PollImplementsBegin == IInv /\ Poll => Rounds!Begin
<1> SUFFICES ASSUME IInv, Poll PROVE Rounds!Begin
  OBVIOUS
<1>1. /\ IsChain(clients) /\ Len(clients) \in Nat
      /\ pc = "poll" /\ clients' = clients /\ current' = FirstOf(clients)
  BY ChainElements DEF IInv, DataInv, TableInv, Poll, server
<1>2. CASE clients = << >>
  <2>1. Len(clients) = 0
    BY <1>2, EmptySeq
  <2>2. pc' = "accept" /\ ~ (index' < Len(polled'))
    <3>1. polled' = [i \in 1..0 |-> Slot(clients[i])] /\ index' = 1 /\ pc' = "accept"
      BY <2>1, <1>2 DEF Poll, Slots
    <3>2. Len(polled') = 0
      BY <3>1
    <3> QED
      BY <3>1, <3>2
  <2> QED
    BY <2>2, <1>1, <1>2 DEF Rounds!Begin, Todo, PhaseOf, Visiting
<1>3. CASE clients # << >>
  <2>1. Len(clients) # 0
    BY <1>1, <1>3, EmptySeq DEF IsChain
  <2>2. current' = clients[1] /\ pc' = "visit"
    BY <2>1, <1>1, <1>3 DEF Poll, FirstOf
  <2>3. From(clients', current') = clients
    BY <2>1, <2>2, <1>1, FromFirst
  <2> QED
    BY <2>2, <2>3, <1>1, <1>3 DEF Rounds!Begin, Todo, PhaseOf, Visiting
<1> QED
  BY <1>2, <1>3

LEMMA EndRoundImplementsAdmit ==
  ASSUME IInv, pc = "accept", EndRound,
         \/ clients' = clients
         \/ \E c \in Client : /\ socket[c] = "queued" /\ nb_clients # MaxClients
                              /\ clients' = Prepend(clients, c)
  PROVE  Rounds!Admit
<1>1. Todo = << >> /\ Todo' = << >> /\ PhaseOf \in {"visited", "stopped"} /\ PhaseOf' = "idle"
  BY DEF EndRound, Todo, PhaseOf, Visiting
<1>2. CASE clients' = clients
  BY <1>1, <1>2 DEF Rounds!Admit
<1>3. ASSUME NEW c \in Client, socket[c] = "queued", nb_clients # MaxClients,
             clients' = Prepend(clients, c)
      PROVE  Rounds!Admit
  <2>1. ~ Listed(clients, c)
    BY <1>3 DEF IInv, DataInv, TableInv
  <2>2. Len(clients) < MaxClients
    BY <1>3, Constants DEF IInv, DataInv, TableInv, DataTypes
  <2> QED
    BY <2>1, <2>2, <1>1, <1>3, RoundsOperators DEF Rounds!Admit
<1> QED
  BY <1>2, <1>3

LEMMA WriteFailsImplementsRounds ==
  ASSUME IInv, Visiting, WriteFails(current)
  PROVE  Rounds!Visit \/ Rounds!Close
<1>1. Running
  BY DEF Running, Visiting
<1>2. CASE RemoveClient(current) /\ GoOn(nb_handled + 1)
  BY <1>2, GoOnImplementsVisit DEF RemoveClient
<1>3. CASE Exit \/ Die("killed")
  BY <1>1, <1>3, EndImplementsClose
<1> QED
  BY <1>2, <1>3 DEF WriteFails

\* Every step is a step of the round, or leaves the walk where it is.
LEMMA StepImplementsRounds == LoopInv /\ [Next]_vars => [Rounds!Next]_(Rounds!vars)
<1> SUFFICES ASSUME LoopInv, [Next]_vars PROVE [Rounds!Next]_(Rounds!vars)
  OBVIOUS
<1>0. IInv /\ BacklogWaits
  BY DEF LoopInv
<1>1. CASE UNCHANGED vars
  <2>1. UNCHANGED <<clients, polled, index, current>> /\ pc' = pc
    BY <1>1 DEF vars, server, round
  <2> QED
    BY <2>1 DEF Todo, PhaseOf, Visiting, Rounds!vars
<1>2. CASE Poll
  BY <1>0, <1>2, PollImplementsBegin DEF Rounds!Next
<1>3. CASE RemoveHungUp
  BY <1>0, <1>3, GoOnImplementsVisit DEF RemoveHungUp, RemoveClient, Visiting, Rounds!Next
<1>4. CASE SkipClient
  BY <1>0, <1>4, GoOnImplementsVisit DEF SkipClient, server, Visiting, Rounds!Next
<1>5. CASE ReadFromClient
  BY <1>0, <1>5, GoOnImplementsVisit
  DEF ReadFromClient, RemoveClient, Receive, server, Visiting, Rounds!Next
<1>6. CASE WriteHttpHeader
  <2>1. Visiting
    BY <1>6 DEF WriteHttpHeader, Visiting
  <2>2. CASE UNCHANGED <<server, round>> /\ pc = "visit" /\ pc' = "content"
    BY <2>2 DEF server, round, Todo, PhaseOf, Visiting, Rounds!vars
  <2>3. CASE UNCHANGED server /\ GoOn(nb_handled + 1)
    BY <2>1, <2>3, <1>0, GoOnImplementsVisit DEF server, Rounds!Next
  <2>4. CASE WriteFails(current)
    BY <2>1, <2>4, <1>0, WriteFailsImplementsRounds DEF Rounds!Next
  <2> QED
    BY <2>2, <2>3, <2>4, <1>6 DEF WriteHttpHeader, Send
<1>7. CASE WriteNoContent
  BY <1>0, <1>7, GoOnImplementsVisit DEF WriteNoContent, server, Visiting, Rounds!Next
<1>8. CASE WriteBody
  BY <1>0, <1>8, GoOnImplementsVisit, WriteFailsImplementsRounds
  DEF WriteBody, Send, server, Visiting, Rounds!Next
<1>9. CASE SendFile
  <2>1. Visiting /\ Running
    BY <1>9 DEF SendFile, Visiting, Running
  <2> QED
    BY <2>1, <1>0, <1>9, GoOnImplementsVisit, WriteFailsImplementsRounds, EndImplementsClose
    DEF SendFile, RemoveClient, Rounds!Next
<1>10. CASE NoNewClient
  BY <1>0, <1>10, EndRoundImplementsAdmit DEF NoNewClient, server, Rounds!Next
<1>11. CASE AcceptWhenFull
  BY <1>11, EndImplementsClose DEF AcceptWhenFull, Running, Rounds!Next
<1>12. CASE AcceptNewClient
  <2>1. backlog # << >> /\ IsChain(backlog)
    BY <1>0, <1>12 DEF AcceptNewClient, ListenerReady, BacklogWaits, IInv, DataInv, TableInv
  <2>2. backlog[1] \in Client /\ Listed(backlog, backlog[1])
    <3>1. Len(backlog) \in Nat /\ Len(backlog) # 0
      BY <2>1, ChainElements, EmptySeq DEF IsChain
    <3>2. 1 \in 1..Len(backlog)
      BY <3>1
    <3> QED
      BY <3>2, <2>1, ChainElements, IndexOfElement
  <2>3. socket[backlog[1]] = "queued" /\ nb_clients # MaxClients /\ pc = "accept"
    BY <2>2, <1>0, <1>12 DEF AcceptNewClient, TableIsFull, IInv, DataInv, TableInv
  <2>4. CASE Exit
    BY <2>3, <2>4, EndImplementsClose DEF Running, Rounds!Next
  <2>5. CASE EndRound /\ clients' = Prepend(clients, backlog[1])
    BY <2>2, <2>3, <2>5, <1>0, EndRoundImplementsAdmit DEF Rounds!Next
  <2> QED
    BY <2>4, <2>5, <1>12 DEF AcceptNewClient
<1>13. CASE Interrupt
  BY <1>13, EndImplementsClose DEF Interrupt, Rounds!Next
<1>14. CASE PeerStep
  <2>1. UNCHANGED <<clients, polled, index, current>> /\ pc' = pc
    BY <1>14 DEF PeerStep, server, round
  <2> QED
    BY <2>1 DEF Todo, PhaseOf, Visiting, Rounds!vars
<1> QED
  BY <1>1, <1>2, <1>3, <1>4, <1>5, <1>6, <1>7, <1>8, <1>9, <1>10, <1>11, <1>12, <1>13, <1>14
  DEF Next, ServerStep

\* The loop makes the rounds that the pointers make, whatever happens between
\* its system calls and to whichever client: with WalksImplementRounds, neither
\* the list nor the loop over it skips a client or visits one twice.
THEOREM LoopImplementsRounds == Spec => ImplementsRounds
<1>1. Init => Rounds!Init
  BY DEF Init, Rounds!Init, Todo, PhaseOf, Visiting
<1> QED
  BY <1>1, StepImplementsRounds, InductiveLoopInvariant, PTL
  DEF Spec, ImplementsRounds, Rounds!Spec
=============================================================================
