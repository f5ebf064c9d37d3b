------------------------- MODULE ClientListProofs -------------------------
(***************************************************************************)
(* The pointers of ClientList describe its chain, for any number of        *)
(* clients, through every walk; hence no walk reads a freed client.        *)
(***************************************************************************)
EXTENDS ClientList, ClientChainProofs

(***************************************************************************)
(* The inductive invariant: the list seen from next, which holds until the *)
(* last client is deleted; the rest of it, which holds while the server    *)
(* runs; and where the two kinds of walk are.                              *)
(***************************************************************************)
NextDescribes ==
  /\ IsChain(chain)
  /\ live = { chain[i] : i \in 1..Len(chain) }
  /\ \A i \in 1..Len(chain) :
       next[chain[i]] = IF i < Len(chain) THEN chain[i + 1] ELSE NULL

ServerDescribes ==
  Serving =>
    /\ nb_clients = Len(chain) /\ nb_clients <= MaxClients
    /\ head = FirstOf(chain)
    /\ \A i \in 1..Len(chain) :
         previous[chain[i]] = IF i > 1 THEN chain[i - 1] ELSE NULL

WalksAreInside ==
  /\ pc = "walk" => Listed(chain, current)
  /\ pc = "delete" => Len(chain) > 0 /\ current = chain[1]
  /\ pc = "deleted" => Len(chain) = 0

IInv == TypeOK /\ NextDescribes /\ ServerDescribes /\ WalksAreInside

LEMMA LiveIsListed ==
  ASSUME NextDescribes
  PROVE  \A c : c \in live <=> Listed(chain, c)
BY DEF NextDescribes, Listed

LEMMA InitIInv == Init => IInv
<1> SUFFICES ASSUME Init PROVE IInv
  OBVIOUS
<1> USE DEF Init
<1>1. IsChain(chain) /\ Len(chain) = 0 /\ \A c : ~ Listed(chain, c)
  BY EmptyIsChain
<1>2. TypeOK
  BY <1>1, MaxClientsAssumption DEF TypeOK, Place, Pointer, IsChain
<1>3. NextDescribes
  BY <1>1 DEF NextDescribes
<1>4. ServerDescribes /\ WalksAreInside
  BY <1>1, MaxClientsAssumption DEF ServerDescribes, WalksAreInside, FirstOf
<1> QED
  BY <1>2, <1>3, <1>4 DEF IInv

\* addClientToServer() on a client malloc() has just returned.
LEMMA AddKeepsList ==
  ASSUME IInv, Serving, Serving', NEW c \in Client \ live,
         nb_clients # MaxClients, AddClientToServer(c)
  PROVE  /\ NextDescribes' /\ ServerDescribes'
         /\ head' \in Pointer /\ nb_clients' \in 0..MaxClients /\ live' \in SUBSET Client
         /\ next' \in [Client -> Pointer] /\ previous' \in [Client -> Pointer]
<1> USE DEF IInv
<1>1. ~ Listed(chain, c) /\ IsChain(chain)
  BY LiveIsListed DEF NextDescribes
<1>2. /\ IsChain(chain') /\ Len(chain') = Len(chain) + 1
      /\ \A j \in 1..(Len(chain) + 1) : chain'[j] = IF j = 1 THEN c ELSE chain[j - 1]
      /\ \A x : Listed(chain', x) <=> Listed(chain, x) \/ x = c
  BY <1>1, PrependIsChain DEF AddClientToServer
<1>3. Len(chain) \in Nat /\ \A i \in 1..Len(chain) : chain[i] \in Client /\ chain[i] # c
  BY <1>1, ChainElements DEF Listed
<1>4. /\ nb_clients = Len(chain) /\ head = FirstOf(chain)
      /\ next \in [Client -> Pointer] /\ previous \in [Client -> Pointer]
      /\ live \in SUBSET Client /\ nb_clients \in 0..MaxClients /\ head \in Pointer
  BY DEF ServerDescribes, TypeOK
<1>5. live' = { chain'[i] : i \in 1..Len(chain') }
  <2>1. \A x : x \in live' <=> Listed(chain', x)
    BY <1>2, LiveIsListed DEF AddClientToServer
  <2> QED
    BY <2>1 DEF Listed
<1>6. ASSUME NEW i \in 1..Len(chain')
      PROVE  next'[chain'[i]] = IF i < Len(chain') THEN chain'[i + 1] ELSE NULL
  <2>1. CASE i = 1
    BY <2>1, <1>2, <1>3, <1>4 DEF AddClientToServer, FirstOf
  <2>2. CASE i # 1
    <3>1. i - 1 \in 1..Len(chain) /\ chain'[i] = chain[i - 1]
      BY <2>2, <1>2, <1>3
    <3>2. next'[chain'[i]] = next[chain[i - 1]]
      BY <3>1, <1>3, <1>4 DEF AddClientToServer
    <3>3. next[chain[i - 1]] = IF i - 1 < Len(chain) THEN chain[(i - 1) + 1] ELSE NULL
      BY <3>1 DEF NextDescribes
    <3>4. i < Len(chain') => i + 1 \in 1..(Len(chain) + 1) /\ chain'[i + 1] = chain[(i - 1) + 1]
      BY <2>2, <1>2, <1>3
    <3> QED
      BY <3>2, <3>3, <3>4, <1>2, <1>3
  <2> QED
    BY <2>1, <2>2
<1>7. ASSUME NEW i \in 1..Len(chain')
      PROVE  previous'[chain'[i]] = IF i > 1 THEN chain'[i - 1] ELSE NULL
  <2>1. CASE i = 1
    BY <2>1, <1>2, <1>3, <1>4 DEF AddClientToServer, PreviousAfterAdd
  <2>2. CASE i = 2
    <3>1. 1 \in 1..Len(chain) /\ chain'[2] = chain[1] /\ chain'[1] = c
      BY <2>2, <1>2, <1>3
    <3>2. previous'[chain[1]] = c
      BY <3>1, <1>3, <1>4 DEF AddClientToServer, PreviousAfterAdd, FirstOf
    <3> QED
      BY <2>2, <3>1, <3>2
  <2>3. CASE i > 2
    <3>1. i - 1 \in 1..Len(chain) /\ chain'[i] = chain[i - 1] /\ chain'[i - 1] = chain[(i - 1) - 1]
      BY <2>3, <1>2, <1>3
    <3>2. chain[i - 1] # head
      BY <2>3, <3>1, <1>1, <1>3, <1>4 DEF FirstOf, IsChain
    <3>3. previous'[chain'[i]] = previous[chain[i - 1]]
      BY <3>1, <3>2, <1>3, <1>4 DEF AddClientToServer, PreviousAfterAdd
    <3>4. previous[chain[i - 1]] = chain[(i - 1) - 1]
      BY <2>3, <3>1 DEF ServerDescribes
    <3> QED
      BY <2>3, <3>1, <3>3, <3>4
  <2> QED
    BY <2>1, <2>2, <2>3, <1>2, <1>3
<1>8. /\ head' = FirstOf(chain')
      /\ nb_clients' = Len(chain') /\ nb_clients' <= MaxClients
  <2>1. nb_clients <= MaxClients
    BY DEF ServerDescribes
  <2> QED
    BY <2>1, <1>2, <1>3, <1>4, MaxClientsAssumption DEF AddClientToServer, FirstOf
<1>9. /\ head' \in Pointer /\ nb_clients' \in 0..MaxClients /\ live' \in SUBSET Client
      /\ next' \in [Client -> Pointer] /\ previous' \in [Client -> Pointer]
  <2>1. nb_clients' \in 0..MaxClients
    BY <1>2, <1>3, <1>8, MaxClientsAssumption
  <2> QED
    BY <2>1, <1>4 DEF AddClientToServer, PreviousAfterAdd, Pointer
<1> QED
  BY <1>2, <1>5, <1>6, <1>7, <1>8, <1>9 DEF NextDescribes, ServerDescribes

\* removeClientFromServer() on the i-th client of the list.
LEMMA RemoveKeepsList ==
  ASSUME IInv, Serving, NEW i \in 1..Len(chain), RemoveClientFromServer(chain[i])
  PROVE  /\ NextDescribes'
         /\ nb_clients' = Len(chain') /\ nb_clients' <= MaxClients
         /\ head' = FirstOf(chain')
         /\ \A j \in 1..Len(chain') :
              previous'[chain'[j]] = IF j > 1 THEN chain'[j - 1] ELSE NULL
         /\ head' \in Pointer /\ nb_clients' \in 0..MaxClients /\ live' \in SUBSET Client
         /\ next' \in [Client -> Pointer] /\ previous' \in [Client -> Pointer]
         /\ chain' = DropAt(chain, i)
<1> USE DEF IInv
<1> DEFINE c == chain[i]
<1>1. IsChain(chain) /\ chain' = DropAt(chain, i)
  BY UnlinkIsDrop DEF NextDescribes, RemoveClientFromServer
<1>2. /\ IsChain(chain') /\ Len(chain') = Len(chain) - 1
      /\ \A j \in 1..(Len(chain) - 1) :
           chain'[j] = IF j < i THEN chain[j] ELSE chain[j + 1]
      /\ \A x : Listed(chain', x) <=> Listed(chain, x) /\ x # c
  <2> DEFINE d == DropAt(chain, i)
  <2>1. /\ IsChain(d) /\ Len(d) = Len(chain) - 1
        /\ \A j \in 1..(Len(chain) - 1) : d[j] = IF j < i THEN chain[j] ELSE chain[j + 1]
        /\ \A x : Listed(d, x) <=> Listed(chain, x) /\ x # c
    BY <1>1, DropAtIsChain
  <2> HIDE DEF d
  <2>2. chain' = d
    BY <1>1 DEF d
  <2> QED
    BY <2>1, <2>2
<1>3. Len(chain) \in Nat /\ \A j \in 1..Len(chain) : chain[j] \in Client /\ chain[j] # NULL
  BY <1>1, ChainElements, NullAssumption
<1>4. \A j, k \in 1..Len(chain) : chain[j] = chain[k] => j = k
  BY <1>1 DEF IsChain
<1>5. /\ nb_clients = Len(chain) /\ head = FirstOf(chain)
      /\ next \in [Client -> Pointer] /\ previous \in [Client -> Pointer]
      /\ live \in SUBSET Client /\ nb_clients \in 0..MaxClients /\ head \in Pointer
  BY DEF ServerDescribes, TypeOK
<1>6. /\ next[c] = IF i < Len(chain) THEN chain[i + 1] ELSE NULL
      /\ previous[c] = IF i > 1 THEN chain[i - 1] ELSE NULL
  BY DEF NextDescribes, ServerDescribes
<1>7. live' = { chain'[j] : j \in 1..Len(chain') }
  <2>1. \A x : x \in live' <=> Listed(chain', x)
    BY <1>2, LiveIsListed DEF RemoveClientFromServer
  <2> QED
    BY <2>1 DEF Listed
<1>8. ASSUME NEW j \in 1..Len(chain')
      PROVE  next'[chain'[j]] = IF j < Len(chain') THEN chain'[j + 1] ELSE NULL
  <2>1. CASE j < i - 1
    <3>1. /\ chain'[j] = chain[j] /\ chain'[j + 1] = chain[j + 1] /\ j < Len(chain')
          /\ j \in 1..Len(chain) /\ i - 1 \in 1..Len(chain) /\ j < Len(chain)
      BY <2>1, <1>2, <1>3
    <3>2. chain[j] # c /\ chain[j] # previous[c]
      BY <2>1, <3>1, <1>3, <1>4, <1>6
    <3> QED
      BY <3>1, <3>2, <1>3 DEF RemoveClientFromServer, NextAfterRemove, NextDescribes
  <2>2. CASE j = i - 1
    <3>1. /\ chain'[j] = chain[i - 1] /\ j \in 1..Len(chain)
          /\ j < Len(chain') <=> i < Len(chain)
          /\ j < Len(chain') => chain'[j + 1] = chain[i + 1]
      BY <2>2, <1>2, <1>3
    <3>2. chain[j] # c /\ chain[j] = previous[c]
      BY <2>2, <3>1, <1>3, <1>4, <1>6
    <3> QED
      BY <2>2, <3>1, <3>2, <1>3, <1>6 DEF RemoveClientFromServer, NextAfterRemove
  <2>3. CASE j > i - 1
    <3>1. /\ chain'[j] = chain[j + 1] /\ j + 1 \in 1..Len(chain) /\ ~ (j < i)
          /\ j < Len(chain') <=> j + 1 < Len(chain)
          /\ j < Len(chain') => chain'[j + 1] = chain[(j + 1) + 1]
      BY <2>3, <1>2, <1>3
    <3>2. chain[j + 1] # c
      BY <3>1, <1>4, <1>3
    <3>3. chain[j + 1] # previous[c]
      BY <3>1, <1>3, <1>4, <1>6
    <3>4. next'[chain[j + 1]] = next[chain[j + 1]]
      BY <3>1, <3>2, <3>3, <1>3 DEF RemoveClientFromServer, NextAfterRemove
    <3> QED
      BY <3>1, <3>4 DEF NextDescribes
  <2> QED
    BY <2>1, <2>2, <2>3, <1>2, <1>3
<1>9. ASSUME NEW j \in 1..Len(chain')
      PROVE  previous'[chain'[j]] = IF j > 1 THEN chain'[j - 1] ELSE NULL
  <2>1. CASE j < i
    <3>1. /\ chain'[j] = chain[j] /\ j \in 1..Len(chain)
          /\ j > 1 => chain'[j - 1] = chain[j - 1]
      BY <2>1, <1>2, <1>3
    <3>2. chain[j] # c /\ chain[j] # next[c]
      BY <2>1, <3>1, <1>3, <1>4, <1>6
    <3>3. previous'[chain[j]] = previous[chain[j]]
      BY <3>1, <3>2, <1>3 DEF RemoveClientFromServer, PreviousAfterRemove
    <3> QED
      BY <3>1, <3>3 DEF ServerDescribes
  <2>2. CASE j = i
    <3>1. /\ chain'[j] = chain[i + 1] /\ i + 1 \in 1..Len(chain) /\ i < Len(chain)
          /\ i > 1 => chain'[i - 1] = chain[i - 1]
      BY <2>2, <1>2, <1>3
    <3>2. chain[i + 1] # c /\ chain[i + 1] = next[c]
      BY <3>1, <1>3, <1>4, <1>6
    <3>3. previous'[chain[i + 1]] = previous[c]
      BY <3>1, <3>2, <1>3 DEF RemoveClientFromServer, PreviousAfterRemove
    <3> QED
      BY <2>2, <3>1, <3>3, <1>6
  <2>3. CASE j > i
    <3>1. /\ chain'[j] = chain[j + 1] /\ j + 1 \in 1..Len(chain) /\ j + 1 > 1
          /\ chain'[j - 1] = chain[j] /\ (j + 1) - 1 = j /\ j > 1
      BY <2>3, <1>2, <1>3
    <3>2. chain[j + 1] # c /\ chain[j + 1] # next[c]
      <4>1. i < Len(chain) /\ i + 1 \in 1..Len(chain) /\ j + 1 # i + 1 /\ j + 1 # i
        BY <2>3, <3>1, <1>2, <1>3
      <4> QED
        BY <4>1, <3>1, <1>4, <1>6
    <3>3. previous'[chain[j + 1]] = previous[chain[j + 1]]
      BY <3>1, <3>2, <1>3 DEF RemoveClientFromServer, PreviousAfterRemove
    <3>4. previous[chain[j + 1]] = chain[(j + 1) - 1]
      BY <3>1 DEF ServerDescribes
    <3> QED
      BY <3>1, <3>3, <3>4
  <2> QED
    BY <2>1, <2>2, <2>3, <1>2, <1>3
<1>10. /\ head' = FirstOf(chain')
       /\ nb_clients' = Len(chain') /\ nb_clients' <= MaxClients
  <2>1. head = c <=> i = 1
    BY <1>3, <1>4, <1>5 DEF FirstOf
  <2>2. Len(chain') # 0 => chain'[1] = IF 1 < i THEN chain[1] ELSE chain[2]
    BY <1>2, <1>3
  <2>3. HeadAfterRemove(c) = IF i = 1 THEN next[c] ELSE chain[1]
    BY <2>1, <1>3, <1>5 DEF HeadAfterRemove, FirstOf
  <2>4. nb_clients <= MaxClients
    BY DEF ServerDescribes
  <2>5. head' = FirstOf(chain')
    BY <2>2, <2>3, <1>2, <1>3, <1>5, <1>6 DEF RemoveClientFromServer, FirstOf
  <2>6. nb_clients' = Len(chain') /\ nb_clients' <= MaxClients
    BY <2>4, <1>2, <1>3, <1>5, <1>6, MaxClientsAssumption DEF RemoveClientFromServer
  <2> QED
    BY <2>5, <2>6
<1>11. /\ head' \in Pointer /\ nb_clients' \in 0..MaxClients /\ live' \in SUBSET Client
       /\ next' \in [Client -> Pointer] /\ previous' \in [Client -> Pointer]
  <2>1. nb_clients' \in 0..MaxClients
    BY <1>2, <1>3, <1>10, MaxClientsAssumption
  <2> QED
    BY <2>1, <1>3, <1>5
    DEF RemoveClientFromServer, PreviousAfterRemove, NextAfterRemove, HeadAfterRemove, Pointer
<1> QED
  BY <1>1, <1>2, <1>7, <1>8, <1>9, <1>10, <1>11 DEF NextDescribes

----------------------------------------------------------------------------
(***************************************************************************)
(* Every step keeps the invariant.                                         *)
(***************************************************************************)

LEMMA BeginWalkKeepsIInv == IInv /\ BeginWalk => IInv'
<1> SUFFICES ASSUME IInv, BeginWalk PROVE IInv'
  OBVIOUS
<1> USE DEF IInv
<1>1. head = FirstOf(chain) /\ Len(chain) \in Nat /\ IsChain(chain)
  BY ChainElements DEF BeginWalk, Serving, ServerDescribes, NextDescribes
<1>2. TypeOK'
  BY DEF TypeOK, Place, BeginWalk, ListUnchanged
<1>3. NextDescribes' /\ ServerDescribes'
  BY DEF NextDescribes, ServerDescribes, Serving, BeginWalk, ListUnchanged
<1>4. WalksAreInside'
  BY <1>1, NullAssumption, ChainElements
  DEF WalksAreInside, BeginWalk, ListUnchanged, FirstOf, Listed
<1> QED
  BY <1>2, <1>3, <1>4

\* The saved client is still listed after the visit.
LEMMA VisitKeepsIInv == IInv /\ VisitCurrent => IInv'
<1> SUFFICES ASSUME IInv, VisitCurrent PROVE IInv'
  OBVIOUS
<1> USE DEF IInv
<1>1. Serving /\ Serving'
  BY DEF VisitCurrent, Serving
<1>2. PICK i \in 1..Len(chain) : chain[i] = current
  BY DEF VisitCurrent, WalksAreInside, Listed
<1>3. /\ IsChain(chain) /\ Len(chain) \in Nat
      /\ \A j \in 1..Len(chain) : chain[j] \in Client
      /\ SavedNext = IF i < Len(chain) THEN chain[i + 1] ELSE NULL
  BY <1>2, ChainElements DEF NextDescribes, SavedNext
<1>4. current' \in Pointer /\ pc' \in Place
  BY <1>3 DEF VisitCurrent, Place, Pointer
<1>5. pc' = "walk" => i < Len(chain) /\ current' = chain[i + 1]
  BY <1>3 DEF VisitCurrent
<1>6. pc' # "delete" /\ pc' # "deleted"
  BY DEF VisitCurrent
<1>7. CASE ListUnchanged
  <2>1. TypeOK' /\ NextDescribes' /\ ServerDescribes'
    BY <1>1, <1>4, <1>7 DEF TypeOK, NextDescribes, ServerDescribes, ListUnchanged
  <2>2. WalksAreInside'
    BY <1>3, <1>5, <1>6, <1>7 DEF WalksAreInside, ListUnchanged, Listed
  <2> QED
    BY <2>1, <2>2
<1>8. CASE RemoveClientFromServer(current)
  <2>1. /\ NextDescribes' /\ chain' = DropAt(chain, i)
        /\ nb_clients' = Len(chain') /\ nb_clients' <= MaxClients
        /\ head' = FirstOf(chain')
        /\ \A j \in 1..Len(chain') :
             previous'[chain'[j]] = IF j > 1 THEN chain'[j - 1] ELSE NULL
        /\ head' \in Pointer /\ nb_clients' \in 0..MaxClients /\ live' \in SUBSET Client
        /\ next' \in [Client -> Pointer] /\ previous' \in [Client -> Pointer]
    BY <1>1, <1>2, <1>8, RemoveKeepsList
  <2>2. TypeOK' /\ ServerDescribes'
    BY <2>1, <1>4 DEF TypeOK, ServerDescribes, NextDescribes, IsChain
  <2>3. pc' = "walk" => Listed(chain', chain[i + 1])
    <3>1. i < Len(chain) => Listed(chain, chain[i + 1]) /\ chain[i + 1] # chain[i]
      BY <1>3 DEF Listed, IsChain
    <3> QED
      BY <3>1, <2>1, <1>3, <1>5, DropAtIsChain
  <2>4. WalksAreInside'
    BY <2>3, <1>5, <1>6 DEF WalksAreInside
  <2> QED
    BY <2>1, <2>2, <2>4
<1> QED
  BY <1>7, <1>8 DEF VisitCurrent

LEMMA EndRoundKeepsIInv == IInv /\ EndRound => IInv'
<1> SUFFICES ASSUME IInv, EndRound PROVE IInv'
  OBVIOUS
<1> USE DEF IInv
<1>1. Serving /\ Serving' /\ pc' \in Place /\ current' \in Pointer
  BY DEF EndRound, Serving, Place, TypeOK
<1>2. WalksAreInside'
  BY DEF EndRound, WalksAreInside
<1>3. CASE ListUnchanged
  BY <1>1, <1>2, <1>3 DEF TypeOK, NextDescribes, ServerDescribes, ListUnchanged
<1>4. ASSUME NEW c \in Client \ live, nb_clients # MaxClients, AddClientToServer(c)
      PROVE  IInv'
  <2>1. /\ NextDescribes' /\ ServerDescribes'
        /\ head' \in Pointer /\ nb_clients' \in 0..MaxClients /\ live' \in SUBSET Client
        /\ next' \in [Client -> Pointer] /\ previous' \in [Client -> Pointer]
    BY <1>1, <1>4, AddKeepsList
  <2> QED
    BY <2>1, <1>1, <1>2 DEF TypeOK, NextDescribes, IsChain
<1> QED
  BY <1>3, <1>4 DEF EndRound

LEMMA BeginDeleteKeepsIInv == IInv /\ BeginDelete => IInv'
<1> SUFFICES ASSUME IInv, BeginDelete PROVE IInv'
  OBVIOUS
<1> USE DEF IInv
<1>1. head = FirstOf(chain) /\ Len(chain) \in Nat /\ IsChain(chain)
  BY ChainElements DEF BeginDelete, ServerDescribes, NextDescribes
<1>2. TypeOK'
  BY DEF TypeOK, Place, BeginDelete, ListUnchanged
<1>3. NextDescribes' /\ ServerDescribes'
  BY DEF NextDescribes, ServerDescribes, Serving, BeginDelete, ListUnchanged
<1>4. WalksAreInside'
  BY <1>1, NullAssumption, ChainElements
  DEF WalksAreInside, BeginDelete, ListUnchanged, FirstOf
<1> QED
  BY <1>2, <1>3, <1>4

LEMMA DeleteCurrentKeepsIInv == IInv /\ DeleteCurrent => IInv'
<1> SUFFICES ASSUME IInv, DeleteCurrent PROVE IInv'
  OBVIOUS
<1> USE DEF IInv
<1>1. /\ IsChain(chain) /\ Len(chain) \in Nat /\ 1 \in 1..Len(chain)
      /\ current = chain[1]
      /\ \A i \in 1..Len(chain) : chain[i] \in Client /\ chain[i] # NULL
  BY ChainElements, NullAssumption DEF DeleteCurrent, WalksAreInside, NextDescribes
<1>2. SavedNext = IF 1 < Len(chain) THEN chain[2] ELSE NULL
  BY <1>1 DEF SavedNext, NextDescribes
<1>3. /\ IsChain(chain') /\ Len(chain') = Len(chain) - 1
      /\ \A i \in 1..(Len(chain) - 1) : chain'[i] = chain[i + 1]
      /\ \A x : Listed(chain', x) <=> Listed(chain, x) /\ x # chain[1]
  <2> DEFINE d == DropAt(chain, 1)
  <2>1. /\ IsChain(d) /\ Len(d) = Len(chain) - 1
        /\ \A i \in 1..(Len(chain) - 1) : d[i] = IF i < 1 THEN chain[i] ELSE chain[i + 1]
        /\ \A x : Listed(d, x) <=> Listed(chain, x) /\ x # chain[1]
    BY <1>1, DropAtIsChain
  <2> HIDE DEF d
  <2>2. chain' = d
    BY DEF DeleteCurrent, d
  <2> QED
    BY <2>1, <2>2, <1>1
<1>4. live' = { chain'[i] : i \in 1..Len(chain') }
  <2>1. \A x : x \in live' <=> Listed(chain', x)
    BY <1>1, <1>3, LiveIsListed DEF DeleteCurrent
  <2> QED
    BY <2>1 DEF Listed
<1>5. ASSUME NEW i \in 1..Len(chain')
      PROVE  next'[chain'[i]] = IF i < Len(chain') THEN chain'[i + 1] ELSE NULL
  <2>1. /\ i + 1 \in 1..Len(chain) /\ chain'[i] = chain[i + 1]
        /\ i < Len(chain') <=> i + 1 < Len(chain)
        /\ i < Len(chain') => chain'[i + 1] = chain[(i + 1) + 1]
    BY <1>1, <1>3
  <2>2. chain[i + 1] # chain[1]
    BY <2>1, <1>1 DEF IsChain
  <2>3. next'[chain[i + 1]] = next[chain[i + 1]]
    BY <2>2, <1>1 DEF DeleteCurrent, TypeOK
  <2> QED
    BY <2>1, <2>3 DEF NextDescribes
<1>6. NextDescribes'
  BY <1>3, <1>4, <1>5 DEF NextDescribes
<1>7. pc' \in {"delete", "deleted"}
  BY DEF DeleteCurrent
<1>8. ServerDescribes'
  BY <1>7 DEF ServerDescribes, Serving
<1>9. TypeOK'
  BY <1>1, <1>2, <1>3, <1>7 DEF TypeOK, Place, Pointer, DeleteCurrent, IsChain
<1>10. WalksAreInside'
  BY <1>1, <1>2, <1>3, <1>7 DEF WalksAreInside, DeleteCurrent
<1> QED
  BY <1>6, <1>8, <1>9, <1>10

THEOREM InductiveInvariant == Spec => []IInv
<1>1. IInv /\ [Next]_vars => IInv'
  <2> SUFFICES ASSUME IInv, [Next]_vars PROVE IInv'
    OBVIOUS
  <2>1. CASE UNCHANGED vars
    BY <2>1 DEF vars, IInv, TypeOK, NextDescribes, ServerDescribes, WalksAreInside, Serving
  <2> QED
    BY <2>1, BeginWalkKeepsIInv, VisitKeepsIInv, EndRoundKeepsIInv,
       BeginDeleteKeepsIInv, DeleteCurrentKeepsIInv DEF Next
<1> QED
  BY <1>1, InitIInv, PTL DEF Spec

\* Every field, the count and the position of the walk keep their types; no
\* subtraction of removeClientFromServer() makes the count negative.
THEOREM ListTypeCorrect == Spec => []TypeOK
<1>1. IInv => TypeOK
  BY DEF IInv
<1> QED
  BY <1>1, InductiveInvariant, PTL

\* The pointers, the head and the count always describe one list.
THEOREM PointersRepresent == Spec => []Represents
<1>1. IInv => Represents
  BY DEF IInv, NextDescribes, ServerDescribes, Represents
<1> QED
  BY <1>1, InductiveInvariant, PTL

\* No walk, serving or deleting, reads a freed client.
THEOREM WalksReadLiveClients == Spec => []ReadsAreLive
<1>1. IInv => ReadsAreLive
  <2> SUFFICES ASSUME IInv PROVE ReadsAreLive
    OBVIOUS
  <2>1. Len(chain) \in Nat
    BY ChainElements DEF IInv, NextDescribes
  <2> QED
    BY <2>1, LiveIsListed DEF IInv, WalksAreInside, ReadsAreLive, Listed
<1> QED
  BY <1>1, InductiveInvariant, PTL

\* Every client is freed when the server is deleted.
THEOREM DeletionFreesAll == Spec => []NothingLeaked
<1>1. IInv => NothingLeaked
  BY DEF IInv, NextDescribes, WalksAreInside, NothingLeaked
<1> QED
  BY <1>1, InductiveInvariant, PTL

----------------------------------------------------------------------------
(***************************************************************************)
(* The walks over the pointers implement ClientRounds.                     *)
(***************************************************************************)

\* The operators of ClientRounds are those of ClientChain.
LEMMA RoundsOperators ==
  /\ \A s, i : Rounds!DropAt(s, i) = DropAt(s, i)
  /\ \A s, c : Rounds!Unlink(s, c) = Unlink(s, c)
  /\ \A s, c : Rounds!Prepend(s, c) = Prepend(s, c)
  /\ \A s, c : Rounds!Listed(s, c) <=> Listed(s, c)
BY DEF Rounds!DropAt, Rounds!Unlink, Rounds!IndexIn, Rounds!Prepend, Rounds!Listed,
       DropAt, Unlink, IndexIn, Prepend, Listed

\* One visit of the pointer walk is one visit of the round.
LEMMA VisitImplementsVisit == IInv /\ VisitCurrent => Rounds!Visit
<1> SUFFICES ASSUME IInv, VisitCurrent PROVE Rounds!Visit
  OBVIOUS
<1> USE DEF IInv
<1>1. pc = "walk"
  BY DEF VisitCurrent
<1>2. PICK i \in 1..Len(chain) : chain[i] = current
  BY <1>1 DEF WalksAreInside, Listed
<1>3. /\ IsChain(chain) /\ Len(chain) \in Nat
      /\ \A j \in 1..Len(chain) : chain[j] \in Client /\ chain[j] # NULL
      /\ SavedNext = IF i < Len(chain) THEN chain[i + 1] ELSE NULL
  BY <1>2, ChainElements, NullAssumption DEF NextDescribes, SavedNext
<1>4. Todo = From(chain, chain[i]) /\ PhaseOf = "round"
  BY <1>1, <1>2 DEF Todo, PhaseOf
<1>5. Len(Todo) = Len(chain) - i + 1 /\ Todo[1] = chain[i] /\ 1 \in 1..Len(Todo)
  BY <1>3, <1>4, FromAt, FromIsChain
<1>6. Todo # << >>
  BY <1>5, EmptyIsChain
<1>7. chain' = chain \/ chain' = DropAt(chain, i)
  BY <1>2, <1>3, UnlinkIsDrop DEF VisitCurrent, ListUnchanged, RemoveClientFromServer
<1>8. chain' \in {chain, Unlink(chain, Todo[1])}
  BY <1>3, <1>5, <1>7, UnlinkIsDrop
<1>10. CASE current' = SavedNext /\ SavedNext = NULL /\ pc' = "visited"
  <2>1. i = Len(chain)
    BY <1>10, <1>3
  <2>2. Len(Todo) = 1
    BY <2>1, <1>3, <1>5
  <2>3. DropAt(Todo, 1) = << >>
    <3>1. IsChain(Todo)
      BY <1>3, <1>4, FromIsChain
    <3>2. Len(DropAt(Todo, 1)) = 0 /\ IsChain(DropAt(Todo, 1))
      BY <2>2, <3>1, <1>5, DropAtIsChain
    <3> QED
      BY <3>2, EmptySeq DEF IsChain
  <2> QED
    BY <2>2, <2>3, <1>1, <1>4, <1>6, <1>8, <1>10, RoundsOperators
    DEF Todo, PhaseOf, Rounds!Visit
<1>11. CASE current' = SavedNext /\ SavedNext # NULL /\ pc' = "walk"
  <2>1. i < Len(chain) /\ current' = chain[i + 1]
    BY <1>11, <1>3
  <2>2. Len(Todo) # 1
    BY <2>1, <1>3, <1>5
  <2>3. Todo' = DropAt(Todo, 1)
    BY <2>1, <1>3, <1>4, <1>7, <1>11, FromNext DEF Todo
  <2>4. PhaseOf' = "round"
    BY <1>11 DEF PhaseOf
  <2> QED
    BY <2>2, <2>3, <2>4, <1>4, <1>6, <1>8, RoundsOperators DEF Todo, PhaseOf, Rounds!Visit
<1>12. CASE current' = NULL /\ pc' = "stopped"
  <2>1. Todo' = << >> /\ PhaseOf' = "stopped"
    BY <1>12 DEF Todo, PhaseOf
  <2> QED
    BY <2>1, <1>4, <1>6, <1>8, RoundsOperators DEF Todo, PhaseOf, Rounds!Visit
<1> QED
  BY <1>10, <1>11, <1>12 DEF VisitCurrent

LEMMA BeginImplementsBegin == IInv /\ BeginWalk => Rounds!Begin
<1> SUFFICES ASSUME IInv, BeginWalk PROVE Rounds!Begin
  OBVIOUS
<1>1. /\ head = FirstOf(chain) /\ IsChain(chain) /\ Len(chain) \in Nat
      /\ pc = "idle" /\ chain' = chain /\ current' = head
  BY ChainElements DEF IInv, BeginWalk, Serving, ServerDescribes, NextDescribes, ListUnchanged
<1>2. CASE Len(chain) = 0
  <2>1. chain = << >>
    BY <1>1, <1>2, EmptySeq DEF IsChain
  <2>2. pc' = "visited"
    BY <1>1, <1>2 DEF BeginWalk, FirstOf
  <2> QED
    BY <2>1, <2>2, <1>1 DEF Rounds!Begin, Todo, PhaseOf
<1>3. CASE Len(chain) # 0
  <2>1. chain # << >>
    BY <1>3, EmptyIsChain
  <2>2. head = chain[1] /\ head # NULL
    BY <1>1, <1>3, ChainElements, NullAssumption DEF FirstOf
  <2>3. pc' = "walk" /\ From(chain', current') = chain
    BY <2>2, <1>1, <1>3, FromFirst DEF BeginWalk
  <2> QED
    BY <2>1, <2>3, <1>1 DEF Rounds!Begin, Todo, PhaseOf
<1> QED
  BY <1>2, <1>3

LEMMA EndRoundImplementsAdmit == IInv /\ EndRound => Rounds!Admit
<1> SUFFICES ASSUME IInv, EndRound PROVE Rounds!Admit
  OBVIOUS
<1>1. /\ pc \in {"visited", "stopped"} /\ pc' = "idle"
      /\ nb_clients = Len(chain) /\ nb_clients <= MaxClients
  BY DEF IInv, EndRound, Serving, ServerDescribes
<1>2. Todo = << >> /\ Todo' = << >> /\ PhaseOf = pc /\ PhaseOf' = "idle"
  BY <1>1 DEF Todo, PhaseOf
<1>3. CASE ListUnchanged
  BY <1>1, <1>2, <1>3 DEF Rounds!Admit, ListUnchanged
<1>4. ASSUME NEW c \in Client \ live, nb_clients # MaxClients, AddClientToServer(c)
      PROVE  Rounds!Admit
  <2>1. ~ Listed(chain, c) /\ chain' = Prepend(chain, c)
    BY <1>4, LiveIsListed DEF IInv, AddClientToServer
  <2>2. Len(chain) < MaxClients
    BY <1>1, <1>4, MaxClientsAssumption DEF IInv, TypeOK
  <2> QED
    BY <2>1, <2>2, <1>1, <1>2, RoundsOperators DEF Rounds!Admit
<1> QED
  BY <1>3, <1>4 DEF EndRound

LEMMA BeginDeleteImplementsClose == IInv /\ BeginDelete => Rounds!Close
<1> SUFFICES ASSUME IInv, BeginDelete PROVE Rounds!Close
  OBVIOUS
<1>1. pc' \in {"delete", "deleted"} /\ chain' = chain /\ PhaseOf # "closing"
  BY DEF BeginDelete, Serving, PhaseOf, ListUnchanged
<1> QED
  BY <1>1 DEF Rounds!Close, Todo, PhaseOf

LEMMA DeleteImplementsCloseOne == IInv /\ DeleteCurrent => Rounds!CloseOne
<1> SUFFICES ASSUME IInv, DeleteCurrent PROVE Rounds!CloseOne
  OBVIOUS
<1>1. pc = "delete" /\ pc' \in {"delete", "deleted"} /\ chain' = DropAt(chain, 1)
  BY DEF DeleteCurrent
<1>2. chain # << >>
  BY <1>1, EmptyIsChain DEF IInv, WalksAreInside
<1> QED
  BY <1>1, <1>2, RoundsOperators DEF Rounds!CloseOne, Todo, PhaseOf

\* The walks over the doubly-linked list, removals included, are rounds over a
\* list without pointers, in which no client is skipped or visited twice.
THEOREM WalksImplementRounds == Spec => ImplementsRounds
<1>1. Init => Rounds!Init
  BY DEF Init, Rounds!Init, Todo, PhaseOf
<1>2. IInv /\ [Next]_vars => [Rounds!Next]_(Rounds!vars)
  <2> SUFFICES ASSUME IInv, [Next]_vars PROVE [Rounds!Next]_(Rounds!vars)
    OBVIOUS
  <2>1. CASE UNCHANGED vars
    BY <2>1 DEF vars, Rounds!vars, Todo, PhaseOf
  <2> QED
    BY <2>1, BeginImplementsBegin, VisitImplementsVisit, EndRoundImplementsAdmit,
       BeginDeleteImplementsClose, DeleteImplementsCloseOne DEF Next, Rounds!Next
<1> QED
  BY <1>1, <1>2, InductiveInvariant, PTL DEF Spec, ImplementsRounds, Rounds!Spec
=============================================================================
