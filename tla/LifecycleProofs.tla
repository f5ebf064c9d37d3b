--------------------------- MODULE LifecycleProofs ---------------------------
(***************************************************************************)
(* Theorems about Lifecycle, for any number of clients.  The cleaning of   *)
(* an interrupted process walks the list of clients as the stores done so  *)
(* far left it; the invariant says, for each store that an operation on    *)
(* the list may still owe, which clients that walk meets.                  *)
(***************************************************************************)
EXTENDS Lifecycle, SequenceTheorems, TLAPS

\* The memory, field by field.
head == At("head", NULL)
nb_clients == At("nb_clients", NULL)
next == [c \in Client |-> At("next", c)]
previous == [c \in Client |-> At("previous", c)]
alive == {c \in Client : At("alive", c)}
open == {c \in Client : At("open", c)}

\* The stores an operation still owes, the last one first.
due == Len(pending)
owed == [j \in 1..due |-> pending[due + 1 - j]]

\* The clients of a list are f[1], ..., f[n], in the order of the walk.
IsList(n, f) ==
  /\ n \in Nat /\ f \in [1..n -> Client]
  /\ \A i, j \in 1..n : f[i] = f[j] => i = j

Succ(n, f, i) == IF i < n THEN f[i + 1] ELSE NULL
Pred(f, i) == IF i > 1 THEN f[i - 1] ELSE NULL
Listed(n, f, c) == \E i \in 1..n : f[i] = c

\* A walk that begins at from meets the clients of the list, allocated and
\* connected, and ends there.
Walkable(n, f, from) ==
  /\ IsList(n, f)
  /\ from = Succ(n, f, 0)
  /\ \A i \in 1..n : next[f[i]] = Succ(n, f, i) /\ f[i] \in alive /\ f[i] \in open

\* It misses one client at most, that of the operation in progress.
OneOutside(n, f) ==
  \A c, d \in alive : ~ Listed(n, f, c) /\ ~ Listed(n, f, d) => c = d /\ due # 0

\* No operation is in progress.
Quiet(n, f) ==
  /\ due = 0
  /\ Walkable(n, f, head)
  /\ nb_clients = n
  /\ \A i \in 1..n : previous[f[i]] = Pred(f, i)
  /\ \A c \in alive : Listed(n, f, c)

FirstStores(c) ==
  <<Put("nb_clients", NULL, 1), Put("next", c, NULL), Put("previous", c, NULL),
    Put("head", NULL, c), Put("next", c, NULL), Put("previous", c, NULL)>>

\* c is being added to the empty list.
AddingFirst(c) ==
  /\ c \in Client
  /\ due \in 1..6 /\ \A j \in 1..due : owed[j] = FirstStores(c)[j]
  /\ nb_clients = 0
  /\ head = IF due <= 3 THEN c ELSE NULL
  /\ due <= 4 => next[c] = NULL
  /\ due <= 5 => previous[c] = NULL
  /\ c \in alive /\ c \in open
  /\ \A d \in alive : d = c

NextStores(n, f, c) ==
  <<Put("nb_clients", NULL, n + 1), Put("head", NULL, c), Put("previous", f[1], c),
    Put("next", c, f[1]), Put("previous", c, NULL), Put("next", c, NULL),
    Put("previous", c, NULL)>>

\* c is being added before f[1].
Adding(n, f, c) ==
  /\ IsList(n, f) /\ n > 0 /\ c \in Client /\ ~ Listed(n, f, c)
  /\ due \in 1..7 /\ \A j \in 1..due : owed[j] = NextStores(n, f, c)[j]
  /\ nb_clients = n
  /\ head = IF due <= 1 THEN c ELSE f[1]
  /\ due <= 3 => next[c] = f[1]
  /\ due <= 4 => previous[c] = NULL
  /\ \A i \in 1..n :
       /\ next[f[i]] = Succ(n, f, i) /\ f[i] \in alive /\ f[i] \in open
       /\ previous[f[i]] = IF i = 1 /\ due <= 2 THEN c ELSE Pred(f, i)
  /\ c \in alive /\ c \in open
  /\ \A d \in alive : d = c \/ Listed(n, f, d)

RemovalStores(n, f, i) ==
  <<Put("alive", f[i], FALSE), Put("open", f[i], FALSE), Put("nb_clients", NULL, n - 1),
    IF i = 1 THEN Put("head", NULL, Succ(n, f, 1)) ELSE Put("next", f[i - 1], Succ(n, f, i)),
    Put("previous", Succ(n, f, i), Pred(f, i))>>

\* f[i] is being removed.
Removing(n, f, i) ==
  /\ IsList(n, f) /\ i \in 1..n
  /\ due \in 1..5 /\ \A j \in 1..due : owed[j] = RemovalStores(n, f, i)[j]
  /\ due = 5 => i < n
  /\ nb_clients = IF due <= 2 THEN n - 1 ELSE n
  /\ head = IF i = 1 /\ due <= 3 THEN Succ(n, f, 1) ELSE f[1]
  /\ \A j \in 1..n :
       /\ next[f[j]] = IF j = i - 1 /\ due <= 3 THEN Succ(n, f, i) ELSE Succ(n, f, j)
       /\ previous[f[j]] = IF j = i + 1 /\ due <= 4 THEN Pred(f, i) ELSE Pred(f, j)
       /\ f[j] \in alive
       /\ j # i \/ due >= 2 => f[j] \in open
  /\ \A d \in alive : Listed(n, f, d)

InProgress ==
  \/ \E c \in Client : AddingFirst(c)
  \/ \E n \in Nat : \E f \in [1..n -> Client] : \E c \in Client : Adding(n, f, c)
  \/ \E n \in Nat : \E f \in [1..n -> Client] : \E i \in 1..n : Removing(n, f, i)

ListInv == InProgress \/ \E n \in Nat : \E f \in [1..n -> Client] : Quiet(n, f)

WalkFrom(from) ==
  \E n \in Nat : \E f \in [1..n -> Client] : Walkable(n, f, from) /\ OneOutside(n, f)

Stores == [cell : Cell, value : Client \cup {NULL} \cup Int \cup {FALSE}]

MemOK == mem = [x \in Cell |-> mem[x]] /\ pending \in Seq(Stores)

----------------------------------------------------------------------------
(***************************************************************************)
(* The effect of one store.                                                *)
(***************************************************************************)

LEMMA CellsOf ==
  /\ <<"head", NULL>> \in Cell /\ <<"nb_clients", NULL>> \in Cell
  /\ \A c \in Client : /\ <<"next", c>> \in Cell /\ <<"previous", c>> \in Cell
                       /\ <<"alive", c>> \in Cell /\ <<"open", c>> \in Cell
  BY DEF Cell

LEMMA DueIsNat == MemOK => due \in Nat /\ (pending = << >> <=> due = 0)
  BY EmptySeq DEF MemOK, due

\* One store less is due.
Done ==
  /\ due' = due - 1
  /\ \A j \in 1..due' : owed'[j] = owed[j]
  /\ MemOK'

Writes(kind, c, v) == mem' = [x \in Cell |-> IF x = <<kind, c>> THEN v ELSE mem[x]]

LEMMA StoreEffect ==
  ASSUME MemOK, Store, NEW kind, NEW c, NEW v, owed[due] = Put(kind, c, v)
  PROVE  Done /\ Writes(kind, c, v)
<1>1. due \in Nat \ {0}
  BY EmptySeq DEF Store, MemOK, due
<1>2. /\ pending' \in Seq(Stores) /\ due' = due - 1
      /\ \A i \in 1..(due - 1) : pending'[i] = pending[i + 1]
  BY HeadTailProperties DEF Store, MemOK, due
<1>3. \A j \in 1..due' : owed'[j] = owed[j]
  BY <1>1, <1>2 DEF owed
<1>4. Head(pending) = Put(kind, c, v)
  BY <1>1 DEF owed, due, MemOK
<1>5. mem' = [mem EXCEPT ![<<kind, c>>] = v]
  <2>1. Put(kind, c, v).cell = <<kind, c>> /\ Put(kind, c, v).value = v
    BY DEF Put
  <2> QED
    BY <1>4, <2>1 DEF Store
<1>6. mem' = [x \in Cell |-> IF x = <<kind, c>> THEN v ELSE mem[x]]
  BY <1>5 DEF MemOK
<1> QED
  BY <1>1, <1>2, <1>3, <1>6 DEF MemOK, Done, Writes

LEMMA StoreNext ==
  ASSUME NEW c \in Client, NEW v,
         Writes("next", c, v)
  PROVE  /\ next' = [next EXCEPT ![c] = v]
         /\ UNCHANGED <<head, nb_clients, previous, alive, open>>
  BY CellsOf DEF head, nb_clients, next, previous, alive, open, At, Writes

LEMMA StorePrevious ==
  ASSUME NEW c \in Client, NEW v,
         Writes("previous", c, v)
  PROVE  /\ previous' = [previous EXCEPT ![c] = v]
         /\ UNCHANGED <<head, nb_clients, next, alive, open>>
  BY CellsOf DEF head, nb_clients, next, previous, alive, open, At, Writes

LEMMA StoreHead ==
  ASSUME NEW v, Writes("head", NULL, v)
  PROVE  head' = v /\ UNCHANGED <<nb_clients, next, previous, alive, open>>
  BY CellsOf DEF head, nb_clients, next, previous, alive, open, At, Writes

LEMMA StoreCount ==
  ASSUME NEW v, Writes("nb_clients", NULL, v)
  PROVE  nb_clients' = v /\ UNCHANGED <<head, next, previous, alive, open>>
  BY CellsOf DEF head, nb_clients, next, previous, alive, open, At, Writes

LEMMA StoreOpen ==
  ASSUME NEW c \in Client,
         Writes("open", c, FALSE)
  PROVE  open' = open \ {c} /\ UNCHANGED <<head, nb_clients, next, previous, alive>>
  BY CellsOf DEF head, nb_clients, next, previous, alive, open, At, Writes

LEMMA StoreAlive ==
  ASSUME NEW c \in Client,
         Writes("alive", c, FALSE)
  PROVE  alive' = alive \ {c} /\ UNCHANGED <<head, nb_clients, next, previous, open>>
  BY CellsOf DEF head, nb_clients, next, previous, alive, open, At, Writes

----------------------------------------------------------------------------
(***************************************************************************)
(* Each operation, store by store.                                         *)
(***************************************************************************)

LEMMA AddingFirstStore ==
  ASSUME MemOK, Store, NEW c, AddingFirst(c)
  PROVE  MemOK' /\ (AddingFirst(c)' \/ Quiet(1, <<c>>)')
<1>0. c \in Client /\ due \in 1..6 /\ owed[due] = FirstStores(c)[due]
  BY DEF AddingFirst
<1>1. CASE due \in {6, 3}
  <2>1. owed[due] = Put("previous", c, NULL)
    BY <1>0, <1>1 DEF FirstStores
  <2>2. Done /\ previous' = [previous EXCEPT ![c] = NULL]
             /\ UNCHANGED <<head, nb_clients, next, alive, open>>
    BY <1>0, <2>1, StoreEffect, StorePrevious
  <2> QED
    BY <1>0, <1>1, <2>2 DEF AddingFirst, Done, previous
<1>2. CASE due \in {5, 2}
  <2>1. owed[due] = Put("next", c, NULL)
    BY <1>0, <1>2 DEF FirstStores
  <2>2. Done /\ next' = [next EXCEPT ![c] = NULL]
             /\ UNCHANGED <<head, nb_clients, previous, alive, open>>
    BY <1>0, <2>1, StoreEffect, StoreNext
  <2> QED
    BY <1>0, <1>2, <2>2 DEF AddingFirst, Done, next
<1>3. CASE due = 4
  <2>1. owed[due] = Put("head", NULL, c)
    BY <1>0, <1>3 DEF FirstStores
  <2>2. Done /\ head' = c /\ UNCHANGED <<nb_clients, next, previous, alive, open>>
    BY <1>0, <2>1, StoreEffect, StoreHead
  <2> QED
    BY <1>0, <1>3, <2>2 DEF AddingFirst, Done
<1>4. CASE due = 1
  <2>1. owed[due] = Put("nb_clients", NULL, 1)
    BY <1>0, <1>4 DEF FirstStores
  <2>2. Done /\ nb_clients' = 1 /\ UNCHANGED <<head, next, previous, alive, open>>
    BY <1>0, <2>1, StoreEffect, StoreCount
  <2>3. IsList(1, <<c>>)
    BY <1>0 DEF IsList
  <2> QED
    BY <1>0, <1>4, <2>2, <2>3 DEF AddingFirst, Done, Quiet, Walkable, Succ, Pred, Listed
<1> QED
  BY <1>0, <1>1, <1>2, <1>3, <1>4

LEMMA AddingStore ==
  ASSUME MemOK, Store, NEW n, NEW f, NEW c, Adding(n, f, c)
  PROVE  /\ MemOK'
         /\ \/ Adding(n, f, c)'
            \/ \E h \in [1..(n + 1) -> Client] : Quiet(n + 1, h)'
<1>0. /\ IsList(n, f) /\ n \in Nat \ {0} /\ c \in Client /\ f[1] \in Client \ {c}
      /\ due \in 1..7 /\ owed[due] = NextStores(n, f, c)[due]
      /\ \A i \in 1..n : f[i] \in Client /\ f[i] # c
  BY DEF Adding, IsList, Listed
<1>1. CASE due \in {7, 5}
  <2>1. owed[due] = Put("previous", c, NULL)
    BY <1>0, <1>1 DEF NextStores
  <2>2. Done /\ previous' = [previous EXCEPT ![c] = NULL]
             /\ UNCHANGED <<head, nb_clients, next, alive, open>>
    BY <1>0, <2>1, StoreEffect, StorePrevious
  <2>3. next[c]' = next[c] /\ previous'[c] = NULL
        /\ \A i \in 1..n : previous'[f[i]] = previous[f[i]]
    BY <1>0, <2>2 DEF previous
  <2>4. Adding(n, f, c)'
    BY <1>0, <1>1, <2>2, <2>3 DEF Adding, Done
  <2> QED
    BY <2>2, <2>4 DEF Done
<1>2. CASE due \in {6, 4}
  <2> DEFINE v == IF due = 6 THEN NULL ELSE f[1]
  <2>1. owed[due] = Put("next", c, v)
    BY <1>0, <1>2 DEF NextStores
  <2>2. Done /\ next' = [next EXCEPT ![c] = v]
             /\ UNCHANGED <<head, nb_clients, previous, alive, open>>
    BY <1>0, <2>1, StoreEffect, StoreNext
  <2>3. next'[c] = v /\ \A i \in 1..n : next'[f[i]] = next[f[i]]
    BY <1>0, <2>2 DEF next
  <2>4. Adding(n, f, c)'
    BY <1>0, <1>2, <2>2, <2>3 DEF Adding, Done
  <2> QED
    BY <2>2, <2>4 DEF Done
<1>3. CASE due = 3
  <2>1. owed[due] = Put("previous", f[1], c)
    BY <1>0, <1>3 DEF NextStores
  <2>2. Done /\ previous' = [previous EXCEPT ![f[1]] = c]
             /\ UNCHANGED <<head, nb_clients, next, alive, open>>
    BY <1>0, <2>1, StoreEffect, StorePrevious
  <2>3. \A i \in 1..n : previous'[f[i]] = IF i = 1 THEN c ELSE previous[f[i]]
    BY <1>0, <2>2 DEF previous, IsList
  <2>4. previous'[c] = previous[c]
    BY <1>0, <2>2 DEF previous
  <2>5. Adding(n, f, c)'
    BY <1>0, <1>3, <2>2, <2>3, <2>4 DEF Adding, Done
  <2> QED
    BY <2>2, <2>5 DEF Done
<1>4. CASE due = 2
  <2>1. owed[due] = Put("head", NULL, c)
    BY <1>0, <1>4 DEF NextStores
  <2>2. Done /\ head' = c /\ UNCHANGED <<nb_clients, next, previous, alive, open>>
    BY <1>0, <2>1, StoreEffect, StoreHead
  <2> QED
    BY <1>0, <1>4, <2>2 DEF Adding, Done
<1>5. CASE due = 1
  <2>1. owed[due] = Put("nb_clients", NULL, n + 1)
    BY <1>0, <1>5 DEF NextStores
  <2>2. Done /\ nb_clients' = n + 1 /\ UNCHANGED <<head, next, previous, alive, open>>
    BY <1>0, <2>1, StoreEffect, StoreCount
  <2> DEFINE h == [i \in 1..(n + 1) |-> IF i = 1 THEN c ELSE f[i - 1]]
  <2>3. h \in [1..(n + 1) -> Client] /\ IsList(n + 1, h)
    BY <1>0 DEF IsList
  <2>4. \A d : d = c \/ Listed(n, f, d) => Listed(n + 1, h, d)
    <3>1. h[1] = c /\ \A i \in 1..n : i + 1 \in 1..(n + 1) /\ h[i + 1] = f[i]
      BY <1>0
    <3> QED
      BY <1>0, <3>1 DEF Listed
  <2>5. \A i \in 1..(n + 1) :
          /\ next[h[i]] = Succ(n + 1, h, i) /\ h[i] \in alive /\ h[i] \in open
          /\ previous[h[i]] = Pred(h, i)
    <3> SUFFICES ASSUME NEW i \in 1..(n + 1)
                 PROVE  /\ next[h[i]] = Succ(n + 1, h, i) /\ h[i] \in alive /\ h[i] \in open
                        /\ previous[h[i]] = Pred(h, i)
      OBVIOUS
    <3>1. CASE i = 1
      BY <1>0, <1>5, <3>1 DEF Adding, Succ, Pred
    <3>2. CASE i > 1
      <4>1. i - 1 \in 1..n /\ h[i] = f[i - 1] /\ Succ(n + 1, h, i) = Succ(n, f, i - 1)
        BY <1>0, <3>2 DEF Succ
      <4>2. (IF i - 1 = 1 /\ due <= 2 THEN c ELSE Pred(f, i - 1)) = Pred(h, i)
        BY <1>0, <1>5, <3>2 DEF Pred
      <4> QED
        BY <1>0, <4>1, <4>2 DEF Adding
    <3> QED
      BY <1>0, <3>1, <3>2
  <2>6. head = Succ(n + 1, h, 0)
    BY <1>0, <1>5 DEF Adding, Succ
  <2> HIDE DEF h
  <2>7. Quiet(n + 1, h)'
    BY <1>0, <1>5, <2>2, <2>3, <2>4, <2>5, <2>6 DEF Adding, Done, Quiet, Walkable
  <2> QED
    BY <2>2, <2>3, <2>7 DEF Done
<1> QED
  BY <1>0, <1>1, <1>2, <1>3, <1>4, <1>5

\* The list without its i-th client.
Without(n, f, i) == [j \in 1..(n - 1) |-> IF j < i THEN f[j] ELSE f[j + 1]]

LEMMA WithoutIsList ==
  ASSUME NEW n, NEW f, IsList(n, f), NEW i \in 1..n
  PROVE  /\ IsList(n - 1, Without(n, f, i))
         /\ \A c : Listed(n, f, c) => c = f[i] \/ Listed(n - 1, Without(n, f, i), c)
         /\ \A c : Listed(n - 1, Without(n, f, i), c) => Listed(n, f, c) /\ c # f[i]
         /\ Succ(n - 1, Without(n, f, i), 0) = IF i = 1 THEN Succ(n, f, 1) ELSE f[1]
<1> DEFINE h == Without(n, f, i)
<1>1. /\ n \in Nat \ {0} /\ f \in [1..n -> Client] /\ i \in 1..n
      /\ \A j, k \in 1..n : f[j] = f[k] => j = k
  BY DEF IsList
<1>2. /\ h \in [1..(n - 1) -> Client]
      /\ \A j \in 1..(n - 1) : h[j] = IF j < i THEN f[j] ELSE f[j + 1]
  BY <1>1 DEF Without
<1>3. Succ(n - 1, h, 0) = IF i = 1 THEN Succ(n, f, 1) ELSE f[1]
  BY <1>1, <1>2 DEF Succ
<1> HIDE DEF h
<1>4. \A j, k \in 1..(n - 1) : h[j] = h[k] => j = k
  BY <1>1, <1>2
<1>5. ASSUME NEW c, Listed(n, f, c)
      PROVE  c = f[i] \/ Listed(n - 1, h, c)
  <2>1. PICK k \in 1..n : f[k] = c
    BY <1>5 DEF Listed
  <2>2. CASE k < i
    <3>1. k \in 1..(n - 1) /\ h[k] = c
      BY <1>1, <1>2, <2>1, <2>2
    <3> QED
      BY <3>1 DEF Listed
  <2>3. CASE k > i
    <3>1. k - 1 \in 1..(n - 1) /\ h[k - 1] = c
      BY <1>1, <1>2, <2>1, <2>3
    <3> QED
      BY <3>1 DEF Listed
  <2> QED
    BY <1>1, <2>1, <2>2, <2>3
<1>6. ASSUME NEW c, Listed(n - 1, h, c)
      PROVE  Listed(n, f, c) /\ c # f[i]
  <2>1. PICK k \in 1..(n - 1) : h[k] = c
    BY <1>6 DEF Listed
  <2>2. k \in 1..n /\ k + 1 \in 1..n
    BY <1>1
  <2> QED
    BY <1>1, <1>2, <2>1, <2>2 DEF Listed
<1> QED
  BY <1>1, <1>2, <1>3, <1>4, <1>5, <1>6 DEF IsList, h

\* Where the clients that remain stand in the shorter list.
LEMMA WithoutNeighbours ==
  ASSUME NEW n, NEW f, IsList(n, f), NEW i \in 1..n, NEW j \in 1..(n - 1)
  PROVE  LET h == Without(n, f, i)
             k == IF j < i THEN j ELSE j + 1
         IN  /\ k \in 1..n /\ k # i /\ h[j] = f[k]
             /\ Succ(n - 1, h, j) = IF k = i - 1 THEN Succ(n, f, i) ELSE Succ(n, f, k)
             /\ Pred(h, j) = IF k = i + 1 THEN Pred(f, i) ELSE Pred(f, k)
<1> DEFINE h == Without(n, f, i)
           k == IF j < i THEN j ELSE j + 1
<1>1. n \in Nat \ {0} /\ i \in 1..n /\ j \in 1..(n - 1)
  BY DEF IsList
<1>2. \A l \in 1..(n - 1) : h[l] = IF l < i THEN f[l] ELSE f[l + 1]
  BY <1>1 DEF Without
<1> HIDE DEF h
<1>3. CASE j < i
  <2>1. j < n - 1 => j + 1 \in 1..(n - 1)
    BY <1>1
  <2>2. j > 1 => j - 1 \in 1..(n - 1)
    BY <1>1
  <2> QED
    BY <1>1, <1>2, <1>3, <2>1, <2>2 DEF Succ, Pred, h
<1>4. CASE j >= i
  <2>1. j < n - 1 => j + 1 \in 1..(n - 1)
    BY <1>1
  <2>2. j > 1 => j - 1 \in 1..(n - 1)
    BY <1>1
  <2> QED
    BY <1>1, <1>2, <1>4, <2>1, <2>2 DEF Succ, Pred, h
<1> QED
  BY <1>1, <1>3, <1>4

LEMMA RemovingStore ==
  ASSUME MemOK, Store, NEW n, NEW f, NEW i, Removing(n, f, i)
  PROVE  /\ MemOK'
         /\ Removing(n, f, i)' \/ Quiet(n - 1, Without(n, f, i))'
<1>0. /\ IsList(n, f) /\ n \in Nat \ {0} /\ i \in 1..n /\ f[i] \in Client
      /\ due \in 1..5 /\ owed[due] = RemovalStores(n, f, i)[due]
      /\ \A j \in 1..n : f[j] \in Client /\ (f[j] = f[i] => j = i)
      /\ \A j, k \in 1..n : f[j] = f[k] => j = k
  BY DEF Removing, IsList
<1>1. CASE due = 5
  <2>1. i + 1 \in 1..n /\ Succ(n, f, i) = f[i + 1] /\ f[i + 1] \in Client
    BY <1>0, <1>1 DEF Removing, Succ
  <2>2. owed[due] = Put("previous", f[i + 1], Pred(f, i))
    BY <1>0, <1>1, <2>1 DEF RemovalStores
  <2>a. Done /\ Writes("previous", f[i + 1], Pred(f, i))
    BY <2>2, StoreEffect, Zenon
  <2>3. Done /\ previous' = [previous EXCEPT ![f[i + 1]] = Pred(f, i)]
             /\ UNCHANGED <<head, nb_clients, next, alive, open>>
    BY <2>1, <2>a, StorePrevious
  <2>4. \A j \in 1..n :
          previous'[f[j]] = IF j = i + 1 THEN Pred(f, i) ELSE previous[f[j]]
    BY <1>0, <2>1, <2>3 DEF previous
  <2>5. Removing(n, f, i)'
    BY <1>0, <1>1, <2>1, <2>3, <2>4 DEF Removing, Done
  <2> QED
    BY <2>3, <2>5 DEF Done
<1>2. CASE due = 4 /\ i = 1
  <2>1. owed[due] = Put("head", NULL, Succ(n, f, 1))
    BY <1>0, <1>2 DEF RemovalStores
  <2>2. Done /\ head' = Succ(n, f, 1)
             /\ UNCHANGED <<nb_clients, next, previous, alive, open>>
    BY <1>0, <2>1, StoreEffect, StoreHead
  <2>3. Removing(n, f, i)'
    BY <1>0, <1>2, <2>2 DEF Removing, Done
  <2> QED
    BY <2>2, <2>3 DEF Done
<1>3. CASE due = 4 /\ i # 1
  <2>1. owed[due] = Put("next", f[i - 1], Succ(n, f, i)) /\ i - 1 \in 1..n
    BY <1>0, <1>3 DEF RemovalStores
  <2>2. Done /\ next' = [next EXCEPT ![f[i - 1]] = Succ(n, f, i)]
             /\ UNCHANGED <<head, nb_clients, previous, alive, open>>
    BY <1>0, <2>1, StoreEffect, StoreNext
  <2>3. \A j \in 1..n : next'[f[j]] = IF j = i - 1 THEN Succ(n, f, i) ELSE next[f[j]]
    BY <1>0, <2>1, <2>2 DEF next
  <2>4. Removing(n, f, i)'
    BY <1>0, <1>3, <2>2, <2>3 DEF Removing, Done
  <2> QED
    BY <2>2, <2>4 DEF Done
<1>4. CASE due = 3
  <2>1. owed[due] = Put("nb_clients", NULL, n - 1)
    BY <1>0, <1>4 DEF RemovalStores
  <2>2. Done /\ nb_clients' = n - 1 /\ UNCHANGED <<head, next, previous, alive, open>>
    BY <1>0, <2>1, StoreEffect, StoreCount
  <2>3. Removing(n, f, i)'
    BY <1>0, <1>4, <2>2 DEF Removing, Done
  <2> QED
    BY <2>2, <2>3 DEF Done
<1>5. CASE due = 2
  <2>1. owed[due] = Put("open", f[i], FALSE)
    BY <1>0, <1>5 DEF RemovalStores
  <2>a. Done /\ Writes("open", f[i], FALSE)
    BY <2>1, StoreEffect, Zenon
  <2>2. Done /\ open' = open \ {f[i]}
             /\ UNCHANGED <<head, nb_clients, next, previous, alive>>
    BY <1>0, <2>a, StoreOpen
  <2>3. Removing(n, f, i)'
    BY <1>0, <1>5, <2>2 DEF Removing, Done
  <2> QED
    BY <2>2, <2>3 DEF Done
<1>6. CASE due = 1
  <2> DEFINE h == Without(n, f, i)
  <2>1. owed[due] = Put("alive", f[i], FALSE)
    BY <1>0, <1>6 DEF RemovalStores
  <2>a. Done /\ Writes("alive", f[i], FALSE)
    BY <2>1, StoreEffect, Zenon
  <2>2. Done /\ alive' = alive \ {f[i]}
             /\ UNCHANGED <<head, nb_clients, next, previous, open>>
    BY <1>0, <2>a, StoreAlive
  <2>3. /\ IsList(n - 1, h)
        /\ \A c : Listed(n, f, c) => c = f[i] \/ Listed(n - 1, h, c)
        /\ Succ(n - 1, h, 0) = IF i = 1 THEN Succ(n, f, 1) ELSE f[1]
    BY <1>0, WithoutIsList
  <2>4. ASSUME NEW j \in 1..(n - 1)
        PROVE  /\ next[h[j]] = Succ(n - 1, h, j) /\ previous[h[j]] = Pred(h, j)
               /\ h[j] \in alive \ {f[i]} /\ h[j] \in open
    <3> DEFINE k == IF j < i THEN j ELSE j + 1
    <3>1. /\ k \in 1..n /\ k # i /\ h[j] = f[k]
          /\ Succ(n - 1, h, j) = IF k = i - 1 THEN Succ(n, f, i) ELSE Succ(n, f, k)
          /\ Pred(h, j) = IF k = i + 1 THEN Pred(f, i) ELSE Pred(f, k)
      BY <1>0, WithoutNeighbours
    <3> HIDE DEF h, k
    <3> QED
      BY <1>0, <1>6, <3>1 DEF Removing
  <2> HIDE DEF h
  <2>5. Quiet(n - 1, h)'
    BY <1>0, <1>6, <2>2, <2>3, <2>4 DEF Removing, Done, Quiet, Walkable
  <2> QED
    BY <2>2, <2>5 DEF Done, h
<1> QED
  BY <1>0, <1>1, <1>2, <1>3, <1>4, <1>5, <1>6

LEMMA PutIsAStore ==
  ASSUME NEW kind, NEW c, <<kind, c>> \in Cell
  PROVE  /\ \A v \in Client \cup {NULL} : Put(kind, c, v) \in Stores
         /\ \A v \in Int : Put(kind, c, v) \in Stores
         /\ Put(kind, c, FALSE) \in Stores
  BY DEF Put, Stores

LEMMA CountIsAStore == \A v \in Int : Put("nb_clients", NULL, v) \in Stores
  BY CellsOf, PutIsAStore

LEMMA TwoStores ==
  ASSUME NEW a \in Stores, NEW b \in Stores
  PROVE  <<a, b>> \in Seq(Stores) /\ Len(<<a, b>>) = 2 /\ <<a, b>>[1] = a /\ <<a, b>>[2] = b
  OBVIOUS

\* An operation that begins owes its stores, in two parts.
LEMMA Joined ==
  ASSUME NEW s \in Seq(Stores), NEW t \in Seq(Stores), pending' = s \o t
  PROVE  /\ pending' \in Seq(Stores)
         /\ due' = Len(s) + Len(t)
         /\ \A j \in 1..due' : owed'[j] = IF j <= Len(t) THEN t[Len(t) + 1 - j]
                                          ELSE s[Len(s) + Len(t) + 1 - j]
<1>1. Len(s) \in Nat /\ Len(t) \in Nat
  OBVIOUS
<1>2. /\ pending' \in Seq(Stores) /\ Len(pending') = Len(s) + Len(t)
      /\ \A i \in 1..(Len(s) + Len(t)) :
           pending'[i] = IF i <= Len(s) THEN s[i] ELSE t[i - Len(s)]
  BY ConcatProperties
<1> QED
  BY <1>1, <1>2 DEF due, owed

LEMMA AcceptBegins ==
  ASSUME MemOK, NEW n, NEW f, Quiet(n, f), NEW c \in Client, AcceptNewClient(c)
  PROVE  MemOK' /\ (AddingFirst(c)' \/ Adding(n, f, c)')
<1>0. /\ IsList(n, f) /\ n \in Nat /\ nb_clients = n /\ ~ Listed(n, f, c)
      /\ At("nb_clients", NULL) = n /\ head = At("head", NULL)
      /\ n > 0 => head = f[1] /\ f[1] \in Client
  BY DEF Quiet, Walkable, IsList, Succ, AcceptNewClient, alive, nb_clients, head, Listed
<1>1. /\ head' = head /\ nb_clients' = nb_clients
      /\ alive' = alive \cup {c} /\ open' = open \cup {c}
      /\ \A d \in Client \ {c} : next'[d] = next[d] /\ previous'[d] = previous[d]
      /\ mem' = [x \in Cell |-> mem'[x]]
  <2>1. /\ mem' = [x \in Cell |-> mem'[x]]
        /\ mem'[<<"alive", c>>] = TRUE /\ mem'[<<"open", c>>] = TRUE
        /\ \A x \in Cell : x[2] # c \/ x[1] \notin {"alive", "open", "next", "previous"}
             => mem'[x] = mem[x]
    <3>1. mem' = [x \in Cell |-> mem'[x]]
      BY DEF AcceptNewClient, MemOK
    <3>2. mem'[<<"alive", c>>] = TRUE
      BY CellsOf DEF AcceptNewClient, MemOK
    <3>3. mem'[<<"open", c>>] = TRUE
      BY CellsOf DEF AcceptNewClient, MemOK
    <3>4. ASSUME NEW x \in Cell, x[2] # c \/ x[1] \notin {"alive", "open", "next", "previous"}
          PROVE  mem'[x] = mem[x]
      BY <3>4, CellsOf DEF AcceptNewClient, MemOK
    <3> QED
      BY <3>1, <3>2, <3>3, <3>4
  <2> QED
    BY <2>1, CellsOf DEF head, nb_clients, alive, open, next, previous, At
<1>2. /\ Put("previous", c, NULL) \in Stores /\ Put("next", c, NULL) \in Stores
      /\ Put("head", NULL, c) \in Stores /\ Put("nb_clients", NULL, n + 1) \in Stores
  <2>1. Put("previous", c, NULL) \in Stores
    BY CellsOf, PutIsAStore
  <2>2. Put("next", c, NULL) \in Stores
    BY CellsOf, PutIsAStore
  <2>3. Put("head", NULL, c) \in Stores
    BY CellsOf, PutIsAStore
  <2>4. Put("nb_clients", NULL, n + 1) \in Stores
    <3>1. n + 1 \in Int
      BY <1>0
    <3> QED
      BY <3>1, CountIsAStore, Zenon
  <2> QED
    BY <2>1, <2>2, <2>3, <2>4
<1>3. CASE n = 0
  <2> DEFINE s == <<Put("previous", c, NULL), Put("next", c, NULL)>>
             t == <<Put("head", NULL, c), Put("previous", c, NULL), Put("next", c, NULL),
                    Put("nb_clients", NULL, n + 1)>>
  <2>1. /\ pending' = s \o t /\ s \in Seq(Stores) /\ t \in Seq(Stores)
        /\ Len(s) = 2 /\ Len(t) = 4
    BY <1>0, <1>2, <1>3 DEF AcceptNewClient, AddStores, InitStores, Counted
  <2>2. pending' \in Seq(Stores) /\ due' = 6 /\ \A j \in 1..6 : owed'[j] = FirstStores(c)[j]
    <3> HIDE DEF s, t
    <3>1. /\ pending' \in Seq(Stores) /\ due' = 6
          /\ \A j \in 1..6 : owed'[j] = IF j <= 4 THEN t[5 - j] ELSE s[7 - j]
      <4>1. /\ pending' \in Seq(Stores) /\ due' = Len(s) + Len(t)
            /\ \A j \in 1..due' : owed'[j] = IF j <= Len(t) THEN t[Len(t) + 1 - j]
                                             ELSE s[Len(s) + Len(t) + 1 - j]
        BY <2>1, Joined
      <4>2. due' = 6
        BY <2>1, <4>1
      <4> QED
        BY <2>1, <4>1, <4>2
    <3> QED
      BY <1>3, <3>1 DEF FirstStores, s, t
  <2> QED
    BY <1>0, <1>1, <1>3, <2>2 DEF MemOK, AddingFirst, Quiet, Walkable, Succ, Listed
<1>4. CASE n > 0
  <2> DEFINE s == <<Put("previous", c, NULL), Put("next", c, NULL)>>
             t == <<Put("previous", c, NULL), Put("next", c, f[1]), Put("previous", f[1], c),
                    Put("head", NULL, c), Put("nb_clients", NULL, n + 1)>>
  <2>1. Put("next", c, f[1]) \in Stores /\ Put("previous", f[1], c) \in Stores
    BY <1>0, <1>4, CellsOf, PutIsAStore
  <2>2. /\ pending' = s \o t /\ s \in Seq(Stores) /\ t \in Seq(Stores)
        /\ Len(s) = 2 /\ Len(t) = 5
    BY <1>0, <1>2, <1>4, <2>1 DEF AcceptNewClient, AddStores, InitStores, Counted
  <2>3. pending' \in Seq(Stores) /\ due' = 7 /\ \A j \in 1..7 : owed'[j] = NextStores(n, f, c)[j]
    <3> HIDE DEF s, t
    <3>1. /\ pending' \in Seq(Stores) /\ due' = 7
          /\ \A j \in 1..7 : owed'[j] = IF j <= 5 THEN t[6 - j] ELSE s[8 - j]
      <4>1. /\ pending' \in Seq(Stores) /\ due' = Len(s) + Len(t)
            /\ \A j \in 1..due' : owed'[j] = IF j <= Len(t) THEN t[Len(t) + 1 - j]
                                             ELSE s[Len(s) + Len(t) + 1 - j]
        BY <2>2, Joined
      <4>2. due' = 7
        BY <2>2, <4>1
      <4> QED
        BY <2>2, <4>1, <4>2
    <3> QED
      BY <3>1 DEF NextStores, s, t
  <2>4. \A i \in 1..n : f[i] \in Client \ {c}
    BY <1>0 DEF IsList, Listed
  <2>5. Adding(n, f, c)'
    BY <1>0, <1>1, <1>4, <2>3, <2>4 DEF Adding, Quiet, Walkable, Succ
  <2> QED
    BY <1>1, <2>3, <2>5 DEF MemOK
<1> QED
  BY <1>0, <1>3, <1>4

LEMMA OneMore ==
  ASSUME NEW t \in Seq(Stores), NEW e \in Stores
  PROVE  /\ t \o <<e>> \in Seq(Stores) /\ Len(t \o <<e>>) = Len(t) + 1
         /\ \A j \in 1..Len(t) : (t \o <<e>>)[j] = t[j]
         /\ (t \o <<e>>)[Len(t) + 1] = e
<1>1. <<e>> \in Seq(Stores) /\ Len(<<e>>) = 1 /\ <<e>>[1] = e /\ Len(t) \in Nat
  OBVIOUS
<1> DEFINE u == <<e>>
<1>2. u \in Seq(Stores) /\ Len(u) = 1 /\ u[1] = e
  BY <1>1
<1> HIDE DEF u
<1>3. /\ t \o u \in Seq(Stores) /\ Len(t \o u) = Len(t) + 1
      /\ \A j \in 1..(Len(t) + 1) : (t \o u)[j] = IF j <= Len(t) THEN t[j] ELSE u[j - Len(t)]
  BY <1>2, ConcatProperties
<1>4. (t \o u)[Len(t) + 1] = u[1]
  BY <1>1, <1>3
<1> QED
  BY <1>1, <1>2, <1>3, <1>4 DEF u

LEMMA RemoveBegins ==
  ASSUME MemOK, NEW n, NEW f, Quiet(n, f), NEW i \in 1..n, RemoveClient(f[i])
  PROVE  MemOK' /\ Removing(n, f, i)'
<1> DEFINE c == f[i]
           back == Put("previous", Succ(n, f, i), Pred(f, i))
           commit == IF i = 1 THEN Put("head", NULL, Succ(n, f, 1))
                     ELSE Put("next", f[i - 1], Succ(n, f, i))
           count == Put("nb_clients", NULL, n - 1)
           A == IF i < n THEN <<back>> ELSE << >>
           s == (A \o <<commit>>) \o <<count>>
           t == DeleteStores(c)
<1>0. /\ IsList(n, f) /\ n \in Nat \ {0} /\ i \in 1..n /\ c \in Client
      /\ \A j \in 1..n : f[j] \in Client /\ f[j] # NULL
      /\ \A j, k \in 1..n : f[j] = f[k] => j = k
      /\ At("next", c) = Succ(n, f, i) /\ At("previous", c) = Pred(f, i)
      /\ At("head", NULL) = f[1] /\ At("nb_clients", NULL) = n
  <2>1. /\ IsList(n, f) /\ n \in Nat \ {0} /\ i \in 1..n
        /\ \A j \in 1..n : f[j] \in Client
        /\ \A j, k \in 1..n : f[j] = f[k] => j = k
    BY DEF Quiet, Walkable, IsList
  <2>2. next[c] = Succ(n, f, i) /\ previous[c] = Pred(f, i) /\ head = f[1] /\ nb_clients = n
    BY <2>1 DEF Quiet, Walkable, Succ
  <2> QED
    BY <2>1, <2>2, LifecycleAssumption DEF next, previous, head, nb_clients
<1>1. /\ i < n => i + 1 \in 1..n /\ Succ(n, f, i) = f[i + 1]
      /\ i >= n => Succ(n, f, i) = NULL
      /\ i > 1 => i - 1 \in 1..n /\ Pred(f, i) = f[i - 1]
      /\ i = 1 => Pred(f, i) = NULL
  BY <1>0 DEF Succ, Pred
<1>2. /\ commit \in Stores /\ A \in Seq(Stores)
      /\ Len(A) = IF i < n THEN 1 ELSE 0
      /\ i < n => A[1] = back
  <2>0. Succ(n, f, i) \in Client \cup {NULL} /\ Pred(f, i) \in Client \cup {NULL}
    BY <1>0, <1>1
  <2>1. commit \in Stores
    <3>1. CASE i = 1
      BY <2>0, <3>1, CellsOf, PutIsAStore
    <3>2. CASE i # 1
      <4>1. f[i - 1] \in Client
        BY <1>0, <1>1, <3>2
      <4> QED
        BY <2>0, <3>2, <4>1, CellsOf, PutIsAStore
    <3> QED
      BY <3>1, <3>2
  <2>2. i < n => back \in Stores
    <3>1. i < n => Succ(n, f, i) \in Client
      BY <1>0, <1>1
    <3> QED
      BY <2>0, <3>1, CellsOf, PutIsAStore
  <2> QED
    BY <2>1, <2>2, EmptySeq
<1>3. count \in Stores
  <2>1. n - 1 \in Int
    BY <1>0
  <2> QED
    BY <2>1, CountIsAStore, Zenon
<1>4. t \in Seq(Stores) /\ Len(t) = 2
      /\ t[1] = Put("open", c, FALSE) /\ t[2] = Put("alive", c, FALSE)
  <2>1. Put("open", c, FALSE) \in Stores /\ Put("alive", c, FALSE) \in Stores
    BY <1>0, CellsOf, PutIsAStore
  <2> QED
    BY <2>1, TwoStores, Zenon DEF DeleteStores
<1>5. /\ A \o <<commit>> \in Seq(Stores) /\ Len(A \o <<commit>>) = Len(A) + 1
      /\ \A j \in 1..Len(A) : (A \o <<commit>>)[j] = A[j]
      /\ (A \o <<commit>>)[Len(A) + 1] = commit
  <2> HIDE DEF A, commit
  <2> QED
    BY <1>2, OneMore
<1>6. /\ s \in Seq(Stores) /\ Len(s) = Len(A) + 2
      /\ s[Len(A) + 2] = count /\ s[Len(A) + 1] = commit
      /\ i < n => s[1] = back
  <2> DEFINE B == A \o <<commit>>
  <2>1. /\ B \in Seq(Stores) /\ Len(B) = Len(A) + 1 /\ B[Len(A) + 1] = commit
        /\ i < n => Len(A) = 1 /\ B[1] = back
    BY <1>2, <1>5
  <2>2. Len(A) \in Nat
    BY <1>2
  <2> HIDE DEF B, count
  <2>3. /\ B \o <<count>> \in Seq(Stores) /\ Len(B \o <<count>>) = Len(B) + 1
        /\ \A j \in 1..Len(B) : (B \o <<count>>)[j] = B[j]
        /\ (B \o <<count>>)[Len(B) + 1] = count
    BY <1>3, <2>1, OneMore
  <2> HIDE DEF A, commit, back
  <2>4. (B \o <<count>>)[Len(A) + 1] = commit
    BY <2>1, <2>2, <2>3
  <2>5. (B \o <<count>>)[Len(A) + 2] = count
    BY <2>1, <2>2, <2>3
  <2>6. i < n => (B \o <<count>>)[1] = back
    BY <2>1, <2>2, <2>3
  <2> QED
    BY <2>1, <2>2, <2>3, <2>4, <2>5, <2>6 DEF B
<1>7. pending' = s \o t
  <2> DEFINE B == IF At("previous", c) = NULL THEN << >>
                  ELSE <<Put("next", At("previous", c), At("next", c))>>
             C == IF At("head", NULL) = c THEN <<Put("head", NULL, At("next", c))>> ELSE << >>
  <2>1. A = IF At("next", c) = NULL THEN << >>
            ELSE <<Put("previous", At("next", c), At("previous", c))>>
    BY <1>0, <1>1
  <2>2. count = Counted(0 - 1)
    <3>1. n - 1 = n + (0 - 1)
      BY <1>0
    <3> QED
      BY <1>0, <3>1 DEF Counted
  <2>3. (A \o B) \o C = A \o <<commit>>
    <3>1. <<commit>> \in Seq(Stores)
      BY <1>2
    <3>2. CASE i = 1
      <4>1. B = << >> /\ C = <<commit>>
        BY <1>0, <1>1, <3>2
      <4> HIDE DEF A, B, C, commit
      <4> QED
        BY <1>2, <4>1, ConcatEmptySeq
    <3>3. CASE i # 1
      <4>1. i > 1
        BY <1>0, <3>3
      <4>2. At("previous", c) = f[i - 1] /\ f[i - 1] # NULL
        BY <1>0, <1>1, <4>1
      <4>3. B = <<commit>>
        BY <1>0, <3>3, <4>2
      <4>4. C = << >>
        BY <1>0, <3>3
      <4> HIDE DEF A, B, C, commit
      <4> QED
        BY <1>5, <4>3, <4>4, ConcatEmptySeq
    <3> QED
      BY <3>2, <3>3
  <2>4. pending' = UnlinkStores(c) \o t
    BY DEF RemoveClient, RemoveStores
  <2>5. UnlinkStores(c) = ((A \o B) \o C) \o <<count>>
    <3> HIDE DEF count
    <3> QED
      BY <2>1, <2>2 DEF UnlinkStores
  <2> HIDE DEF A, B, C, commit, count, t
  <2> QED
    BY <2>3, <2>4, <2>5
<1>8. /\ pending' \in Seq(Stores) /\ due' = Len(A) + 4
      /\ owed'[1] = Put("alive", c, FALSE) /\ owed'[2] = Put("open", c, FALSE)
      /\ owed'[3] = count /\ owed'[4] = commit
      /\ i < n => owed'[5] = back
  <2> HIDE DEF s, t
  <2>1. /\ pending' \in Seq(Stores) /\ due' = Len(s) + Len(t)
        /\ \A j \in 1..due' : owed'[j] = IF j <= Len(t) THEN t[Len(t) + 1 - j]
                                         ELSE s[Len(s) + Len(t) + 1 - j]
    BY <1>4, <1>6, <1>7, Joined
  <2>2. Len(A) \in 0..1 /\ (i < n => Len(A) = 1)
    BY <1>2
  <2> HIDE DEF A, count, commit, back
  <2>3. Len(s) + Len(t) = Len(A) + 4
    BY <1>4, <1>6, <2>2
  <2>4. owed'[1] = t[2] /\ owed'[2] = t[1]
    <3>1. 1 \in 1..due' /\ 2 \in 1..due' /\ Len(t) + 1 - 1 = 2 /\ Len(t) + 1 - 2 = 1
      BY <1>4, <2>1, <2>2, <2>3
    <3>2. owed'[1] = t[Len(t) + 1 - 1] /\ owed'[2] = t[Len(t) + 1 - 2]
      <4>1. 1 <= Len(t) /\ 2 <= Len(t)
        BY <1>4
      <4> QED
        BY <2>1, <3>1, <4>1, Zenon
    <3> QED
      BY <3>1, <3>2
  <2>5. owed'[3] = s[Len(A) + 2]
    BY <1>4, <2>1, <2>2, <2>3
  <2>6. owed'[4] = s[Len(A) + 1]
    BY <1>4, <2>1, <2>2, <2>3
  <2>7. i < n => owed'[5] = s[1]
    <3>1. i < n => 5 \in 1..due' /\ Len(s) + Len(t) + 1 - 5 = 1
      <4>1. i < n => Len(A) = 1 /\ Len(s) + Len(t) = 5 /\ due' = 5
        <5>1. i < n => Len(A) = 1
          BY <2>2
        <5>2. Len(A) = 1 => Len(s) + Len(t) = 5
          BY <2>3
        <5>3. due' = Len(s) + Len(t)
          BY <2>1
        <5> QED
          BY <5>1, <5>2, <5>3
      <4>2. Len(s) \in Nat /\ Len(t) \in Nat
        BY <1>4, <1>6, <2>2
      <4> QED
        BY <4>1, <4>2
    <3>2. ASSUME i < n
          PROVE  owed'[5] = s[Len(s) + Len(t) + 1 - 5]
      <4>1. 5 \in 1..due' /\ ~ (5 <= Len(t))
        BY <1>4, <3>1, <3>2
      <4> QED
        BY <2>1, <4>1, Zenon
    <3> QED
      BY <3>1, <3>2
  <2> QED
    BY <1>4, <1>6, <2>1, <2>3, <2>4, <2>5, <2>6, <2>7
<1>9. due' \in {4, 5} /\ (due' = 5 <=> i < n)
  BY <1>0, <1>2, <1>8
<1>10. \A j \in 1..due' : owed'[j] = RemovalStores(n, f, i)[j]
  <2> DEFINE R == RemovalStores(n, f, i)
  <2>1. /\ R[1] = Put("alive", c, FALSE) /\ R[2] = Put("open", c, FALSE)
        /\ R[3] = count /\ R[4] = commit /\ R[5] = back
    BY DEF RemovalStores
  <2>2. ASSUME NEW j \in 1..due'
        PROVE  j = 1 \/ j = 2 \/ j = 3 \/ j = 4 \/ (j = 5 /\ i < n)
    BY <1>9
  <2> HIDE DEF R, count, commit, back
  <2>3. \A j \in 1..due' : owed'[j] = R[j]
    BY <1>8, <2>1, <2>2
  <2> QED
    BY <2>3 DEF R
<1>11. UNCHANGED <<mem, head, nb_clients, next, previous, alive, open>>
  BY DEF RemoveClient, head, nb_clients, next, previous, alive, open, At
<1>12. Removing(n, f, i)'
  <2>1. /\ nb_clients = n /\ head = f[1]
        /\ \A j \in 1..n : /\ next[f[j]] = Succ(n, f, j) /\ previous[f[j]] = Pred(f, j)
                           /\ f[j] \in alive /\ f[j] \in open
        /\ \A d \in alive : Listed(n, f, d)
    BY <1>0 DEF Quiet, Walkable, Succ
  <2> QED
    <3>1. /\ nb_clients' = n /\ head' = f[1]
          /\ \A j \in 1..n : /\ next'[f[j]] = Succ(n, f, j) /\ previous'[f[j]] = Pred(f, j)
                             /\ f[j] \in alive' /\ f[j] \in open'
          /\ \A d \in alive' : Listed(n, f, d)
      BY <1>11, <2>1
    <3>2. /\ due' \in 1..5 /\ (due' = 5 => i < n)
          /\ ~ (due' <= 2) /\ ~ (due' <= 3) /\ due' >= 2
          /\ \A j \in 1..n : ~ (j = i + 1 /\ due' <= 4)
      BY <1>0, <1>9
    <3> QED
      BY <1>0, <1>10, <3>1, <3>2 DEF Removing
<1> QED
  BY <1>8, <1>11, <1>12 DEF MemOK

\* The four phases cover every step of the program on its list.
LEMMA ListStepInv ==
  ASSUME MemOK, ListInv,
         \/ pending = << >> /\ \E c \in Client : AcceptNewClient(c) \/ RemoveClient(c)
         \/ Store
  PROVE  MemOK' /\ ListInv'
<1>1. CASE Store
  <2>1. due # 0
    BY <1>1, DueIsNat DEF Store
  <2>2. InProgress
    BY <2>1 DEF ListInv, Quiet
  <2>3. CASE \E c \in Client : AddingFirst(c)
    <3>1. PICK c \in Client : AddingFirst(c)
      BY <2>3
    <3>2. MemOK' /\ (AddingFirst(c)' \/ Quiet(1, <<c>>)')
      BY <1>1, <3>1, AddingFirstStore
    <3>3. <<c>> \in [1..1 -> Client]
      OBVIOUS
    <3> QED
      BY <3>2, <3>3 DEF ListInv, InProgress
  <2>4. CASE \E n \in Nat : \E f \in [1..n -> Client] : \E c \in Client : Adding(n, f, c)
    <3>1. PICK n, f, c : n \in Nat /\ f \in [1..n -> Client] /\ c \in Client /\ Adding(n, f, c)
      BY <2>4
    <3>2. /\ MemOK'
          /\ Adding(n, f, c)' \/ \E h \in [1..(n + 1) -> Client] : Quiet(n + 1, h)'
      BY <1>1, <3>1, AddingStore
    <3>3. n + 1 \in Nat
      BY <3>1
    <3> QED
      BY <3>1, <3>2, <3>3 DEF ListInv, InProgress
  <2>5. CASE \E n \in Nat : \E f \in [1..n -> Client] : \E i \in 1..n : Removing(n, f, i)
    <3>1. PICK n, f, i : n \in Nat /\ f \in [1..n -> Client] /\ i \in 1..n /\ Removing(n, f, i)
      BY <2>5
    <3>2. MemOK' /\ (Removing(n, f, i)' \/ Quiet(n - 1, Without(n, f, i))')
      BY <1>1, <3>1, RemovingStore
    <3>3. n - 1 \in Nat /\ Without(n, f, i) \in [1..(n - 1) -> Client]
      BY <3>1, WithoutIsList DEF Removing, IsList
    <3> QED
      BY <3>1, <3>2, <3>3 DEF ListInv, InProgress
  <2> QED
    BY <2>2, <2>3, <2>4, <2>5 DEF InProgress
<1>2. CASE pending = << >> /\ \E c \in Client : AcceptNewClient(c) \/ RemoveClient(c)
  <2>1. due = 0
    BY <1>2, DueIsNat
  <2>2. PICK n, f : n \in Nat /\ f \in [1..n -> Client] /\ Quiet(n, f)
    BY <2>1 DEF ListInv, InProgress, AddingFirst, Adding, Removing
  <2>3. PICK c \in Client : AcceptNewClient(c) \/ RemoveClient(c)
    BY <1>2
  <2>4. CASE AcceptNewClient(c)
    <3>1. MemOK' /\ (AddingFirst(c)' \/ Adding(n, f, c)')
      BY <2>2, <2>4, AcceptBegins
    <3> QED
      BY <2>2, <3>1 DEF ListInv, InProgress
  <2>5. CASE RemoveClient(c)
    <3>1. PICK i \in 1..n : f[i] = c
      BY <2>2, <2>5 DEF Quiet, Listed, RemoveClient, alive
    <3>2. MemOK' /\ Removing(n, f, i)'
      BY <2>2, <2>5, <3>1, RemoveBegins
    <3> QED
      BY <2>2, <3>1, <3>2 DEF ListInv, InProgress
  <2> QED
    BY <2>3, <2>4, <2>5
<1> QED
  BY <1>1, <1>2

----------------------------------------------------------------------------
(***************************************************************************)
(* What a cleaning finds.                                                  *)
(***************************************************************************)

\* Whichever stores are done, the walk meets the clients of some list.
LEMMA ListIsWalkable == MemOK /\ ListInv => WalkFrom(head)
<1> SUFFICES ASSUME MemOK, ListInv
             PROVE  WalkFrom(head)
  OBVIOUS
<1>1. CASE \E n \in Nat : \E f \in [1..n -> Client] : Quiet(n, f)
  BY <1>1 DEF Quiet, WalkFrom, OneOutside
<1>2. CASE \E c \in Client : AddingFirst(c)
  <2>1. PICK c \in Client : AddingFirst(c)
    BY <1>2
  <2>2. CASE due <= 3
    <3>1. IsList(1, <<c>>) /\ <<c>> \in [1..1 -> Client]
      BY DEF IsList
    <3>2. Walkable(1, <<c>>, head)
      BY <2>1, <2>2, <3>1 DEF AddingFirst, Walkable, Succ
    <3>3. OneOutside(1, <<c>>)
      BY <2>1 DEF AddingFirst, OneOutside
    <3> QED
      BY <3>1, <3>2, <3>3 DEF WalkFrom
  <2>3. CASE due > 3
    <3>1. IsList(0, << >>) /\ << >> \in [1..0 -> Client]
      BY DEF IsList
    <3>2. Walkable(0, << >>, head)
      BY <2>1, <2>3, <3>1 DEF AddingFirst, Walkable, Succ
    <3>3. OneOutside(0, << >>)
      BY <2>1 DEF AddingFirst, OneOutside
    <3> QED
      BY <3>1, <3>2, <3>3 DEF WalkFrom
  <2> QED
    BY <2>1, <2>2, <2>3 DEF AddingFirst
<1>3. CASE \E n \in Nat : \E f \in [1..n -> Client] : \E c \in Client : Adding(n, f, c)
  <2>1. PICK n, f, c : n \in Nat /\ f \in [1..n -> Client] /\ c \in Client /\ Adding(n, f, c)
    BY <1>3
  <2>2. CASE due > 1
    <3>1. Walkable(n, f, head)
      BY <2>1, <2>2 DEF Adding, Walkable, Succ
    <3>2. OneOutside(n, f)
      BY <2>1 DEF Adding, OneOutside
    <3> QED
      BY <2>1, <3>1, <3>2 DEF WalkFrom
  <2>3. CASE due = 1
    <3> DEFINE h == [i \in 1..(n + 1) |-> IF i = 1 THEN c ELSE f[i - 1]]
    <3>1. h \in [1..(n + 1) -> Client] /\ IsList(n + 1, h)
      <4>1. \A i \in 1..n : f[i] # c
        BY <2>1 DEF Adding, Listed
      <4> QED
        BY <2>1, <4>1 DEF Adding, IsList
    <3>2. ASSUME NEW i \in 1..(n + 1)
          PROVE  next[h[i]] = Succ(n + 1, h, i) /\ h[i] \in alive /\ h[i] \in open
      <4>1. CASE i = 1
        BY <2>1, <2>3, <4>1 DEF Adding, Succ
      <4>2. CASE i > 1
        <5>1. i - 1 \in 1..n /\ h[i] = f[i - 1] /\ Succ(n + 1, h, i) = Succ(n, f, i - 1)
          BY <2>1, <4>2 DEF Succ
        <5> QED
          BY <2>1, <5>1 DEF Adding
      <4> QED
        BY <4>1, <4>2
    <3>3. head = Succ(n + 1, h, 0)
      BY <2>1, <2>3 DEF Adding, Succ
    <3>4. \A d : d = c \/ Listed(n, f, d) => Listed(n + 1, h, d)
      <4>1. /\ 1 \in 1..(n + 1) /\ h[1] = c
            /\ \A i \in 1..n : i + 1 \in 1..(n + 1) /\ h[i + 1] = f[i]
        BY <2>1
      <4> HIDE DEF h
      <4> QED
        BY <4>1 DEF Listed
    <3> HIDE DEF h
    <3>5. Walkable(n + 1, h, head)
      BY <3>1, <3>2, <3>3 DEF Walkable
    <3>6. OneOutside(n + 1, h)
      BY <2>1, <3>4 DEF Adding, OneOutside
    <3> QED
      BY <2>1, <3>1, <3>5, <3>6 DEF WalkFrom
  <2> QED
    BY <2>1, <2>2, <2>3 DEF Adding
<1>4. CASE \E n \in Nat : \E f \in [1..n -> Client] : \E i \in 1..n : Removing(n, f, i)
  <2>1. PICK n, f, i : n \in Nat /\ f \in [1..n -> Client] /\ i \in 1..n /\ Removing(n, f, i)
    BY <1>4
  <2>2. CASE due > 3
    <3>1. Walkable(n, f, head)
      BY <2>1, <2>2 DEF Removing, Walkable, Succ
    <3>2. OneOutside(n, f)
      BY <2>1 DEF Removing, OneOutside
    <3> QED
      BY <2>1, <3>1, <3>2 DEF WalkFrom
  <2>3. CASE due <= 3
    <3> DEFINE h == Without(n, f, i)
    <3>1. /\ IsList(n - 1, h) /\ n - 1 \in Nat /\ h \in [1..(n - 1) -> Client]
          /\ \A c : Listed(n, f, c) => c = f[i] \/ Listed(n - 1, h, c)
          /\ Succ(n - 1, h, 0) = IF i = 1 THEN Succ(n, f, 1) ELSE f[1]
      <4>1. IsList(n, f) /\ i \in 1..n
        BY <2>1 DEF Removing
      <4>2. IsList(n - 1, h) /\ \A c : Listed(n, f, c) => c = f[i] \/ Listed(n - 1, h, c)
        BY <4>1, WithoutIsList
      <4>3. Succ(n - 1, h, 0) = IF i = 1 THEN Succ(n, f, 1) ELSE f[1]
        BY <4>1, WithoutIsList
      <4> QED
        BY <4>2, <4>3 DEF IsList
    <3>2. ASSUME NEW j \in 1..(n - 1)
          PROVE  next[h[j]] = Succ(n - 1, h, j) /\ h[j] \in alive /\ h[j] \in open
      <4> DEFINE k == IF j < i THEN j ELSE j + 1
      <4>1. /\ k \in 1..n /\ k # i /\ h[j] = f[k]
            /\ Succ(n - 1, h, j) = IF k = i - 1 THEN Succ(n, f, i) ELSE Succ(n, f, k)
        <5>1. IsList(n, f) /\ i \in 1..n
          BY <2>1 DEF Removing
        <5> QED
          BY <5>1, WithoutNeighbours
      <4> HIDE DEF h, k
      <4> QED
        BY <2>1, <2>3, <4>1 DEF Removing
    <3> HIDE DEF h
    <3>3. Walkable(n - 1, h, head)
      BY <2>1, <2>3, <3>1, <3>2 DEF Removing, Walkable
    <3>4. OneOutside(n - 1, h)
      BY <2>1, <3>1 DEF Removing, OneOutside
    <3> QED
      BY <3>1, <3>3, <3>4 DEF WalkFrom
  <2> QED
    BY <2>1, <2>2, <2>3 DEF Removing
<1> QED
  BY <1>1, <1>2, <1>3, <1>4 DEF ListInv, InProgress

\* A client deleted is the first of the list; the walk goes on with the others.
LEMMA WalkGoesOn ==
  ASSUME MemOK, DeleteCurrent, UNCHANGED pending,
         NEW n, NEW f, Walkable(n, f, current)
  PROVE  /\ MemOK' /\ UNCHANGED <<cleaning, faults>>
         /\ \E h \in [1..(n - 1) -> Client] :
              /\ n - 1 \in Nat /\ Walkable(n - 1, h, current)'
              /\ OneOutside(n, f) => OneOutside(n - 1, h)'
<1> DEFINE h == Without(n, f, 1)
<1>1. /\ IsList(n, f) /\ n \in Nat \ {0} /\ current = f[1] /\ f[1] \in Client
      /\ 1 \in 1..n
  <2>1. IsList(n, f) /\ n \in Nat /\ f \in [1..n -> Client]
    BY DEF Walkable, IsList
  <2>2. n # 0
    BY LifecycleAssumption DEF Walkable, Succ, DeleteCurrent
  <2> QED
    BY <2>1, <2>2 DEF Walkable, Succ
<1>2. current \in alive /\ current \in open /\ next[current] = Succ(n, f, 1)
  BY <1>1 DEF Walkable
<1>3. At("alive", current) /\ At("open", current) /\ At("next", current) = Succ(n, f, 1)
  BY <1>1, <1>2 DEF alive, open, next
<1>4. /\ mem' = [mem EXCEPT ![<<"open", current>>] = FALSE, ![<<"alive", current>>] = FALSE]
      /\ current' = Succ(n, f, 1) /\ UNCHANGED <<cleaning, faults>>
  BY <1>3 DEF DeleteCurrent
<1>5. mem' = [x \in Cell |-> IF x \in {<<"open", f[1]>>, <<"alive", f[1]>>} THEN FALSE ELSE mem[x]]
  BY <1>1, <1>4, CellsOf DEF MemOK
<1>6. alive' = alive \ {f[1]} /\ open' = open \ {f[1]} /\ next' = next
  BY <1>1, <1>5, CellsOf DEF alive, open, next, At
<1>7. MemOK' /\ due' = due
  BY <1>5 DEF MemOK, due
<1>8. /\ IsList(n - 1, h) /\ n - 1 \in Nat /\ h \in [1..(n - 1) -> Client]
      /\ \A c : Listed(n, f, c) => c = f[1] \/ Listed(n - 1, h, c)
      /\ Succ(n - 1, h, 0) = Succ(n, f, 1)
  <2>1. IsList(n - 1, h) /\ \A c : Listed(n, f, c) => c = f[1] \/ Listed(n - 1, h, c)
    BY <1>1, WithoutIsList
  <2>2. Succ(n - 1, h, 0) = IF 1 = 1 THEN Succ(n, f, 1) ELSE f[1]
    BY <1>1, WithoutIsList
  <2> QED
    BY <2>1, <2>2 DEF IsList
<1>9. ASSUME NEW j \in 1..(n - 1)
      PROVE  next[h[j]] = Succ(n - 1, h, j) /\ h[j] \in alive \ {f[1]} /\ h[j] \in open \ {f[1]}
  <2> DEFINE k == IF j < 1 THEN j ELSE j + 1
  <2>1. /\ k \in 1..n /\ k # 1 /\ h[j] = f[k]
        /\ Succ(n - 1, h, j) = IF k = 1 - 1 THEN Succ(n, f, 1) ELSE Succ(n, f, k)
    BY <1>1, WithoutNeighbours
  <2>2. f[k] # f[1] /\ Succ(n - 1, h, j) = Succ(n, f, k)
    BY <1>1, <2>1 DEF IsList
  <2> HIDE DEF h, k
  <2> QED
    BY <2>1, <2>2 DEF Walkable
<1> HIDE DEF h
<1>10. Walkable(n - 1, h, current)'
  BY <1>4, <1>6, <1>8, <1>9 DEF Walkable
<1>11. OneOutside(n, f) => OneOutside(n - 1, h)'
  BY <1>6, <1>7, <1>8 DEF OneOutside
<1> QED
  BY <1>4, <1>7, <1>8, <1>10, <1>11

----------------------------------------------------------------------------
(***************************************************************************)
(* The invariant.                                                          *)
(***************************************************************************)

FieldName == {"sockfd", "parameters", "clients", "cache"}

AllSet == Len(fields) = 4

\* The fields are set in order, and all of them before the server loads or serves.
FieldsInv ==
  /\ fields \in Seq(FieldName) /\ Len(fields) \in 0..4
  /\ \A i \in 1..Len(fields) : fields[i] = FieldOrder[i]
  /\ stage \in {"main", "created", "loading", "loaded", "serving"}
  /\ stage = "main" => Len(fields) = 0
  /\ stage = "created" => Len(fields) < 4
  /\ stage \notin {"main", "created"} => AllSet
  /\ listener = "bound" => AllSet

\* The clients of the list from from on are what there is to delete.
OnWalk(from) ==
  \E n \in Nat : \E f \in [1..n -> Client] :
    Walkable(n, f, from) /\ (AllSet => OneOutside(n, f))

\* What is left when the walk has ended.
OneLeft == \A c, d \in alive : c = d /\ due # 0

CleaningInv ==
  /\ cleaning \in {"no", "listener", "clients", "walk", "parameters", "cache", "server",
                   "done", "cut"}
  /\ "freed" \notin faults
  /\ faults # {} => ~ AllSet
  /\ cleaning = "no" => ListInv /\ faults = {}
  /\ cleaning \in {"listener", "clients"} => WalkFrom(head)
  /\ cleaning = "walk" => OnWalk(current)
  /\ AllSet /\ cleaning \in {"parameters", "cache", "server", "done"} => OneLeft
  /\ AllSet /\ cleaning \in {"clients", "walk", "parameters", "cache", "server", "done"}
       => listener = "closed"
  /\ AllSet /\ cleaning \in {"server", "done"} => cache # "built"

LifeInv == MemOK /\ FieldsInv /\ CleaningInv

LEMMA FieldsAreSet ==
  FieldsInv /\ AllSet =>
    \A f \in FieldName : IsSet(f)
<1> SUFFICES ASSUME FieldsInv, AllSet
             PROVE  \A f \in FieldName : IsSet(f)
  OBVIOUS
<1>1. /\ DOMAIN fields = 1..4
      /\ fields[1] = "sockfd" /\ fields[2] = "parameters"
      /\ fields[3] = "clients" /\ fields[4] = "cache"
  BY DEF FieldsInv, AllSet, FieldOrder
<1> QED
  BY <1>1 DEF IsSet, FieldName

LEMMA InitLifeInv == LifeInit => LifeInv
<1> SUFFICES ASSUME LifeInit
             PROVE  LifeInv
  OBVIOUS
<1>1. MemOK /\ due = 0
  <2>1. mem = [x \in Cell |-> mem[x]]
    BY DEF LifeInit
  <2>2. pending = << >> /\ << >> \in Seq(Stores)
    BY EmptySeq DEF LifeInit
  <2> QED
    BY <2>1, <2>2, DueIsNat DEF MemOK
<1>2. head = NULL /\ nb_clients = 0 /\ alive = {}
  BY CellsOf DEF LifeInit, head, nb_clients, alive, At
<1>3. FieldsInv
  BY EmptySeq DEF LifeInit, FieldsInv
<1>4. ListInv
  <2>1. << >> \in [1..0 -> Client] /\ IsList(0, << >>)
    BY DEF IsList
  <2>2. Quiet(0, << >>)
    BY <1>1, <1>2, <2>1 DEF Quiet, Walkable, Succ
  <2> QED
    BY <2>1, <2>2 DEF ListInv
<1> QED
  BY <1>1, <1>3, <1>4 DEF LifeInv, CleaningInv, LifeInit

LEMMA SameList ==
  ASSUME UNCHANGED listVars
  PROVE  /\ MemOK' = MemOK /\ UNCHANGED <<due, owed, head, nb_clients, next, previous, alive, open>>
         /\ ListInv' = ListInv /\ WalkFrom(head)' = WalkFrom(head)
<1>1. UNCHANGED <<mem, pending>>
  BY DEF listVars
<1>2. UNCHANGED <<due, owed, head, nb_clients, next, previous, alive, open>>
  BY <1>1 DEF due, owed, head, nb_clients, next, previous, alive, open, At
<1>3. MemOK' = MemOK
  BY <1>1 DEF MemOK
<1>4. ListInv' = ListInv
  BY <1>2 DEF ListInv, InProgress, Quiet, AddingFirst, Adding, Removing, Walkable
<1>5. WalkFrom(head)' = WalkFrom(head)
  BY <1>2 DEF WalkFrom, Walkable, OneOutside
<1> QED
  BY <1>2, <1>3, <1>4, <1>5

LEMMA StartLifeInv == LifeInv /\ StartStep => LifeInv'
<1> SUFFICES ASSUME LifeInv, StartStep
             PROVE  LifeInv'
  OBVIOUS
<1>1. /\ Running /\ UNCHANGED <<listVars, cleaning, faults>>
      /\ MemOK /\ FieldsInv /\ ListInv /\ faults = {}
  BY DEF StartStep, LifeInv, CleaningInv, cleanVars, Running
<1>2. FieldsInv'
  <2>1. CASE UNCHANGED <<stage, fields>> /\ (listener' = "bound" => AllSet)
    BY <1>1, <2>1 DEF FieldsInv, AllSet
  <2>2. CASE stage = "main" /\ stage' = "created" /\ UNCHANGED <<fields, listener>>
    BY <1>1, <2>2 DEF FieldsInv, AllSet
  <2>3. CASE InitField
    <3>1. Len(fields) \in 0..3 /\ Len(FieldOrder) = 4
          /\ FieldOrder[Len(fields) + 1] \in FieldName
      <4>1. Len(fields) \in 0..3 /\ Len(fields) + 1 \in 1..4
        BY <1>1, <2>3 DEF InitField, FieldsInv
      <4>2. FieldOrder \in Seq(FieldName) /\ Len(FieldOrder) = 4
        BY DEF FieldOrder, FieldName
      <4> QED
        BY <4>1, <4>2, ElementOfSeq
    <3>2. /\ fields' \in Seq(FieldName) /\ Len(fields') = Len(fields) + 1
          /\ \A i \in 1..Len(fields) : fields'[i] = fields[i]
          /\ fields'[Len(fields) + 1] = FieldOrder[Len(fields) + 1]
      BY <1>1, <2>3, <3>1, AppendProperties DEF InitField, FieldsInv
    <3>3. stage' = IF Len(fields') = 4 THEN "loading" ELSE "created"
      BY <2>3, <3>1 DEF InitField
    <3>4. listener' = listener
      BY <2>3 DEF InitField
    <3> QED
      BY <1>1, <3>1, <3>2, <3>3, <3>4 DEF FieldsInv, AllSet
  <2>4. CASE AllSet /\ stage' \in {"loaded", "serving"} /\ UNCHANGED fields
    BY <1>1, <2>4 DEF FieldsInv, AllSet
  <2>5. CASE CreateServer
    BY <2>2, <2>5 DEF CreateServer
  <2>6. CASE CreateSocket
    BY <2>1, <2>6 DEF CreateSocket
  <2>7. CASE SetCache
    BY <1>1, <2>4, <2>7 DEF SetCache, FieldsInv
  <2>8. CASE BindAndListen
    <3>1. AllSet
      BY <1>1, <2>8 DEF BindAndListen, FieldsInv
    <3> QED
      BY <2>1, <2>4, <2>8, <3>1 DEF BindAndListen
  <2>9. CASE LoadNext
    BY <1>1, <2>1, <2>9 DEF LoadNext, FieldsInv
  <2>10. CASE BeginContent \/ ReadContent
    BY <1>1, <2>1, <2>10 DEF BeginContent, ReadContent, FieldsInv
  <2> QED
    BY <2>3, <2>5, <2>6, <2>7, <2>8, <2>9, <2>10 DEF StartStep
<1> QED
  BY <1>1, <1>2, SameList DEF LifeInv, CleaningInv, Running

\* The cleaning begins: nothing is set yet, or the list can be walked.
LEMMA CleaningBegins ==
  ASSUME LifeInv, Running, cleaning' = FirstCleaning,
         UNCHANGED <<serverVars, listVars, faults>>
  PROVE  LifeInv'
<1>1. /\ MemOK /\ FieldsInv /\ ListInv /\ faults = {}
      /\ WalkFrom(head)
  BY ListIsWalkable DEF LifeInv, CleaningInv, Running
<1>2. UNCHANGED <<stage, fields, listener, cache, faults>>
  BY DEF serverVars
<1>3. FieldsInv'
  BY <1>1, <1>2 DEF FieldsInv, AllSet
<1>4. MemOK' /\ ListInv' /\ WalkFrom(head)'
  BY <1>1, SameList
<1>5. cleaning' = "listener" \/ (cleaning' = "done" /\ ~ AllSet')
  BY <1>1, <1>2 DEF FirstCleaning, FieldsInv, AllSet
<1> QED
  BY <1>1, <1>2, <1>3, <1>4, <1>5 DEF LifeInv, CleaningInv

LEMMA LoadLifeInv == LifeInv /\ LoadStep => LifeInv'
<1> SUFFICES ASSUME LifeInv, LoadStep
             PROVE  LifeInv'
  OBVIOUS
<1>1. Running /\ UNCHANGED <<serverVars, listVars, faults>>
  BY DEF LoadStep
<1>2. CASE cleaning' = FirstCleaning
  BY <1>1, <1>2, CleaningBegins
<1>3. CASE cleaning' = cleaning
  <2>1. UNCHANGED <<stage, fields, listener, cache, faults>>
    BY <1>1 DEF serverVars
  <2>2. MemOK' /\ ListInv' /\ FieldsInv'
    BY <1>1, <2>1, SameList DEF Running, LifeInv, CleaningInv, FieldsInv, AllSet
  <2> QED
    BY <1>1, <1>3, <2>1, <2>2 DEF LifeInv, CleaningInv, Running
<1> QED
  BY <1>2, <1>3 DEF LoadStep

LEMMA ListLifeInv == LifeInv /\ ListStep => LifeInv'
<1> SUFFICES ASSUME LifeInv, ListStep
             PROVE  LifeInv'
  OBVIOUS
<1>1. Running /\ UNCHANGED <<stage, fields, listener, cache, cleaning, faults>>
  BY DEF ListStep, serverVars, cleanVars
<1>2. MemOK' /\ ListInv'
  BY <1>1, ListStepInv DEF ListStep, LifeInv, CleaningInv, Running
<1>3. FieldsInv'
  BY <1>1 DEF LifeInv, FieldsInv, AllSet
<1> QED
  BY <1>1, <1>2, <1>3 DEF LifeInv, CleaningInv, Running

LEMMA EndLifeInv == LifeInv /\ (HandleSIGINT \/ ExitOnError) => LifeInv'
<1> SUFFICES ASSUME LifeInv, HandleSIGINT \/ ExitOnError
             PROVE  LifeInv'
  OBVIOUS
<1>1. UNCHANGED <<serverVars, listVars, faults>>
  BY DEF HandleSIGINT, ExitOnError
<1>2. CASE Running /\ cleaning' = FirstCleaning
  BY <1>1, <1>2, CleaningBegins
<1>3. CASE cleaning' = "cut"
  <2>1. UNCHANGED <<stage, fields, listener, cache, faults>>
    BY <1>1 DEF serverVars
  <2>2. MemOK' /\ FieldsInv'
    BY <1>1, <2>1, SameList DEF LifeInv, FieldsInv, AllSet
  <2> QED
    BY <1>1, <1>3, <2>1, <2>2 DEF LifeInv, CleaningInv, AllSet
<1> QED
  BY <1>2, <1>3 DEF HandleSIGINT, ExitOnError

LEMMA DeleteLifeInv == LifeInv /\ DeleteStep => LifeInv'
<1> SUFFICES ASSUME LifeInv, DeleteStep
             PROVE  LifeInv'
  OBVIOUS
<1>1. MemOK /\ FieldsInv /\ CleaningInv /\ UNCHANGED <<stage, fields, pending>>
  BY DEF LifeInv, DeleteStep, DisconnectServer, BeginWalk, DeleteCurrent, EndWalk,
         FreeParameters, DeleteFileCache, FreeServer, serverVars
<1>2. AllSet' = AllSet
  BY <1>1 DEF AllSet
<1>3. AllSet => \A f \in FieldName : IsSet(f)
  BY <1>1, FieldsAreSet
<1>4. \A field, step :
        /\ field \in FieldName
        /\ GoOn(field, step)
        => /\ cleaning' \in {step, "cut"}
           /\ AllSet => cleaning' = step /\ faults' = faults
           /\ faults' \in {faults, faults \cup {"uninitialised"}}
  BY <1>3 DEF GoOn
<1>5. FieldsInv' /\ listener' \in {listener, "closed"}
  BY <1>1 DEF DeleteStep, DisconnectServer, BeginWalk, DeleteCurrent, EndWalk,
         FreeParameters, DeleteFileCache, FreeServer, serverVars, FieldsInv, AllSet
<1>6. CASE UNCHANGED mem /\ ~ DeleteCurrent
  <2>1. MemOK' /\ UNCHANGED <<due, alive, head>> /\ WalkFrom(head)' = WalkFrom(head)
    BY <1>1, <1>6, SameList DEF listVars
  <2>2. OneLeft' = OneLeft
    BY <2>1 DEF OneLeft
  <2>3. CASE DisconnectServer
    <3>1. GoOn("sockfd", "clients") /\ cleaning = "listener"
          /\ listener' = IF IsSet("sockfd") THEN "closed" ELSE listener
      BY <2>3 DEF DisconnectServer
    <3>2. AllSet => listener' = "closed"
      BY <1>3, <3>1 DEF FieldName
    <3> QED
      BY <1>1, <1>2, <1>4, <1>5, <2>1, <2>2, <3>1, <3>2 DEF LifeInv, CleaningInv, FieldName
  <2>4. CASE BeginWalk
    <3>1. /\ GoOn("clients", "walk") /\ cleaning = "clients" /\ listener' = listener
          /\ current' = IF IsSet("clients") THEN head ELSE NULL
      BY <2>4 DEF BeginWalk, serverVars, head
    <3>2. UNCHANGED <<due, next, alive, open, head>>
      BY <1>1, <1>6, SameList DEF listVars
    <3>3. PICK n, f : /\ n \in Nat /\ f \in [1..n -> Client]
                      /\ Walkable(n, f, head) /\ OneOutside(n, f)
      BY <1>1, <3>1 DEF CleaningInv, WalkFrom
    <3>4. OnWalk(current)'
      <4>1. CASE current' = head
        <5>1. Walkable(n, f, current)' /\ OneOutside(n, f)'
          BY <3>2, <3>3, <4>1 DEF Walkable, OneOutside
        <5> QED
          BY <3>3, <5>1 DEF OnWalk
      <4>2. CASE ~ AllSet /\ current' = NULL
        <5>1. << >> \in [1..0 -> Client] /\ Walkable(0, << >>, current)'
          BY <4>2 DEF Walkable, IsList, Succ
        <5> QED
          BY <1>2, <4>2, <5>1 DEF OnWalk
      <4> QED
        BY <1>3, <3>1, <4>1, <4>2 DEF FieldName
    <3> QED
      BY <1>1, <1>2, <1>4, <1>5, <2>1, <2>2, <3>1, <3>4 DEF LifeInv, CleaningInv, FieldName
  <2>5. CASE EndWalk
    <3>1. cleaning = "walk" /\ OnWalk(current) /\ current \notin Client
          /\ UNCHANGED <<listener, cache>>
      BY <1>1, <2>5 DEF EndWalk, CleaningInv, serverVars
    <3>2. PICK n, f : /\ n \in Nat /\ f \in [1..n -> Client] /\ Walkable(n, f, current)
                      /\ AllSet => OneOutside(n, f)
      BY <3>1 DEF OnWalk
    <3>3. n = 0 /\ current = NULL
      BY <3>1, <3>2 DEF Walkable, Succ
    <3>4. cleaning' = "parameters" /\ UNCHANGED faults
      BY <2>5, <3>3 DEF EndWalk
    <3>5. AllSet => OneLeft
      BY <3>2, <3>3 DEF OneOutside, OneLeft, Listed
    <3> QED
      BY <1>1, <1>2, <1>5, <2>1, <2>2, <3>1, <3>4, <3>5 DEF LifeInv, CleaningInv
  <2>6. CASE FreeParameters
    <3>1. GoOn("parameters", "cache") /\ cleaning = "parameters" /\ listener' = listener
      BY <2>6 DEF FreeParameters, serverVars
    <3> QED
      BY <1>1, <1>2, <1>4, <1>5, <2>1, <2>2, <3>1 DEF LifeInv, CleaningInv, FieldName
  <2>7. CASE DeleteFileCache
    <3>1. /\ GoOn("cache", "server") /\ cleaning = "cache" /\ listener' = listener
          /\ cache' = IF IsSet("cache") /\ cache = "built" THEN "freed" ELSE cache
      BY <2>7 DEF DeleteFileCache
    <3>2. AllSet => cache' # "built"
      BY <1>3, <3>1 DEF FieldName
    <3> QED
      BY <1>1, <1>2, <1>4, <1>5, <2>1, <2>2, <3>1, <3>2 DEF LifeInv, CleaningInv, FieldName
  <2>8. CASE FreeServer
    <3>1. cleaning = "server" /\ cleaning' = "done" /\ UNCHANGED <<listener, cache, faults>>
      BY <2>8 DEF FreeServer, serverVars
    <3> QED
      BY <1>1, <1>2, <1>5, <2>1, <2>2, <3>1 DEF LifeInv, CleaningInv
  <2> QED
    BY <1>6, <2>3, <2>4, <2>5, <2>6, <2>7, <2>8 DEF DeleteStep
<1>7. CASE DeleteCurrent
  <2>1. /\ cleaning = "walk" /\ OnWalk(current) /\ UNCHANGED <<listener, cache, pending>>
    BY <1>1, <1>7 DEF DeleteCurrent, CleaningInv, serverVars
  <2>2. PICK n, f : /\ n \in Nat /\ f \in [1..n -> Client] /\ Walkable(n, f, current)
                    /\ AllSet => OneOutside(n, f)
    BY <2>1 DEF OnWalk
  <2>3. /\ MemOK' /\ UNCHANGED <<cleaning, faults>>
        /\ \E h \in [1..(n - 1) -> Client] :
             /\ n - 1 \in Nat /\ Walkable(n - 1, h, current)'
             /\ OneOutside(n, f) => OneOutside(n - 1, h)'
    BY <1>1, <1>7, <2>1, <2>2, WalkGoesOn
  <2>4. OnWalk(current)'
    BY <1>2, <2>2, <2>3 DEF OnWalk
  <2> QED
    BY <1>1, <1>2, <1>5, <2>1, <2>3, <2>4 DEF LifeInv, CleaningInv
<1> QED
  BY <1>6, <1>7 DEF DeleteStep, DisconnectServer, BeginWalk, EndWalk, FreeParameters,
     DeleteFileCache, FreeServer

LEMMA StepLifeInv == LifeInv /\ [LifeNext]_allVars => LifeInv'
<1> SUFFICES ASSUME LifeInv, [LifeNext]_allVars
             PROVE  LifeInv'
  OBVIOUS
<1>1. CASE StartStep
  BY <1>1, StartLifeInv
<1>2. CASE LoadStep
  BY <1>2, LoadLifeInv
<1>3. CASE ListStep
  BY <1>3, ListLifeInv
<1>4. CASE HandleSIGINT \/ ExitOnError
  BY <1>4, EndLifeInv
<1>5. CASE DeleteStep
  BY <1>5, DeleteLifeInv
<1>6. CASE UNCHANGED lifeVars \/ FileChanges
  <2>1. UNCHANGED <<stage, fields, listener, cache, listVars, cleaning, current, faults>>
    BY <1>6 DEF lifeVars, serverVars, cleanVars, FileChanges
  <2>2. UNCHANGED <<due, next, alive, open>> /\ MemOK' = MemOK
    BY <2>1, SameList
  <2>3. FieldsInv' = FieldsInv /\ AllSet' = AllSet
    BY <2>1 DEF FieldsInv, AllSet
  <2>4. OnWalk(current)' = OnWalk(current) /\ OneLeft' = OneLeft
    BY <2>1, <2>2, <2>3 DEF OnWalk, Walkable, OneOutside, OneLeft
  <2> QED
    BY <2>1, <2>2, <2>3, <2>4, SameList DEF LifeInv, CleaningInv
<1> QED
  BY <1>1, <1>2, <1>3, <1>4, <1>5, <1>6 DEF LifeNext, EndOfProcess, ChildLives, allVars

\* The inductive invariant of the server's process.
THEOREM LifecycleInvariant == LifeSpec => []LifeInv
<1>1. LifeInit => LifeInv
  BY InitLifeInv
<1>2. LifeInv /\ [LifeNext]_allVars => LifeInv'
  BY StepLifeInv
<1> QED
  BY <1>1, <1>2, PTL DEF LifeSpec

\* Between whichever two stores SIGINT falls, deleteServer() deletes no client
\* twice and reads none that is freed, whatever the number of clients
\* (main.c 33, server.c 677-703).
THEOREM CleaningIsAlwaysSafe == LifeSpec => []CleaningIsSafe
<1>1. LifeInv => CleaningIsSafe
  BY DEF LifeInv, CleaningInv, CleaningIsSafe
<1> QED
  BY <1>1, LifecycleInvariant, PTL

\* After the last field of initServer(), no exit reads memory never written.
THEOREM UninitialisedReadsAreEarly == LifeSpec => []UninitialisedOnlyEarly
<1>1. LifeInv => UninitialisedOnlyEarly
  <2>1. Len(FieldOrder) = 4
    BY DEF FieldOrder
  <2> QED
    BY <2>1 DEF LifeInv, CleaningInv, FieldsInv, AllSet, UninitialisedOnlyEarly
<1> QED
  BY <1>1, LifecycleInvariant, PTL

\* A deleteServer() that reaches its end has closed the socket, freed the cache
\* and every client, but the one an interrupted operation held.
THEOREM CleaningIsAlwaysComplete == LifeSpec => []CleaningIsComplete
<1>1. LifeInv => CleaningIsComplete
  <2>1. Len(FieldOrder) = 4
    BY DEF FieldOrder
  <2>2. LifeInv /\ OneLeft =>
          \A c, d \in Client : At("alive", c) /\ At("alive", d) => c = d /\ pending # << >>
    BY DueIsNat DEF LifeInv, OneLeft, alive
  <2> QED
    BY <2>1, <2>2 DEF LifeInv, CleaningInv, AllSet, CleaningIsComplete
<1> QED
  BY <1>1, LifecycleInvariant, PTL
=============================================================================
