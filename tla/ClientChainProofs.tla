------------------------- MODULE ClientChainProofs -------------------------
(***************************************************************************)
(* What the operators of ClientChain return, for every list of clients.    *)
(***************************************************************************)
EXTENDS ClientChain, SequenceTheorems, TLAPS

\* A function on 1..n is a sequence of length n.
LEMMA FunctionIsSeq ==
  ASSUME NEW S, NEW n \in Nat, NEW f \in [1..n -> S]
  PROVE  f \in Seq(S) /\ Len(f) = n /\ DOMAIN f = 1..n
<1>1. f \in Seq(S)
  BY SeqDef
<1>2. DOMAIN f = 1..n
  OBVIOUS
<1> QED
  BY <1>1, <1>2, LenProperties

\* The elements of a list are clients.
LEMMA ChainElements ==
  ASSUME NEW s, IsChain(s)
  PROVE  /\ Len(s) \in Nat
         /\ DOMAIN s = 1..Len(s)
         /\ \A i \in 1..Len(s) : s[i] \in Client
BY LenProperties, ElementOfSeq DEF IsChain

\* A listed client has one index.
LEMMA IndexOfElement ==
  ASSUME NEW s, IsChain(s), NEW i \in 1..Len(s)
  PROVE  /\ Listed(s, s[i])
         /\ IndexIn(s, s[i]) = i
BY DEF IsChain, Listed, IndexIn

LEMMA IndexOfListed ==
  ASSUME NEW s, IsChain(s), NEW c, Listed(s, c)
  PROVE  /\ IndexIn(s, c) \in 1..Len(s)
         /\ s[IndexIn(s, c)] = c
BY DEF Listed, IndexIn

\* next and previous, at a known index.
LEMMA NextAt ==
  ASSUME NEW s, IsChain(s), NEW i \in 1..Len(s)
  PROVE  /\ NextIn(s, s[i]) = IF i < Len(s) THEN s[i + 1] ELSE NULL
         /\ PreviousIn(s, s[i]) = IF i > 1 THEN s[i - 1] ELSE NULL
BY IndexOfElement DEF NextIn, PreviousIn

\* Dropping an element keeps the others, in order, and nothing else.
LEMMA DropAtIsChain ==
  ASSUME NEW s, IsChain(s), NEW i \in 1..Len(s)
  PROVE  /\ IsChain(DropAt(s, i))
         /\ Len(DropAt(s, i)) = Len(s) - 1
         /\ \A j \in 1..(Len(s) - 1) :
              DropAt(s, i)[j] = IF j < i THEN s[j] ELSE s[j + 1]
         /\ \A c : Listed(DropAt(s, i), c) <=> Listed(s, c) /\ c # s[i]
<1> DEFINE d == DropAt(s, i)
<1>1. Len(s) \in Nat /\ \A k \in 1..Len(s) : s[k] \in Client
  BY ChainElements
<1>2. d \in [1..(Len(s) - 1) -> Client]
  BY <1>1 DEF DropAt
<1>3. Len(s) - 1 \in Nat
  BY <1>1
<1>4. d \in Seq(Client) /\ Len(d) = Len(s) - 1
  BY <1>2, <1>3, FunctionIsSeq
<1>5. \A j \in 1..(Len(s) - 1) : d[j] = IF j < i THEN s[j] ELSE s[j + 1]
  BY DEF DropAt
<1>6. ASSUME NEW j \in 1..Len(d), NEW k \in 1..Len(d), d[j] = d[k] PROVE j = k
  <2> DEFINE old(x) == IF x < i THEN x ELSE x + 1
  <2>1. old(j) \in 1..Len(s) /\ old(k) \in 1..Len(s) /\ (old(j) = old(k) => j = k)
    BY <1>1, <1>4
  <2>2. d[j] = s[old(j)] /\ d[k] = s[old(k)]
    BY <1>4, <1>5
  <2> QED
    BY <1>6, <2>1, <2>2 DEF IsChain
<1>7. ASSUME NEW c, Listed(d, c) PROVE Listed(s, c) /\ c # s[i]
  <2>1. PICK j \in 1..(Len(s) - 1) : d[j] = c
    BY <1>4, <1>7 DEF Listed
  <2>2. CASE j < i
    BY <2>1, <2>2, <1>1, <1>5 DEF Listed, IsChain
  <2>3. CASE ~ (j < i)
    <3>1. j + 1 \in 1..Len(s) /\ j + 1 # i /\ s[j + 1] = c
      BY <2>1, <2>3, <1>1, <1>5
    <3> QED
      BY <3>1, <1>1 DEF Listed, IsChain
  <2> QED
    BY <2>2, <2>3
<1>8. ASSUME NEW c, Listed(s, c), c # s[i] PROVE Listed(d, c)
  <2>1. PICK k \in 1..Len(s) : s[k] = c
    BY <1>8 DEF Listed
  <2>2. CASE k < i
    BY <2>1, <2>2, <1>1, <1>4, <1>5 DEF Listed
  <2>3. CASE k > i
    <3>1. k - 1 \in 1..(Len(s) - 1) /\ ~(k - 1 < i) /\ (k - 1) + 1 = k
      BY <2>3, <1>1
    <3> QED
      BY <2>1, <3>1, <1>4, <1>5 DEF Listed
  <2> QED
    BY <2>1, <2>2, <2>3, <1>8, <1>1
<1> QED
  BY <1>4, <1>5, <1>6, <1>7, <1>8 DEF IsChain

\* Unlinking a listed client drops its element.
LEMMA UnlinkIsDrop ==
  ASSUME NEW s, IsChain(s), NEW i \in 1..Len(s)
  PROVE  Unlink(s, s[i]) = DropAt(s, i)
BY IndexOfElement DEF Unlink

\* Inserting a new client keeps the others, after it.
LEMMA PrependIsChain ==
  ASSUME NEW s, IsChain(s), NEW c \in Client, ~ Listed(s, c)
  PROVE  /\ IsChain(Prepend(s, c))
         /\ Len(Prepend(s, c)) = Len(s) + 1
         /\ \A j \in 1..(Len(s) + 1) :
              Prepend(s, c)[j] = IF j = 1 THEN c ELSE s[j - 1]
         /\ \A x : Listed(Prepend(s, c), x) <=> Listed(s, x) \/ x = c
<1> DEFINE p == Prepend(s, c)
<1>1. Len(s) \in Nat /\ \A k \in 1..Len(s) : s[k] \in Client
  BY ChainElements
<1>2. p \in [1..(Len(s) + 1) -> Client]
  BY <1>1 DEF Prepend
<1>3. p \in Seq(Client) /\ Len(p) = Len(s) + 1
  BY <1>1, <1>2, FunctionIsSeq
<1>4. \A j \in 1..(Len(s) + 1) : p[j] = IF j = 1 THEN c ELSE s[j - 1]
  BY DEF Prepend
<1>5. ASSUME NEW j \in 1..Len(p), NEW k \in 1..Len(p), p[j] = p[k] PROVE j = k
  <2>1. \A m \in 1..(Len(s) + 1) :
          m # 1 => m - 1 \in 1..Len(s) /\ p[m] = s[m - 1] /\ p[m] # c
    BY <1>1, <1>4 DEF Listed
  <2>2. CASE j = 1 \/ k = 1
    BY <2>1, <2>2, <1>1, <1>3, <1>4, <1>5
  <2>3. CASE j # 1 /\ k # 1
    <3>1. j - 1 \in 1..Len(s) /\ k - 1 \in 1..Len(s) /\ s[j - 1] = s[k - 1]
      BY <2>1, <2>3, <1>3, <1>5
    <3>2. j - 1 = k - 1
      BY <3>1 DEF IsChain
    <3> QED
      BY <3>2, <1>1, <1>3
  <2> QED
    BY <2>2, <2>3
<1>6. ASSUME NEW x, Listed(p, x) PROVE Listed(s, x) \/ x = c
  BY <1>6, <1>1, <1>3, <1>4 DEF Listed
<1>7. Listed(p, c)
  BY <1>1, <1>3, <1>4 DEF Listed
<1>8. ASSUME NEW x, Listed(s, x) PROVE Listed(p, x)
  <2>1. PICK k \in 1..Len(s) : s[k] = x
    BY <1>8 DEF Listed
  <2>2. k + 1 \in 1..(Len(s) + 1) /\ k + 1 # 1 /\ (k + 1) - 1 = k
    BY <1>1
  <2> QED
    BY <2>1, <2>2, <1>3, <1>4 DEF Listed
<1> QED
  BY <1>3, <1>4, <1>5, <1>6, <1>7, <1>8 DEF IsChain

\* Nothing is listed in the empty list.
LEMMA EmptyIsChain ==
  /\ IsChain(<< >>)
  /\ Len(<< >>) = 0
  /\ \A c : ~ Listed(<< >>, c)
BY EmptySeq DEF IsChain, Listed

\* What is left to visit from a known index.
LEMMA FromAt ==
  ASSUME NEW s, IsChain(s), NEW i \in 1..Len(s)
  PROVE  /\ From(s, s[i]) \in Seq(Client)
         /\ Len(From(s, s[i])) = Len(s) - i + 1
         /\ \A k \in 1..(Len(s) - i + 1) : From(s, s[i])[k] = s[k + i - 1]
<1> DEFINE f == From(s, s[i])
<1>1. Len(s) \in Nat /\ \A k \in 1..Len(s) : s[k] \in Client
  BY ChainElements
<1>2. f = [k \in 1..(Len(s) - i + 1) |-> s[k + i - 1]]
  BY IndexOfElement DEF From
<1>3. f \in [1..(Len(s) - i + 1) -> Client]
  BY <1>1, <1>2
<1>4. Len(s) - i + 1 \in Nat
  BY <1>1
<1> QED
  BY <1>2, <1>3, <1>4, FunctionIsSeq

\* Two lists with the same elements are the same list.
LEMMA SameChain ==
  ASSUME NEW s \in Seq(Client), NEW t \in Seq(Client), Len(s) = Len(t),
         \A i \in 1..Len(s) : s[i] = t[i]
  PROVE  s = t
BY SeqEqual

\* From the first client on, everything is left to visit; from the next one
\* on, what was left without its first element, whether that is dropped or not.
LEMMA FromFirst ==
  ASSUME NEW s, IsChain(s), Len(s) # 0
  PROVE  From(s, s[1]) = s
<1>1. Len(s) \in Nat /\ s \in Seq(Client)
  BY ChainElements DEF IsChain
<1>2. 1 \in 1..Len(s)
  BY <1>1
<1>3. /\ From(s, s[1]) \in Seq(Client)
      /\ Len(From(s, s[1])) = Len(s)
      /\ \A k \in 1..Len(s) : From(s, s[1])[k] = s[k]
  BY <1>1, <1>2, FromAt
<1> QED
  BY <1>1, <1>3, SameChain

LEMMA FromIsChain ==
  ASSUME NEW s, IsChain(s), NEW i \in 1..Len(s)
  PROVE  IsChain(From(s, s[i])) /\ 1 \in 1..Len(From(s, s[i])) /\ From(s, s[i])[1] = s[i]
<1> DEFINE f == From(s, s[i])
<1>1. /\ f \in Seq(Client) /\ Len(f) = Len(s) - i + 1
      /\ \A k \in 1..(Len(s) - i + 1) : f[k] = s[k + i - 1]
  BY FromAt
<1>2. Len(s) \in Nat
  BY ChainElements
<1>3. \A k \in 1..(Len(s) - i + 1) : k + i - 1 \in 1..Len(s)
  BY <1>2
<1>4. ASSUME NEW j \in 1..Len(f), NEW k \in 1..Len(f), f[j] = f[k] PROVE j = k
  <2>1. /\ j + i - 1 \in 1..Len(s) /\ k + i - 1 \in 1..Len(s)
        /\ s[j + i - 1] = s[k + i - 1]
    BY <1>1, <1>3, <1>4
  <2>2. j + i - 1 = k + i - 1
    BY <2>1 DEF IsChain
  <2> QED
    BY <2>2, <1>1, <1>2
<1>5. 1 \in 1..Len(f) /\ f[1] = s[i]
  BY <1>1, <1>2
<1> QED
  BY <1>1, <1>4, <1>5 DEF IsChain

LEMMA FromNext ==
  ASSUME NEW s, IsChain(s), NEW i \in 1..Len(s), i < Len(s)
  PROVE  /\ From(s, s[i + 1]) = DropAt(From(s, s[i]), 1)
         /\ From(DropAt(s, i), s[i + 1]) = DropAt(From(s, s[i]), 1)
<1> DEFINE f == From(s, s[i])
           d == DropAt(f, 1)
           g == From(s, s[i + 1])
           t == DropAt(s, i)
           h == From(t, s[i + 1])
<1>1. Len(s) \in Nat /\ i + 1 \in 1..Len(s)
  BY ChainElements
<1>2. /\ Len(f) = Len(s) - i + 1 /\ IsChain(f) /\ 1 \in 1..Len(f)
      /\ \A k \in 1..(Len(s) - i + 1) : f[k] = s[k + i - 1]
  BY FromAt, FromIsChain
<1>3. /\ d \in Seq(Client) /\ Len(d) = Len(s) - i
      /\ \A k \in 1..(Len(s) - i) : d[k] = s[k + i]
  <2> HIDE DEF f
  <2>1. /\ IsChain(d) /\ Len(d) = Len(f) - 1
        /\ \A k \in 1..(Len(f) - 1) : d[k] = IF k < 1 THEN f[k] ELSE f[k + 1]
    <3>1. IsChain(f) /\ 1 \in 1..Len(f)
      BY <1>2
    <3> QED
      BY <3>1, DropAtIsChain
  <2> HIDE DEF d
  <2>2. Len(f) - 1 = Len(s) - i
    BY <1>1, <1>2
  <2>3. ASSUME NEW k \in 1..(Len(s) - i) PROVE d[k] = s[k + i]
    <3>1. /\ k \in 1..(Len(f) - 1) /\ ~(k < 1)
          /\ k + 1 \in 1..(Len(s) - i + 1) /\ (k + 1) + i - 1 = k + i
      BY <1>1, <2>2
    <3>2. d[k] = f[k + 1]
      BY <3>1, <2>1
    <3> QED
      BY <3>1, <3>2, <1>2
  <2> QED
    BY <2>1, <2>2, <2>3 DEF IsChain
<1>4. /\ g \in Seq(Client) /\ Len(g) = Len(s) - i
      /\ \A k \in 1..(Len(s) - i) : g[k] = s[k + i]
  <2>1. /\ g \in Seq(Client) /\ Len(g) = Len(s) - (i + 1) + 1
        /\ \A k \in 1..(Len(s) - (i + 1) + 1) : g[k] = s[k + (i + 1) - 1]
    BY <1>1, FromAt
  <2> QED
    BY <2>1, <1>1
<1>5. /\ IsChain(t) /\ Len(t) = Len(s) - 1
      /\ \A j \in 1..(Len(s) - 1) : t[j] = IF j < i THEN s[j] ELSE s[j + 1]
  BY DropAtIsChain
<1>6. t[i] = s[i + 1] /\ i \in 1..Len(t)
  BY <1>1, <1>5
<1>7. /\ h \in Seq(Client) /\ Len(h) = Len(s) - i
      /\ \A k \in 1..(Len(s) - i) : h[k] = s[k + i]
  <2>1. /\ h \in Seq(Client) /\ Len(h) = Len(t) - i + 1
        /\ \A k \in 1..(Len(t) - i + 1) : h[k] = t[k + i - 1]
    <3>1. h = From(t, t[i])
      BY <1>6
    <3> HIDE DEF t, h
    <3>2. IsChain(t) /\ i \in 1..Len(t)
      BY <1>5, <1>6
    <3> QED
      BY <3>1, <3>2, FromAt
  <2>2. \A k \in 1..(Len(s) - i) :
          k + i - 1 \in 1..(Len(s) - 1) /\ ~(k + i - 1 < i) /\ (k + i - 1) + 1 = k + i
    BY <1>1
  <2> QED
    BY <2>1, <2>2, <1>1, <1>5
<1> HIDE DEF d, g, h
<1>8. g = d /\ h = d
  BY <1>3, <1>4, <1>7, SameChain
<1> QED
  BY <1>8 DEF d, g, h
=============================================================================
