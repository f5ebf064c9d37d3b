------------------------ MODULE RequestBufferProofs ------------------------
(***************************************************************************)
(* What holds of the request buffer, for every size of buffer and request, *)
(* every way of cutting the requests and every content of the memory that  *)
(* malloc() returned.                                                      *)
(***************************************************************************)
EXTENDS RequestBuffer, SequenceTheorems, TLAPS

\* While the connection is up the length never goes down, and the buffer keeps a null
\* byte, so that only the first read of a connection ever finds length at 0; a read
\* that fails is the last one.
BufferInv ==
  /\ TypeOK
  /\ link = "up" => length \in Nat
  /\ length > 0 => \E i \in 0..(Size - 1) : buffer[i] = "NUL"
  /\ link = "up" /\ length = 0 /\ wire # << >> => wire \in Requests
  /\ state = "answering" => length > 0

\* The last bytes of a request.
LEMMA RequestEnds ==
  ASSUME NEW r \in Requests
  PROVE  /\ r \in Seq(Byte) /\ Len(r) \in Nat /\ Len(r) >= HeaderMin /\ Len(r) >= 5
         /\ r # << >>
         /\ BlankLineEndsAt(r, Len(r))
         /\ \A i \in 1..Len(r) : BlankLineEndsAt(r, i) => i = Len(r)
<1>1. r \in Seq(Byte) /\ Len(r) >= HeaderMin /\ HeaderMin \in Nat /\ HeaderMin >= 5
  BY SizeAssumption
<1>2. Len(r) \in Nat
  BY <1>1, LenProperties
<1>3. Len(r) >= 5 /\ Len(r) \in 1..Len(r)
  BY <1>1, <1>2
<1>4. \A i \in 1..Len(r) : BlankLineEndsAt(r, i) <=> i = Len(r)
  BY SizeAssumption
<1>5. r # << >>
  BY <1>3, EmptySeq
<1> QED
  BY <1>1, <1>2, <1>3, <1>4, <1>5

LEMMA InitBufferInv == Init => BufferInv
<1> SUFFICES ASSUME Init PROVE BufferInv
  OBVIOUS
<1>1. buffer \in Buffers
  BY SizeAssumption DEF Init
<1>2. wire \in Seq(Byte)
  BY EmptySeq DEF Init
<1>3. 0 \in -1..(Size - 1)
  BY SizeAssumption
<1> QED
  BY <1>1, <1>2, <1>3 DEF Init, BufferInv, TypeOK

\* One read of n bytes at the start of the buffer.
LEMMA OverwrittenBytes ==
  ASSUME BufferInv, link = "up", NEW n \in 1..Len(wire), n <= Room
  PROVE  /\ n \in 1..(Size - 1)
         /\ length \in Nat /\ length + n < Size
         /\ Overwritten(n) \in Buffers
         /\ \A i \in 0..(n - 1) : Overwritten(n)[i] = wire[i + 1]
         /\ Overwritten(n)[n] = "NUL"
<1>1. /\ length \in Nat /\ Size \in Nat /\ wire \in Seq(Byte) /\ buffer \in Buffers
      /\ Len(wire) \in Nat
  BY SizeAssumption, LenProperties DEF BufferInv, TypeOK
<1>2. n \in 1..(Size - 1) /\ length + n < Size
  BY <1>1 DEF Room
<1>3. \A i \in 0..(n - 1) : i + 1 \in 1..Len(wire) /\ i \in 0..(Size - 1)
  BY <1>1, <1>2
<1>4. ASSUME NEW i \in 0..(Size - 1)
      PROVE  (IF i < n THEN wire[i + 1] ELSE IF i = n THEN "NUL" ELSE buffer[i]) \in Byte
  <2>1. CASE i < n
    BY <2>1, <1>1, <1>3, ElementOfSeq
  <2>2. CASE ~ (i < n)
    BY <2>2, <1>1 DEF Byte, Buffers
  <2> QED
    BY <2>1, <2>2
<1>5. Overwritten(n) \in Buffers
  BY <1>4 DEF Overwritten, Buffers
<1>6. \A i \in 0..(n - 1) : Overwritten(n)[i] = wire[i + 1]
  BY <1>1, <1>2, <1>3 DEF Overwritten
<1>7. Overwritten(n)[n] = "NUL"
  BY <1>1, <1>2 DEF Overwritten
<1> QED
  BY <1>1, <1>2, <1>5, <1>6, <1>7

LEMMA StepBufferInv == BufferInv /\ [Next]_vars => BufferInv'
<1> SUFFICES ASSUME BufferInv, [Next]_vars PROVE BufferInv'
  OBVIOUS
<1>1. CASE Ask
  <2>1. PICK r \in Requests : wire' = r /\ asked' = r
    BY <1>1 DEF Ask
  <2> QED
    BY <2>1, <1>1, RequestEnds DEF Ask, BufferInv, TypeOK
<1>2. CASE ReadBytes
  <2>1. PICK n \in 1..Len(wire) : /\ n <= Room
                                  /\ buffer' = Overwritten(n)
                                  /\ length' = length + n
                                  /\ wire' = SubSeq(wire, n + 1, Len(wire))
    BY <1>2 DEF ReadBytes
  <2>2. /\ n \in 1..(Size - 1) /\ length \in Nat /\ length' < Size
        /\ buffer' \in Buffers /\ buffer'[n] = "NUL"
    BY <2>1, <1>2, OverwrittenBytes DEF ReadBytes, MayRead
  <2>3. wire' \in Seq(Byte)
    BY <2>1, LenProperties, SubSeqProperties DEF BufferInv, TypeOK
  <2>4. \E i \in 0..(Size - 1) : buffer'[i] = "NUL"
    BY <2>2, SizeAssumption
  <2>5. length' > 0 /\ length' \in Nat /\ length' \in -1..(Size - 1)
    BY <2>1, <2>2, SizeAssumption
  <2>6. /\ state' \in {"waiting", "answering", "closed"} /\ asked' \in Requests \cup {<< >>}
        /\ link' \in {"up", "broken"}
    BY <1>2 DEF ReadBytes, StateAfter, BufferInv, TypeOK
  <2> QED
    BY <2>2, <2>3, <2>4, <2>5, <2>6 DEF BufferInv, TypeOK
<1>3. CASE ReadNothing
  <2>1. Overwritten(0) \in Buffers
    BY SizeAssumption DEF Overwritten, Buffers, BufferInv, TypeOK, Byte
  <2>2. 0 \in 0..(Size - 1) /\ Overwritten(0)[0] = "NUL"
    BY SizeAssumption DEF Overwritten
  <2> QED
    BY <2>1, <2>2, <1>3 DEF ReadNothing, BufferInv, TypeOK
<1>7. CASE ReadFails
  <2>1. length \in 0..(Size - 1) /\ length' = length - 1 /\ Size \in Nat
    BY <1>7, SizeAssumption DEF ReadFails, MayRead, BufferInv, TypeOK
  <2>2. length' \in -1..(Size - 1) /\ (length' > 0 => length > 0)
    BY <2>1
  <2>3. state' = "answering" => length' > 0
    BY <1>7, <2>2, SizeAssumption DEF ReadFails, StateAfter, ContainsFullHeader
  <2> QED
    BY <2>2, <2>3, <1>7 DEF ReadFails, StateAfter, BufferInv, TypeOK
<1>4. CASE FinishAnswer
  BY <1>4 DEF FinishAnswer, BufferInv, TypeOK
<1>5. CASE RemoveClient
  BY <1>5 DEF RemoveClient, BufferInv, TypeOK
<1>6. CASE UNCHANGED vars
  BY <1>6 DEF vars, BufferInv, TypeOK
<1> QED
  BY <1>1, <1>2, <1>3, <1>4, <1>5, <1>6, <1>7 DEF Next

LEMMA BufferInvariant == Spec => []BufferInv
BY InitBufferInv, StepBufferInv, PTL DEF Spec

\* For every buffer and every sequence of requests and reads, the last of which may
\* fail: no read is asked for more than the buffer has room for, each that brings bytes
\* ends them with a null byte inside it, and what is parsed as a string ends inside it.
THEOREM BufferIsAlwaysSafe == Spec => BufferIsSafe
<1> DEFINE Safe == /\ Room >= 0
                   /\ state = "answering" => \E i \in 0..(Size - 1) : buffer[i] = "NUL"
           Ends == length' > length =>
                     length' - length \in DOMAIN buffer' /\ buffer'[length' - length] = "NUL"
<1>1. BufferInv => Safe
  BY SizeAssumption DEF BufferInv, TypeOK, Room
<1>2. BufferInv /\ [Next]_vars => [Ends]_vars
  <2> SUFFICES ASSUME BufferInv, Next, length' > length PROVE Ends
    BY DEF vars
  <2>1. length \in Int
    BY DEF BufferInv, TypeOK
  <2>2. ReadBytes
    BY <2>1 DEF Next, Ask, ReadNothing, ReadFails, FinishAnswer, RemoveClient
  <2>3. PICK n \in 1..Len(wire) : n <= Room /\ buffer' = Overwritten(n) /\ length' = length + n
    BY <2>2 DEF ReadBytes
  <2>4. n \in 1..(Size - 1) /\ buffer' \in Buffers /\ buffer'[n] = "NUL"
    BY <2>2, <2>3, OverwrittenBytes DEF ReadBytes, MayRead
  <2>5. length' - length = n
    BY <2>1, <2>3
  <2>6. DOMAIN buffer' = 0..(Size - 1) /\ n \in 0..(Size - 1)
    BY <2>4, SizeAssumption DEF Buffers
  <2> QED
    BY <2>4, <2>5, <2>6
<1> HIDE DEF Ends
<1>3. Spec => [][Ends]_vars
  BY <1>2, BufferInvariant, PTL DEF Spec
<1> HIDE DEF Safe
<1>4. Spec => []Safe
  BY <1>1, BufferInvariant, PTL
<1> QED
  BY <1>3, <1>4, PTL DEF BufferIsSafe, Safe, Ends

\* A read empties the wire only by taking all of it.
LEMMA WholeRead ==
  ASSUME BufferInv, NEW n \in 1..Len(wire), SubSeq(wire, n + 1, Len(wire)) = << >>
  PROVE  n = Len(wire)
<1>1. wire \in Seq(Byte) /\ Len(wire) \in Nat
  BY LenProperties DEF BufferInv, TypeOK
<1>2. Len(SubSeq(wire, n + 1, Len(wire))) = Len(wire) - n
  BY <1>1, SubSeqProperties
<1>3. Len(SubSeq(wire, n + 1, Len(wire))) = 0
  BY EmptySeq
<1> QED
  BY <1>1, <1>2, <1>3

\* A request of any length that arrives in one piece is recognised, if the
\* bytes read before it are of an even number.
THEOREM WholeRequestsAreRecognised == Spec => WholeRequestIsRecognised
<1>1. BufferInv /\ [Next]_vars =>
        [ /\ asked # << >> /\ wire = asked /\ wire' = << >>
          /\ length % 2 = 0
          => state' = "answering" ]_vars
  <2> SUFFICES ASSUME BufferInv, Next, asked # << >>, wire = asked, wire' = << >>,
                      length % 2 = 0
               PROVE  state' = "answering"
    BY DEF vars
  <2> DEFINE n == Len(wire)
  <2>1. /\ wire \in Requests /\ n \in Nat /\ n >= 5 /\ n >= HeaderMin
        /\ wire # << >> /\ BlankLineEndsAt(wire, n)
    BY RequestEnds DEF BufferInv, TypeOK
  <2>2. ReadBytes
    <3>1. ~ Ask
      BY <2>1 DEF Ask
    <3>2. ~ ReadNothing /\ ~ ReadFails /\ ~ FinishAnswer /\ ~ RemoveClient
      BY <2>1 DEF ReadNothing, ReadFails, FinishAnswer, RemoveClient
    <3> QED
      BY <3>1, <3>2 DEF Next
  <2>3. PICK k \in 1..Len(wire) : /\ k <= Room
                                  /\ buffer' = Overwritten(k)
                                  /\ length' = length + k
                                  /\ wire' = SubSeq(wire, k + 1, Len(wire))
    BY <2>2 DEF ReadBytes
  <2>4. k = n
    BY <2>1, <2>3, WholeRead
  <2>5. /\ length \in Nat
        /\ \A i \in 0..(n - 1) : buffer'[i] = wire[i + 1]
    BY <2>2, <2>3, <2>4, OverwrittenBytes DEF ReadBytes, MayRead, BufferInv
  <2> HIDE DEF n
  <2>6. BlankLineAt(buffer', n - 1)
    <3>1. /\ n - 1 \in 0..(n - 1) /\ n - 2 \in 0..(n - 1)
          /\ n - 3 \in 0..(n - 1) /\ n - 4 \in 0..(n - 1)
          /\ (n - 1) - 3 = n - 4 /\ (n - 1) - 2 = n - 3 /\ (n - 1) - 1 = n - 2
      BY <2>1
    <3>2. /\ buffer'[n - 1] = wire[n] /\ buffer'[n - 2] = wire[n - 1]
          /\ buffer'[n - 3] = wire[n - 2] /\ buffer'[n - 4] = wire[n - 3]
      BY <3>1, <2>1, <2>5
    <3>3. wire[n] = "LF" /\ wire[n - 1] = "CR" /\ wire[n - 2] = "LF" /\ wire[n - 3] = "CR"
      BY <2>1 DEF BlankLineEndsAt
    <3> QED
      BY <3>1, <3>2, <3>3 DEF BlankLineAt
  <2>7. /\ length' >= HeaderMin
        /\ n - 1 \in 3..(length' - 1)
        /\ (length' - 1 - (n - 1)) % 2 = 0
    <3>1. length' - 1 - (n - 1) = length
      BY <2>1, <2>3, <2>4, <2>5
    <3>2. n >= HeaderMin /\ HeaderMin \in Nat
      BY <2>1, SizeAssumption
    <3> QED
      BY <3>1, <3>2, <2>1, <2>3, <2>4, <2>5
  <2>8. ContainsFullHeader(buffer', length')
    BY <2>6, <2>7 DEF ContainsFullHeader
  <2> QED
    BY <2>2, <2>8 DEF ReadBytes, StateAfter
<1> QED
  BY <1>1, BufferInvariant, PTL DEF Spec, WholeRequestIsRecognised

\* The first read of a connection that is taken for a full header has brought all of
\* the request, and the line end it closes with.
LEMMA FirstReadIsWhole ==
  ASSUME BufferInv, Next, length = 0, state' = "answering"
  PROVE  /\ wire' = << >>
         /\ \E n \in 1..(Size - 1) : buffer'[n - 1] = "LF" /\ buffer'[n] = "NUL"
<1>1. ReadBytes /\ link = "up"
  <2>1. ~ ReadFails
    BY SizeAssumption DEF ReadFails, StateAfter, ContainsFullHeader
  <2>2. ReadBytes
    BY <2>1 DEF Next, Ask, ReadNothing, FinishAnswer, RemoveClient, BufferInv
  <2> QED
    BY <2>2 DEF ReadBytes, MayRead
<1>2. PICK k \in 1..Len(wire) : /\ k <= Room
                                /\ buffer' = Overwritten(k)
                                /\ length' = length + k
                                /\ wire' = SubSeq(wire, k + 1, Len(wire))
  BY <1>1 DEF ReadBytes
<1>3. wire \in Requests
  BY <1>1, <1>2, LenProperties, EmptySeq DEF BufferInv, TypeOK
<1>4. /\ Len(wire) \in Nat /\ wire \in Seq(Byte)
      /\ \A i \in 1..Len(wire) : BlankLineEndsAt(wire, i) => i = Len(wire)
  BY <1>3, RequestEnds
<1>5. PICK i \in 3..(length' - 1) : BlankLineAt(buffer', i)
  BY <1>1 DEF ReadBytes, StateAfter, ContainsFullHeader
<1>6. i \in 3..(k - 1) /\ k \in 1..Len(wire)
  BY <1>2, <1>4, <1>5
<1>7. /\ \A j \in 0..(k - 1) : buffer'[j] = wire[j + 1]
      /\ buffer'[k] = "NUL" /\ k \in 1..(Size - 1)
  BY <1>1, <1>2, OverwrittenBytes
<1>8. BlankLineEndsAt(wire, i + 1) /\ i + 1 \in 1..Len(wire)
  <2>1. /\ i \in 0..(k - 1) /\ i - 1 \in 0..(k - 1)
        /\ i - 2 \in 0..(k - 1) /\ i - 3 \in 0..(k - 1)
        /\ (i - 1) + 1 = (i + 1) - 1 /\ (i - 2) + 1 = (i + 1) - 2
        /\ (i - 3) + 1 = (i + 1) - 3
        /\ i + 1 \in 4..Len(wire) /\ i + 1 \in 1..Len(wire)
    BY <1>4, <1>6
  <2>2. /\ wire[i + 1] = "LF" /\ wire[(i + 1) - 1] = "CR"
        /\ wire[(i + 1) - 2] = "LF" /\ wire[(i + 1) - 3] = "CR"
    BY <2>1, <1>5, <1>7 DEF BlankLineAt
  <2> QED
    BY <2>1, <2>2 DEF BlankLineEndsAt
<1>9. i + 1 = Len(wire)
  BY <1>4, <1>8
<1>10. k = Len(wire) /\ k - 1 = i
  BY <1>4, <1>6, <1>9
<1>11. wire' = << >>
  BY <1>2, <1>4, <1>10, SubSeqProperties, EmptySeq, LenProperties
<1>12. buffer'[k - 1] = "LF"
  BY <1>5, <1>10 DEF BlankLineAt
<1> QED
  BY <1>7, <1>11, <1>12

\* Whatever the memory held, the first read of a connection is taken for a full
\* header only when all of the request has been read.
THEOREM LeftoversAreNoRequest == Spec => LeftoverIsNoRequest
<1>1. BufferInv /\ [Next]_vars =>
        [ length = 0 /\ state' = "answering" => wire' = << >> ]_vars
  BY FirstReadIsWhole DEF vars
<1> QED
  BY <1>1, BufferInvariant, PTL DEF Spec, LeftoverIsNoRequest

\* A text ends before the last byte of the buffer, by a null byte or by a line end with
\* only a null byte behind it.
EndsInside(b) ==
  \E q \in 0..(Size - 2) : b[q] = "NUL" \/ (b[q] = "LF" /\ b[q + 1] = "NUL")

\* The text that sscanf() is given ends so.
TextEnds == state = "answering" => EndsInside(buffer)

\* What has been read ends so, or has no blank line that the scan could meet.
TextInv ==
  /\ length > 0 => EndsInside(buffer) \/ \A i \in 3..(Size - 2) : ~ BlankLineAt(buffer, i)
  /\ TextEnds

\* A first read that fills the buffer leaves the null byte in its last place.
LEMMA FirstReadEnds ==
  ASSUME BufferInv, ReadBytes, length = 0
  PROVE  EndsInside(buffer') \/ \A i \in 3..(Size - 2) : ~ BlankLineAt(buffer', i)
<1>1. PICK n \in 1..Len(wire) : n <= Room /\ buffer' = Overwritten(n)
  BY DEF ReadBytes
<1>2. /\ n \in 1..(Size - 1) /\ buffer'[n] = "NUL"
      /\ \A i \in 0..(n - 1) : buffer'[i] = wire[i + 1]
  BY <1>1, OverwrittenBytes DEF ReadBytes, MayRead
<1>3. wire \in Requests
  BY <1>1, LenProperties, EmptySeq DEF BufferInv, TypeOK, ReadBytes, MayRead
<1>4. /\ Len(wire) \in Nat /\ Len(wire) >= 5 /\ BlankLineEndsAt(wire, Len(wire))
      /\ \A i \in 1..Len(wire) : BlankLineEndsAt(wire, i) => i = Len(wire)
  BY <1>3, RequestEnds
<1>5. CASE n <= Size - 2
  <2>1. n \in 0..(Size - 2)
    BY <1>2, <1>5, SizeAssumption
  <2> QED
    BY <1>2, <2>1 DEF EndsInside
<1>6. CASE n = Len(wire)
  <2>1. n - 1 \in 0..(n - 1) /\ (n - 1) + 1 = n /\ n - 1 \in 0..(Size - 2)
    BY <1>2, SizeAssumption
  <2>2. wire[n] = "LF"
    BY <1>4, <1>6 DEF BlankLineEndsAt
  <2>3. buffer'[n - 1] = "LF" /\ buffer'[(n - 1) + 1] = "NUL"
    BY <1>2, <2>1, <2>2
  <2> QED
    BY <2>1, <2>3 DEF EndsInside
<1>7. CASE ~ (n <= Size - 2) /\ n # Len(wire)
  <2> SUFFICES ASSUME NEW i \in 3..(Size - 2), BlankLineAt(buffer', i) PROVE FALSE
    OBVIOUS
  <2>1. n = Size - 1 /\ n < Len(wire) /\ Size \in Nat
    BY <1>1, <1>2, <1>4, <1>7, SizeAssumption
  <2>2. /\ i \in 0..(n - 1) /\ i - 1 \in 0..(n - 1)
        /\ i - 2 \in 0..(n - 1) /\ i - 3 \in 0..(n - 1)
        /\ (i - 1) + 1 = (i + 1) - 1 /\ (i - 2) + 1 = (i + 1) - 2
        /\ (i - 3) + 1 = (i + 1) - 3
        /\ i + 1 \in 4..Len(wire) /\ i + 1 \in 1..Len(wire) /\ i + 1 # Len(wire)
    BY <2>1, <1>4
  <2>3. /\ wire[i + 1] = "LF" /\ wire[(i + 1) - 1] = "CR"
        /\ wire[(i + 1) - 2] = "LF" /\ wire[(i + 1) - 3] = "CR"
    BY <1>2, <2>2 DEF BlankLineAt
  <2>4. BlankLineEndsAt(wire, i + 1)
    BY <2>2, <2>3 DEF BlankLineEndsAt
  <2> QED
    BY <1>4, <2>2, <2>4
<1> QED
  BY <1>5, <1>6, <1>7

\* A first read that fills the buffer is recognised only if it has brought the whole
\* request; any later read has less room; and one that fails brings nothing, and finds
\* nothing where there is no blank line.
THEOREM TextAlwaysEnds == Spec => []TextEnds
<1>1. Init => TextInv
  BY DEF Init, TextInv, TextEnds
<1>2. BufferInv /\ TextInv /\ [Next]_vars => TextInv'
  <2> SUFFICES ASSUME BufferInv, TextInv, [Next]_vars PROVE TextInv'
    OBVIOUS
  <2>1. CASE ReadBytes
    <3>1. PICK n \in 1..Len(wire) : n <= Room /\ buffer' = Overwritten(n)
      BY <2>1 DEF ReadBytes
    <3>2. n \in 1..(Size - 1) /\ length \in Nat /\ length + n < Size /\ buffer'[n] = "NUL"
      BY <2>1, <3>1, OverwrittenBytes DEF ReadBytes, MayRead
    <3>3. CASE length # 0
      <4>1. n \in 0..(Size - 2)
        BY <3>2, <3>3, SizeAssumption
      <4>2. EndsInside(buffer')
        BY <3>2, <4>1 DEF EndsInside
      <4> QED
        BY <4>2 DEF TextInv, TextEnds, EndsInside
    <3>4. CASE length = 0
      <4>1. EndsInside(buffer') \/ \A i \in 3..(Size - 2) : ~ BlankLineAt(buffer', i)
        BY <2>1, <3>4, FirstReadEnds
      <4>2. ASSUME state' = "answering" PROVE EndsInside(buffer')
        <5>1. PICK k \in 1..(Size - 1) : buffer'[k - 1] = "LF" /\ buffer'[k] = "NUL"
          BY <2>1, <3>4, <4>2, FirstReadIsWhole DEF Next
        <5>2. k - 1 \in 0..(Size - 2) /\ (k - 1) + 1 = k
          BY SizeAssumption
        <5> QED
          BY <5>1, <5>2 DEF EndsInside
      <4> QED
        BY <4>1, <4>2 DEF TextInv, TextEnds, EndsInside, BlankLineAt
    <3> QED
      BY <3>3, <3>4
  <2>2. CASE ReadFails
    <3>1. length \in Int /\ length' = length - 1 /\ buffer' = buffer /\ Size \in Nat
          /\ length < Size
      BY <2>2, SizeAssumption DEF ReadFails, BufferInv, TypeOK
    <3>2. ASSUME state' = "answering" PROVE EndsInside(buffer)
      <4>1. PICK i \in 3..(length' - 1) : BlankLineAt(buffer, i)
        BY <2>2, <3>2 DEF ReadFails, StateAfter, ContainsFullHeader
      <4>2. i \in 3..(Size - 2) /\ length > 0
        BY <3>1
      <4> QED
        BY <4>1, <4>2 DEF TextInv
    <3> QED
      BY <3>1, <3>2 DEF TextInv, TextEnds, EndsInside, BlankLineAt
  <2>3. CASE ReadNothing
    <3>1. 0 \in 0..(Size - 2) /\ Overwritten(0)[0] = "NUL"
      BY SizeAssumption DEF Overwritten
    <3> QED
      BY <2>3, <3>1 DEF ReadNothing, TextInv, TextEnds, EndsInside
  <2>4. CASE UNCHANGED <<length, buffer>> /\ (state' = "answering" => state = "answering")
    BY <2>4 DEF TextInv, TextEnds, EndsInside, BlankLineAt
  <2> QED
    BY <2>1, <2>2, <2>3, <2>4 DEF Next, Ask, FinishAnswer, RemoveClient, vars
<1>3. TextInv => TextEnds
  BY DEF TextInv
<1> QED
  BY <1>1, <1>2, <1>3, BufferInvariant, PTL DEF Spec
=============================================================================
