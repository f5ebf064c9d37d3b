------------------------ MODULE HttpConnectionProofs ------------------------
(***************************************************************************)
(* What holds of the answers of a connection, for every set of requests,   *)
(* every site and every size of the two buffers: that header and body      *)
(* agree, how far the parser goes in the first buffer, and that a line of  *)
(* three words or more gets the answer its own text asks for.              *)
(***************************************************************************)
EXTENDS HttpConnection, RequestBufferProofs, FiniteSetTheorems, WellFoundedInduction

\* A message whose body is the one its header announces.
Tells(ans) ==
  /\ ans.content \in Content
  /\ ans.content.body # NULL \/ ans.content.file_path # NULL =>
        /\ ans.header.code = 200
        /\ ans.content.length = ans.header.content_length
  /\ ans.content.body # NULL => ans.content.content_is_loaded
  /\ ans.content.file_path # NULL => ~ ans.content.content_is_loaded
  /\ ans.content.length # 0 => ans.content.body # NULL \/ ans.content.file_path # NULL

HttpInv ==
  /\ Tells(answer)
  /\ header_length \in Nat
  /\ header_length <= 410

----------------------------------------------------------------------------

LEMMA EmptyIsContent == EmptyContent \in Content
BY AnswerBufferAssumption DEF EmptyContent, Content

LEMMA FileOfSite ==
  ASSUME NEW t, findFileInCache(t) # NULL
  PROVE  /\ findFileInCache(t) \in File
         /\ findFileInCache(t).name # NULL
BY SiteAssumption DEF findFileInCache

LEMMA ErrorTells ==
  ASSUME NEW ans, NEW code
  PROVE  Tells(prepareHttpError(ans, code))
<1>1. prepareHttpError(ans, code).content = EmptyContent
  BY DEF prepareHttpError, prepareGeneralHttpAnswer, initEmptyHttpContent
<1> QED
  BY <1>1, EmptyIsContent DEF Tells, EmptyContent

LEMMA ValidTells ==
  ASSUME NEW ans, NEW req, NEW file \in File, file.name # NULL
  PROVE  Tells(prepareHttpValidAnswer(req, ans, file))
<1> DEFINE new == prepareHttpValidAnswer(req, ans, file)
<1>2. new.header.code = 200 /\ new.header.content_length = file.size
  BY DEF prepareHttpValidAnswer, prepareGeneralHttpAnswer, AnswerHeader
<1>3. new.content = IF req.method = "GET" THEN FileBody(EmptyContent, file) ELSE EmptyContent
  BY DEF prepareHttpValidAnswer, prepareGeneralHttpAnswer, initEmptyHttpContent
<1>4. file.size \in 0..MaxInt /\ file.name \in STRING
  BY DEF File
<1> HIDE DEF new
<1>5. ASSUME req.method = "GET" /\ file.state = "NOT_LOADED" PROVE Tells(new)
  <2>1. new.content = [length |-> file.size, content_is_loaded |-> FALSE,
                       body |-> NULL, file_path |-> file.name]
    BY <1>3, <1>5 DEF FileBody, EmptyContent
  <2> QED
    BY <2>1, <1>2, <1>4 DEF Tells, Content
<1>6. ASSUME req.method = "GET" /\ file.state # "NOT_LOADED" PROVE Tells(new)
  <2>1. new.content = [length |-> file.size, content_is_loaded |-> TRUE,
                       body |-> ContentOf(file), file_path |-> NULL]
    BY <1>3, <1>6 DEF FileBody, EmptyContent
  <2>2. ContentOf(file) \in {NULL} \cup STRING /\ (file.size # 0 => ContentOf(file) # NULL)
    BY <1>4 DEF ContentOf
  <2> QED
    BY <2>1, <2>2, <1>2, <1>4 DEF Tells, Content
<1>7. ASSUME req.method # "GET" PROVE Tells(new)
  BY <1>3, <1>7, EmptyIsContent DEF Tells, EmptyContent
<1>8. Tells(new)
  BY <1>5, <1>6, <1>7
<1> QED
  BY <1>8 DEF new

LEMMA ProducedTells ==
  ASSUME NEW ans, NEW req
  PROVE  Tells(produceHttpAnswerFromRequest(ans, req))
<1>1. CASE AnswerCode(req) # 200
  BY <1>1, ErrorTells DEF produceHttpAnswerFromRequest
<1>2. CASE AnswerCode(req) = 200
  <2>1. findFileInCache(req.requestTarget) # NULL
    BY <1>2 DEF AnswerCode
  <2> QED
    BY <1>2, <2>1, FileOfSite, ValidTells DEF produceHttpAnswerFromRequest
<1> QED
  BY <1>1, <1>2

----------------------------------------------------------------------------

LEMMA IntervalFromOne ==
  ASSUME NEW b \in Nat
  PROVE  IsFiniteSet(1..b) /\ Cardinality(1..b) = b
<1>1. 1 \in Int /\ b \in Int
  OBVIOUS
<1>2. IsFiniteSet(1..b) /\ Cardinality(1..b) = IF 1 > b THEN 0 ELSE b - 1 + 1
  BY <1>1, FS_Interval
<1> QED
  BY <1>2

\* A length is printed in ten digits at most.
LEMMA DigitsAreFew ==
  ASSUME NEW n
  PROVE  Digits(n) \in Nat /\ Digits(n) <= 10
<1> DEFINE D == {k \in 1..9 : n >= 10 ^ k}
<1>1. IsFiniteSet(1..9) /\ Cardinality(1..9) = 9
  <2>1. 9 \in Nat
    OBVIOUS
  <2> QED
    BY <2>1, IntervalFromOne
<1>2. D \subseteq 1..9
  OBVIOUS
<1>3. IsFiniteSet(D) /\ Cardinality(D) <= Cardinality(1..9)
  BY <1>1, <1>2, FS_Subset
<1>4. Cardinality(D) \in Nat
  BY <1>3, FS_CardinalityType
<1> HIDE DEF D
<1>5. Cardinality(D) + 1 \in Nat /\ Cardinality(D) + 1 <= 10
  BY <1>1, <1>3, <1>4
<1>6. Digits(n) = Cardinality(D) + 1
  BY DEF Digits, D
<1> QED
  BY <1>5, <1>6

LEMMA FirstLineIsShort ==
  ASSUME NEW header
  PROVE  /\ writeHttpAnswerFirstLine(header) \in 0..41
         /\ header.code = 200 => writeHttpAnswerFirstLine(header) = 17
BY DEF writeHttpAnswerFirstLine, DescriptionLength

\* An error has neither type nor encoding; a valid answer has a short first line.
LEMMA ErrorIsShort ==
  ASSUME NEW ans, NEW code
  PROVE  fillHttpAnswerHeaderBuffer(prepareHttpError(ans, code).header) \in 0..410
<1> DEFINE header == AnswerHeader(code, 0, NULL, NULL, "now", "MyAwesomeWebServer")
           first == writeHttpAnswerFirstLine(header)
           digits == Digits(0)
           date == IF header.date = NULL THEN 0 ELSE 37
           server == IF header.server = NULL THEN 0 ELSE 28
<1>1. first \in 0..41 /\ digits \in Nat /\ digits <= 10
  BY FirstLineIsShort, DigitsAreFew
<1>2. date \in {0, 37} /\ server \in {0, 28}
  OBVIOUS
<1>3. /\ header.content_length = 0 /\ header.content_type = NULL
      /\ header.content_encoding = NULL
  BY DEF AnswerHeader
<1>4. fillHttpAnswerHeaderBuffer(header) = first + (18 + digits + 0 + 0 + date + server) + 2
  BY <1>3 DEF fillHttpAnswerHeaderBuffer, writeHttpOptionFields
<1>5. prepareHttpError(ans, code).header = header
  BY DEF prepareHttpError, prepareGeneralHttpAnswer
<1> HIDE DEF first, digits, date, server, header
<1>6. first + (18 + digits + 0 + 0 + date + server) + 2 \in 0..410
  BY <1>1, <1>2
<1> QED
  BY <1>4, <1>5, <1>6

LEMMA ValidIsShort ==
  ASSUME NEW ans, NEW req, NEW file \in File
  PROVE  fillHttpAnswerHeaderBuffer(prepareHttpValidAnswer(req, ans, file).header) \in 0..410
<1> DEFINE header == AnswerHeader(200, file.size, file.type, EncodingOf(file), "now",
                                  "MyAwesomeWebServer")
           digits == Digits(file.size)
           type == IF header.content_type = NULL THEN 0 ELSE 16 + header.content_type
           encoding == IF header.content_encoding = NULL THEN 0
                       ELSE 20 + (IF header.content_encoding = "gzip" THEN 4 ELSE 8)
           date == IF header.date = NULL THEN 0 ELSE 37
           server == IF header.server = NULL THEN 0 ELSE 28
<1>1. digits \in Nat /\ digits <= 10
  BY DigitsAreFew
<1>2. date \in {0, 37} /\ server \in {0, 28} /\ encoding \in {0, 24, 28}
  OBVIOUS
<1>3. type \in 0..270
  <2> DEFINE field == header.content_type
  <2>1. field \in {NULL} \cup 0..254
    BY DEF AnswerHeader, File, setFileType, MAX_FILE_TYPE_LENGTH
  <2>2. type = IF field = NULL THEN 0 ELSE 16 + field
    OBVIOUS
  <2> HIDE DEF field, type
  <2> QED
    BY <2>1, <2>2
<1>4. /\ header.content_length = file.size /\ header.code = 200
  BY DEF AnswerHeader
<1>5. writeHttpAnswerFirstLine(header) = 17
  BY <1>4, FirstLineIsShort
<1>6. fillHttpAnswerHeaderBuffer(header)
        = 17 + (18 + digits + type + encoding + date + server) + 2
  BY <1>4, <1>5 DEF fillHttpAnswerHeaderBuffer, writeHttpOptionFields
<1>7. prepareHttpValidAnswer(req, ans, file).header = header
  BY DEF prepareHttpValidAnswer, prepareGeneralHttpAnswer
<1> HIDE DEF digits, type, encoding, date, server, header
<1>8. 17 + (18 + digits + type + encoding + date + server) + 2 \in 0..410
  BY <1>1, <1>2, <1>3
<1> QED
  BY <1>6, <1>7, <1>8

LEMMA ProducedIsShort ==
  ASSUME NEW ans, NEW req
  PROVE  fillHttpAnswerHeaderBuffer(produceHttpAnswerFromRequest(ans, req).header) \in 0..410
<1>1. CASE AnswerCode(req) # 200
  BY <1>1, ErrorIsShort DEF produceHttpAnswerFromRequest
<1>2. CASE AnswerCode(req) = 200
  <2>1. findFileInCache(req.requestTarget) # NULL
    BY <1>2 DEF AnswerCode
  <2> DEFINE file == findFileInCache(req.requestTarget)
  <2>2. file \in File
    BY <2>1, FileOfSite
  <2>3. produceHttpAnswerFromRequest(ans, req) = prepareHttpValidAnswer(req, ans, file)
    BY <1>2 DEF produceHttpAnswerFromRequest
  <2> HIDE DEF file
  <2>4. fillHttpAnswerHeaderBuffer(prepareHttpValidAnswer(req, ans, file).header) \in 0..410
    BY <2>2, ValidIsShort
  <2> QED
    BY <2>3, <2>4
<1> QED
  BY <1>1, <1>2

----------------------------------------------------------------------------

LEMMA InitHttpInv == HttpInit => HttpInv
<1> SUFFICES ASSUME HttpInit PROVE HttpInv
  OBVIOUS
<1>1. answer.content = EmptyContent /\ header_length = 0
  BY DEF HttpInit
<1> QED
  BY <1>1, EmptyIsContent DEF HttpInv, Tells, EmptyContent

LEMMA StepHttpInv == HttpInv /\ [HttpNext]_httpVars => HttpInv'
<1> SUFFICES ASSUME HttpInv, [HttpNext]_httpVars PROVE HttpInv'
  OBVIOUS
<1>1. CASE ProcessClientRequest /\ state' = "answering"
  <2>1. /\ answer' = produceHttpAnswerFromRequest(answer, request')
        /\ header_length' = fillHttpAnswerHeaderBuffer(answer'.header)
    BY <1>1 DEF ProcessClientRequest
  <2>2. Tells(answer')
    BY <2>1, ProducedTells
  <2>3. header_length' \in 0..410
    BY <2>1, ProducedIsShort
  <2> QED
    BY <2>2, <2>3 DEF HttpInv, Tells
<1>2. CASE UNCHANGED answerVars
  BY <1>2 DEF answerVars, HttpInv, Tells
<1>3. [HttpNext]_httpVars =>
         \/ ProcessClientRequest /\ state' = "answering"
         \/ UNCHANGED answerVars
  BY DEF HttpNext, PeerAsks, ReadFromClient, WriteToClient, RemoveConnection,
         ProcessClientRequest, httpVars
<1> QED
  BY <1>1, <1>2, <1>3

LEMMA HttpInvariant == HttpSpec => []HttpInv
BY InitHttpInv, StepHttpInv, PTL DEF HttpSpec

\* For every site and every sequence of requests, an answer's body is the one
\* its header announces, and nothing of an earlier answer is sent with it.
THEOREM HeaderAlwaysTellsBody == HttpSpec => []HeaderTellsBody
<1>1. HttpInv => HeaderTellsBody
  BY DEF HttpInv, Tells, HeaderTellsBody
<1> QED
  BY <1>1, HttpInvariant, PTL

\* In a buffer of 411 bytes or more, no header is ever cut by snprintf(), for
\* any file the cache can hold and any error.
THEOREM HeadersAreWhole == HttpSpec => []HeaderIsWhole
<1>1. HttpInv => HeaderIsWhole
  BY AnswerBufferAssumption DEF HttpInv, HeaderIsWhole
<1> QED
  BY <1>1, HttpInvariant, PTL

\* The connection's buffer behaves as RequestBuffer says, whatever is parsed from
\* it: the theorems of RequestBufferProofs hold of it too.
THEOREM ConnectionHasBuffer == HttpSpec => Spec
<1>1. HttpInit => Init
  BY DEF HttpInit
<1>2. [HttpNext]_httpVars => [Next]_vars
  BY DEF HttpNext, PeerAsks, ReadFromClient, WriteToClient, RemoveConnection, httpVars,
         Next, vars
<1> QED
  BY <1>1, <1>2, PTL DEF HttpSpec, Spec

----------------------------------------------------------------------------
(***************************************************************************)
(* How far the parser goes.                                                *)
(***************************************************************************)

LEMMA MinOfNaturals ==
  ASSUME NEW S \in SUBSET Nat, NEW n \in S
  PROVE  Min(S) \in S /\ \A m \in S : Min(S) <= m
<1> DEFINE R == OpToRel(<, Nat)
<1>1. R = {ss \in Nat \X Nat : ss[1] < ss[2]}
  BY DEF OpToRel
<1>2. IsWellFoundedOn(R, Nat)
  BY NatLessThanWellFounded
<1> HIDE DEF R
<1>3. PICK x \in S : \A y \in S : ~ (<<y, x>> \in R)
  BY <1>2, WFMin
<1>4. \A y \in S : x <= y
  <2> SUFFICES ASSUME NEW y \in S PROVE x <= y
    OBVIOUS
  <2>1. x \in Nat /\ y \in Nat
    OBVIOUS
  <2>2. y < x => <<y, x>> \in R
    BY <2>1, <1>1
  <2> QED
    BY <2>1, <2>2, <1>3
<1>5. \E z \in S : \A y \in S : z <= y
  BY <1>4
<1> QED
  BY <1>5 DEF Min

LEMMA MaxOfNaturals ==
  ASSUME NEW a \in Nat, NEW b \in Nat
  PROVE  Max({a, b}) \in Nat /\ Max({a, b}) >= a /\ Max({a, b}) >= b
<1>1. \E x \in {a, b} : \A y \in {a, b} : x >= y
  OBVIOUS
<1>2. Max({a, b}) \in {a, b} /\ \A y \in {a, b} : Max({a, b}) >= y
  BY <1>1 DEF Max
<1> QED
  BY <1>2

LEMMA BufferHasSize ==
  ASSUME NEW b \in Buffers
  PROVE  DOMAIN b = 0..(Size - 1) /\ Cardinality(DOMAIN b) = Size /\ Size \in Nat
<1>1. 0 \in Int /\ Size - 1 \in Int /\ Size \in Nat /\ Size > 0
  BY SizeAssumption
<1>2. Cardinality(0..(Size - 1)) = IF 0 > Size - 1 THEN 0 ELSE (Size - 1) - 0 + 1
  BY <1>1, FS_Interval
<1>3. Cardinality(0..(Size - 1)) = Size
  BY <1>1, <1>2
<1> QED
  BY <1>1, <1>3 DEF Buffers

\* The least index of those from p on that are in a set, if q is one.
LEMMA FirstOf ==
  ASSUME NEW b \in Buffers, NEW p \in Nat, NEW q \in DOMAIN b, NEW I \in SUBSET DOMAIN b,
         \A i \in I : i >= p, q \in I
  PROVE  LET least == Min(I \cup {Max({p, Cardinality(DOMAIN b)})})
         IN  least \in I /\ p <= least /\ least <= q
<1> DEFINE most == Max({p, Cardinality(DOMAIN b)})
           least == Min(I \cup {most})
<1>1. DOMAIN b = 0..(Size - 1) /\ Cardinality(DOMAIN b) = Size /\ Size \in Nat
  BY BufferHasSize
<1>2. most \in Nat /\ most >= Size
  BY <1>1, MaxOfNaturals
<1> HIDE DEF most
<1>3. I \cup {most} \in SUBSET Nat /\ q \in I \cup {most}
  BY <1>1, <1>2
<1>4. least \in I \cup {most} /\ least <= q
  BY <1>3, MinOfNaturals
<1> HIDE DEF least
<1>5. least # most
  BY <1>1, <1>2, <1>4
<1>6. least \in I /\ p <= least /\ least <= q
  BY <1>4, <1>5
<1> QED
  BY <1>6 DEF least, most

LEMMA SkipAllStops ==
  ASSUME NEW b \in Buffers, NEW p \in Nat, NEW bytes,
         NEW q \in DOMAIN b, p <= q, b[q] \notin bytes
  PROVE  /\ SkipAll(b, p, bytes) \in DOMAIN b
         /\ p <= SkipAll(b, p, bytes) /\ SkipAll(b, p, bytes) <= q
         /\ b[SkipAll(b, p, bytes)] \notin bytes
<1> DEFINE I == {i \in DOMAIN b : i >= p /\ b[i] \notin bytes}
<1>1. /\ q \in I /\ I \in SUBSET DOMAIN b /\ \A i \in I : i >= p
  BY BufferHasSize
<1>2. SkipAll(b, p, bytes) = Min(I \cup {Max({p, Cardinality(DOMAIN b)})})
  BY DEF SkipAll
<1> HIDE DEF I
<1>3. SkipAll(b, p, bytes) \in I /\ p <= SkipAll(b, p, bytes) /\ SkipAll(b, p, bytes) <= q
  BY <1>1, <1>2, FirstOf
<1> QED
  BY <1>3 DEF I

LEMMA SkipToStops ==
  ASSUME NEW b \in Buffers, NEW p \in Nat, NEW bytes,
         NEW q \in DOMAIN b, p <= q, b[q] \in bytes
  PROVE  /\ SkipTo(b, p, bytes) \in DOMAIN b
         /\ p <= SkipTo(b, p, bytes) /\ SkipTo(b, p, bytes) <= q
         /\ b[SkipTo(b, p, bytes)] \in bytes
<1> DEFINE I == {i \in DOMAIN b : i >= p /\ b[i] \in bytes}
<1>1. /\ q \in I /\ I \in SUBSET DOMAIN b /\ \A i \in I : i >= p
  BY BufferHasSize
<1>2. SkipTo(b, p, bytes) = Min(I \cup {Max({p, Cardinality(DOMAIN b)})})
  BY DEF SkipTo
<1> HIDE DEF I
<1>3. SkipTo(b, p, bytes) \in I /\ p <= SkipTo(b, p, bytes) /\ SkipTo(b, p, bytes) <= q
  BY <1>1, <1>2, FirstOf
<1> QED
  BY <1>3 DEF I

\* Where a text ends: at a null byte, or at a line end with only a null byte behind it.
EndsAt(b, q) == b[q] = "NUL" \/ (b[q] = "LF" /\ b[q + 1] = "NUL")

LEMMA WordLength ==
  ASSUME NEW b, NEW p
  PROVE  LET first == SkipAll(b, p, White)
             last  == SkipTo(b, first, White \cup {"NUL"})
         IN  last - first \in Nat => Len(Word(b, p)) = last - first
BY DEF Word

\* The pointer advances by the length of a word from where it was, and not from where
\* the word begins: it falls behind the word's end, and does not pass the text's.
LEMMA WordEndsInText ==
  ASSUME NEW b \in Buffers, NEW q \in 0..(Size - 2), EndsAt(b, q), NEW p \in 0..q
  PROVE  Len(Word(b, p)) \in Nat /\ p + Len(Word(b, p)) <= q
<1> DEFINE first == SkipAll(b, p, White)
           last  == SkipTo(b, first, White \cup {"NUL"})
<1>1. /\ DOMAIN b = 0..(Size - 1) /\ Size \in Nat /\ p \in Nat
      /\ q \in DOMAIN b /\ q + 1 \in DOMAIN b /\ p <= q /\ p <= q + 1
  BY BufferHasSize, SizeAssumption
<1>2. PICK z \in DOMAIN b : z \in {q, q + 1} /\ b[z] = "NUL" /\ (z = q \/ b[q] = "LF")
  BY <1>1 DEF EndsAt
<1>3. p <= z /\ b[z] \notin White /\ b[z] \in White \cup {"NUL"}
  BY <1>1, <1>2 DEF White
<1>4. first \in DOMAIN b /\ p <= first /\ first <= z /\ b[first] \notin White
  BY <1>1, <1>3, SkipAllStops
<1>5. first \in Nat
  BY <1>1, <1>4
<1> HIDE DEF first
<1>6. last \in DOMAIN b /\ first <= last /\ last <= z
  BY <1>3, <1>4, <1>5, SkipToStops
<1>7. last <= q \/ last = first
  <2>1. CASE z = q
    BY <2>1, <1>6
  <2>2. CASE z = q + 1 /\ b[q] = "LF"
    <3>1. b[q] \in White \cup {"NUL"} /\ b[q] \in White
      BY <2>2 DEF White
    <3>2. first # q
      BY <1>4, <3>1
    <3>3. CASE first < q
      <4>1. first <= q
        BY <1>1, <1>5, <3>3
      <4>2. last <= q
        BY <1>1, <1>5, <3>1, <4>1, SkipToStops
      <4> QED
        BY <4>2
    <3>4. CASE first > q
      BY <2>2, <3>4, <1>1, <1>4, <1>6
    <3> QED
      BY <3>2, <3>3, <3>4, <1>1, <1>5
  <2> QED
    BY <2>1, <2>2, <1>2
<1> HIDE DEF last
<1>8. last - first \in Nat /\ p + (last - first) <= q
  BY <1>1, <1>4, <1>5, <1>6, <1>7
<1>9. Len(Word(b, p)) = last - first
  BY <1>8, WordLength DEF first, last
<1> QED
  BY <1>8, <1>9

\* Spaces are skipped no further than the end.
LEMMA SpacesEndInText ==
  ASSUME NEW b \in Buffers, NEW q \in 0..(Size - 2), EndsAt(b, q), NEW p \in 0..q
  PROVE  consumeLeadingStringWhiteSpace(b, p) \in 0..q
<1>1. DOMAIN b = 0..(Size - 1) /\ q \in DOMAIN b /\ p <= q /\ p \in Nat
  BY BufferHasSize, SizeAssumption
<1>2. b[q] \notin {"SP"}
  BY DEF EndsAt
<1>3. SkipAll(b, p, {"SP"}) \in DOMAIN b /\ SkipAll(b, p, {"SP"}) <= q
  BY <1>1, <1>2, SkipAllStops
<1> QED
  BY <1>1, <1>3 DEF consumeLeadingStringWhiteSpace

\* One word and the spaces behind it.
LEMMA NextPointer ==
  ASSUME NEW b \in Buffers, NEW q \in 0..(Size - 2), EndsAt(b, q), NEW p \in 0..q
  PROVE  consumeLeadingStringWhiteSpace(b, p + Len(Word(b, p))) \in 0..q
<1>1. Len(Word(b, p)) \in Nat /\ p + Len(Word(b, p)) <= q
  BY WordEndsInText
<1>2. p + Len(Word(b, p)) \in 0..q
  BY <1>1
<1> QED
  BY <1>2, SpacesEndInText

LEMMA ParserEndsInText ==
  ASSUME NEW b \in Buffers, NEW q \in 0..(Size - 2), EndsAt(b, q)
  PROVE  parseHttpHeaderFirstLine(b).end \in 0..q
<1> DEFINE after_method  == consumeLeadingStringWhiteSpace(b, Len(Word(b, 0)))
           after_target  == consumeLeadingStringWhiteSpace(
                              b, after_method + Len(Word(b, after_method)))
           after_version == consumeLeadingStringWhiteSpace(
                              b, after_target + Len(Word(b, after_target)))
<1>1. 0 \in 0..q
  BY SizeAssumption
<1>2. Len(Word(b, 0)) \in Nat /\ 0 + Len(Word(b, 0)) <= q
  BY <1>1, WordEndsInText
<1>3. Len(Word(b, 0)) \in 0..q
  BY <1>2
<1>4. after_method \in 0..q
  BY <1>3, SpacesEndInText
<1> HIDE DEF after_method
<1>5. after_target \in 0..q
  BY <1>4, NextPointer
<1> HIDE DEF after_target
<1>6. after_version \in 0..q
  BY <1>5, NextPointer
<1> HIDE DEF after_version
<1>7. parseHttpHeaderFirstLine(b).end \in {0, after_version}
  BY DEF parseHttpHeaderFirstLine, after_version, after_target, after_method
<1> QED
  BY <1>1, <1>6, <1>7

\* For every size of buffer, every content of the memory and every way of cutting the
\* requests, the two bytes that parseHttpHeaderFirstLine() looks at last are in the buffer.
THEOREM ParserAlwaysStaysInside == HttpSpec => []ParserStaysInside
<1>1. TypeOK /\ TextEnds => ParserStaysInside
  <2> SUFFICES ASSUME TypeOK, TextEnds, state = "answering"
               PROVE  parseHttpHeaderFirstLine(buffer).end + 1 < Size
    BY DEF ParserStaysInside
  <2>1. PICK q \in 0..(Size - 2) : EndsAt(buffer, q)
    BY DEF TextEnds, EndsInside, EndsAt
  <2>2. parseHttpHeaderFirstLine(buffer).end \in 0..q
    BY <2>1, ParserEndsInText DEF TypeOK
  <2> QED
    BY <2>2, SizeAssumption
<1>2. BufferInv => TypeOK
  BY DEF BufferInv
<1> QED
  BY <1>1, <1>2, ConnectionHasBuffer, BufferInvariant, TextAlwaysEnds, PTL

----------------------------------------------------------------------------
(***************************************************************************)
(* The words of a line.                                                    *)
(***************************************************************************)

IsSpaces(line, s, e) == \A k \in s..e : line[k] = "SP"
IsWord(line, s, e) == \A k \in s..e : line[k] # "SP"

\* A word goes on until a space or the end of the line.
LEMMA WordEnds ==
  ASSUME NEW line \in Seq(Byte), NEW s \in 1..Len(line), line[s] # "SP",
         s = 1 \/ line[s - 1] = "SP"
  PROVE  \E e \in s..Len(line) :
           /\ IsWord(line, s, e) /\ (e = Len(line) \/ line[e + 1] = "SP")
           /\ <<s, e>> \in WordsOf(line)
           /\ \A w \in WordsOf(line) : w[1] \in s..e => w = <<s, e>>
<1> DEFINE n == Len(line)
           S == {k \in s..n : line[k] = "SP"}
<1>1. n \in Nat /\ s \in Nat /\ S \in SUBSET Nat
  OBVIOUS
<1>2. PICK e \in s..n : IsWord(line, s, e) /\ (e = n \/ line[e + 1] = "SP")
  <2>1. CASE S = {}
    BY <2>1 DEF IsWord
  <2>2. CASE S # {}
    <3>1. PICK m \in S : \A k \in S : m <= k
      <4> HIDE DEF S
      <4> QED
        BY <1>1, <2>2, MinOfNaturals
    <3>2. m \in s..n /\ m # s /\ m - 1 \in s..n /\ line[(m - 1) + 1] = "SP"
      OBVIOUS
    <3>3. IsWord(line, s, m - 1)
      <4>1. ASSUME NEW k \in s..(m - 1) PROVE line[k] # "SP"
        <5>1. k \in s..n /\ ~ (m <= k)
          BY <3>2
        <5> QED
          BY <3>1, <5>1
      <4> QED
        BY <4>1 DEF IsWord
    <3> QED
      BY <3>2, <3>3
  <2> QED
    BY <2>1, <2>2
<1>3. <<s, e>> \in WordsOf(line)
  <2>1. <<s, e>> \in (1..n) \X (1..n) /\ s <= e
    OBVIOUS
  <2> QED
    BY <1>2, <2>1 DEF WordsOf, IsWord
<1>4. ASSUME NEW w \in WordsOf(line), w[1] \in s..e PROVE w = <<s, e>>
  <2>1. /\ w \in (1..n) \X (1..n) /\ w[1] <= w[2]
        /\ \A k \in w[1]..w[2] : line[k] # "SP"
        /\ w[1] = 1 \/ line[w[1] - 1] = "SP"
        /\ w[2] = n \/ line[w[2] + 1] = "SP"
    BY DEF WordsOf
  <2>2. w = <<w[1], w[2]>> /\ w[1] \in 1..n /\ w[2] \in 1..n
    BY <2>1
  <2>3. \A k \in s..e : line[k] # "SP"
    BY <1>2 DEF IsWord
  <2>4. w[1] = s
    <3>1. ASSUME w[1] # s PROVE FALSE
      <4>1. w[1] - 1 \in s..e /\ w[1] # 1
        BY <1>1, <1>4, <2>2, <3>1
      <4> QED
        BY <2>1, <2>3, <4>1
    <3> QED
      BY <3>1
  <2>5. ~ (w[2] < e)
    <3>1. ASSUME w[2] < e PROVE FALSE
      <4>1. w[2] + 1 \in s..e /\ w[2] # n
        BY <1>1, <2>1, <2>2, <2>4, <3>1
      <4> QED
        BY <2>1, <2>3, <4>1
    <3> QED
      BY <3>1
  <2>6. ~ (w[2] > e)
    <3>1. ASSUME w[2] > e PROVE FALSE
      <4>1. e + 1 \in w[1]..w[2] /\ e # n
        BY <1>1, <2>2, <2>4, <3>1
      <4> QED
        BY <1>2, <2>1, <4>1
    <3> QED
      BY <3>1
  <2>7. w[2] = e
    BY <1>1, <2>2, <2>5, <2>6
  <2> QED
    BY <2>2, <2>4, <2>7
<1> QED
  BY <1>2, <1>3, <1>4

\* Behind a word, spaces go on until the next one.
LEMMA NextWordStarts ==
  ASSUME NEW line \in Seq(Byte), NEW e \in 1..Len(line), e = Len(line) \/ line[e + 1] = "SP",
         NEW k \in 1..Len(line), k > e, line[k] # "SP"
  PROVE  \E s \in 1..Len(line) :
           e + 1 < s /\ line[s] # "SP" /\ IsSpaces(line, e + 1, s - 1) /\ line[s - 1] = "SP"
<1> DEFINE n == Len(line)
           S == {j \in (e + 1)..n : line[j] # "SP"}
<1>1. n \in Nat /\ e \in Nat /\ S \in SUBSET Nat /\ k \in S /\ e # n
  OBVIOUS
<1>2. PICK s \in S : \A j \in S : s <= j
  <2> HIDE DEF S
  <2> QED
    BY <1>1, MinOfNaturals
<1>3. s \in 1..n /\ line[s] # "SP" /\ e + 1 < s
  BY <1>1
<1>4. ASSUME NEW j \in (e + 1)..(s - 1) PROVE line[j] = "SP"
  <2>1. j \in (e + 1)..n /\ ~ (s <= j)
    BY <1>3
  <2> QED
    BY <1>2, <2>1
<1>5. s - 1 \in (e + 1)..(s - 1)
  BY <1>3
<1> QED
  BY <1>3, <1>4, <1>5 DEF IsSpaces

\* The words of a line are finitely many.
LEMMA WordsAreFinite ==
  ASSUME NEW line \in Seq(Byte)
  PROVE  IsFiniteSet(WordsOf(line)) /\ Cardinality(WordsOf(line)) \in Nat
<1>1. Len(line) \in Nat
  OBVIOUS
<1>2. IsFiniteSet(1..Len(line))
  BY <1>1, IntervalFromOne
<1>3. IsFiniteSet((1..Len(line)) \X (1..Len(line)))
  BY <1>2, FS_Product
<1>4. WordsOf(line) \subseteq (1..Len(line)) \X (1..Len(line))
  BY DEF WordsOf
<1> QED
  BY <1>3, <1>4, FS_Subset, FS_CardinalityType

\* The first three words of a line that begins with one, and what is between them.
FirstWords(line, e1, s2, e2, s3, e3) ==
  /\ e1 \in 1..Len(line) /\ s2 \in 1..Len(line) /\ e2 \in 1..Len(line)
  /\ s3 \in 1..Len(line) /\ e3 \in 1..Len(line)
  /\ e1 + 1 < s2 /\ s2 <= e2 /\ e2 + 1 < s3 /\ s3 <= e3
  /\ IsWord(line, 1, e1) /\ IsWord(line, s2, e2) /\ IsWord(line, s3, e3)
  /\ IsSpaces(line, e1 + 1, s2 - 1) /\ IsSpaces(line, e2 + 1, s3 - 1)
  /\ e3 = Len(line) \/ line[e3 + 1] = "SP"
  /\ {<<1, e1>>, <<s2, e2>>, <<s3, e3>>} \subseteq WordsOf(line)
  /\ \A w \in WordsOf(line) : w \in {<<1, e1>>, <<s2, e2>>, <<s3, e3>>} \/ w[1] > e3

LEMMA WordStarts ==
  ASSUME NEW line \in Seq(Byte), NEW w \in WordsOf(line)
  PROVE  w[1] \in 1..Len(line) /\ line[w[1]] # "SP"
<1>1. /\ w \in (1..Len(line)) \X (1..Len(line)) /\ w[1] <= w[2]
      /\ \A k \in w[1]..w[2] : line[k] # "SP"
  BY DEF WordsOf
<1>2. w[1] \in 1..Len(line) /\ w[1] \in w[1]..w[2]
  BY <1>1
<1> QED
  BY <1>1, <1>2

\* Fewer than three words are in a set of two.
LEMMA ThirdWord ==
  ASSUME NEW line \in Seq(Byte), Cardinality(WordsOf(line)) >= 3, NEW v, NEW w
  PROVE  \E x \in WordsOf(line) : x # v /\ x # w
<1> SUFFICES ASSUME WordsOf(line) \subseteq {v, w} PROVE FALSE
  OBVIOUS
<1>1. IsFiniteSet({v}) /\ Cardinality({v}) = 1
  BY FS_Singleton
<1>2. /\ IsFiniteSet({v} \cup {w})
      /\ Cardinality({v} \cup {w}) = IF w \in {v} THEN 1 ELSE 1 + 1
  BY <1>1, FS_AddElement
<1>3. {v, w} = {v} \cup {w}
  OBVIOUS
<1>4. Cardinality(WordsOf(line)) <= Cardinality({v, w})
  BY <1>2, <1>3, FS_Subset
<1>5. Cardinality({v} \cup {w}) <= 2
  BY <1>2
<1>6. Cardinality(WordsOf(line)) \in Nat /\ Cardinality({v, w}) \in Nat
      /\ Cardinality({v, w}) <= 2
  <2>1. Cardinality({v} \cup {w}) \in Nat
    BY <1>2, FS_CardinalityType
  <2> QED
    BY <1>3, <1>5, <2>1, WordsAreFinite
<1> QED
  BY <1>4, <1>6

LEMMA LineHasWords ==
  ASSUME NEW line \in Seq(Byte), Cardinality(WordsOf(line)) >= 3, line[1] # "SP"
  PROVE  \E e1, s2, e2, s3, e3 : FirstWords(line, e1, s2, e2, s3, e3)
<1> DEFINE n == Len(line)
           W == WordsOf(line)
<1>1. n \in Nat /\ 1 \in 1..n
  <2>1. PICK w \in W : w # 0 /\ w # 0
    BY ThirdWord
  <2>2. w[1] \in 1..n
    BY WordStarts
  <2> QED
    BY <2>2
<1>2. PICK e1 \in 1..n :
        /\ IsWord(line, 1, e1) /\ (e1 = n \/ line[e1 + 1] = "SP") /\ <<1, e1>> \in W
        /\ \A w \in W : w[1] \in 1..e1 => w = <<1, e1>>
  BY <1>1, WordEnds
<1>3. PICK s2 \in 1..n : /\ e1 + 1 < s2 /\ line[s2] # "SP"
                         /\ IsSpaces(line, e1 + 1, s2 - 1) /\ line[s2 - 1] = "SP"
  <2>1. PICK w \in W : w # <<1, e1>> /\ w # 0
    BY ThirdWord
  <2>2. w[1] \in 1..n /\ line[w[1]] # "SP"
    BY WordStarts
  <2>3. w[1] > e1
    BY <1>1, <1>2, <2>1, <2>2
  <2> QED
    BY <1>2, <2>2, <2>3, NextWordStarts
<1>4. PICK e2 \in s2..n :
        /\ IsWord(line, s2, e2) /\ (e2 = n \/ line[e2 + 1] = "SP") /\ <<s2, e2>> \in W
        /\ \A w \in W : w[1] \in s2..e2 => w = <<s2, e2>>
  BY <1>3, WordEnds
<1>5. e2 \in 1..n /\ s2 <= e2
  BY <1>1, <1>3, <1>4
<1>6. ASSUME NEW w \in W, w # <<1, e1>>, w # <<s2, e2>> PROVE w[1] > e2
  <2>1. w[1] \in 1..n /\ line[w[1]] # "SP"
    BY WordStarts
  <2>2. w[1] \notin 1..e1 /\ w[1] \notin s2..e2
    BY <1>2, <1>4, <1>6
  <2>3. w[1] \notin (e1 + 1)..(s2 - 1)
    BY <1>3, <2>1 DEF IsSpaces
  <2> QED
    BY <1>1, <1>2, <1>3, <1>5, <2>1, <2>2, <2>3
<1>7. PICK s3 \in 1..n : /\ e2 + 1 < s3 /\ line[s3] # "SP"
                         /\ IsSpaces(line, e2 + 1, s3 - 1) /\ line[s3 - 1] = "SP"
  <2>1. PICK w \in W : w # <<1, e1>> /\ w # <<s2, e2>>
    BY ThirdWord
  <2>2. w[1] \in 1..n /\ line[w[1]] # "SP" /\ w[1] > e2
    BY <1>6, <2>1, WordStarts
  <2> QED
    BY <1>4, <1>5, <2>2, NextWordStarts
<1>8. PICK e3 \in s3..n :
        /\ IsWord(line, s3, e3) /\ (e3 = n \/ line[e3 + 1] = "SP") /\ <<s3, e3>> \in W
        /\ \A w \in W : w[1] \in s3..e3 => w = <<s3, e3>>
  BY <1>7, WordEnds
<1>9. e3 \in 1..n /\ s3 <= e3
  BY <1>1, <1>7, <1>8
<1>10. ASSUME NEW w \in W, w # <<1, e1>>, w # <<s2, e2>>, w # <<s3, e3>> PROVE w[1] > e3
  <2>1. w[1] \in 1..n /\ line[w[1]] # "SP" /\ w[1] > e2
    BY <1>6, <1>10, WordStarts
  <2>2. w[1] \notin s3..e3
    BY <1>8, <1>10
  <2>3. w[1] \notin (e2 + 1)..(s3 - 1)
    BY <1>7, <2>1 DEF IsSpaces
  <2> QED
    BY <1>1, <1>5, <1>7, <1>9, <2>1, <2>2, <2>3
<1>11. {<<1, e1>>, <<s2, e2>>, <<s3, e3>>} \subseteq W
  BY <1>2, <1>4, <1>8
<1>12. \A w \in W : w \in {<<1, e1>>, <<s2, e2>>, <<s3, e3>>} \/ w[1] > e3
  BY <1>10
<1> HIDE DEF W
<1>13. FirstWords(line, e1, s2, e2, s3, e3)
  BY <1>2, <1>3, <1>4, <1>5, <1>7, <1>8, <1>9, <1>11, <1>12 DEF FirstWords, W
<1> QED
  BY <1>13

LEMMA ThreeDistinct ==
  ASSUME NEW u, NEW v, NEW w, u # v, u # w, v # w
  PROVE  IsFiniteSet({u, v, w}) /\ Cardinality({u, v, w}) = 3
<1>1. IsFiniteSet({u}) /\ Cardinality({u}) = 1
  BY FS_Singleton
<1>2. IsFiniteSet({u} \cup {v}) /\ Cardinality({u} \cup {v}) = 2
  BY <1>1, FS_AddElement
<1>3. IsFiniteSet(({u} \cup {v}) \cup {w}) /\ Cardinality(({u} \cup {v}) \cup {w}) = 3
  BY <1>2, FS_AddElement
<1>4. {u, v, w} = ({u} \cup {v}) \cup {w}
  OBVIOUS
<1> QED
  BY <1>3, <1>4

\* There are three words when only spaces are behind the third.
LEMMA ThreeWords ==
  ASSUME NEW line \in Seq(Byte), NEW e1, NEW s2, NEW e2, NEW s3, NEW e3,
         FirstWords(line, e1, s2, e2, s3, e3)
  PROVE  LET W == WordsOf(line) IN
         /\ Cardinality(W) = 3 => W = {<<1, e1>>, <<s2, e2>>, <<s3, e3>>}
                                  /\ IsSpaces(line, e3 + 1, Len(line))
         /\ Cardinality(W) # 3 => \E k \in 1..Len(line) : k > e3 /\ line[k] # "SP"
<1> DEFINE n == Len(line)
           W == WordsOf(line)
           T == {<<1, e1>>, <<s2, e2>>, <<s3, e3>>}
<1>1. /\ e1 \in 1..n /\ s2 \in 1..n /\ e2 \in 1..n /\ s3 \in 1..n /\ e3 \in 1..n /\ n \in Nat
      /\ e1 + 1 < s2 /\ s2 <= e2 /\ e2 + 1 < s3 /\ s3 <= e3
      /\ e3 = n \/ line[e3 + 1] = "SP"
      /\ T \subseteq W /\ \A w \in W : w \in T \/ w[1] > e3
  BY DEF FirstWords
<1>2. IsFiniteSet(T) /\ Cardinality(T) = 3
  <2>1. 1 # s2 /\ 1 # s3 /\ s2 # s3
    BY <1>1
  <2>2. <<1, e1>> # <<s2, e2>> /\ <<1, e1>> # <<s3, e3>> /\ <<s2, e2>> # <<s3, e3>>
    BY <2>1
  <2> QED
    BY <2>2, ThreeDistinct
<1>3. IsFiniteSet(W) /\ Cardinality(W) \in Nat
  BY WordsAreFinite
<1>4. \A w \in T : w[1] <= e3
  BY <1>1
<1> HIDE DEF T
<1>5. ASSUME Cardinality(W) = 3 PROVE W = T
  BY <1>1, <1>2, <1>3, <1>5, FS_Subset
<1>6. ASSUME NEW k \in 1..n, k > e3, line[k] # "SP"
      PROVE  \E w \in W : w[1] > e3
  <2>1. PICK s \in 1..n : e3 + 1 < s /\ line[s] # "SP" /\ line[s - 1] = "SP"
    BY <1>1, <1>6, NextWordStarts
  <2>2. PICK e \in s..n : <<s, e>> \in W
    BY <2>1, WordEnds
  <2> QED
    BY <1>1, <2>1, <2>2
<1>7. ASSUME Cardinality(W) = 3 PROVE IsSpaces(line, e3 + 1, n)
  <2>1. ASSUME NEW k \in (e3 + 1)..n PROVE line[k] = "SP"
    <3>1. k \in 1..n /\ k > e3
      BY <1>1
    <3>2. \A w \in W : ~ (w[1] > e3)
      <4>1. ASSUME NEW w \in W PROVE ~ (w[1] > e3)
        <5>1. w \in T /\ w[1] \in 1..n
          BY <1>5, <1>7, WordStarts
        <5> QED
          BY <1>1, <1>4, <5>1
      <4> QED
        BY <4>1
    <3> QED
      BY <1>6, <3>1, <3>2
  <2> QED
    BY <2>1 DEF IsSpaces
<1>8. ASSUME Cardinality(W) # 3 PROVE \E k \in 1..n : k > e3 /\ line[k] # "SP"
  <2>1. W # T
    BY <1>2, <1>8
  <2>2. PICK w \in W : w \notin T
    BY <1>1, <2>1
  <2>3. w[1] \in 1..n /\ w[1] > e3 /\ line[w[1]] # "SP"
    BY <1>1, <2>2, WordStarts
  <2> QED
    BY <2>3
<1> QED
  BY <1>5, <1>7, <1>8 DEF T

\* The nth of three words is the one with n - 1 before it.
LEMMA NthOfThree ==
  ASSUME NEW line \in Seq(Byte), NEW u, NEW v, NEW w, WordsOf(line) = {u, v, w},
         u[1] \in Nat, v[1] \in Nat, w[1] \in Nat, u[1] < v[1], v[1] < w[1]
  PROVE  /\ NthWord(line, 1) = SubSeq(line, u[1], u[2])
         /\ NthWord(line, 2) = SubSeq(line, v[1], v[2])
         /\ NthWord(line, 3) = SubSeq(line, w[1], w[2])
<1> DEFINE Before(x) == {y \in WordsOf(line) : y[1] < x[1]}
<1>1. Before(u) = {} /\ Before(v) = {u} /\ Before(w) = {u, v}
  OBVIOUS
<1>2. Cardinality({}) = 0 /\ Cardinality({u}) = 1 /\ Cardinality({u, v}) = 2
  <2>1. u # v /\ {u, v} = {u} \cup {v}
    OBVIOUS
  <2>2. IsFiniteSet({u}) /\ Cardinality({u}) = 1
    BY FS_Singleton
  <2>3. Cardinality({u} \cup {v}) = 1 + 1
    BY <2>1, <2>2, FS_AddElement
  <2> QED
    BY <2>1, <2>2, <2>3, FS_EmptySet
<1>3. Cardinality(Before(u)) = 0 /\ Cardinality(Before(v)) = 1 /\ Cardinality(Before(w)) = 2
  BY <1>1, <1>2
<1> HIDE DEF Before
<1>4. ASSUME NEW n \in {1, 2, 3}, NEW x \in WordsOf(line),
             \A y \in WordsOf(line) : Cardinality(Before(y)) = n - 1 <=> y = x
      PROVE  NthWord(line, n) = SubSeq(line, x[1], x[2])
  <2> DEFINE found == CHOOSE y \in WordsOf(line) : Cardinality(Before(y)) = n - 1
  <2>1. Cardinality(Before(x)) = n - 1
    BY <1>4
  <2>2. found \in WordsOf(line) /\ Cardinality(Before(found)) = n - 1
    BY <2>1
  <2>3. found = x
    BY <1>4, <2>2
  <2>4. NthWord(line, n) = SubSeq(line, found[1], found[2])
    BY DEF NthWord, Before
  <2> HIDE DEF found
  <2> QED
    BY <2>3, <2>4
<1>5. \A y \in WordsOf(line) : Cardinality(Before(y)) = 1 - 1 <=> y = u
  BY <1>3
<1>6. \A y \in WordsOf(line) : Cardinality(Before(y)) = 2 - 1 <=> y = v
  BY <1>3
<1>7. \A y \in WordsOf(line) : Cardinality(Before(y)) = 3 - 1 <=> y = w
  BY <1>3
<1>8. u \in WordsOf(line) /\ v \in WordsOf(line) /\ w \in WordsOf(line)
  OBVIOUS
<1> QED
  BY <1>4, <1>5, <1>6, <1>7, <1>8

----------------------------------------------------------------------------
(***************************************************************************)
(* What sscanf() finds at the start of a line.                             *)
(***************************************************************************)

\* A line that the buffer begins with, and the carriage return behind it.
BeginsWith(b, line) ==
  /\ b \in Buffers /\ line \in Seq(Byte) /\ Len(line) \in DOMAIN b
  /\ \A k \in 1..Len(line) : k - 1 \in DOMAIN b /\ b[k - 1] = line[k]
  /\ b[Len(line)] = "CR"
  /\ \A k \in 1..Len(line) : line[k] \notin {"CR", "LF", "NUL"}

\* From the spaces in front of a word, it is found whole.
LEMMA WordIsFound ==
  ASSUME NEW b, NEW line, BeginsWith(b, line), NEW p \in Nat,
         NEW s \in 1..Len(line), NEW e \in 1..Len(line), p < s, s <= e,
         IsSpaces(line, p + 1, s - 1), IsWord(line, s, e), e = Len(line) \/ line[e + 1] = "SP"
  PROVE  /\ Word(b, p) = SubSeq(line, s, e)
         /\ Len(Word(b, p)) = e - s + 1
<1> DEFINE n == Len(line)
           first == SkipAll(b, p, White)
           last == SkipTo(b, first, White \cup {"NUL"})
<1>1. /\ b \in Buffers /\ line \in Seq(Byte) /\ n \in Nat /\ n \in DOMAIN b
      /\ \A k \in 1..n : k - 1 \in DOMAIN b /\ b[k - 1] = line[k]
      /\ b[n] = "CR"
      /\ \A k \in 1..n : line[k] \notin {"CR", "LF", "NUL"}
      /\ DOMAIN b = 0..(Size - 1) /\ Size \in Nat
  BY BufferHasSize DEF BeginsWith
<1>2. s - 1 \in DOMAIN b /\ p <= s - 1 /\ b[s - 1] \notin White
  BY <1>1 DEF IsWord, White
<1>3. first \in DOMAIN b /\ p <= first /\ first <= s - 1 /\ b[first] \notin White
  BY <1>1, <1>2, SkipAllStops
<1> HIDE DEF first
<1>4. n \in Nat /\ s \in Nat /\ e \in Nat /\ s <= n /\ e <= n /\ 1 <= s
  BY <1>1
<1>5. first = s - 1
  <2>1. ASSUME first < s - 1 PROVE FALSE
    <3>1. first \in Nat
      BY <1>1, <1>3
    <3>2. first + 1 \in (p + 1)..(s - 1) /\ first + 1 \in 1..n
      BY <1>4, <1>3, <2>1, <3>1
    <3>3. line[first + 1] = "SP" /\ b[(first + 1) - 1] = line[first + 1]
      BY <1>1, <3>2 DEF IsSpaces
    <3>4. (first + 1) - 1 = first
      BY <3>1
    <3> QED
      BY <1>3, <3>3, <3>4 DEF White
  <2> QED
    BY <1>1, <1>3, <2>1
<1>6. e \in DOMAIN b /\ first <= e /\ first \in Nat /\ b[e] \in White \cup {"NUL"}
  <2>1. CASE e = n
    BY <2>1, <1>1, <1>5 DEF White
  <2>2. CASE e # n
    <3>1. e + 1 \in 1..n /\ (e + 1) - 1 = e /\ line[e + 1] = "SP"
      BY <1>1, <2>2
    <3> QED
      BY <3>1, <1>1, <1>5 DEF White
  <2> QED
    BY <2>1, <2>2
<1>7. /\ last \in DOMAIN b /\ first <= last /\ last <= e
      /\ b[last] \in White \cup {"NUL"}
  BY <1>1, <1>6, SkipToStops
<1> HIDE DEF last
<1>8. last = e
  <2>1. ASSUME last < e PROVE FALSE
    <3>1. last \in Nat
      BY <1>1, <1>7
    <3>2. last + 1 \in s..e /\ last + 1 \in 1..n /\ (last + 1) - 1 = last
      BY <1>4, <1>5, <1>7, <2>1, <3>1
    <3>3. line[last + 1] # "SP" /\ b[last] = line[last + 1]
      BY <1>1, <3>2 DEF IsWord
    <3> QED
      BY <1>1, <1>7, <3>2, <3>3 DEF White
  <2> QED
    BY <1>1, <1>7, <2>1
<1>9. Word(b, p) = [k \in 1..(last - first) |-> b[first + k - 1]]
  BY DEF Word, first, last
<1>10. last - first = e - s + 1 /\ e - s + 1 \in Nat
  BY <1>5, <1>8
<1>11. Len(Word(b, p)) = e - s + 1
  BY <1>9, <1>10
<1>12. SubSeq(line, s, e) = [k \in 1..(e - s + 1) |-> line[s + k - 1]]
  BY <1>1
<1>13. ASSUME NEW k \in 1..(e - s + 1) PROVE b[first + k - 1] = line[s + k - 1]
  <2>1. s + k - 1 \in 1..n /\ (s + k - 1) - 1 = first + k - 1
    BY <1>1, <1>5
  <2> QED
    BY <1>1, <2>1
<1> QED
  BY <1>9, <1>10, <1>11, <1>12, <1>13

\* From the end of a word, spaces are consumed up to the next.
LEMMA SpacesAreConsumed ==
  ASSUME NEW b, NEW line, BeginsWith(b, line), NEW p \in Nat,
         NEW s \in Nat, p <= s, s <= Len(line), IsSpaces(line, p + 1, s),
         s = Len(line) \/ line[s + 1] # "SP"
  PROVE  consumeLeadingStringWhiteSpace(b, p) = s
<1> DEFINE n == Len(line)
           stop == SkipAll(b, p, {"SP"})
<1>1. /\ b \in Buffers /\ n \in Nat /\ n \in DOMAIN b
      /\ \A k \in 1..n : k - 1 \in DOMAIN b /\ b[k - 1] = line[k]
      /\ b[n] = "CR" /\ DOMAIN b = 0..(Size - 1) /\ Size \in Nat
  BY BufferHasSize DEF BeginsWith
<1>2. s \in DOMAIN b /\ b[s] \notin {"SP"}
  <2>1. CASE s = n
    BY <2>1, <1>1
  <2>2. CASE s # n
    <3>1. s + 1 \in 1..n /\ (s + 1) - 1 = s
      BY <1>1, <2>2
    <3> QED
      BY <1>1, <2>2, <3>1
  <2> QED
    BY <2>1, <2>2
<1>3. stop \in DOMAIN b /\ p <= stop /\ stop <= s /\ b[stop] \notin {"SP"}
  BY <1>1, <1>2, SkipAllStops
<1>4. stop = s
  <2>1. ASSUME stop < s PROVE FALSE
    <3>1. stop + 1 \in (p + 1)..s /\ stop + 1 \in 1..n /\ (stop + 1) - 1 = stop
      BY <1>1, <1>3, <2>1
    <3> QED
      BY <1>1, <1>3, <3>1 DEF IsSpaces
  <2> QED
    BY <1>1, <1>3, <2>1
<1> QED
  BY <1>4 DEF consumeLeadingStringWhiteSpace

----------------------------------------------------------------------------
(***************************************************************************)
(* A line of three words or more, and its answer.                          *)
(***************************************************************************)

\* The pointer meets the beginning of every word.
LEMMA PointerMeetsWords ==
  ASSUME NEW b, NEW line, BeginsWith(b, line),
         NEW e1, NEW s2, NEW e2, NEW s3, NEW e3, FirstWords(line, e1, s2, e2, s3, e3)
  PROVE  /\ Word(b, 0) = SubSeq(line, 1, e1) /\ Len(Word(b, 0)) = e1
         /\ consumeLeadingStringWhiteSpace(b, e1) = s2 - 1
         /\ Word(b, s2 - 1) = SubSeq(line, s2, e2)
         /\ Len(Word(b, s2 - 1)) = e2 - s2 + 1
         /\ consumeLeadingStringWhiteSpace(b, (s2 - 1) + (e2 - s2 + 1)) = s3 - 1
         /\ Word(b, s3 - 1) = SubSeq(line, s3, e3)
         /\ Len(Word(b, s3 - 1)) = e3 - s3 + 1
         /\ (s3 - 1) + (e3 - s3 + 1) = e3
<1> DEFINE n == Len(line)
<1>1. /\ e1 \in 1..n /\ s2 \in 1..n /\ e2 \in 1..n /\ s3 \in 1..n /\ e3 \in 1..n
      /\ e1 + 1 < s2 /\ s2 <= e2 /\ e2 + 1 < s3 /\ s3 <= e3
      /\ IsWord(line, 1, e1) /\ IsWord(line, s2, e2) /\ IsWord(line, s3, e3)
      /\ IsSpaces(line, e1 + 1, s2 - 1) /\ IsSpaces(line, e2 + 1, s3 - 1)
      /\ e3 = n \/ line[e3 + 1] = "SP"
  BY DEF FirstWords
<1>2. n \in Nat
  BY DEF BeginsWith
<1>3. line[e1 + 1] = "SP" /\ line[e2 + 1] = "SP"
  <2>1. e1 + 1 \in (e1 + 1)..(s2 - 1) /\ e2 + 1 \in (e2 + 1)..(s3 - 1)
    BY <1>1, <1>2
  <2> QED
    BY <1>1, <2>1 DEF IsSpaces
<1>4. line[s2] # "SP" /\ line[s3] # "SP"
  <2>1. s2 \in s2..e2 /\ s3 \in s3..e3
    BY <1>1, <1>2
  <2> QED
    BY <1>1, <2>1 DEF IsWord
<1>5. IsSpaces(line, 0 + 1, 1 - 1)
  BY DEF IsSpaces
<1>6. Word(b, 0) = SubSeq(line, 1, e1) /\ Len(Word(b, 0)) = e1
  <2>1. 0 \in Nat /\ 1 \in 1..n /\ 0 < 1 /\ 1 <= e1 /\ e1 - 1 + 1 = e1
    BY <1>1, <1>2
  <2> QED
    BY <1>1, <1>3, <1>5, <2>1, WordIsFound
<1>7. consumeLeadingStringWhiteSpace(b, e1) = s2 - 1
  <2>1. /\ e1 \in Nat /\ s2 - 1 \in Nat /\ e1 <= s2 - 1 /\ s2 - 1 <= Len(line)
        /\ (s2 - 1) + 1 = s2
    BY <1>1, <1>2
  <2> QED
    BY <1>1, <1>4, <2>1, SpacesAreConsumed
<1>8. Word(b, s2 - 1) = SubSeq(line, s2, e2) /\ Len(Word(b, s2 - 1)) = e2 - s2 + 1
  <2>1. s2 - 1 \in Nat /\ s2 - 1 < s2 /\ (s2 - 1) + 1 = s2
    BY <1>1, <1>2
  <2>2. IsSpaces(line, (s2 - 1) + 1, s2 - 1)
    BY <1>1, <1>2 DEF IsSpaces
  <2> QED
    BY <1>1, <1>3, <2>1, <2>2, WordIsFound
<1>9. consumeLeadingStringWhiteSpace(b, (s2 - 1) + (e2 - s2 + 1)) = s3 - 1
  <2>1. /\ e2 \in Nat /\ s3 - 1 \in Nat /\ e2 <= s3 - 1 /\ s3 - 1 <= Len(line)
        /\ (s3 - 1) + 1 = s3 /\ (s2 - 1) + (e2 - s2 + 1) = e2
    BY <1>1, <1>2
  <2> QED
    BY <1>1, <1>4, <2>1, SpacesAreConsumed
<1>10. Word(b, s3 - 1) = SubSeq(line, s3, e3) /\ Len(Word(b, s3 - 1)) = e3 - s3 + 1
  <2>1. s3 - 1 \in Nat /\ s3 - 1 < s3 /\ (s3 - 1) + 1 = s3
    BY <1>1, <1>2
  <2>2. IsSpaces(line, (s3 - 1) + 1, s3 - 1)
    BY <1>1, <1>2 DEF IsSpaces
  <2> QED
    BY <1>1, <2>1, <2>2, WordIsFound
<1>11. (s3 - 1) + (e3 - s3 + 1) = e3
  BY <1>1, <1>2
<1> QED
  BY <1>6, <1>7, <1>8, <1>9, <1>10, <1>11

\* Behind the third word the pointer is at the line's end, or else at a fourth word
\* and in front of no line feed.
LEMMA PointerMeetsEnd ==
  ASSUME NEW b, NEW line, BeginsWith(b, line),
         NEW e1, NEW s2, NEW e2, NEW s3, NEW e3, FirstWords(line, e1, s2, e2, s3, e3)
  PROVE  LET after_version == consumeLeadingStringWhiteSpace(b, e3) IN
         ByteAt(b, after_version) # "CR" /\ ByteAt(b, after_version + 1) # "LF"
           <=> Cardinality(WordsOf(line)) # 3
<1> DEFINE n == Len(line)
           after_version == consumeLeadingStringWhiteSpace(b, e3)
<1>1. /\ e3 \in 1..n /\ n \in Nat /\ line \in Seq(Byte) /\ b \in Buffers
      /\ n \in DOMAIN b /\ b[n] = "CR"
      /\ \A k \in 1..n : k - 1 \in DOMAIN b /\ b[k - 1] = line[k]
      /\ \A k \in 1..n : line[k] \notin {"CR", "LF", "NUL"}
      /\ DOMAIN b = 0..(Size - 1) /\ Size \in Nat
  BY BufferHasSize DEF BeginsWith, FirstWords
<1>2. CASE Cardinality(WordsOf(line)) = 3
  <2>1. IsSpaces(line, e3 + 1, n)
    BY <1>1, <1>2, ThreeWords
  <2>2. after_version = n
    BY <1>1, <2>1, SpacesAreConsumed
  <2> QED
    BY <1>1, <1>2, <2>2 DEF ByteAt
<1>3. CASE Cardinality(WordsOf(line)) # 3
  <2>1. PICK k \in 1..n : k > e3 /\ line[k] # "SP"
    BY <1>1, <1>3, ThreeWords
  <2> DEFINE S == {j \in (e3 + 1)..n : line[j] # "SP"}
  <2>2. S \in SUBSET Nat /\ k \in S
    BY <1>1, <2>1
  <2>3. PICK s \in S : \A j \in S : s <= j
    <3> HIDE DEF S
    <3> QED
      BY <2>2, MinOfNaturals
  <2>4. /\ s \in (e3 + 1)..n /\ line[s] # "SP" /\ s \in 1..n
        /\ s - 1 \in Nat /\ e3 <= s - 1 /\ s - 1 <= n /\ (s - 1) + 1 = s
    BY <1>1
  <2>5. IsSpaces(line, e3 + 1, s - 1)
    <3>1. ASSUME NEW j \in (e3 + 1)..(s - 1) PROVE line[j] = "SP"
      <4>1. j \in (e3 + 1)..n /\ ~ (s <= j)
        BY <1>1, <2>4
      <4> QED
        BY <2>3, <4>1
    <3> QED
      BY <3>1 DEF IsSpaces
  <2>6. after_version = s - 1
    BY <1>1, <2>4, <2>5, SpacesAreConsumed
  <2>7. b[s - 1] # "CR" /\ s - 1 \in DOMAIN b
    BY <1>1, <2>4
  <2>8. b[s] # "LF" /\ s \in DOMAIN b
    <3>1. CASE s = n
      BY <1>1, <3>1
    <3>2. CASE s # n
      <4>1. s + 1 \in 1..n /\ (s + 1) - 1 = s
        BY <1>1, <2>4, <3>2
      <4> QED
        BY <1>1, <4>1
    <3> QED
      BY <3>1, <3>2
  <2>9. ByteAt(b, after_version) # "CR" /\ ByteAt(b, after_version + 1) # "LF"
    BY <2>4, <2>6, <2>7, <2>8 DEF ByteAt
  <2> QED
    BY <1>3, <2>9
<1> QED
  BY <1>2, <1>3

\* What parseHttpHeaderFirstLine() makes of the three words that it has found.
HeaderOf(method_string, target_string, version_string, wrong) ==
  LET method  == findOptionValueFromString(accepted_methods, method_string, "UNKNOWN_METHOD")
      version == findOptionValueFromString(accepted_versions, version_string, "UNKNOWN_VERSION")
      code == IF method_string = << >> THEN 400
              ELSE IF method = "UNKNOWN_METHOD" THEN 501
              ELSE IF target_string = << >> THEN 400
              ELSE IF Len(target_string) > MaxPath THEN 414
              ELSE IF version_string = << >> THEN 400
              ELSE IF version = "UNKNOWN_VERSION" THEN 505
              ELSE IF wrong THEN 400
              ELSE 200
      target_is_set == /\ method # "UNKNOWN_METHOD"
                       /\ target_string # << >> /\ Len(target_string) <= MaxPath
      parsed == [initRequestHttpHeader EXCEPT !.method = method, !.code = code]
  IN IF target_is_set
     THEN [parsed EXCEPT !.requestType = "ORIGIN_FORM", !.requestTarget = target_string,
                         !.version = version]
     ELSE parsed

LEMMA HeaderIsOfWords ==
  ASSUME NEW b
  PROVE  LET after_method == consumeLeadingStringWhiteSpace(b, Len(Word(b, 0)))
             after_target == consumeLeadingStringWhiteSpace(
                               b, after_method + Len(Word(b, after_method)))
             after_version == consumeLeadingStringWhiteSpace(
                                b, after_target + Len(Word(b, after_target)))
         IN parseHttpHeaderFirstLine(b).header
              = HeaderOf(Word(b, 0), Word(b, after_method), Word(b, after_target),
                         /\ ByteAt(b, after_version) # "CR"
                         /\ ByteAt(b, after_version + 1) # "LF")
<1> DEFINE after_method == consumeLeadingStringWhiteSpace(b, Len(Word(b, 0)))
           after_target == consumeLeadingStringWhiteSpace(
                             b, after_method + Len(Word(b, after_method)))
           after_version == consumeLeadingStringWhiteSpace(
                              b, after_target + Len(Word(b, after_target)))
           header == HeaderOf(Word(b, 0), Word(b, after_method), Word(b, after_target),
                              /\ ByteAt(b, after_version) # "CR"
                              /\ ByteAt(b, after_version + 1) # "LF")
           method == findOptionValueFromString(accepted_methods, Word(b, 0), "UNKNOWN_METHOD")
           version == findOptionValueFromString(accepted_versions, Word(b, after_target),
                                                "UNKNOWN_VERSION")
           end == IF /\ /\ method # "UNKNOWN_METHOD"
                        /\ Word(b, after_method) # << >>
                        /\ Len(Word(b, after_method)) <= MaxPath
                     /\ version # "UNKNOWN_VERSION"
                  THEN after_version ELSE 0
<1>1. parseHttpHeaderFirstLine(b) = [header |-> header, end |-> end]
  BY Zenon DEF parseHttpHeaderFirstLine, HeaderOf
<1> HIDE DEF header, end
<1>2. parseHttpHeaderFirstLine(b).header = header
  BY <1>1
<1> QED
  BY <1>2 DEF header

\* The code of three words, and the fields that are set when it is 200.
ParsedAs(header, m, t, v, wrong) ==
  LET method  == findOptionValueFromString(accepted_methods, m, "UNKNOWN_METHOD")
      version == findOptionValueFromString(accepted_versions, v, "UNKNOWN_VERSION")
  IN /\ header.code = IF method = "UNKNOWN_METHOD" THEN 501
                      ELSE IF Len(t) > MaxPath THEN 414
                      ELSE IF version = "UNKNOWN_VERSION" THEN 505
                      ELSE IF wrong THEN 400
                      ELSE 200
     /\ header.code = 200 =>
          /\ header.method = method /\ header.requestType = "ORIGIN_FORM"
          /\ header.requestTarget = t /\ header.version = version

LEMMA HeaderOfWords ==
  ASSUME NEW m, NEW t, NEW v, m # << >>, t # << >>, v # << >>, Len(t) \in Nat,
         NEW wrong \in BOOLEAN
  PROVE  ParsedAs(HeaderOf(m, t, v, wrong), m, t, v, wrong)
<1> DEFINE method  == findOptionValueFromString(accepted_methods, m, "UNKNOWN_METHOD")
           version == findOptionValueFromString(accepted_versions, v, "UNKNOWN_VERSION")
           code == IF method = "UNKNOWN_METHOD" THEN 501
                   ELSE IF Len(t) > MaxPath THEN 414
                   ELSE IF version = "UNKNOWN_VERSION" THEN 505
                   ELSE IF wrong THEN 400
                   ELSE 200
           set == method # "UNKNOWN_METHOD" /\ Len(t) <= MaxPath
           parsed == [initRequestHttpHeader EXCEPT !.method = method, !.code = code]
           full == [parsed EXCEPT !.requestType = "ORIGIN_FORM", !.requestTarget = t,
                                  !.version = version]
<1>1. HeaderOf(m, t, v, wrong) = IF set THEN full ELSE parsed
  BY DEF HeaderOf
<1> HIDE DEF method, version
<1>2. code = 200 => set
  <2>1. CASE method = "UNKNOWN_METHOD"
    BY <2>1
  <2>2. CASE Len(t) > MaxPath
    BY <2>2
  <2>3. CASE method # "UNKNOWN_METHOD" /\ ~ (Len(t) > MaxPath)
    BY <2>3, MaxPathAssumption
  <2> QED
    BY <2>1, <2>2, <2>3
<1> HIDE DEF code, set
<1>3. parsed.code = code
  BY DEF initRequestHttpHeader
<1>4. /\ full.code = code /\ full.method = method /\ full.requestType = "ORIGIN_FORM"
      /\ full.requestTarget = t /\ full.version = version
  BY DEF initRequestHttpHeader
<1> HIDE DEF parsed, full
<1>5. /\ HeaderOf(m, t, v, wrong).code = code
      /\ code = 200 => HeaderOf(m, t, v, wrong) = full
  BY <1>1, <1>2, <1>3, <1>4
<1>6. code = 200 =>
        /\ HeaderOf(m, t, v, wrong).method = method
        /\ HeaderOf(m, t, v, wrong).requestType = "ORIGIN_FORM"
        /\ HeaderOf(m, t, v, wrong).requestTarget = t
        /\ HeaderOf(m, t, v, wrong).version = version
  BY <1>4, <1>5
<1> QED
  BY <1>5, <1>6 DEF ParsedAs, code, method, version

\* What is made of the three words.
LEMMA LineIsParsed ==
  ASSUME NEW b, NEW line, BeginsWith(b, line),
         NEW e1, NEW s2, NEW e2, NEW s3, NEW e3, FirstWords(line, e1, s2, e2, s3, e3)
  PROVE  ParsedAs(parseHttpHeaderFirstLine(b).header,
                  SubSeq(line, 1, e1), SubSeq(line, s2, e2), SubSeq(line, s3, e3),
                  Cardinality(WordsOf(line)) # 3)
<1> DEFINE m == SubSeq(line, 1, e1)
           t == SubSeq(line, s2, e2)
           v == SubSeq(line, s3, e3)
           wrong == /\ ByteAt(b, consumeLeadingStringWhiteSpace(b, e3)) # "CR"
                    /\ ByteAt(b, consumeLeadingStringWhiteSpace(b, e3) + 1) # "LF"
<1>1. /\ Word(b, 0) = m /\ Len(Word(b, 0)) = e1
      /\ consumeLeadingStringWhiteSpace(b, e1) = s2 - 1
      /\ Word(b, s2 - 1) = t
      /\ Len(Word(b, s2 - 1)) = e2 - s2 + 1
      /\ consumeLeadingStringWhiteSpace(b, (s2 - 1) + (e2 - s2 + 1)) = s3 - 1
      /\ Word(b, s3 - 1) = v
      /\ Len(Word(b, s3 - 1)) = e3 - s3 + 1
      /\ (s3 - 1) + (e3 - s3 + 1) = e3
  BY PointerMeetsWords
<1>2. wrong <=> Cardinality(WordsOf(line)) # 3
  BY PointerMeetsEnd
<1> HIDE DEF m, t, v
<1>3. m # << >> /\ t # << >> /\ v # << >> /\ Len(t) \in Nat
  <2>1. /\ e1 \in 1..Len(line) /\ s2 \in 1..Len(line) /\ e2 \in 1..Len(line)
        /\ s3 \in 1..Len(line) /\ e3 \in 1..Len(line) /\ s2 <= e2 /\ s3 <= e3
        /\ Len(line) \in Nat
    BY DEF FirstWords, BeginsWith
  <2>2. e1 # 0 /\ e2 - s2 + 1 # 0 /\ e3 - s3 + 1 # 0 /\ e2 - s2 + 1 \in Nat
    BY <2>1
  <2> QED
    BY <1>1, <2>2, EmptySeq
<1>4. parseHttpHeaderFirstLine(b).header = HeaderOf(m, t, v, wrong)
  BY <1>1, HeaderIsOfWords
<1>5. wrong \in BOOLEAN
  OBVIOUS
<1> HIDE DEF wrong
<1>6. ParsedAs(HeaderOf(m, t, v, wrong), m, t, v, wrong)
  BY <1>3, <1>5, HeaderOfWords
<1>7. ParsedAs(parseHttpHeaderFirstLine(b).header, m, t, v, wrong)
  BY <1>4, <1>6
<1>8. wrong = (Cardinality(WordsOf(line)) # 3)
  BY <1>2, <1>5
<1> QED
  BY <1>7, <1>8 DEF m, t, v

\* In order, they are the words of the line.
LEMMA WordsInOrder ==
  ASSUME NEW line \in Seq(Byte), NEW e1, NEW s2, NEW e2, NEW s3, NEW e3,
         FirstWords(line, e1, s2, e2, s3, e3), Cardinality(WordsOf(line)) = 3
  PROVE  /\ NthWord(line, 1) = SubSeq(line, 1, e1)
         /\ NthWord(line, 2) = SubSeq(line, s2, e2)
         /\ NthWord(line, 3) = SubSeq(line, s3, e3)
<1> DEFINE u == <<1, e1>>
           v == <<s2, e2>>
           w == <<s3, e3>>
<1>1. WordsOf(line) = {u, v, w}
  BY ThreeWords
<1>2. 1 \in Nat /\ s2 \in Nat /\ s3 \in Nat /\ 1 < s2 /\ s2 < s3
  BY DEF FirstWords
<1>3. u[1] = 1 /\ u[2] = e1 /\ v[1] = s2 /\ v[2] = e2 /\ w[1] = s3 /\ w[2] = e3
  OBVIOUS
<1> HIDE DEF u, v, w
<1>4. u[1] \in Nat /\ v[1] \in Nat /\ w[1] \in Nat /\ u[1] < v[1] /\ v[1] < w[1]
  BY <1>2, <1>3
<1>5. /\ NthWord(line, 1) = SubSeq(line, u[1], u[2])
      /\ NthWord(line, 2) = SubSeq(line, v[1], v[2])
      /\ NthWord(line, 3) = SubSeq(line, w[1], w[2])
  BY <1>1, <1>4, NthOfThree
<1> QED
  BY <1>3, <1>5

\* A line that is recognised is answered by what its words name.
LEMMA WordsAreAnswered ==
  ASSUME NEW text, NEW line \in Seq(Byte), line = FirstLine(text),
         NEW e1, NEW s2, NEW e2, NEW s3, NEW e3, FirstWords(line, e1, s2, e2, s3, e3),
         NEW header,
         ParsedAs(header, SubSeq(line, 1, e1), SubSeq(line, s2, e2), SubSeq(line, s3, e3),
                  Cardinality(WordsOf(line)) # 3),
         NEW ans
  PROVE  Answers(text, produceHttpAnswerFromRequest(ans, header))
<1> DEFINE m == SubSeq(line, 1, e1)
           t == SubSeq(line, s2, e2)
           v == SubSeq(line, s3, e3)
           method == findOptionValueFromString(accepted_methods, m, "UNKNOWN_METHOD")
           version == findOptionValueFromString(accepted_versions, v, "UNKNOWN_VERSION")
           new == produceHttpAnswerFromRequest(ans, header)
<1>1. /\ header.code = IF method = "UNKNOWN_METHOD" THEN 501
                       ELSE IF Len(t) > MaxPath THEN 414
                       ELSE IF version = "UNKNOWN_VERSION" THEN 505
                       ELSE IF Cardinality(WordsOf(line)) # 3 THEN 400
                       ELSE 200
      /\ header.code = 200 =>
           /\ header.method = method /\ header.requestType = "ORIGIN_FORM"
           /\ header.requestTarget = t /\ header.version = version
  BY DEF ParsedAs
<1>2. IsWellFormed(text) <=> Cardinality(WordsOf(line)) = 3
  BY DEF IsWellFormed
<1>3. ASSUME AnswerCode(header) # 200 PROVE new.header.code = AnswerCode(header)
  BY <1>3 DEF produceHttpAnswerFromRequest, prepareHttpError, prepareGeneralHttpAnswer,
              AnswerHeader
<1>4. CASE Cardinality(WordsOf(line)) # 3
  <2>1. header.code # 200
    <3> HIDE DEF m, t, v, method, version
    <3> QED
      BY <1>1, <1>4
  <2>2. AnswerCode(header) # 200
    BY <2>1 DEF AnswerCode
  <2>3. new.header.code # 200
    BY <1>3, <2>2
  <2> QED
    BY <1>2, <1>4, <2>3 DEF Answers
<1>5. CASE Cardinality(WordsOf(line)) = 3
  <2> DEFINE faults == Faults(m, t, v)
  <2>1. /\ NthWord(line, 1) = m /\ NthWord(line, 2) = t /\ NthWord(line, 3) = v
    BY <1>5, WordsInOrder
  <2> HIDE DEF m, t, v, method, version, new
  <2>2. AnswerCode(header) # 200 => AnswerCode(header) \in faults
    <3>1. CASE method = "UNKNOWN_METHOD"
      <4>1. AnswerCode(header) = 501
        BY <1>1, <3>1 DEF AnswerCode
      <4>2. m \in {m} \ {w \in DOMAIN accepted_methods : accepted_methods[w] \in {"GET", "HEAD"}}
        BY <3>1 DEF method, findOptionValueFromString
      <4> QED
        BY <4>1, <4>2 DEF Faults
    <3>2. CASE method # "UNKNOWN_METHOD" /\ Len(t) > MaxPath
      <4>1. AnswerCode(header) = 414
        BY <1>1, <3>2 DEF AnswerCode
      <4>2. t \in {x \in {t} : Len(x) > MaxPath}
        BY <3>2
      <4> QED
        BY <4>1, <4>2 DEF Faults
    <3>3. CASE /\ method # "UNKNOWN_METHOD" /\ ~ (Len(t) > MaxPath)
               /\ version # "V1_1"
      <4>1. AnswerCode(header) = 505
        BY <1>1, <1>5, <3>3 DEF AnswerCode
      <4>2. v \in {v} \ {w \in DOMAIN accepted_versions : accepted_versions[w] = "V1_1"}
        BY <3>3 DEF version, findOptionValueFromString
      <4> QED
        BY <4>1, <4>2 DEF Faults
    <3>4. CASE /\ method # "UNKNOWN_METHOD" /\ ~ (Len(t) > MaxPath)
               /\ version = "V1_1"
      <4>1. /\ header.code = 200 /\ header.method = method /\ header.requestTarget = t
            /\ header.version = "V1_1" /\ header.requestType = "ORIGIN_FORM"
        BY <1>1, <1>5, <3>4
      <4>2. CASE method \notin {"GET", "HEAD"}
        <5>1. AnswerCode(header) = 501
          BY <3>4, <4>1, <4>2 DEF AnswerCode
        <5>2. m \in {m} \ {w \in DOMAIN accepted_methods :
                             accepted_methods[w] \in {"GET", "HEAD"}}
          BY <4>2 DEF method, findOptionValueFromString
        <5> QED
          BY <5>1, <5>2 DEF Faults
      <4>3. CASE method \in {"GET", "HEAD"}
        <5>1. AnswerCode(header) = IF findFileInCache(t) = NULL THEN 404 ELSE 200
          BY <3>4, <4>1, <4>3 DEF AnswerCode
        <5>2. findFileInCache(t) = NULL => t \in {t} \ DOMAIN Site
          BY SiteAssumption DEF findFileInCache
        <5> QED
          BY <5>1, <5>2 DEF Faults
      <4> QED
        BY <4>2, <4>3
    <3> QED
      BY <3>1, <3>2, <3>3, <3>4
  <2>3. ASSUME AnswerCode(header) = 200
        PROVE  /\ faults = {}
               /\ t \in DOMAIN Site /\ findFileInCache(t) = Site[t] /\ header.requestTarget = t
               /\ header.method = accepted_methods[m]
    <3>1. header.code = 200 /\ header.version = "V1_1" /\ header.method \in {"GET", "HEAD"}
          /\ findFileInCache(header.requestTarget) # NULL
      BY <2>3 DEF AnswerCode
    <3>2. /\ method \in {"GET", "HEAD"} /\ version = "V1_1" /\ header.requestTarget = t
          /\ header.method = method
      BY <1>1, <3>1
    <3>3. ~ (Len(t) > MaxPath)
      BY <1>1, <3>1, <3>2
    <3>4. t \in DOMAIN Site /\ findFileInCache(t) = Site[t]
      BY <3>1, <3>2 DEF findFileInCache
    <3>5. m \in DOMAIN accepted_methods /\ method = accepted_methods[m]
      BY <3>2 DEF method, findOptionValueFromString
    <3>6. v \in DOMAIN accepted_versions /\ accepted_versions[v] = "V1_1"
      BY <3>2 DEF version, findOptionValueFromString
    <3>7. faults = {}
      BY <3>2, <3>3, <3>4, <3>5, <3>6 DEF Faults
    <3> QED
      BY <3>2, <3>4, <3>5, <3>7
  <2>4. CASE AnswerCode(header) # 200
    <3>1. new.header.code \in faults /\ faults # {}
      BY <1>3, <2>2, <2>4
    <3> QED
      BY <1>2, <1>5, <2>1, <3>1 DEF Answers, new
  <2>5. CASE AnswerCode(header) = 200
    <3> DEFINE file == Site[t]
               general == prepareGeneralHttpAnswer(ans, 200, file.size, file.type,
                                                   EncodingOf(file))
    <3>1. /\ faults = {} /\ findFileInCache(header.requestTarget) = file
          /\ header.method = accepted_methods[m]
      BY <2>3, <2>5
    <3>2. new = prepareHttpValidAnswer(header, ans, file)
      BY <2>5, <3>1 DEF produceHttpAnswerFromRequest, new
    <3> HIDE DEF file
    <3>3. /\ new.header.code = 200 /\ new.header.content_length = file.size
          /\ new.header.content_type = file.type
      BY <3>2 DEF prepareHttpValidAnswer, prepareGeneralHttpAnswer, AnswerHeader
    <3>4. new.content = IF header.method = "GET" THEN FileBody(EmptyContent, file)
                                                 ELSE EmptyContent
      BY <3>2 DEF prepareHttpValidAnswer, prepareGeneralHttpAnswer, initEmptyHttpContent
    <3>5. /\ FileBody(EmptyContent, file).length = file.size
          /\ FileBody(EmptyContent, file).body \in {NULL, file.name}
          /\ FileBody(EmptyContent, file).file_path \in {NULL, file.name}
      BY DEF FileBody, EmptyContent, ContentOf
    <3>6. EmptyContent.body = NULL /\ EmptyContent.file_path = NULL
      BY DEF EmptyContent
    <3>7. {new.content.body, new.content.file_path} \subseteq {NULL, file.name}
      BY <3>4, <3>5, <3>6
    <3>8. IF accepted_methods[m] = "GET" THEN new.content.length = file.size
                                         ELSE new.content = EmptyContent
      BY <3>1, <3>4, <3>5
    <3> QED
      BY <1>2, <1>5, <2>1, <3>1, <3>3, <3>7, <3>8 DEF Answers, new, file
  <2> QED
    BY <2>4, <2>5
<1> QED
  BY <1>4, <1>5

\* The first line is cut at the first carriage return.
LEMMA FirstLineIsCut ==
  ASSUME NEW text \in Seq(Byte), NEW i \in 1..Len(text), text[i] = "CR"
  PROVE  LET line == FirstLine(text) IN
         /\ line \in Seq(Byte) /\ Len(line) + 1 \in 1..Len(text)
         /\ text[Len(line) + 1] = "CR"
         /\ \A k \in 1..Len(line) : line[k] = text[k] /\ line[k] # "CR"
<1> DEFINE C == {k \in 1..Len(text) : text[k] = "CR"}
           c == Min(C)
<1>1. C \in SUBSET Nat /\ i \in C /\ Len(text) \in Nat
  OBVIOUS
<1>2. c \in C /\ \A k \in C : c <= k
  <2> HIDE DEF C
  <2> QED
    BY <1>1, MinOfNaturals
<1>3. FirstLine(text) = SubSeq(text, 1, c - 1)
  BY DEF FirstLine
<1>4. c \in 1..Len(text) /\ text[c] = "CR"
  BY <1>2
<1>5. ASSUME NEW k \in 1..(c - 1) PROVE text[k] # "CR"
  <2>1. k \in 1..Len(text) /\ ~ (c <= k)
    BY <1>1, <1>4
  <2> QED
    BY <1>2, <2>1
<1> HIDE DEF c
<1>6. c - 1 \in Nat /\ (c - 1) + 1 = c
  BY <1>4
<1>7. /\ SubSeq(text, 1, c - 1) \in Seq(Byte)
      /\ Len(SubSeq(text, 1, c - 1)) = c - 1
      /\ \A k \in 1..(c - 1) : SubSeq(text, 1, c - 1)[k] = text[k]
  BY <1>1, <1>4, <1>6
<1> QED
  BY <1>3, <1>4, <1>5, <1>6, <1>7

\* Whatever was received and answered on the connection before, and for every site,
\* every table of methods and versions and every size of the buffer, a request of three
\* words or more that arrives in one piece and is recognised gets the answer its own text asks for
\* (parse_header.c 164-220, http.c 233-330): the file its second word names, an error
\* that one of its words deserves, or an error for a fourth word.
THEOREM RequestsAreAnswered == HttpSpec => AnswerIsForTheRequest
<1>1. BufferInv /\ [HttpNext]_httpVars =>
        [ /\ asked # << >> /\ wire = asked /\ wire' = << >>
          /\ state' = "answering" /\ HasThreeWords(asked)
          => Answers(asked, answer') ]_httpVars
  <2> SUFFICES ASSUME BufferInv, HttpNext, asked # << >>, wire = asked, wire' = << >>,
                      state' = "answering", HasThreeWords(asked)
               PROVE  Answers(asked, answer')
    BY DEF httpVars, vars
  <2> DEFINE line == FirstLine(asked)
             n == Len(wire)
  <2>1. ReadBytes /\ ProcessClientRequest
    BY DEF HttpNext, PeerAsks, Ask, ReadFromClient, ReadNothing, ReadFails, WriteToClient,
           FinishAnswer, RemoveConnection, RemoveClient
  <2>2. asked \in Requests
    BY DEF BufferInv, TypeOK
  <2>3. n \in 1..n /\ n <= Room /\ buffer' = Overwritten(n)
    <3>1. PICK k \in 1..n : /\ k <= Room /\ buffer' = Overwritten(k)
                            /\ wire' = SubSeq(wire, k + 1, n)
      BY <2>1 DEF ReadBytes
    <3>2. k = n
      BY <3>1, WholeRead
    <3> QED
      BY <3>1, <3>2
  <2>4. /\ buffer' \in Buffers /\ n \in 1..(Size - 1)
        /\ \A i \in 0..(n - 1) : buffer'[i] = asked[i + 1]
    BY <2>1, <2>3, OverwrittenBytes DEF ReadBytes, MayRead
  <2>5. /\ line \in Seq(Byte) /\ Len(line) + 1 \in 1..n
        /\ asked[Len(line) + 1] = "CR"
        /\ \A k \in 1..Len(line) : line[k] = asked[k] /\ line[k] # "CR"
    <3>1. asked \in Seq(Byte) /\ n - 3 \in 1..n /\ asked[n - 3] = "CR"
      BY <2>2, RequestEnds DEF BlankLineEndsAt
    <3> QED
      BY <3>1, FirstLineIsCut
  <2>6. Cardinality(WordsOf(line)) >= 3 /\ asked[1] # "SP"
        /\ \A k \in 1..Len(line) : line[k] \notin {"LF", "NUL"}
    BY DEF HasThreeWords
  <2> HIDE DEF line
  <2>7. BeginsWith(buffer', line)
    <3>1. Len(line) \in Nat /\ DOMAIN buffer' = 0..(Size - 1) /\ Size \in Nat
      BY <2>4, <2>5, BufferHasSize
    <3>2. Len(line) \in 0..(n - 1) /\ Len(line) \in DOMAIN buffer'
      BY <2>4, <2>5, <3>1
    <3>3. ASSUME NEW k \in 1..Len(line)
          PROVE  k - 1 \in DOMAIN buffer' /\ buffer'[k - 1] = line[k]
      <4>1. k - 1 \in 0..(n - 1) /\ (k - 1) + 1 = k /\ k - 1 \in DOMAIN buffer'
        BY <2>4, <3>1, <3>2
      <4> QED
        BY <2>4, <2>5, <4>1
    <3>4. buffer'[Len(line)] = "CR"
      BY <2>4, <2>5, <3>2
    <3> QED
      BY <2>4, <2>5, <2>6, <3>2, <3>3, <3>4 DEF BeginsWith
  <2>8. line[1] # "SP"
    <3>1. PICK w \in WordsOf(line) : w # 0 /\ w # 0
      BY <2>5, <2>6, ThirdWord
    <3>2. 1 \in 1..Len(line)
      BY <2>5, <3>1, WordStarts
    <3> QED
      BY <2>5, <2>6, <3>2
  <2>9. PICK e1, s2, e2, s3, e3 : FirstWords(line, e1, s2, e2, s3, e3)
    BY <2>5, <2>6, <2>8, LineHasWords
  <2>10. /\ request' = parseHttpHeaderFirstLine(buffer').header
         /\ answer' = produceHttpAnswerFromRequest(answer, request')
    BY <2>1 DEF ProcessClientRequest
  <2>11. ParsedAs(request', SubSeq(line, 1, e1), SubSeq(line, s2, e2), SubSeq(line, s3, e3),
                  Cardinality(WordsOf(line)) # 3)
    BY <2>7, <2>9, <2>10, LineIsParsed
  <2>12. Answers(asked, produceHttpAnswerFromRequest(answer, request'))
    BY <2>5, <2>6, <2>9, <2>11, WordsAreAnswered DEF line
  <2> QED
    BY <2>10, <2>12
<1> QED
  BY <1>1, ConnectionHasBuffer, BufferInvariant, PTL DEF HttpSpec, AnswerIsForTheRequest
=============================================================================
