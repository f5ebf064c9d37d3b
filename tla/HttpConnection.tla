--------------------------- MODULE HttpConnection ---------------------------
(***************************************************************************)
(* One connection from the bytes of its requests to its answers: the       *)
(* request buffer, the parser that walks it, and the answer message, which *)
(* is allocated once with the client and reused for all its requests.      *)
(* processClientRequest() and writeToClient() of src/server.c.             *)
(***************************************************************************)
EXTENDS RequestBuffer, HttpAnswer

VARIABLES
  request,        \* http_request->header
  answer,         \* http_answer
  header_length   \* answer_header_buffer_length

answerVars == <<request, answer, header_length>>
httpVars == <<vars, answerVars>>

\* initClient() sets both messages.
HttpInit ==
  /\ Init
  /\ request = initRequestHttpHeader
  /\ answer = [header |-> initAnswerHttpHeader("NO_CODE"), content |-> EmptyContent]
  /\ header_length = 0

\* processClientRequest(): nothing while the header is incomplete; else the
\* request is parsed and its answer produced and printed.
ProcessClientRequest ==
  IF state' = "answering"
  THEN /\ request' = parseHttpHeaderFirstLine(buffer').header
       /\ answer' = produceHttpAnswerFromRequest(answer, request')
       /\ header_length' = fillHttpAnswerHeaderBuffer(answer'.header)
  ELSE UNCHANGED answerVars

\* readFromClient()
ReadFromClient ==
  \/ (ReadBytes \/ ReadFails) /\ ProcessClientRequest
  \/ ReadNothing /\ UNCHANGED answerVars

\* What writeHttpContentToClient() returns TRUE for, the header being sent.
ContentIsSent ==
  IF answer.content.content_is_loaded
  THEN answer.content.body = NULL \/ answer.content.length = 0
  ELSE answer.content.file_path = NULL

\* writeToClient() has written the whole answer.
WriteToClient == ContentIsSent /\ FinishAnswer /\ UNCHANGED answerVars

PeerAsks == Ask /\ UNCHANGED answerVars

\* The client hangs up, or has been sent a file from its path.
RemoveConnection == RemoveClient /\ UNCHANGED answerVars

HttpNext == PeerAsks \/ ReadFromClient \/ WriteToClient \/ RemoveConnection

HttpSpec == HttpInit /\ [][HttpNext]_httpVars

----------------------------------------------------------------------------
(***************************************************************************)
(* A reference for what a request asks, written from its text alone.       *)
(***************************************************************************)

\* The text before the first line end.
FirstLine(text) ==
  SubSeq(text, 1, Min({i \in 1..Len(text) : text[i] = "CR"}) - 1)

\* Where the words of a line begin and end.
WordsOf(line) ==
  {w \in (1..Len(line)) \X (1..Len(line)) :
     /\ w[1] <= w[2]
     /\ \A k \in w[1]..w[2] : line[k] # "SP"
     /\ w[1] = 1 \/ line[w[1] - 1] = "SP"
     /\ w[2] = Len(line) \/ line[w[2] + 1] = "SP"}

\* The first line begins with a word, has two more, and neither line feeds nor null
\* bytes.
HasThreeWords(text) ==
  /\ text[1] # "SP"
  /\ Cardinality(WordsOf(FirstLine(text))) >= 3
  /\ \A k \in 1..Len(FirstLine(text)) : FirstLine(text)[k] \notin {"LF", "NUL"}

\* No word too many.
IsWellFormed(text) == Cardinality(WordsOf(FirstLine(text))) = 3

\* The nth word of a line.
NthWord(line, n) ==
  LET w == CHOOSE w \in WordsOf(line) :
             Cardinality({v \in WordsOf(line) : v[1] < w[1]}) = n - 1
  IN SubSeq(line, w[1], w[2])

\* The errors a well-formed request may be answered with.
Faults(method, target, version) ==
     {501 : m \in {method} \ {w \in DOMAIN accepted_methods :
                                 accepted_methods[w] \in {"GET", "HEAD"}}}
  \cup {414 : t \in {t \in {target} : Len(t) > MaxPath}}
  \cup {505 : v \in {version} \ {w \in DOMAIN accepted_versions :
                                    accepted_versions[w] = "V1_1"}}
  \cup {404 : t \in {target} \ DOMAIN Site}

\* This answer is what a request of three words or more asks for: its file, without a body for HEAD,
\* or an error it deserves.
Answers(text, ans) ==
  LET line == FirstLine(text)
      faults == Faults(NthWord(line, 1), NthWord(line, 2), NthWord(line, 3))
      file == Site[NthWord(line, 2)]
      isGet == accepted_methods[NthWord(line, 1)] = "GET"
  IN IF ~ IsWellFormed(text) THEN ans.header.code # 200
     ELSE IF faults # {} THEN ans.header.code \in faults
     ELSE /\ ans.header.code = 200
          /\ ans.header.content_length = file.size
          /\ ans.header.content_type = file.type
          /\ {ans.content.body, ans.content.file_path} \subseteq {NULL, file.name}
          /\ IF isGet THEN ans.content.length = file.size ELSE ans.content = EmptyContent

----------------------------------------------------------------------------
(***************************************************************************)
(* Properties.                                                             *)
(***************************************************************************)

\* Whatever was received and answered on the connection before, and whatever the
\* buffer holds beyond it, a request of three words or more that arrives in one piece
\* and is recognised gets the answer its own text asks for: its file, an error that
\* one of its words deserves, or an error for a fourth word.  The pointer that walks
\* the line (parse_header.c 164-204) and the reused answer message agree with the text.
\* It is not so for a request with spaces in front or with fewer words, which may get a
\* file that nobody asked for: the pointer falls behind, or meets the lines below.
AnswerIsForTheRequest ==
  [][ /\ asked # << >> /\ wire = asked /\ wire' = << >>
      /\ state' = "answering" /\ HasThreeWords(asked)
      => Answers(asked, answer') ]_httpVars

\* The body that is sent is the one the header tells the client to expect: only
\* with a 200, as long as Content-Length says, from memory or from a path but
\* never both, and nothing of an earlier answer (http.c 233-278).
HeaderTellsBody ==
  state = "answering" =>
    LET content == answer.content
    IN /\ content.body # NULL \/ content.file_path # NULL =>
            /\ answer.header.code = 200
            /\ content.length = answer.header.content_length
       /\ content.body # NULL => content.content_is_loaded
       /\ content.file_path # NULL => ~ content.content_is_loaded
       /\ content.length # 0 => content.body # NULL \/ content.file_path # NULL

\* The last check of the parser reads two bytes at the pointer it has moved by
\* four lengths (parse_header.c 206): they are in the buffer.
ParserStaysInside ==
  state = "answering" => parseHttpHeaderFirstLine(buffer).end + 1 < Size

\* What snprintf() would have printed is what it has printed: the comments of
\* http.c 363, 374 and 409 call its result the bytes "actually written".
HeaderIsWhole == header_length < AnswerBufferSize
=============================================================================
