----------------------------- MODULE HttpAnswer -----------------------------
(***************************************************************************)
(* The answer to a parsed request (src/http.c): which code, header fields  *)
(* and body produceHttpAnswerFromRequest() gives it, and the length of the *)
(* header that fillHttpAnswerHeaderBuffer() prints.  A content type is its *)
(* length, a body or a path is the name of the file it belongs to.         *)
(***************************************************************************)
EXTENDS HttpRequest

CONSTANTS
  Site,               \* the file of each target that findFileInCache() finds
  AnswerBufferSize,   \* parameters->answer_header_buffer_size
  MaxInt              \* the largest int

MAX_FILE_TYPE_LENGTH == 256

\* The type of a file, of n bytes that the command "file" has printed: the last
\* one is dropped, and fewer than two are none.
setFileType(n) == IF n < 2 THEN NULL ELSE n - 1

\* A File of the cache, once built.
File == [name : STRING, size : 0..MaxInt,
         type : {setFileType(n) : n \in 0..(MAX_FILE_TYPE_LENGTH - 1)},
         state : {"NOT_LOADED", "LOADED_RAW", "LOADED_COMPRESSED"}]

ASSUME SiteAssumption ==
  /\ Site \in [DOMAIN Site -> File]
  /\ \A t \in DOMAIN Site : Site[t].name # NULL /\ Site[t] # NULL

\* The longest header is that of a 200 with the longest type and length.
ASSUME AnswerBufferAssumption ==
  AnswerBufferSize \in Nat /\ AnswerBufferSize > 410 /\ MaxInt \in Nat

findFileInCache(target) == IF target \in DOMAIN Site THEN Site[target] ELSE NULL

AnswerHeader(code, length, type, encoding, date, server) ==
  [code |-> code, content_length |-> length, content_type |-> type,
   content_encoding |-> encoding, date |-> date, server |-> server]

initAnswerHttpHeader(code) == AnswerHeader(code, 0, NULL, NULL, NULL, NULL)

\* The fields of an HttpContent; its offset never moves.
Content == [length : 0..MaxInt, content_is_loaded : BOOLEAN,
            body : {NULL} \cup STRING, file_path : {NULL} \cup STRING]

EmptyContent ==
  [length |-> 0, content_is_loaded |-> FALSE, body |-> NULL, file_path |-> NULL]

\* A mutant of the next definition: the body is left as it is.
initContentButBody(content) == [EmptyContent EXCEPT !.body = content.body]

\* Nothing is left of the content of the last answer.
initEmptyHttpContent(content) == EmptyContent

\* prepareGeneralHttpAnswer(), with the fields that its callers set.
prepareGeneralHttpAnswer(answer, code, length, type, encoding) ==
  [header  |-> AnswerHeader(code, length, type, encoding, "now", "MyAwesomeWebServer"),
   content |-> initEmptyHttpContent(answer.content)]

prepareHttpError(answer, code) == prepareGeneralHttpAnswer(answer, code, 0, NULL, NULL)

\* setCompressedFileContent() is the only one to set file->encoding.
EncodingOf(file) == IF file.state = "LOADED_COMPRESSED" THEN "gzip" ELSE "identity"

\* file->content: realloc() to no byte has freed the buffer of gzip's output.
ContentOf(file) ==
  IF file.state = "LOADED_COMPRESSED" /\ file.size = 0 THEN NULL ELSE file.name

\* The fields set for a GET: a body in memory, or the path of the file.
FileBody(content, file) ==
  IF file.state = "NOT_LOADED"
  THEN [length |-> file.size, content_is_loaded |-> FALSE,
        body |-> content.body, file_path |-> file.name]
  ELSE [length |-> file.size, content_is_loaded |-> TRUE,
        body |-> ContentOf(file), file_path |-> content.file_path]

prepareHttpValidAnswer(request, answer, file) ==
  LET general == prepareGeneralHttpAnswer(answer, 200, file.size, file.type,
                                          EncodingOf(file))
  IN [header  |-> general.header,
      content |-> IF request.method = "GET" THEN FileBody(general.content, file)
                                            ELSE general.content]

\* A mutant of the next definition: the method is not looked at.
CodeButMethod(request) ==
  IF request.code # 200 THEN request.code
  ELSE IF request.version # "V1_1" THEN 505
  ELSE IF findFileInCache(request.requestTarget) = NULL THEN 404
  ELSE 200

\* The first test that fails gives the code.
AnswerCode(request) ==
  IF request.code # 200 THEN request.code
  ELSE IF request.version # "V1_1" THEN 505
  ELSE IF request.method = "UNKNOWN_METHOD" THEN 400
  ELSE IF request.method \notin {"GET", "HEAD"} THEN 501
  ELSE IF request.requestType # "ORIGIN_FORM" THEN 400
  ELSE IF findFileInCache(request.requestTarget) = NULL THEN 404
  ELSE 200

produceHttpAnswerFromRequest(answer, request) ==
  IF AnswerCode(request) # 200
  THEN prepareHttpError(answer, AnswerCode(request))
  ELSE prepareHttpValidAnswer(request, answer, findFileInCache(request.requestTarget))

----------------------------------------------------------------------------

\* Lengths of what snprintf() prints.

Digits(n) == Cardinality({k \in 1..9 : n >= 10 ^ k}) + 1

DescriptionLength(code) ==
  IF code = 200 THEN 2 ELSE IF code = 400 THEN 11 ELSE IF code = 404 THEN 9
  ELSE IF code = 414 THEN 12 ELSE IF code = 501 THEN 15 ELSE IF code = 505 THEN 26
  ELSE 12

\* HTTP/1.1, a code of three digits, the description, CR LF.
writeHttpAnswerFirstLine(header) == 15 + DescriptionLength(header.code)

\* Each field that is set: its name, a colon, a space, its value, CR LF.
writeHttpOptionFields(header) ==
    18 + Digits(header.content_length)
  + (IF header.content_type = NULL THEN 0 ELSE 16 + header.content_type)
  + (IF header.content_encoding = NULL THEN 0
     ELSE 20 + (IF header.content_encoding = "gzip" THEN 4 ELSE 8))
  + (IF header.date = NULL THEN 0 ELSE 37)
  + (IF header.server = NULL THEN 0 ELSE 28)

\* A mutant of the next definition: each part is counted with its null byte.
CountedWithNulls(header) ==
  writeHttpAnswerFirstLine(header) + 1 + writeHttpOptionFields(header) + 1 + 2 + 1

fillHttpAnswerHeaderBuffer(header) ==
  writeHttpAnswerFirstLine(header) + writeHttpOptionFields(header) + 2
=============================================================================
