-------------------------- MODULE MCHttpConnection --------------------------
(* Methods, versions and names of one byte; requests of every kind of answer *)
(* and of every kind of malformed first line; two kinds of old memory.       *)
EXTENDS HttpConnection

MCLetters == {"G", "H", "P", "1", "0", "/", "a", "e"}

MCMethods ==
  [w \in {<<"G">>, <<"H">>, <<"P">>} |->
     IF w = <<"G">> THEN "GET" ELSE IF w = <<"H">> THEN "HEAD" ELSE "POST"]
MCVersions == [w \in {<<"1">>, <<"0">>} |-> IF w = <<"1">> THEN "V1_1" ELSE "V1_0"]

Target == <<"/", "a">>
Empty  == <<"/", "e">>
NoGzip == <<"/", "H">>
Large  == <<"/", "a", "e">>
\* What the pointer takes for a target behind a space and a method.
Method == <<"G">>
TooLong == <<"/", "a", "a", "a">>

MCSite ==
  [t \in {Target, Empty, NoGzip, Large, Method} |->
     IF t = Target THEN [name |-> "text", size |-> 100, type |-> 10,
                         state |-> "LOADED_COMPRESSED"]
     ELSE IF t = Empty THEN [name |-> "empty", size |-> 0, type |-> NULL, state |-> "LOADED_RAW"]
     ELSE IF t = Method THEN [name |-> "method", size |-> 1, type |-> 10, state |-> "LOADED_RAW"]
     ELSE IF t = NoGzip THEN [name |-> "no_gzip", size |-> 0, type |-> 10,
                              state |-> "LOADED_COMPRESSED"]
     ELSE [name |-> "large", size |-> MaxInt, type |-> MAX_FILE_TYPE_LENGTH - 2, state |-> "NOT_LOADED"]]

CRLF == <<"CR", "LF">>
SP   == <<"SP">>
Spaces(n) == [i \in 1..n |-> "SP"]
Line(m, t, v) == m \o SP \o t \o SP \o v
Header(line) == line \o CRLF \o CRLF

MCRequests ==
  { Header(Line(<<"G">>, Target, <<"1">>)),
    Header(Line(<<"G">>, Empty, <<"1">>)),
    Header(Line(<<"G">>, NoGzip, <<"1">>)),
    Header(Line(<<"H">>, Target, <<"1">>)),
    Header(Line(<<"P">>, Target, <<"1">>)),
    Header(Line(<<"a">>, Empty, <<"1">>)),
    Header(Line(<<"G">>, <<"/">>, <<"1">>)),
    Header(Line(<<"G">>, Large, <<"1">>)),
    Header(Line(<<"G">>, TooLong, <<"1">>)),
    Header(Line(<<"G">>, Empty, <<"0">>)),
    Header(Line(<<"G">>, Empty, <<"e">>)),
    Header(SP \o Line(<<"G">>, Empty, <<"1">>)),
    Header(SP \o Method \o Spaces(2) \o <<"1">>),
    Header(Line(<<"G">>, Method, <<"1">>)),
    Header(<<"G">> \o CRLF \o Empty \o SP \o <<"1">>),
    Header(<<"G">> \o SP \o Empty \o CRLF \o <<"1">>),
    Header(Line(<<"G">>, Empty, <<"1">>) \o SP \o <<"a">>),
    Header(<<"G">> \o Spaces(2) \o Empty \o Spaces(2) \o <<"1">>),
    Header(Line(<<"G">>, Empty, <<"1">>) \o Spaces(Size - 11)),
    Header(Line(<<"G">>, Empty, <<"1">>) \o Spaces(Size - 10)) }

MCLeftovers ==
  { [i \in 0..(Size - 1) |-> "NUL"],
    [i \in 0..(Size - 1) |-> IF i % 2 = 0 THEN "CR" ELSE "LF"] }
=============================================================================
