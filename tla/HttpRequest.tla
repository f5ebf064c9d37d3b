---------------------------- MODULE HttpRequest ----------------------------
(***************************************************************************)
(* The parsing of a request's first line, parseHttpHeaderFirstLine() of    *)
(* src/parse_header.c, as operators over the bytes of the request buffer.  *)
(*                                                                         *)
(* The pointer walks by the length of the word that sscanf() has found,    *)
(* from where sscanf() was given the string and not from where the word    *)
(* begins; sscanf() skips every kind of white space, line ends included,   *)
(* and consumeLeadingStringWhiteSpace() skips spaces only.                 *)
(***************************************************************************)
EXTENDS Naturals, Sequences, FiniteSets, FiniteSetsExt

CONSTANTS
  accepted_methods,    \* the method of each word that names one
  accepted_versions,   \* the version of each word that names one
  MaxPath,             \* MAX_PATH_LENGTH
  NULL

ASSUME MaxPathAssumption == MaxPath \in Nat

White == {"SP", "CR", "LF"}

\* A request's header before it is parsed.
initRequestHttpHeader ==
  [version |-> "UNKNOWN_VERSION", method |-> "UNKNOWN_METHOD", code |-> "NO_CODE",
   requestType |-> "NO_REQUEST_TYPE", requestTarget |-> NULL]

\* Beyond the end of the buffer there is no byte to rely on.
ByteAt(b, p) == IF p \in DOMAIN b THEN b[p] ELSE "NUL"

\* The first index from p on whose byte is not, or is, one of these.
SkipAll(b, p, bytes) ==
  Min({i \in DOMAIN b : i >= p /\ b[i] \notin bytes} \cup {Max({p, Cardinality(DOMAIN b)})})

SkipTo(b, p, bytes) ==
  Min({i \in DOMAIN b : i >= p /\ b[i] \in bytes} \cup {Max({p, Cardinality(DOMAIN b)})})

\* What sscanf(b + p, "%ms") finds: the empty word stands for no value.
Word(b, p) ==
  LET first == SkipAll(b, p, White)
      last  == SkipTo(b, first, White \cup {"NUL"})
  IN [k \in 1..(last - first) |-> b[first + k - 1]]

\* A mutant of the next definition: every white space is consumed.
consumeAllWhiteSpace(b, p) == SkipAll(b, p, White)

consumeLeadingStringWhiteSpace(b, p) == SkipAll(b, p, {"SP"})

findOptionValueFromString(options, word, unknown) ==
  IF word \in DOMAIN options THEN options[word] ELSE unknown

\* The header that parseHttpHeaderFirstLine() fills, with the code it returns,
\* and where its last check looks, if it gets there.
parseHttpHeaderFirstLine(b) ==
  LET method_string  == Word(b, 0)
      after_method   == consumeLeadingStringWhiteSpace(b, Len(method_string))
      target_string  == Word(b, after_method)
      after_target   == consumeLeadingStringWhiteSpace(b, after_method + Len(target_string))
      version_string == Word(b, after_target)
      after_version  == consumeLeadingStringWhiteSpace(b, after_target + Len(version_string))
      method  == findOptionValueFromString(accepted_methods, method_string, "UNKNOWN_METHOD")
      version == findOptionValueFromString(accepted_versions, version_string, "UNKNOWN_VERSION")
      code == IF method_string = << >> THEN 400
              ELSE IF method = "UNKNOWN_METHOD" THEN 501
              ELSE IF target_string = << >> THEN 400
              ELSE IF Len(target_string) > MaxPath THEN 414
              ELSE IF version_string = << >> THEN 400
              ELSE IF version = "UNKNOWN_VERSION" THEN 505
              ELSE IF ByteAt(b, after_version) # "CR" /\ ByteAt(b, after_version + 1) # "LF"
                   THEN 400
              ELSE 200
      target_is_set == /\ method # "UNKNOWN_METHOD"
                       /\ target_string # << >> /\ Len(target_string) <= MaxPath
      parsed == [initRequestHttpHeader EXCEPT !.method = method, !.code = code]
  IN [header |-> IF target_is_set
                 THEN [parsed EXCEPT !.requestType = "ORIGIN_FORM",
                                     !.requestTarget = target_string,
                                     !.version = version]
                 ELSE parsed,
      end    |-> IF target_is_set /\ version # "UNKNOWN_VERSION" THEN after_version ELSE 0]
=============================================================================
