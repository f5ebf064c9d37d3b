--------------------------- MODULE RequestBuffer ---------------------------
(***************************************************************************)
(* One client's request buffer, byte by byte: readFromClient() and the     *)
(* first half of processClientRequest() in src/server.c, and the scan      *)
(* bufferContainsFullHttpHeader() of src/parse_header.c.                   *)
(*                                                                         *)
(* request_buffer_offset is 0 for ever (initClient() sets it, nothing else *)
(* does), so that every read() lands at the start of the buffer, while     *)
(* request_buffer_length goes on counting.  The buffer starts as malloc()  *)
(* left it.  The peer sends one request at a time and TCP cuts it anywhere;*)
(* the connection may break between poll() and read(), and read() then     *)
(* returns -1.                                                             *)
(***************************************************************************)
EXTENDS Integers, Sequences

CONSTANTS
  Size,             \* parameters->request_buffer_size
  HeaderMin,        \* HTTP_HEADER_MIN_LENGTH
  Letters,          \* the bytes that are neither white space nor null
  Requests,         \* the texts of the peer's requests
  Leftovers         \* what malloc()ed memory may hold: sets of buffers

Byte == {"CR", "LF", "SP", "NUL"} \cup Letters

Buffers == [0..(Size - 1) -> Byte]

\* CR LF CR LF ends at index i of a text.
BlankLineEndsAt(text, i) ==
  /\ i \in 4..Len(text)
  /\ text[i - 3] = "CR" /\ text[i - 2] = "LF" /\ text[i - 1] = "CR" /\ text[i] = "LF"

\* A request is a header: its only blank line is its end.
ASSUME SizeAssumption ==
  /\ HeaderMin \in Nat /\ HeaderMin >= 5
  /\ Size \in Nat /\ Size > HeaderMin
  /\ Requests \subseteq Seq(Byte)
  /\ \A r \in Requests : /\ Len(r) >= HeaderMin
                          /\ \A i \in 1..Len(r) : BlankLineEndsAt(r, i) <=> i = Len(r)
  /\ Leftovers \subseteq Buffers

VARIABLES
  buffer,     \* request_buffer
  length,     \* request_buffer_length
  state,      \* "waiting", "answering", "closed"
  link,       \* "up", or "broken" once a read() has failed
  wire,       \* the bytes of the peer's request that are still to be read
  asked       \* the request that the peer has sent last and not yet had answered

vars == <<buffer, length, state, link, wire, asked>>

TypeOK ==
  /\ buffer \in Buffers
  /\ length \in -1..(Size - 1)
  /\ state \in {"waiting", "answering", "closed"}
  /\ link \in {"up", "broken"}
  /\ wire \in Seq(Byte)
  /\ asked \in Requests \cup {<< >>}

Init ==
  /\ buffer \in Leftovers
  /\ length = 0
  /\ state = "waiting"
  /\ link = "up"
  /\ wire = << >>
  /\ asked = << >>

----------------------------------------------------------------------------

\* CR LF CR LF ends at index i.
BlankLineAt(b, i) ==
  b[i - 3] = "CR" /\ b[i - 2] = "LF" /\ b[i - 1] = "CR" /\ b[i] = "LF"

\* Mutants of the next definition: the scan covers the whole buffer; it starts
\* one byte too far.
ContainsAnywhere(b, len) ==
  len >= HeaderMin /\ \E i \in 3..(Size - 1) : BlankLineAt(b, i)

ContainsFromLength(b, len) ==
  /\ len >= HeaderMin
  /\ \E i \in 3..len : (len - i) % 2 = 0 /\ BlankLineAt(b, i)

\* bufferContainsFullHttpHeader() with a start offset of 0: backwards from the
\* last byte down to index 3, two bytes at a time.
ContainsFullHeader(b, len) ==
  /\ len >= HeaderMin
  /\ \E i \in 3..(len - 1) : (len - 1 - i) % 2 = 0 /\ BlankLineAt(b, i)

\* A mutant of Room: no byte is kept for the final null.
RoomForAll == Size - length

\* The size readFromClient() asks read() for.
Room == Size - length - 1

\* n bytes of the wire, then a null byte, over the start of the buffer.
Overwritten(n) ==
  [i \in 0..(Size - 1) |-> IF i < n THEN wire[i + 1]
                           ELSE IF i = n THEN "NUL" ELSE buffer[i]]

\* The state that processClientRequest() leaves a waiting client in.
StateAfter(b, len) == IF ContainsFullHeader(b, len) THEN "answering" ELSE "waiting"

\* The peer sends its next request.
Ask ==
  /\ asked = << >> /\ wire = << >> /\ state # "closed" /\ link = "up"
  /\ \E r \in Requests : wire' = r /\ asked' = r
  /\ UNCHANGED <<buffer, length, state, link>>

\* readFromClient(), when poll() has reported the socket as readable.
MayRead == state = "waiting" /\ link = "up"

\* read() returns n > 0 bytes.
ReadBytes ==
  /\ MayRead
  /\ \E n \in 1..Len(wire) :
       /\ n <= Room
       /\ buffer' = Overwritten(n)
       /\ length' = length + n
       /\ wire' = SubSeq(wire, n + 1, Len(wire))
  /\ state' = StateAfter(buffer', length')
  /\ UNCHANGED <<link, asked>>

\* read() returns 0, at the end of the stream or because it was asked for no
\* byte: the client is removed.
ReadNothing ==
  /\ MayRead
  /\ buffer' = Overwritten(0)
  /\ state' = "closed"
  /\ UNCHANGED <<length, link, wire, asked>>

\* read() returns -1: the null byte is written in front of the buffer, the length
\* goes down, and the bytes of earlier reads are searched once more.
ReadFails ==
  /\ MayRead /\ Room > 0
  /\ length' = length - 1
  /\ state' = StateAfter(buffer, length')
  /\ link' = "broken"
  /\ UNCHANGED <<buffer, wire, asked>>

\* The answer has been written: neither the buffer nor its length is reset.
FinishAnswer ==
  /\ state = "answering" /\ link = "up"
  /\ state' = "waiting"
  /\ asked' = << >>
  /\ UNCHANGED <<buffer, length, link, wire>>

\* The client hangs up, or is removed after a file has been sent to it.  Of a broken
\* connection poll() reports POLLHUP before anything else.
RemoveClient ==
  /\ state # "closed"
  /\ state' = "closed"
  /\ UNCHANGED <<buffer, length, link, wire, asked>>

Next == Ask \/ ReadBytes \/ ReadNothing \/ ReadFails \/ FinishAnswer \/ RemoveClient

Spec == Init /\ [][Next]_vars

----------------------------------------------------------------------------
(***************************************************************************)
(* Properties.                                                             *)
(***************************************************************************)

\* However many requests the connection carries, the size given to read() is
\* never negative, the null byte that ends what a read() has brought lands inside
\* the buffer, right behind it, and what sscanf() is given ends inside the buffer,
\* even after a read() that failed (server.c 405-413).  Where such a read() itself
\* puts its null byte is not inside the buffer: see README.md.
BufferIsSafe ==
  /\ [](/\ Room >= 0
        /\ state = "answering" => \E i \in 0..(Size - 1) : buffer[i] = "NUL")
  /\ [][ length' > length =>
           length' - length \in DOMAIN buffer' /\ buffer'[length' - length] = "NUL" ]_vars

\* A request that arrives in one piece is recognised at once when the bytes
\* read before it on this connection are of an even number: the scan, which
\* looks at every other byte only, meets its end.
WholeRequestIsRecognised ==
  [][ /\ asked # << >> /\ wire = asked /\ wire' = << >>
      /\ length % 2 = 0
      => state' = "answering" ]_vars

\* Whatever malloc() left in the buffer, the first read of a connection is taken
\* for a full header only if the peer has sent one to its end.
LeftoverIsNoRequest ==
  [][ length = 0 /\ state' = "answering" => wire' = << >> ]_vars

\* processClientRequest(), server.c 438: while the header is incomplete the
\* server reads more of it, so that what is parsed starts where the request did.
SplitRequestIsJoined ==
  state = "answering" => \A i \in 1..Len(asked) : buffer[i - 1] = asked[i]
=============================================================================
