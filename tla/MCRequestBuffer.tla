-------------------------- MODULE MCRequestBuffer --------------------------
(* Requests of three lengths and four kinds of leftovers in the buffer.     *)
EXTENDS RequestBuffer

MCRequests ==
  {[i \in 1..n |-> IF i > n - 4 THEN IF (n - i) % 2 = 0 THEN "LF" ELSE "CR" ELSE "x"] :
     n \in {5, 6, 8}}

OldMemory ==
  { [i \in 0..(Size - 1) |-> "NUL"],
    [i \in 0..(Size - 1) |-> "x"],
    [i \in 0..(Size - 1) |-> IF i % 2 = 0 THEN "CR" ELSE "LF"],
    [i \in 0..(Size - 1) |-> IF i % 2 = 0 THEN "LF" ELSE "CR"] }
=============================================================================
