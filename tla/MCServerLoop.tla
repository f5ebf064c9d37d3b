--------------------------- MODULE MCServerLoop ---------------------------
(* Bounds for ServerLoop: bodies of one unit, in memory, on disk or empty. *)
EXTENDS ServerLoop, TLC

SmallBodies == { [kind |-> k, length |-> 1, offset |-> 0] : k \in {"memory", "path"} }

AllBodies == SmallBodies \cup {[kind |-> "memory", length |-> 0, offset |-> 0]}

Symmetry == Permutations(Client)
=============================================================================
