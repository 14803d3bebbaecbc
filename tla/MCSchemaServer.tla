--------------------------- MODULE MCSchemaServer ---------------------------
(* Instances of SchemaServer for TLC: a user table u and seed tables p, q.   *)
EXTENDS SchemaServer, TLC

CONSTANTS u, p, q

MCName    == {u, p, q}
MCSeedSeq == <<p, q>>
MCOneSeed == <<p>>
MCAll     == {u, p}

MCNoStats == {NoTable}   \* a set, but none of rows

Symmetry == Permutations(Creator)
=============================================================================
