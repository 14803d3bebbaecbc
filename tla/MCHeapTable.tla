---------------------------- MODULE MCHeapTable ----------------------------
(* Three clients on tables of up to three rows with two kinds of row.        *)
EXTENDS HeapTable

CONSTANTS a, b

MCValue == {a, b}

\* The methods, each with the arguments of a.
Keep   == [v \in MCValue |-> v]
On(kind) == [kind |-> kind, row |-> a, match |-> {a}, to |-> Keep]
MCCalls ==
  {On(k) : k \in {"insert", "scan", "count", "truncate", "delete"}}
    \union {[On("update") EXCEPT !.to = [v \in MCValue |-> b]],
            [On("delete") EXCEPT !.match = {}]}

MCInitialRows == {<<>>, <<a, b, a>>, <<b, a, b>>, <<a, a, b>>}
=============================================================================
