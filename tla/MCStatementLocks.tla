-------------------------- MODULE MCStatementLocks --------------------------
(* Statements on two tables a and b, and on the storage's own mutex m.       *)
EXTENDS StatementLocks, TLC

CONSTANTS a, b, m

MCLock == {a, b, m}
MCRank == (a :> 2) @@ (b :> 1) @@ (m :> 0)

Of(kind, target, reads, n) ==
  [kind |-> kind, target |-> target, reads |-> reads, rows |-> n]

\* A DELETE from a whose WHERE reads b, an INSERT into b whose VALUES read b,
\* a SELECT from a that reads b by way of the storage map, a DELETE from b.
MCOrdered ==
  {Of("change", a, <<b>>, 2), Of("insert", b, <<b>>, 1), Of("select", a, <<m, b>>, 1),
   Of("change", b, <<>>, 1)}

\* DELETE FROM a WHERE id IN (SELECT id FROM a)
MCSelf == {Of("change", a, <<a>>, 1), Of("select", a, <<>>, 0)}
=============================================================================
