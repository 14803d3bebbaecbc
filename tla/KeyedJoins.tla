---------------------------- MODULE KeyedJoins ------------------------------
(***************************************************************************)
(* The two joins on a key side by side: executor.go:158-204 builds the one *)
(* the physical plan names, over the same children.                        *)
(***************************************************************************)
EXTENDS KeyedJoin

CONSTANTS HashJoins, MergeJoins   \* the joins each of the two is given

ASSUME GivenAssumption ==
  /\ HashJoins \union MergeJoins = Joins
  /\ \A j \in HashJoins : j.type \in {"inner", "left"}

-----------------------------------------------------------------------------
(* What the code leaves to its callers: for which joins the keys are what   *)
(* the condition is about, and the sort and the merge do what they should.  *)

\* joinKey takes the first column of the equality that a row has, in the order of
\* Tries (hash_join.go:145-181).  It is the one meant where the equality names a
\* column of each side, and what is found is called like it.
Found(first, second, columns) == IF first.column \in columns THEN first.column ELSE second.column

KeysFound(c) ==
  /\ c.op = "="
  /\ \E left, right \in {c.a, c.b} :
       /\ left.side = "left" /\ left.column = Found(c.a, c.b, LeftColumns)
       /\ right.side = "right" /\ right.column = Found(c.b, c.a, RightColumns)

KeysMeant(j) == j.condition # NoCondition => KeysFound(j.condition)

\* The hash join compares what values look like: two of them are equal exactly when
\* they look alike, as those of one type do that is no float.
DisplayTells ==
  \A v, w \in Value : <<v, w>> \in Holds["="] <=> Text[v] = Text[w]

\* The merge join compares values: they have an order, in which equal ones are those
\* that are not less than one another.
ValuesOrdered ==
  \A v, w \in Value :
    /\ <<v, w>> \in Holds["="] <=> <<v, w>> \notin Holds["<"] /\ <<w, v>> \notin Holds["<"]
    /\ <<v, w>> \in Holds["<"] =>
         <<w, v>> \notin Holds["<"] /\ \A u \in Value : <<v, u>> \in Holds["<"] \/ <<u, w>> \in Holds["<"]

\* A row without a key stops the insertion sort, so that rows with keys have to
\* stand together; the sort of more than 20 rows is no longer a mere insertion, and
\* all of them need keys.
InsertionSorted == 20
Sortable(keyless, n) ==
  /\ \A i, k, m \in 1 .. n : i < k /\ k < m /\ k \in keyless => i \in keyless \/ m \in keyless
  /\ n > InsertionSorted => keyless = {}

\* A LEFT JOIN loses the left rows without a key (sort_merge_join.go:253-256).
Keyless(j, rows, column) == {i \in DOMAIN rows : j.condition # NoCondition /\ rows[i][column] = Null}
Mergeable(j) ==
  LET c == j.condition
      left == Keyless(j, j.left, Found(c.a, c.b, LeftColumns))
      right == Keyless(j, j.right, Found(c.b, c.a, RightColumns))
  IN /\ Sortable(left, Len(j.left)) /\ Sortable(right, Len(j.right))
     /\ j.type = "left" => left = {}

-----------------------------------------------------------------------------

VARIABLES algorithm,
          built, hashTable, currentLeft, probeQueue,
          leftRows, rightRows, leftIdx, rightIdx, group

hashVars == <<built, hashTable, currentLeft, probeQueue>>
mergeVars == <<leftRows, rightRows, leftIdx, rightIdx, group>>
vars == <<opened, closes, join, pc, delivered, returned, algorithm, hashVars, mergeVars>>

H == INSTANCE HashJoin
M == INSTANCE SortMergeJoin

Init ==
  /\ \/ algorithm = "hash" /\ join \in HashJoins
     \/ algorithm = "merge" /\ join \in MergeJoins
  /\ H!Init /\ M!Init

HashStep == algorithm = "hash" /\ H!Next /\ UNCHANGED <<algorithm, mergeVars>>
MergeStep == algorithm = "merge" /\ M!Next /\ UNCHANGED <<algorithm, hashVars>>

Next == HashStep \/ MergeStep

\* A loop that runs goes on running: there is nothing else its goroutine does.
Loop == pc \in Busy /\ Next

Spec == Init /\ [][Next]_vars /\ WF_vars(Loop)

-----------------------------------------------------------------------------

\* operators/README.md:33: when Open of a sort-merge join fails, whatever it had
\* opened has been closed; once it has succeeded both children are closed for
\* good.
MergeUndoesOpen == algorithm = "merge" => M!OpenUndone
=============================================================================
