----------------------------- MODULE TableCalls -----------------------------
(***************************************************************************)
(* The calls goroutines make on one HeapTable and what they return.        *)
(*                                                                         *)
(* A call is a record: the kind of method, the row an Insert adds, the     *)
(* rows a predicate is true of (match) and the updater (to).  A predicate  *)
(* that fails to evaluate reports FALSE and an updater that fails returns  *)
(* the row it was given (update.go, delete.go), so these cover both.       *)
(* AddColumnDefault and DropColumnValues are an update of every row whose  *)
(* count nobody looks at.                                                  *)
(***************************************************************************)
EXTENDS Naturals, Sequences, FiniteSets

CONSTANTS Client,       \* goroutines, each making one call
          Value,        \* rows
          Calls,        \* the calls clients may make
          InitialRows,  \* what a table may hold at the start
          NoCall

Kind == {"insert", "scan", "count", "truncate", "update", "delete"}
Call == [kind : Kind, row : Value, match : SUBSET Value, to : [Value -> Value]]

ASSUME CallsAssumption ==
  /\ Calls \subseteq Call
  /\ InitialRows \subseteq Seq(Value)

\* What a method returns: a number, or the rows of a Scan.
Number(n) == [n |-> n, rows |-> <<>>]
Found(s)  == [n |-> 0, rows |-> s]

=============================================================================
