---------------------------- MODULE AtomicTable ----------------------------
(***************************************************************************)
(* What a HeapTable promises its callers: every call of a method takes     *)
(* effect at one instant between its invocation and its return, and what   *)
(* it returns is about the rows at that instant.  Rows keep their order;   *)
(* DeleteWhere takes out exactly the rows its predicate holds of.          *)
(***************************************************************************)
EXTENDS TableCalls

VARIABLES rows,    \* the rows of the table
          phase,   \* "idle", "pending" or "done", by client
          call,    \* the call of each client
          answer   \* what it returned

vars == <<rows, phase, call, answer>>

Init ==
  /\ rows \in InitialRows
  /\ phase = [c \in Client |-> "idle"]
  /\ call = [c \in Client |-> NoCall]
  /\ answer = [c \in Client |-> Number(0)]

Invoke(c) ==
  /\ phase[c] = "idle"
  /\ \E a \in Calls : call' = [call EXCEPT ![c] = a]
  /\ phase' = [phase EXCEPT ![c] = "pending"]
  /\ UNCHANGED <<rows, answer>>

\* new consists of the rows of old that are not in match, in their order.
Remainder(new, old, match) ==
  \E src \in [1 .. Len(new) -> 1 .. Len(old)] :
    /\ \A i, j \in 1 .. Len(new) : i < j => src[i] < src[j]
    /\ \A i \in 1 .. Len(new) : new[i] = old[src[i]]
    /\ \A k \in 1 .. Len(old) :
         old[k] \notin match <=> \E i \in 1 .. Len(new) : src[i] = k

Updated(old, match, to) ==
  [i \in 1 .. Len(old) |-> IF old[i] \in match THEN to[old[i]] ELSE old[i]]

Matching(old, match) == {i \in 1 .. Len(old) : old[i] \in match}

\* The method of call a takes effect on old, leaves new and returns result.
Effect(a, old, new, result) ==
  \/ a.kind = "insert"   /\ new = Append(old, a.row) /\ result = Number(0)
  \/ a.kind = "scan"     /\ new = old /\ result = Found(old)
  \/ a.kind = "count"    /\ new = old /\ result = Number(Len(old))
  \/ a.kind = "truncate" /\ new = <<>> /\ result = Number(0)
  \/ /\ a.kind = "update"
     /\ new = Updated(old, a.match, a.to)
     /\ result = Number(Cardinality(Matching(old, a.match)))
  \/ /\ a.kind = "delete"
     /\ Remainder(new, old, a.match)
     /\ result = Number(Len(old) - Len(new))

Perform(c) ==
  /\ phase[c] = "pending"
  /\ Effect(call[c], rows, rows', answer'[c])
  /\ answer' = [answer EXCEPT ![c] = answer'[c]]
  /\ phase' = [phase EXCEPT ![c] = "done"]
  /\ call' = call

Next == \E c \in Client : Invoke(c) \/ Perform(c)

Spec == Init /\ [][Next]_vars

=============================================================================
