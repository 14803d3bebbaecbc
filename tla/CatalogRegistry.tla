-------------------------- MODULE CatalogRegistry --------------------------
(***************************************************************************)
(* The schema registry of internal/catalog/catalog.go: one map from table  *)
(* names to *Table pointers under one RWMutex.  Every method takes the     *)
(* mutex for its whole body, so every method is one step.  Keys are        *)
(* lower-cased by the code before each access: a member of Name stands for *)
(* a name up to case.                                                      *)
(*                                                                         *)
(* A *Table pointer is an opaque member of Table.  What the table's        *)
(* columns are matters to the rows stored under it only through the        *)
(* identity of that pointer.                                               *)
(***************************************************************************)

CONSTANTS Name,     \* table names
          Table,    \* *catalog.Table values
          NoTable   \* absent map entry

VARIABLE catalog    \* Catalog.tables

CatalogTypeOK == catalog \in [Name -> Table \union {NoTable}]

Registered(n) == catalog[n] # NoTable

\* Lookup: the pointer itself is handed out, not a copy of the table.
Lookup(n) == catalog[n]

List == {n \in Name : Registered(n)}

(***************************************************************************)
(* Register: an existing entry is never replaced; the duplicate is an      *)
(* error outcome of the caller.                                            *)
(***************************************************************************)
RegisterOverwriting(n, t) == catalog' = [catalog EXCEPT ![n] = t]  \* mutant

Register(n, t) ==
  /\ ~Registered(n)
  /\ catalog' = [catalog EXCEPT ![n] = t]

\* Drop: deletes whatever entry the name has, whoever registered it.
Drop(n) == catalog' = [catalog EXCEPT ![n] = NoTable]

=============================================================================
