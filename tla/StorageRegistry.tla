-------------------------- MODULE StorageRegistry --------------------------
(***************************************************************************)
(* internal/storage/storage.go and heap.go as the HTTP handlers use them:  *)
(* a map from table names to *HeapTable pointers under one RWMutex, and    *)
(* heaps of rows, each under a mutex of its own.  Each method holds its    *)
(* mutex for its whole body and calls nothing that blocks, so it is one    *)
(* step.  (UpdateWhere and DeleteWhere, which call back into the executor  *)
(* while they hold the mutex, are the subject of module HeapTable.)        *)
(*                                                                         *)
(* A heap is a Go object: it stays reachable through pointers obtained     *)
(* earlier after its map entry is gone.  Rows are a set because every row  *)
(* of the model carries the identity of the insert that produced it and    *)
(* nothing here depends on their order.                                    *)
(***************************************************************************)

CONSTANTS Name,    \* table names, up to case
          Heap,    \* *HeapTable pointers
          Row,     \* storage.Tuple values
          NoHeap   \* absent map entry, nil pointer

VARIABLES store,   \* Storage.tables
          rows     \* HeapTable.rows of every heap

StorageTypeOK ==
  /\ store \in [Name -> Heap \union {NoHeap}]
  /\ rows \in [Heap -> SUBSET Row]

Stored(n) == store[n] # NoHeap

\* CreateTable: refuses a name that has a heap, otherwise installs an empty one.
CreateTableReplacing(n, h) ==                                       \* mutant
  /\ store' = [store EXCEPT ![n] = h]
  /\ rows' = [rows EXCEPT ![h] = {}]

CreateTable(n, h) ==
  /\ ~Stored(n)
  /\ store' = [store EXCEPT ![n] = h]
  /\ rows' = [rows EXCEPT ![h] = {}]

GetTable(n) == store[n]

DropTable(n) ==
  /\ store' = [store EXCEPT ![n] = NoHeap]
  /\ rows' = rows

Insert(h, row) ==
  /\ rows' = [rows EXCEPT ![h] = @ \union {row}]
  /\ store' = store

Scan(h) == rows[h]

=============================================================================
