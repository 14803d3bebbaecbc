------------------------------ MODULE RWMutex ------------------------------
(***************************************************************************)
(* sync.RWMutex of the Go library, as far as internal/storage depends on   *)
(* it.  A mutex is a record:                                               *)
(*                                                                         *)
(*   writer   the goroutine that has announced itself in Lock, or NoOne    *)
(*   locked   that goroutine has the write lock                            *)
(*   readers  goroutines that have the read lock                           *)
(*   queued   goroutines in RLock behind the announced writer              *)
(*                                                                         *)
(* A writer announces itself first and then waits for the readers that     *)
(* came before it; a reader that comes after the announcement waits for    *)
(* Unlock, which admits all of them at once.  Calls do not time out, and   *)
(* the mutex is not reentrant.                                             *)
(***************************************************************************)
CONSTANTS Goroutine, NoOne

Mutex == [writer : Goroutine \union {NoOne}, locked : BOOLEAN,
          readers : SUBSET Goroutine, queued : SUBSET Goroutine]

Free == [writer |-> NoOne, locked |-> FALSE, readers |-> {}, queued |-> {}]

\* Lock, first half: one writer at a time gets past rw.w.Lock().
CanAnnounce(mu)  == mu.writer = NoOne
Announced(mu, g) == [mu EXCEPT !.writer = g]

\* Lock, second half: the readers that were there have left.
CanLock(mu, g)   == mu.writer = g /\ mu.readers = {}
Locked(mu)       == [mu EXCEPT !.locked = TRUE]

RLocked(mu, g) ==
  IF mu.writer = NoOne
  THEN [mu EXCEPT !.readers = @ \union {g}]
  ELSE [mu EXCEPT !.queued = @ \union {g}]

Reading(mu, g)   == g \in mu.readers
RUnlocked(mu, g) == [mu EXCEPT !.readers = @ \ {g}]

Unlocked(mu) == [Free EXCEPT !.readers = mu.queued]

=============================================================================
