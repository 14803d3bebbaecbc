----------------------------- MODULE JoinInput ------------------------------
(***************************************************************************)
(* The two children of a join operator, which count how often each is      *)
(* opened and closed.  A child may refuse to open, or fail where it would  *)
(* have returned EOF.                                                      *)
(***************************************************************************)
EXTENDS Naturals

Child == {"left", "right"}
Fault == {"none", "open", "next"}

VARIABLES opened,  \* the children whose Open succeeded
          closes   \* how often Close was called, by child

NoneOpened == opened = {} /\ closes = [c \in Child |-> 0]

\* The children of cs are closed, once more each.
Closed(cs) == [c \in Child |-> IF c \in cs THEN closes[c] + 1 ELSE closes[c]]

\* operators/README.md:24,33: Close is called once on what was opened, never
\* on what was not.
ReleasedOnce == \A c \in Child : closes[c] = (IF c \in opened THEN 1 ELSE 0)
=============================================================================
