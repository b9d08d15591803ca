----------------------------- MODULE TaskQueue -----------------------------
(***************************************************************************)
(* What the thread pool promises the program that uses it: a FIFO queue of *)
(* at most Capacity tasks that can be shut down.  A taker is let in before *)
(* it takes, one at a time and only where there is a task; nothing is put  *)
(* while it is inside.  The shutdown does not wait for it: once the queue  *)
(* is closed nobody is let in, and all that may still leave it is the one  *)
(* task of a taker that was inside already.                                *)
(***************************************************************************)
EXTENDS Naturals, Sequences

CONSTANTS Capacity, Task

VARIABLES buffer, closed, taking

Init == buffer = <<>> /\ closed = FALSE /\ taking = FALSE

Put ==
  /\ ~closed /\ ~taking /\ Len(buffer) < Capacity
  /\ \E task \in Task : buffer' = Append(buffer, task)
  /\ UNCHANGED <<closed, taking>>

LetIn ==
  /\ ~closed /\ ~taking /\ buffer # <<>>
  /\ taking' = TRUE
  /\ UNCHANGED <<buffer, closed>>

Take ==
  /\ taking /\ buffer # <<>>
  /\ buffer' = Tail(buffer)
  /\ taking' = FALSE
  /\ UNCHANGED closed

Close == closed' = TRUE /\ UNCHANGED <<buffer, taking>>

Next == Put \/ LetIn \/ Take \/ Close

Spec == Init /\ [][Next]_<<buffer, closed, taking>>
=============================================================================
