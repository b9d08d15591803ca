------------------------------ MODULE Mailbox ------------------------------
(***************************************************************************)
(* What the chat server promises accounts that write to each other, no two *)
(* clients using the same one.  A request leaves one copy for each of its  *)
(* readers.  A copy waits until it is shown to its reader, or lost because *)
(* the reader has left: never twice, to nobody else, and what one account  *)
(* writes to another is shown in the order it was written.                 *)
(***************************************************************************)
EXTENDS Naturals

CONSTANTS User

VARIABLES
  sent,         \* number of requests so far
  waiting,      \* copies neither shown nor lost
  shown,        \* copies each reader has been shown
  lost,         \* copies nobody will see
  left          \* readers whose connection has ended

Init ==
  /\ sent = 0
  /\ waiting = {}
  /\ shown = [u \in User |-> {}]
  /\ lost = {}
  /\ left = {}

Post ==
  /\ \E writer \in User, readers \in SUBSET User :
       waiting' = waiting \cup {[n |-> sent + 1, from |-> writer, to |-> u] : u \in readers}
  /\ sent' = sent + 1
  /\ UNCHANGED <<shown, lost, left>>

(* No older copy from the same writer to the same reader stays behind.     *)
Oldest(copies) ==
  \A m \in copies, k \in waiting \ copies : m.from = k.from /\ m.to = k.to => m.n < k.n

Show ==
  \E u \in User, copies \in SUBSET waiting :
    /\ \A m \in copies : m.to = u
    /\ Oldest(copies)
    /\ shown' = [shown EXCEPT ![u] = @ \cup copies]
    /\ waiting' = waiting \ copies
    /\ UNCHANGED <<sent, lost, left>>

Lose ==
  \E copies \in SUBSET waiting :
    /\ \A m \in copies : m.to \in left
    /\ lost' = lost \cup copies
    /\ waiting' = waiting \ copies
    /\ UNCHANGED <<sent, shown, left>>

Leave ==
  /\ \E users \in SUBSET User : left' = left \cup users
  /\ UNCHANGED <<sent, waiting, shown, lost>>

Next == Post \/ Show \/ Lose \/ Leave

Spec == Init /\ [][Next]_<<sent, waiting, shown, lost, left>>
=============================================================================
