---------------------------- MODULE MCChatService ----------------------------
(***************************************************************************)
(* Instances of ChatService for TLC: two loops and two connections, c1 on  *)
(* t1 and c2 on t2, as the round robin of setThreadNum(2) assigns them.    *)
(* The user "away" belongs to the group and never connects.                *)
(***************************************************************************)
EXTENDS ChatService, TLC

CONSTANTS u1, u2, away, c1, c2, t1, t2

MCLoopOf == [c \in {c1, c2} |-> IF c = c1 THEN t1 ELSE t2]

(* Everyone uses an account of their own.                                  *)
OwnAccounts == [c \in {c1, c2} |-> IF c = c1 THEN {u1} ELSE {u2}]

(* Two clients are started for account u1; the owner of c2 also has u2.    *)
SharedAccount == [c \in {c1, c2} |-> IF c = c1 THEN {u1} ELSE {u1, u2}]

(* With own accounts and without "away" nothing tells the two sides apart: *)
(* a permutation of users, connections and loops that keeps every          *)
(* connection on its loop and with its account maps behaviours to          *)
(* behaviours.                                                             *)
Sides ==
  {f \in Permutations({u1, u2, c1, c2, t1, t2}) : \A c \in {c1, c2} :
     /\ f[c] \in {c1, c2}
     /\ f[MCLoopOf[c]] = MCLoopOf[f[c]]
     /\ {f[u] : u \in OwnAccounts[c]} = OwnAccounts[f[c]]}
=============================================================================
