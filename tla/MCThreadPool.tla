---------------------------- MODULE MCThreadPool ----------------------------
(***************************************************************************)
(* The instance of ThreadPool for TLC: three workers, the least that can   *)
(* empty the queue behind each other's back and meet at the shutdown.  The *)
(* run checks liveness, so the workers are not declared symmetric.         *)
(***************************************************************************)
EXTENDS ThreadPool

CONSTANTS w1, w2, w3

MCWorkers == {w1, w2, w3}
=============================================================================
