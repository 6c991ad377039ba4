---------------------------- MODULE MCPolkitAgent ----------------------------
(***************************************************************************)
(* A small instance of PolkitAgent: requests that share one remember key,  *)
(* so that they compete for the mutex, the queue and the cache.            *)
(***************************************************************************)
EXTENDS PolkitAgent

CONSTANTS c1, c2, k1

SharedKey == [c \in Cookies |-> k1]
=============================================================================
