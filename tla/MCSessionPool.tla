---------------------------- MODULE MCSessionPool ----------------------------
(***************************************************************************)
(* A small instance of SessionPool.  There are four identities of sessions *)
(* for two permits: behaviours with a fifth connection, which warm-ups     *)
(* that count the idle list before others push can open, are left out.     *)
(***************************************************************************)
EXTENDS SessionPool, TLC

Symmetry == Permutations(Tasks) \cup Permutations(Sessions)
==============================================================================
