----------------------------- MODULE MCKeyedPool -----------------------------
(***************************************************************************)
(* A small instance of KeyedPool.                                          *)
(***************************************************************************)
EXTENDS KeyedPool

CONSTANTS u1, u2

TwoUrls == {u1, u2}
==============================================================================
