----------------------------- MODULE MCLockMany -----------------------------
(***************************************************************************)
(* Small instances of LockMany.                                            *)
(***************************************************************************)
EXTENDS LockMany

CONSTANTS a, b

Lists == {<<>>, <<a, b>>, <<b, BadPath>>}
==============================================================================
