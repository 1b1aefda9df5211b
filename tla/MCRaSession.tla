----------------------------- MODULE MCRaSession -----------------------------
(***************************************************************************)
(* Small instances of RaSession.                                           *)
(***************************************************************************)
EXTENDS RaSession

AllOps == {Reparent, LogEachRetrying, LogEach, ChangeRevProp, GetFile}
CallOps == {GetLatestRev, Reparent, ChangeRevProp, LogWithOptions}
==============================================================================
