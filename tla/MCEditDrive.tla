----------------------------- MODULE MCEditDrive -----------------------------
(***************************************************************************)
(* Small instances of EditDrive.  One method of each kind is enough: the   *)
(* four that send a report differ in the parameters of their command.      *)
(***************************************************************************)
EXTENDS EditDrive

OneOfEach == {Update, Replay, ReplayRange}
==============================================================================
