--------------------------- MODULE AtMostOnceCall ---------------------------
(***************************************************************************)
(* What the owner of a session may rely on: calls are made one at a time;  *)
(* the server executes the command of a writing call at most once; it has  *)
(* executed it when the call returns Ok, and may execute it at any later   *)
(* time when the call returned an error.                                   *)
(***************************************************************************)
EXTENDS Naturals

CONSTANT Calls

VARIABLES
    phase,   \* "new", "open", "ok" or "err" for each call
    writing, \* the calls whose command has an effect
    runs     \* how often the command of a call was executed

avars == <<phase, writing, runs>>

Init ==
    /\ phase = [c \in Calls |-> "new"]
    /\ writing = {}
    /\ runs = [c \in Calls |-> 0]

Begin(c) ==
    /\ phase[c] = "new" /\ \A d \in Calls : phase[d] # "open"
    /\ phase' = [phase EXCEPT ![c] = "open"]
    /\ writing' \in {writing, writing \cup {c}}
    /\ UNCHANGED runs

Run(c) ==
    /\ c \in writing /\ runs[c] = 0 /\ phase[c] \in {"open", "err"}
    /\ runs' = [runs EXCEPT ![c] = 1]
    /\ UNCHANGED <<phase, writing>>

ReturnOk(c) ==
    /\ phase[c] = "open" /\ (c \in writing => runs[c] = 1)
    /\ phase' = [phase EXCEPT ![c] = "ok"]
    /\ UNCHANGED <<writing, runs>>

ReturnErr(c) ==
    /\ phase[c] = "open"
    /\ phase' = [phase EXCEPT ![c] = "err"]
    /\ UNCHANGED <<writing, runs>>

Next == \E c \in Calls : Begin(c) \/ Run(c) \/ ReturnOk(c) \/ ReturnErr(c)

Spec == Init /\ [][Next]_avars
==============================================================================
