------------------------------ MODULE KeyedPool ------------------------------
(***************************************************************************)
(* SessionPools (pool/grouped.rs): checkouts from the pool of one key by   *)
(* clients at different URLs of its host.  The pool opens its sessions at  *)
(* the URL of the client that made it, whoever held one last may have left *)
(* it anywhere, and a session that is checked out is moved by reparent to  *)
(* the URL asked for.  That the URL a session believes in is the one its   *)
(* server uses is KeptIsUsable of RaSession.                               *)
(***************************************************************************)
EXTENDS SessionPool

CONSTANTS
    Urls, \* URLs of one key
    Home  \* the URL of the client that the pool was made for

ASSUME HomeAssumption == Home \in Urls

VARIABLES
    ask, \* what the tasks inside session_inner, or behind it, have asked for
    at   \* the URL each session believes in

keyedVars == <<vars, ask, at>>

\* A step of the pool: tasks that are out ask for nothing, sessions that are
\* gone are nowhere, and a new one is at Home.
Pool(step) ==
    /\ step
    /\ ask' = [t \in {u \in DOMAIN ask : pc'[u] # "out"} |-> ask[t]]
    /\ at' = [s \in Live' |-> IF s \in DOMAIN at THEN at[s] ELSE Home]

\* SessionPools::session; pool_inner is one lock section, so that every client
\* of a key finds the same pool.
Ask(t, u) ==
    /\ StartSession(t)
    /\ ask' = [w \in DOMAIN ask \cup {t} |->
                 IF w = t THEN [url |-> u, stage |-> "compare"] ELSE ask[w]]
    /\ UNCHANGED at

Comparing(t) == pc[t] = "holding" /\ ask[t].stage = "compare"

\* Mutant: the URL of the pool is compared, not the one of the session.
HomeDiffers(t) == Home # ask[t].url

\* The URL of the session's own client, which reparent moves.
Differs(t) == at[mine[t][1]] # ask[t].url

Goto(t, stage) == ask' = [ask EXCEPT ![t].stage = stage] /\ UNCHANGED vars

HandOut(t) == Comparing(t) /\ ~Differs(t) /\ Goto(t, "given") /\ UNCHANGED at

Reparent(t) ==
    /\ Comparing(t) /\ Differs(t) /\ Goto(t, "given")
    /\ at' = [at EXCEPT ![mine[t][1]] = ask[t].url]

\* reparent is refused, fails, or is dropped in between: the session goes back
\* to the pool, with the URL it had.
ReparentFails(t) == Comparing(t) /\ Differs(t) /\ Goto(t, "failed") /\ UNCHANGED at

\* The owner may take the session elsewhere before dropping it.
OwnerMoves(t, u) ==
    /\ pc[t] = "holding" /\ ask[t].stage = "given" /\ u # ask[t].url
    /\ at' = [at EXCEPT ![mine[t][1]] = u]
    /\ ask' = [ask EXCEPT ![t].url = u] /\ UNCHANGED vars

KeyedInit == Init /\ ask = <<>> /\ at = <<>>

KeyedStep(t) ==
    \/ ~Comparing(t) /\ Pool(Step(t))
    \/ HandOut(t) \/ Reparent(t) \/ ReparentFails(t)

KeyedNext ==
    \/ \E t \in Tasks :
          \/ \E u \in Urls : Ask(t, u) \/ OwnerMoves(t, u)
          \/ KeyedStep(t) \/ Pool(Cancel(t))
    \/ Pool(Age)

\* tokio runs every ready task, every await of open_session, of the check and of
\* reparent is bounded by a timeout, and owners drop their sessions in the end.
KeyedSpec ==
    /\ KeyedInit /\ [][KeyedNext]_keyedVars
    /\ \A t \in Tasks : WF_keyedVars(KeyedStep(t))

-----------------------------------------------------------------------------
(* Properties.                                                             *)

\* A session that is handed out is at the URL that was asked for, wherever it
\* was opened and wherever others have left it (`If the pooled session is
\* connected to a different URL path on the same host, it is reparented').
AtUrlAskedFor ==
    \A t \in Tasks : pc[t] = "holding" /\ ask[t].stage = "given" =>
        at[mine[t][1]] = ask[t].url

\* A step hands out a session only if it has not expired, and only where it
\* should be.
FitForUse == [][NothingExpired /\ AtUrlAskedFor']_keyedVars
==============================================================================
