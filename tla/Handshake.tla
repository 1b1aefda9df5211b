----------------------------- MODULE Handshake -----------------------------
(***************************************************************************)
(* The handshake of a connection and every later auth-request on it:       *)
(* greeting, client response, choice of a mechanism, built-in or of Cyrus  *)
(* SASL, the security layer SASL may negotiate, repos-info, commands.      *)
(*                                                                         *)
(* A message carries the layer it was written under.  What the client has  *)
(* fetched from the socket is in its buffer, decoded if the layer was on   *)
(* when it was fetched.                                                    *)
(***************************************************************************)
EXTENDS Naturals, Sequences, SequencesExt

CONSTANTS
    Offers,      \* the mechanism lists a server may send, as sets
    Configs,     \* the clients: credentials, tunnel, feature cyrus-sasl
    MaxCommands, \* bound on the commands written in a behaviour
    Faults       \* what may go wrong, a subset of FaultKinds

Mechs == {"EXTERNAL", "CRAM-MD5", "PLAIN", "ANONYMOUS", "DIGEST-MD5"}
FaultKinds == {"version", "noise", "eof", "timeout", "again", "layer"}

ASSUME OffersAssumption == Offers \subseteq SUBSET Mechs
ASSUME ConfigAssumption ==
    Configs \subseteq [creds : BOOLEAN, tunnel : BOOLEAN, sasl : BOOLEAN]
ASSUME FaultAssumption == Faults \subseteq FaultKinds

VARIABLES
    config,   \* RaSvnClient: what was configured
    client,   \* RaSvnConnection with the place in handshake() or a command
    server,   \* svnserve
    toServer, \* client to server
    toClient, \* server to client, not yet read from the socket
    buf,      \* RaSvnConnection::buf
    results   \* of the handshake and of every command after it

vars == <<config, client, server, toServer, toClient, buf, results>>

NoMech == "none"
AuthErrors == {"unavailable", "failed"}

-----------------------------------------------------------------------------
(* The client: reading and writing.                                        *)

Msg(kind, layer) == [kind |-> kind, layer |-> layer, mechs |-> {}]

\* write_item, through sasl.encode when the layer is on.
Write(kind) == toServer' = Append(toServer, Msg(kind, client.layer))

\* sasl.decode of what was read; what is not under the layer is noise to it.
Decoded(msg) ==
    [msg EXCEPT !.kind = IF msg.layer THEN @ ELSE "noise", !.layer = FALSE]
Fetched(msgs, layer) == IF layer THEN [i \in DOMAIN msgs |-> Decoded(msgs[i])] ELSE msgs

\* fill: one read of the socket may bring more than one message.
Fill ==
    /\ client.pc \notin {"ready", "gone"} /\ buf = <<>> /\ toClient # <<>>
    /\ \E k \in 1 .. Len(toClient) :
         /\ buf' = Fetched(SubSeq(toClient, 1, k), client.layer)
         /\ toClient' = SubSeq(toClient, k + 1, Len(toClient))
    /\ UNCHANGED <<config, client, server, toServer, results>>

\* The next item, which is an error if it is still encoded or noise.
Item == IF Head(buf).layer THEN "noise" ELSE Head(buf).kind
Took == buf' = Tail(buf) /\ UNCHANGED <<config, server, toClient>>

Done(result) == results' = Append(results, result)

\* handshake() or a command returns an error; any error of the handshake, and
\* Protocol and Io errors of a command, cost the connection (the commands are
\* those that drop it, the ones of with_retry are in RaSession).
Broken(result) ==
    client.session => result \in {"protocol", "eof", "timeout"}
Fails(result) ==
    /\ Done(result)
    /\ client' = [client EXCEPT !.pc = IF Broken(result) THEN "gone" ELSE "ready"]
    /\ UNCHANGED toServer

-----------------------------------------------------------------------------
(* auth.rs.                                                                *)

\* Mutant: PLAIN before CRAM-MD5.
PlainFirst(offered) ==
    SelectSeq(<<"PLAIN", "CRAM-MD5", "ANONYMOUS">>, LAMBDA m : m \in offered)

Push(mech, usable) == IF usable THEN <<mech>> ELSE <<>>

\* select_mechs: the built-in mechanisms to try, in order.
SelectMechs(offered) ==
    LET chosen == Push("EXTERNAL", "EXTERNAL" \in offered /\ config.tunnel)
                  \o Push("CRAM-MD5", "CRAM-MD5" \in offered /\ config.creds)
                  \o Push("PLAIN", "PLAIN" \in offered /\ config.creds)
                  \o Push("ANONYMOUS", "ANONYMOUS" \in offered)
    IN IF chosen = <<>> /\ "EXTERNAL" \in offered THEN <<"EXTERNAL">> ELSE chosen

\* The mechanisms SASL may choose from.
MechString(offered) ==
    IF "EXTERNAL" \in offered THEN {"EXTERNAL"}
    ELSE IF "ANONYMOUS" \in offered THEN {"ANONYMOUS"} ELSE offered

\* The library has no use for PLAIN without credentials.  The other mechanisms
\* that need them ask for them when they have seen the challenge.
LibraryMechs(offered) ==
    {m \in MechString(offered) : m # "EXTERNAL" /\ (m = "PLAIN" => config.creds)}

\* The auth exchange goes on: mech is written.
TryMech(offered, mech, pc, rest) ==
    /\ Write(mech)
    /\ client' = [client EXCEPT !.pc = pc, !.mech = mech, !.tries = rest, !.offered = offered,
                     !.more = mech \in {"CRAM-MD5", "DIGEST-MD5"}]
    /\ UNCHANGED results

\* handle_auth_request_cyrus_sasl: client_start picks a mechanism.  Or it has none
\* or there is no library, and the error of the built-in ones stands; or setting
\* the library up fails.
StartSasl(offered, builtinError) ==
    \/ \E mech \in LibraryMechs(offered) : TryMech(offered, mech, "sasl", <<>>)
    \/ \E err \in {builtinError, "failed"} : Fails(err)

\* The built-in mechanisms have come to nothing.
BuiltinFails(offered, err) ==
    \/ config.sasl /\ StartSasl(offered, err)
    \/ ~config.sasl /\ Fails(err)

\* Mutant: the mechanism that was refused stays on the list.
SameTries(tries) == tries

Untried(tries) == Tail(tries)

NextMech(offered, tries, err) ==
    \/ tries # <<>> /\ TryMech(offered, Head(tries), "challenge", Untried(tries))
    \/ tries = <<>> /\ BuiltinFails(offered, err)

\* What follows the auth-request.
Resume(c) == [c EXCEPT !.pc = IF client.session THEN "response" ELSE "reposinfo",
                       !.mech = NoMech, !.offered = {}]
Authenticated == client' = Resume(client) /\ UNCHANGED <<toServer, results>>

\* A failure in place of what is expected, or what cannot be understood.
Otherwise(expected) ==
    /\ Item \notin expected
    /\ Fails(IF Item = "failure" THEN "server" ELSE "protocol")

\* handle_auth_request: no mechanism means that nothing is asked.
ReadAuthRequest ==
    /\ client.pc = "authrequest" /\ buf # <<>> /\ Took
    /\ LET offered == Head(buf).mechs IN
       \/ Item = "auth" /\ offered = {} /\ Authenticated
       \/ /\ Item = "auth" /\ offered # {}
          /\ NextMech(offered, SelectMechs(offered), "unavailable")
       \/ Otherwise({"auth"})

\* The loop of handle_auth_request_builtin.  Only CRAM-MD5 has a second step.
ReadChallenge ==
    /\ client.pc = "challenge" /\ buf # <<>> /\ Took
    /\ \/ /\ Item = "step" /\ client.mech = "CRAM-MD5"
          /\ Write("reply") /\ UNCHANGED <<client, results>>
       \/ Item = "success" /\ Authenticated
       \/ Item = "failure" /\ NextMech(client.offered, client.tries, "failed")
       \/ Item = "step" /\ client.mech # "CRAM-MD5" /\ Fails("protocol")

\* Mutant: what is in the buffer stays as it was read.
KeepRead(rest) == rest

\* What was read past the success is decoded when the layer goes on.
DecodeRest(rest) == [i \in DOMAIN rest |-> Decoded(rest[i])]

\* The exchange is over: ssf() says whether there is a layer.
SaslDone ==
    /\ client' = [Resume(client) EXCEPT !.layer = @ \/ server.layer]
    /\ buf' = IF server.layer THEN DecodeRest(Tail(buf)) ELSE Tail(buf)
    /\ UNCHANGED <<config, server, toServer, toClient, results>>

\* client_step: DIGEST-MD5 wants to see the data that comes with the success,
\* the other mechanisms are content after their reply.
SaslStep ==
    /\ Item = "step" /\ client.more /\ Took /\ Write("reply")
    /\ client' = [client EXCEPT !.more = client.mech = "DIGEST-MD5"]
    /\ UNCHANGED results

\* client_step has no credentials to answer with, or does not like the challenge.
\* Nothing is written, and the server goes on waiting for a reply.
SaslGivesUp == Item = "step" /\ client.more /\ Took /\ Fails("failed")

ReadSasl ==
    /\ client.pc = "sasl" /\ buf # <<>>
    /\ \/ SaslStep \/ SaslGivesUp
       \/ Item = "success" /\ SaslDone
       \/ Item = "failure" /\ Took /\ Fails("failed")
       \/ Item = "step" /\ ~client.more /\ Took /\ Fails("protocol")

-----------------------------------------------------------------------------
(* handshake.rs, call.rs.                                                  *)

\* The greeting must allow version 2 and know edit-pipeline.
ReadGreeting ==
    /\ client.pc = "greeting" /\ buf # <<>> /\ Took
    /\ \/ /\ Item = "greeting" /\ Write("response")
          /\ client' = [client EXCEPT !.pc = "authrequest"] /\ UNCHANGED results
       \/ Otherwise({"greeting"})

ReadReposInfo ==
    /\ client.pc = "reposinfo" /\ buf # <<>> /\ Took
    /\ \/ /\ Item = "reposinfo" /\ Done("ok") /\ UNCHANGED toServer
          /\ client' = [client EXCEPT !.pc = "ready", !.session = TRUE]
       \/ Otherwise({"reposinfo"})

\* send_command.
SendCommand ==
    /\ client.pc = "ready" /\ Len(results) <= MaxCommands
    /\ Write("command")
    /\ client' = [client EXCEPT !.pc = "authrequest"]
    /\ UNCHANGED <<config, server, toClient, buf, results>>

ReadResponse ==
    /\ client.pc = "response" /\ buf # <<>> /\ Took
    /\ \/ /\ Item = "success" /\ Done("ok") /\ UNCHANGED toServer
          /\ client' = [client EXCEPT !.pc = "ready"]
       \/ Otherwise({"success"})

Waiting == client.pc \notin {"ready", "gone"} /\ buf = <<>> /\ toClient = <<>>

ReadEof ==
    /\ Waiting /\ server.pc = "closed" /\ Fails("eof")
    /\ UNCHANGED <<config, server, toClient, buf>>

ReadTimeout ==
    /\ "timeout" \in Faults /\ Waiting /\ server.pc # "closed" /\ Fails("timeout")
    /\ UNCHANGED <<config, server, toClient, buf>>

-----------------------------------------------------------------------------
(* svnserve.                                                               *)

Says(kinds) ==
    toClient' = toClient \o [i \in DOMAIN kinds |-> Msg(kinds[i], server.layer)]
AuthRequest(offered) == [Msg("auth", server.layer) EXCEPT !.mechs = offered]
Quiet == UNCHANGED <<config, client, buf, results>>

Greet ==
    /\ server.pc = "greet" /\ UNCHANGED toServer /\ Quiet
    /\ \/ /\ Says(<<"greeting">>) /\ server' = [server EXCEPT !.pc = "response"]
       \/ /\ "version" \in Faults /\ Says(<<"oldgreeting">>)
          /\ server' = [server EXCEPT !.pc = "response", !.odd = TRUE]

\* The next message, if it can be read under the server's layer.
Read(kinds) ==
    /\ toServer # <<>> /\ Head(toServer).layer = server.layer
    /\ Head(toServer).kind \in kinds
    /\ toServer' = Tail(toServer) /\ Quiet

\* What follows once nobody has to be asked any more.
Then == IF server.session THEN <<"success">> ELSE <<"reposinfo">>

ReadClientResponse ==
    /\ server.pc = "response" /\ Read({"response"})
    /\ \E offered \in Offers :
         /\ server' = [server EXCEPT !.offered = offered,
                          !.pc = IF offered = {} THEN "command" ELSE "mech"]
         /\ toClient' = toClient \o <<AuthRequest(offered)>>
               \o (IF offered = {} THEN <<Msg("reposinfo", FALSE)>> ELSE <<>>)

\* An anonymous client may be asked again when a command needs a user.
ReadCommand ==
    /\ server.pc = "command" /\ Read({"command"})
    /\ \/ /\ server' = [server EXCEPT !.offered = {}, !.session = TRUE]
          /\ \E answer \in {"success", "failure"} :
               toClient' = toClient \o <<AuthRequest({}), Msg(answer, server.layer)>>
       \/ /\ "again" \in Faults /\ server.user # "user"
          /\ \E offered \in Offers \ {{}} :
               /\ server' = [server EXCEPT !.offered = offered, !.session = TRUE,
                                           !.refused = {}, !.pc = "mech"]
               /\ toClient' = Append(toClient, AuthRequest(offered))

\* The user is known; with DIGEST-MD5 all that follows may be under a layer.
Accept(mech) ==
    \E layer \in {server.layer, mech = "DIGEST-MD5" /\ "layer" \in Faults} :
       /\ server' = [server EXCEPT !.pc = "command", !.layer = layer,
                        !.user = IF mech = "ANONYMOUS" THEN "anonymous" ELSE "user"]
       /\ toClient' = Append(toClient, Msg("success", server.layer))
                         \o [i \in DOMAIN Then |-> Msg(Then[i], layer)]

\* svnserve waits for another mechanism after a failure.
Refuse(mech) ==
    /\ server' = [server EXCEPT !.pc = "mech", !.refused = @ \cup {mech}]
    /\ Says(<<"failure">>)

ReadMech ==
    /\ server.pc = "mech" /\ Read(Mechs \cup {"command"})
    /\ LET mech == Head(toServer).kind IN
       \/ mech \notin server.offered /\ Refuse(mech)
       \/ /\ mech \in server.offered \ {"CRAM-MD5", "DIGEST-MD5"}
          /\ \/ Accept(mech) \/ Refuse(mech)
             \/ /\ "noise" \in Faults /\ Says(<<"step">>)
                /\ server' = [server EXCEPT !.odd = TRUE]
       \/ /\ mech \in server.offered \cap {"CRAM-MD5", "DIGEST-MD5"}
          /\ server' = [server EXCEPT !.pc = "reply", !.mech = mech]
          /\ Says(<<"step">>)

\* A command in place of the reply is refused like a wrong one, or the server
\* hangs up on it.
ReadReply ==
    /\ server.pc = "reply" /\ Read({"reply", "command"})
    /\ \/ Head(toServer).kind = "reply" /\ Accept(server.mech)
       \/ Refuse(server.mech)
       \/ /\ Head(toServer).kind = "command"
          /\ server' = [server EXCEPT !.pc = "closed"] /\ UNCHANGED toClient

\* The server hangs up.
Close ==
    /\ "eof" \in Faults /\ server.pc # "closed"
    /\ server' = [server EXCEPT !.pc = "closed"]
    /\ toServer' = <<>> /\ UNCHANGED toClient /\ Quiet

-----------------------------------------------------------------------------

Init ==
    /\ config \in Configs
    /\ client = [pc |-> "greeting", session |-> FALSE, mech |-> NoMech, tries |-> <<>>,
                 offered |-> {}, more |-> FALSE, layer |-> FALSE]
    /\ server = [pc |-> "greet", session |-> FALSE, offered |-> {}, mech |-> NoMech,
                 user |-> NoMech, layer |-> FALSE, refused |-> {},
                 odd |-> FALSE]
    /\ toServer = <<>> /\ toClient = <<>> /\ buf = <<>> /\ results = <<>>

Progress ==
    \/ Fill \/ ReadGreeting \/ ReadAuthRequest \/ ReadChallenge \/ ReadSasl
    \/ ReadReposInfo \/ ReadResponse \/ ReadEof \/ ReadTimeout

Next ==
    \/ Progress \/ SendCommand
    \/ Greet \/ ReadClientResponse \/ ReadCommand \/ ReadMech \/ ReadReply \/ Close

\* The client is polled, and every wait in it has a timeout.
Spec == Init /\ [][Next]_vars /\ WF_vars(Progress)

-----------------------------------------------------------------------------
(* Properties.                                                             *)

ToClientKinds == {"greeting", "oldgreeting", "auth", "step", "success", "failure",
                  "reposinfo", "noise"}
ToServerKinds == Mechs \cup {"response", "reply", "command"}
Messages(kinds) == [kind : kinds, layer : BOOLEAN, mechs : SUBSET Mechs]

\* The shape of the state.
TypeOK ==
    /\ config \in Configs
    /\ toServer \in Seq(Messages(ToServerKinds))
    /\ toClient \in Seq(Messages(ToClientKinds)) /\ buf \in Seq(Messages(ToClientKinds))
    /\ client.offered \subseteq Mechs /\ server.offered \subseteq Mechs
    /\ client.pc = "challenge" => ToSet(client.tries) \subseteq client.offered
    /\ \A i \in DOMAIN results :
         results[i] \in {"ok", "server", "protocol", "eof", "timeout"} \cup AuthErrors

AuthRefused == \E i \in DOMAIN results : results[i] \in AuthErrors

\* A connection that is at rest, and on which no authentication has failed, is
\* at rest on both sides: the server waits for a command, nothing is under
\* way or left in the buffer, and both use the same layer.
AtRestTogether ==
    client.pc = "ready" /\ ~AuthRefused /\ server.pc # "closed"
        => /\ server.pc = "command" /\ client.layer = server.layer
           /\ toServer = <<>> /\ toClient = <<>> /\ buf = <<>>

\* A server that has followed the protocol and is not too old is never
\* misunderstood, whatever one read of the socket brings.
NeverMisread ==
    ~server.odd => \A i \in DOMAIN results : results[i] # "protocol"

\* Client and server agree on what is said and on whose turn it is.
InStep == TypeOK /\ NeverMisread /\ AtRestTogether

\* The password itself is written only to a server that does not offer
\* CRAM-MD5, or has refused it in this exchange.
PasswordLast ==
    \A i \in DOMAIN toServer : toServer[i].kind = "PLAIN" =>
        "CRAM-MD5" \notin client.offered \/ "CRAM-MD5" \in server.refused

\* The built-in mechanisms by which the server learns who the user is, as far as
\* the client can use them.
NamesTheUser ==
    (IF config.creds THEN {"CRAM-MD5", "PLAIN"} ELSE {})
    \cup (IF config.tunnel THEN {"EXTERNAL"} ELSE {})

\* A client is taken as anonymous only after the server has refused every built-in
\* mechanism it offers by which this client can say who the user is.  DIGEST-MD5,
\* which a client has through SASL, is not among them: where ANONYMOUS is
\* offered it is never tried (select_mechs, handle_auth_request_cyrus_sasl).
AnonymousLast ==
    server.user = "anonymous" /\ server.pc = "command" /\ server.offered # {}
        => server.offered \cap NamesTheUser \subseteq server.refused

\* The built-in mechanisms are tried from the strongest to the weakest, over the
\* refusals of a server and over the repeated requests of later commands.
WeakestLast == PasswordLast /\ AnonymousLast

\* However many mechanisms are refused, an exchange ends.
ExchangeEnds ==
    client.pc \in {"challenge", "sasl", "authrequest"}
        ~> client.pc \in {"ready", "gone", "reposinfo", "response"}

==============================================================================
