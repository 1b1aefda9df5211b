---------------------------- MODULE MCHandshake ----------------------------
(***************************************************************************)
(* Small instances of Handshake.                                           *)
(***************************************************************************)
EXTENDS Handshake

AllOffers == SUBSET Mechs
AllConfigs == [creds : BOOLEAN, tunnel : BOOLEAN, sasl : BOOLEAN]
==============================================================================
