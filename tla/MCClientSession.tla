-------------------------- MODULE MCClientSession --------------------------
(***************************************************************************)
(* Instances of the client.                                                *)
(***************************************************************************)
EXTENDS ClientProperties
=============================================================================
