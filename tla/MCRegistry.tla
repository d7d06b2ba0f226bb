------------------------------ MODULE MCRegistry ------------------------------
(***************************************************************************)
(* BridgeRegistry with variables of one name, in the root and in objects.  *)
(***************************************************************************)
EXTENDS RegistryProperties

Lengths == [x |-> 1]
=============================================================================
