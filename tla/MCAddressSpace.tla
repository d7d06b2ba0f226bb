---------------------------- MODULE MCAddressSpace ----------------------------
(***************************************************************************)
(* AddressSpace with two objects, one below the other, or both in the      *)
(* folder.                                                                 *)
(***************************************************************************)
EXTENDS AddressProperties

Links == {<<Folder, "Organizes", "a">>, <<Folder, "Organizes", "b">>, <<"a", "Organizes", "b">>,
          <<"a", "Organizes", Type>>}
Descriptions == {[node |-> Folder, direction |-> "forward", types |-> {"Organizes"}],
                 [node |-> "b", direction |-> "both", types |-> RefType]}
=============================================================================
