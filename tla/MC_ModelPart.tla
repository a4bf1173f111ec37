---------------------------- MODULE MC_ModelPart ----------------------------
EXTENDS ModelPart

(* The name of the interface model part, "interface" shortened to two     *)
(* characters.                                                            *)
InterfaceName == <<"i", "f">>
=============================================================================
