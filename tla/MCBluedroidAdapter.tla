------------------------ MODULE MCBluedroidAdapter ------------------------
(* An instance of BluedroidAdapter for TLC. *)
EXTENDS BluedroidAdapter, MCBluedroid
=============================================================================
