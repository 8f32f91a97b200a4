---------------------------- MODULE MCUserDirectory ----------------------------
(* The instance of UserDirectory that Users.cfg gives: its constants are all model values. *)
EXTENDS UserDirectory
=============================================================================
