---------------------------- MODULE MCCustomDomains ----------------------------
(* CustomDomains on a small instance: the values are in the .cfg files. *)
EXTENDS CustomDomains

=============================================================================
