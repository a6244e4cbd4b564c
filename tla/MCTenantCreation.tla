--------------------------- MODULE MCTenantCreation ---------------------------
(* TenantCreation on a small instance: the values are in the .cfg files. *)
EXTENDS TenantCreation

=============================================================================
