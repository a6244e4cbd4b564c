--------------------------- MODULE MCTenantLifecycle ---------------------------
(* TenantLifecycle on small instances. *)
EXTENDS TenantLifecycle
=============================================================================
