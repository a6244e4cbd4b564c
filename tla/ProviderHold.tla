---------------------------- MODULE ProviderHold ----------------------------
(***************************************************************************)
(* TenantLifecycle with a history variable: held is the subscriptions the  *)
(* customer had bought when a provider admin suspended the tenant, and     *)
(* empty again once an admin asks for its reactivation or cancels it.      *)
(***************************************************************************)
EXTENDS TenantLifecycle

VARIABLE held

holdVars == <<vars, held>>

Bought == {sub \in Subs : stripe.status[sub] # "none"}

ProviderReopens ==
    /\ tenant'.status \in Open
    /\ job.by = "provider" \/ (queue # <<>> /\ queue' = Tail(queue) /\ Head(queue).by = "provider")

HoldInit == Init /\ held = {}

HoldNext ==
    /\ Next
    /\ held' = IF Suspend THEN Bought
               ELSE IF ProviderReopens \/ CancelSubscription THEN {}
               ELSE held

HoldSpec == HoldInit /\ [][HoldNext]_holdVars

\* TENANCY.md: "A provider's suspension is never lifted by a payment": the tenant
\* isn't open by a subscription the customer bought after it.
ProviderSuspensionStands == held # {} /\ tenant.status \in Open => bs.sub \in held

=============================================================================
