------------------------------ MODULE DomainClaims ------------------------------
(***************************************************************************)
(* What the dashboard promises of custom domains (domains.py): a host has at *)
(* most one holder, only a holder's host is served, and a host in service     *)
(* goes to somebody else only after its holder gave it up or let go of it, or  *)
(* when somebody had set an eye on the claim while it was out of service.       *)
(* CustomDomains, with its threads, rows and calls, implements this.           *)
(***************************************************************************)
CONSTANTS Tenants, Hosts, Nobody

VARIABLES
    holder,     \* by host: the tenant whose claim it is, or Nobody
    served,     \* hosts in service for their holders
    eyed        \* hosts whose claim somebody else saw out of service and will take

claims == <<holder, served, eyed>>

ClaimsInit == holder = [h \in Hosts |-> Nobody] /\ served = {} /\ eyed = {}

\* A claim is seen in vain; and it may be forgotten again.
SetEye(h) == h \notin served /\ eyed' = eyed \cup {h} /\ UNCHANGED <<holder, served>>
Forget(h) == eyed' = eyed \ {h} /\ UNCHANGED <<holder, served>>

\* A host nobody is served under, free or claimed in vain by another tenant;
\* or the claim it was seen with is taken, though it is served by now.
Claim(t, h) ==
    /\ h \notin served \/ h \in eyed
    /\ holder[h] # t
    /\ holder' = [holder EXCEPT ![h] = t]
    /\ served' = served \ {h}
    /\ eyed' = eyed \ {h}

Serve(h) ==
    /\ holder[h] # Nobody
    /\ served' = served \cup {h}
    /\ UNCHANGED <<holder, eyed>>

\* DNS stayed elsewhere, or the domain is set up anew; the claim stays.
GiveUp(h) == served' = served \ {h} /\ UNCHANGED <<holder, eyed>>

\* t removes a domain, or is purged with all of its domains.
LetGo(t, hosts) ==
    /\ \A h \in hosts : holder[h] = t
    /\ holder' = [h \in Hosts |-> IF h \in hosts THEN Nobody ELSE holder[h]]
    /\ served' = served \ hosts
    /\ eyed' = eyed \ hosts

\* A restart forgets every request.
ForgetAll == eyed' = {} /\ UNCHANGED <<holder, served>>

ClaimsNext ==
    \/ \E t \in Tenants, h \in Hosts : Claim(t, h)
    \/ \E h \in Hosts : SetEye(h) \/ Forget(h) \/ Serve(h) \/ GiveUp(h)
    \/ \E t \in Tenants, hosts \in SUBSET Hosts : LetGo(t, hosts)
    \/ ForgetAll

ClaimsSpec == ClaimsInit /\ [][ClaimsNext]_claims

=============================================================================
