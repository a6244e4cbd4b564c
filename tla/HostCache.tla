------------------------------ MODULE HostCache ------------------------------
(***************************************************************************)
(* Which tenant a request belongs to, and what a closed tenant still        *)
(* answers (tenancy.py).  The middleware resolves one request after the     *)
(* other on the event loop, reading through a cache of TTL seconds, while   *)
(* threads (console, jobs, maintenance) change tenants and domains and      *)
(* empty the cache afterwards: a read that began before the change may be   *)
(* stored after the cache was emptied.                                      *)
(*                                                                          *)
(* Left out: the hosts of the console and of the public site, which are     *)
(* matched before the cache; the addresses the console admits; the cache's  *)
(* limit of 1000 hosts.                                                     *)
(***************************************************************************)
EXTENDS Integers

CONSTANTS
    Hosts,      \* names a web domain may have
    RelayHost,  \* the name of the first tenant's relay
    Tenants,
    First,      \* tenant #1, of the legacy listener
    Nobody,     \* no tenant
    TTL         \* ticks an entry is used

ASSUME HostAssumption == TTL \in Nat \ {0} /\ First \in Tenants /\ Nobody \notin Tenants

VARIABLES
    owner,      \* by host: the tenant whose domain it is, served
    status,     \* of each tenant; "unpaid" is suspended by billing
    stored,     \* the cache: by key, an answer and the ticks since its stamp
    request,    \* the request being resolved
    changing,   \* threads that have committed and not emptied the cache yet
    closedFor,  \* ticks since the tenant was open
    movedFor    \* by host and tenant: ticks since the host was its

hostVars == <<owner, status, stored, request, changing, closedFor, movedFor>>

Open == {"active"}
Statuses == Open \cup {"suspended", "unpaid", "cancelled"}
Paths == {"page", "device", "billing", "export"}
Stages == {"web", "relay", "legacy"}
Keys == {<<"web", h>> : h \in Hosts \cup {RelayHost}} \cup {<<"relay", h>> : h \in Hosts \cup {RelayHost}}
            \cup {<<"legacy", First>>}

Answers == [tenant : Tenants \cup {Nobody}, status : Statuses]
Unknown == [tenant |-> Nobody, status |-> "cancelled"]
Long == 2 * TTL  \* ages are counted up to here
Empty == [age |-> TTL, answer |-> Unknown]
NoRequest == [at |-> "none", stage |-> "web", host |-> RelayHost, path |-> "page", old |-> FALSE, found |-> Nobody,
              answer |-> Unknown, age |-> 0, stamp |-> 0]

HostInit ==
    /\ owner = [h \in Hosts |-> First]
    /\ status = [t \in Tenants |-> "active"]
    /\ stored = [k \in Keys |-> Empty]
    /\ request = NoRequest
    /\ changing = FALSE
    /\ closedFor = [t \in Tenants |-> 0]
    /\ movedFor = [h \in Hosts |-> [t \in Tenants |-> IF t = First THEN 0 ELSE Long]]

HostTypeOK ==
    /\ owner \in [Hosts -> Tenants \cup {Nobody}]
    /\ status \in [Tenants -> Statuses]
    /\ stored \in [Keys -> [age : 0 .. TTL, answer : Answers]]
    /\ request \in [at : {"none", "look", "read", "load", "store", "answer"}, stage : Stages,
                    host : Hosts \cup {RelayHost}, path : Paths, old : BOOLEAN, found : Tenants \cup {Nobody},
                    answer : Answers, age : 0 .. Long, stamp : 0 .. Long]
    /\ changing \in BOOLEAN
    /\ closedFor \in [Tenants -> 0 .. Long]
    /\ movedFor \in [Hosts -> [Tenants -> 0 .. Long]]

-----------------------------------------------------------------------------
(* What changes, in other threads. *)

\* A tenant is suspended, cancelled, or opened again.
SetStatus(t, s) ==
    /\ ~changing /\ status[t] # s
    /\ status' = [status EXCEPT ![t] = s]
    /\ closedFor' = [closedFor EXCEPT ![t] = IF s \in Open THEN 0 ELSE @]
    /\ changing' = TRUE
    /\ UNCHANGED <<owner, stored, request, movedFor>>

\* A domain is served, is given up, or goes to another tenant.
Move(h, t) ==
    /\ ~changing /\ owner[h] # t
    /\ owner' = [owner EXCEPT ![h] = t]
    /\ movedFor' = [movedFor EXCEPT ![h] = [x \in Tenants |-> IF x \in {t, owner[h]} THEN 0 ELSE @[x]]]
    /\ changing' = TRUE
    /\ UNCHANGED <<status, stored, request, closedFor>>

\* invalidate_cache, when the change is committed.
Invalidate ==
    /\ changing /\ changing' = FALSE
    /\ stored' = [k \in Keys |-> Empty]
    /\ UNCHANGED <<owner, status, request, closedFor, movedFor>>

-----------------------------------------------------------------------------
(* Resolving. *)

\* A request comes in, for a path of one kind, through the legacy listener or not.
Request(h, path, old) ==
    /\ request.at = "none" /\ (old => path = "device")
    /\ request' = [NoRequest EXCEPT !.at = "look", !.host = h, !.path = path, !.old = old]
    /\ UNCHANGED <<owner, status, stored, changing, closedFor, movedFor>>

Key == IF request.stage = "legacy" THEN <<"legacy", First>> ELSE <<request.stage, request.host>>

\* resolve_host, resolve_relay_host, legacy_tenant: an entry younger than the TTL answers.
Hit ==
    /\ request.at = "look" /\ stored[Key].age < TTL
    /\ request' = [request EXCEPT !.at = "answer", !.answer = stored[Key].answer]
    /\ UNCHANGED <<owner, status, stored, changing, closedFor, movedFor>>

\* ... else the time is noted before anything is read.
Miss ==
    /\ request.at = "look" /\ stored[Key].age >= TTL
    /\ request' = [request EXCEPT !.at = "read", !.stamp = 0]
    /\ UNCHANGED <<owner, status, stored, changing, closedFor, movedFor>>

\* The row that names the tenant: of the domains, of the relays, or none is needed.
Named ==
    CASE request.stage = "web" -> IF request.host \in Hosts THEN owner[request.host] ELSE Nobody
      [] request.stage = "relay" -> IF request.host = RelayHost THEN First ELSE Nobody
      [] request.stage = "legacy" -> First

ReadName ==
    /\ request.at = "read"
    /\ request' = [request EXCEPT !.at = "load", !.found = Named]
    /\ UNCHANGED <<owner, status, stored, changing, closedFor, movedFor>>

\* _load, in a statement of its own.
LoadTenant ==
    /\ request.at = "load"
    /\ request' = [request EXCEPT !.at = "store", !.found = Nobody,
                                  !.answer = IF request.found = Nobody THEN Unknown
                                             ELSE [tenant |-> request.found, status |-> status[request.found]]]
    /\ UNCHANGED <<owner, status, stored, changing, closedFor, movedFor>>

\* Mutant: stamped when it is stored.
StampedLate == 0

\* The age of what is stored: counted from before it was read.
Stamp == request.stamp

Store ==
    /\ request.at = "store"
    /\ stored' = [stored EXCEPT ![Key] = IF Stamp < TTL THEN [age |-> Stamp, answer |-> request.answer] ELSE Empty]
    /\ request' = [request EXCEPT !.at = "answer", !.stamp = 0]
    /\ UNCHANGED <<owner, status, changing, closedFor, movedFor>>

\* tenant_for_request: a device's report may also name the relay, or come in on the legacy listener.
NextStage ==
    /\ request.at = "answer" /\ request.answer.tenant = Nobody /\ request.path = "device"
    /\ \/ request.stage = "web" /\ request' = [request EXCEPT !.at = "look", !.stage = "relay"]
       \/ request.stage = "relay" /\ request.old /\ request' = [request EXCEPT !.at = "look", !.stage = "legacy"]
    /\ UNCHANGED <<owner, status, stored, changing, closedFor, movedFor>>

-----------------------------------------------------------------------------
(* TenantMiddleware.  A device's report always goes through, with its tenant or without. *)

Leave == request' = NoRequest /\ UNCHANGED <<owner, status, stored, changing, closedFor, movedFor>>
Resolved == request.at = "answer" /\ (request.answer.tenant = Nobody => request.path # "device")

\* _export_allowed, _billing_allowed: what a closed tenant still answers.
Allowed(s, path) == (s = "cancelled" /\ path = "export") \/ (s = "unpaid" /\ path = "billing")

NotFound == Resolved /\ request.answer.tenant = Nobody /\ Leave
Inactive ==
    /\ Resolved /\ request.answer.tenant # Nobody /\ request.path # "device"
    /\ request.answer.status \notin Open /\ ~Allowed(request.answer.status, request.path)
    /\ Leave
Serve ==
    /\ Resolved /\ request.answer.tenant # Nobody
    /\ \/ request.path = "device" \/ request.answer.status \in Open
       \/ Allowed(request.answer.status, request.path)
    /\ Leave
Unmatched ==
    /\ request.at = "answer" /\ request.answer.tenant = Nobody /\ request.path = "device"
    /\ request.stage = "legacy" \/ (request.stage = "relay" /\ ~request.old)
    /\ Leave

\* A tick: an entry expires, and what is running grows older.
Grown(n, limit) == IF n < limit THEN n + 1 ELSE n
HostTick ==
    /\ stored' = [k \in Keys |-> IF stored[k].age < TTL - 1 THEN [stored[k] EXCEPT !.age = @ + 1] ELSE Empty]
    /\ request' = IF request.at = "none" THEN request
                  ELSE [request EXCEPT !.age = Grown(@, Long),
                                       !.stamp = IF request.at \in {"read", "load", "store"} THEN Grown(@, Long) ELSE 0]
    /\ closedFor' = [t \in Tenants |-> IF status[t] \in Open THEN 0 ELSE Grown(closedFor[t], Long)]
    /\ movedFor' = [h \in Hosts |-> [t \in Tenants |-> IF owner[h] = t THEN 0 ELSE Grown(movedFor[h][t], Long)]]
    /\ UNCHANGED <<owner, status, changing>>

HostNext ==
    \/ \E t \in Tenants, s \in Statuses : SetStatus(t, s)
    \/ \E h \in Hosts, t \in Tenants \cup {Nobody} : Move(h, t)
    \/ Invalidate
    \/ \E h \in Hosts \cup {RelayHost}, path \in Paths, old \in BOOLEAN : Request(h, path, old)
    \/ Hit \/ Miss \/ ReadName \/ LoadTenant \/ Store \/ NextStage
    \/ NotFound \/ Inactive \/ Serve \/ Unmatched
    \/ HostTick

HostSpec == HostInit /\ [][HostNext]_hostVars

-----------------------------------------------------------------------------
(* Properties. *)

\* At most the cache's seconds after a tenant was closed, or a name taken from it, and the time the request itself
\* has run, is a page of it served under that name, beyond what a closed tenant answers: also when what was read
\* before the change is stored after the cache was emptied (resolve_host, TenantMiddleware).  Of requests that
\* run for longer than the cache's seconds nothing is said.
StaleAtMostTTL ==
    [][Serve /\ request.age < TTL /\ request.path # "device" =>
        LET t == request.answer.tenant
            limit == TTL + request.age
        IN  /\ closedFor[t] >= limit => Allowed(status[t], request.path) \/ Allowed(request.answer.status, request.path)
            /\ request.host \in Hosts /\ movedFor[request.host][t] < limit]_hostVars
=============================================================================
