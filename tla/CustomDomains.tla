----------------------------- MODULE CustomDomains -----------------------------
(***************************************************************************)
(* Tenants' custom domains (domains.py): added by a tenant, checked against *)
(* DNS, given a certificate and a vhost by rdf-helper, re-checked daily,    *)
(* released when DNS stays elsewhere, removed by the tenant or the          *)
(* provider, claimed by another tenant once given up on.                    *)
(*                                                                          *)
(* Three kinds of threads: request handlers, which read a row and then      *)
(* write (one request of each tenant at a time; removals are one step), the *)
(* custom-domains thread, and the jobs worker purging a tenant.  The last   *)
(* two are out at dig or rdf-helper for seconds to minutes, and write       *)
(* afterwards to rows they read before.                                     *)
(*                                                                          *)
(* Left out: mails, messages, guides, the expiry dates of certificates, and *)
(* the resolution of hosts (HostCache).  Who DNS points at is one fact; how *)
(* it follows from the records is in DomainCheck.                           *)
(***************************************************************************)
EXTENDS Integers, FiniteSets

CONSTANTS
    Tenants,            \* ids of tenants
    Hosts,              \* custom host names
    MaxDomains,         \* settings.max_custom_domains
    PendingDays, BrokenDays,            \* PENDING_DAYS, BROKEN_DAYS
    CheckEvery, IssueEvery, HealthEvery, RetryEvery,    \* CHECK_EVERY_MIN, ISSUE_EVERY_MIN, HEALTH_EVERY_H, 1 h
    MaxIssueFailures,   \* MAX_ISSUE_FAILURES
    MaxId, MaxTime,     \* bounds on rows ever added and on the clock
    MaxDisturbances     \* bound on clicks, DNS changes, failed calls, restarts

ASSUME NamesAssumption == "none" \notin Tenants \cup Hosts /\ "home" \notin Hosts
ASSUME NumbersAssumption ==
    /\ {MaxDomains, CheckEvery, IssueEvery, HealthEvery, RetryEvery, MaxId, MaxTime, MaxDisturbances} \subseteq Nat
    /\ {PendingDays, BrokenDays, MaxIssueFailures} \subseteq Nat \ {0}

VARIABLES
    status,     \* by tenant: "open" (trial, active), "closed", "purged"
    row,        \* by host: its tenant_domains row, or NoRow
    lastId,     \* the row id given out last (AUTOINCREMENT)
    primary,    \* by tenant: the host whose row has is_primary = 1
    dns,        \* by host: the tenant it is a CNAME for, or the row whose token its TXT record holds
    vhost,      \* hosts with a server block
    cert,       \* hosts with a certificate
    worker,     \* the custom-domains thread
    purge,      \* the jobs worker, purging a tenant
    page,       \* by tenant: what a request of its page has read and will act on
    proved,     \* history: rows whose domain pointed at their tenant when the vhost was written
    late,       \* history: rows a request wrote to from what they were when it read them
    now, spent

web == <<vhost, cert>>
vars == <<status, row, lastId, primary, dns, web, worker, purge, page, proved, late, now, spent>>

None == "none"
Home == "home"
Never == -1
NotDue == MaxTime + 1

NoRow == [id |-> 0, tenant |-> None, status |-> "failed", created |-> 0, until |-> 0, next |-> NotDue,
          checked |-> Never, failures |-> 0, lastIssue |-> Never, broken |-> Never, verified |-> FALSE,
          removing |-> FALSE]
Idle == [at |-> "idle", t |-> 0, todo |-> {}, kind |-> None, host |-> None, row |-> NoRow,
         primary |-> FALSE]
NoDns == [to |-> None, token |-> 0]
NoPurge == [tenant |-> None, hosts |-> {}]
NoRequest == [act |-> "none", host |-> None, id |-> 0, was |-> FALSE]

Exists(h) == row[h].id # 0
Served(r) == r.status \in {"active", "dns_broken"}
Pending(r) == r.status \in {"verifying", "pending_dns", "issuing_certificate"}

Disturbance == /\ spent < MaxDisturbances
               /\ spent' = spent + 1

\* UPDATE ... WHERE id = r.id: the row, if it is still there.
Update(h, r, new) == row' = IF row[h].id = r.id THEN [row EXCEPT ![h] = new] ELSE row

-----------------------------------------------------------------------------
(* The tenant's page and the provider's. *)

\* is_released: given up on, or never verified within PENDING_DAYS.
Released(r) ==
    \/ r.status = "failed"
    \/ ~r.verified /\ Pending(r) /\ r.created < now - PendingDays

OwnedBy(t) == {h \in Hosts : Exists(h) /\ row[h].tenant = t}

\* A request reads the row it is about; "was" is what it will act on besides.
Asks(t, act, h, was) ==
    /\ Disturbance
    /\ status[t] = "open"
    /\ page[t] = NoRequest
    /\ page' = [page EXCEPT ![t] =
                   [act |-> act, host |-> h, id |-> IF h = Home THEN 0 ELSE row[h].id, was |-> was]]
    /\ UNCHANGED <<status, row, lastId, primary, dns, web, worker, purge, proved, late, now>>

Late(so, act, id) == late' = IF so THEN late \cup {<<act, id>>} ELSE late

Asked(t, act) == page[t].act = act /\ page' = [page EXCEPT ![t] = NoRequest]

\* domains.add: the host is free, or somebody else's stale claim ...
AskAdd(t, h) ==
    /\ Exists(h) => row[h].tenant # t /\ Released(row[h])
    /\ Asks(t, "add", h, FALSE)

\* Mutant: the stale claim is deleted by host name.
ClaimableByName(t) == Cardinality(OwnedBy(t)) < MaxDomains

\* The claim that was read is still that host's, or it has none; a host has one row.
Claimable(t) ==
    /\ Cardinality(OwnedBy(t)) < MaxDomains
    /\ Exists(page[t].host) => row[page[t].host].id = page[t].id

\* ... that claim's row goes, by its id and whatever it is by now, and a new one
\* comes, unless there is an error.
Add(t) ==
    LET h == page[t].host IN
    /\ Asked(t, "add")
    /\ \/ /\ Claimable(t)
          /\ lastId < MaxId
          /\ lastId' = lastId + 1
          /\ row' = [row EXCEPT ![h] = [NoRow EXCEPT !.id = lastId', !.tenant = t, !.status = "verifying", !.created = now,
                                                     !.until = now + PendingDays, !.next = now]]
          /\ primary' = [s \in Tenants |-> IF primary[s] = h THEN None ELSE primary[s]]
       \/ ~Claimable(t) /\ UNCHANGED <<lastId, row, primary>>
    /\ UNCHANGED <<status, dns, web, worker, purge, proved, late, now, spent>>

AskCheck(t, h) ==
    /\ ~row[h].removing
    /\ Asks(t, "check", h, Served(row[h]))

\* domains.check_now: a domain that wasn't served when it was read starts again.
CheckNow(t) ==
    LET h == page[t].host IN
    /\ Asked(t, "check")
    /\ Update(h, page[t],
              IF page[t].was THEN [row[h] EXCEPT !.next = now]
              ELSE [row[h] EXCEPT !.status = "verifying", !.next = now, !.until = now + PendingDays, !.failures = 0])
    /\ Late(row[h].id = page[t].id /\ ~page[t].was /\ Served(row[h]), "check", page[t].id)
    /\ UNCHANGED <<status, lastId, primary, dns, web, worker, purge, proved, now, spent>>

\* domains.make_primary, for a custom domain or the home host ...
AskPrimary(t, h) ==
    /\ h # Home => row[h].status = "active" /\ ~row[h].removing
    /\ Asks(t, "primary", h, FALSE)

\* ... _set_primary, if the row is still there, in whatever state.
MakePrimary(t) ==
    LET h == page[t].host
        there == h # Home /\ row[h].id = page[t].id IN
    /\ Asked(t, "primary")
    /\ primary' = [primary EXCEPT ![t] = IF h = Home \/ there THEN h ELSE None]
    /\ Late(there /\ row[h].removing, "primary", page[t].id)
    /\ UNCHANGED <<status, row, lastId, dns, web, worker, purge, proved, now, spent>>

\* Mutant: the links of a domain being removed stay on it.
NoFallBack(t, h, was) == UNCHANGED primary

\* Home, if h was t's primary when its row was read; and h is primary no more.
FallBack(t, h, was) ==
    primary' = [primary EXCEPT ![t] = CASE was /\ status[t] # "purged" -> Home
                                        [] @ = h -> None
                                        [] OTHER -> @]

\* domains.request_removal, by the tenant or the provider.  What it reads before
\* its UPDATE only tells whether the links go home or to no row, which is home too.
RequestRemoval(h) ==
    /\ Disturbance
    /\ Exists(h)
    /\ row' = [row EXCEPT ![h] = [@ EXCEPT !.removing = TRUE, !.next = now]]
    /\ FallBack(row[h].tenant, h, primary[row[h].tenant] = h)
    /\ UNCHANGED <<status, lastId, dns, web, worker, purge, page, proved, late, now>>

\* The provider's page, whatever the tenant's status.
ProviderRemoves(h) == RequestRemoval(h)

\* The tenant's page: domain_add, domain_check, domain_primary, domain_remove.
TenantActs(t) ==
    \/ \E h \in Hosts : AskAdd(t, h)
    \/ \E h \in OwnedBy(t) : AskCheck(t, h) \/ (status[t] = "open" /\ RequestRemoval(h))
    \/ \E h \in OwnedBy(t) \cup {Home} : AskPrimary(t, h)
    \/ Add(t) \/ CheckNow(t) \/ MakePrimary(t)

-----------------------------------------------------------------------------
(* The world: DNS, and the tenant's own life (TenantLifecycle). *)

ChangeDns(h) ==
    /\ Disturbance
    /\ \/ \E to \in Tenants \cup {None} : dns' = [dns EXCEPT ![h] = [NoDns EXCEPT !.to = to]]
       \/ dns' = [dns EXCEPT ![h] = [NoDns EXCEPT !.token = row[h].id]]
    /\ UNCHANGED <<status, row, lastId, primary, web, worker, purge, page, proved, late, now>>

OpenOrClose(t) ==
    /\ Disturbance
    /\ purge.tenant # t
    /\ \/ status[t] = "open" /\ status' = [status EXCEPT ![t] = "closed"]
       \/ status[t] = "closed" /\ status' = [status EXCEPT ![t] = "open"]
    /\ UNCHANGED <<row, lastId, primary, dns, web, worker, purge, page, proved, late, now>>

-----------------------------------------------------------------------------
(* rdf-helper. *)

\* check_domain for row r of host h
Points(h, r) == dns[h].to = r.tenant \/ (dns[h].token = r.id /\ r.id # 0)

\* check_web_host: the helper reads the row of that name for itself.
Known(h, anyStatus) == Exists(h) /\ (anyStatus \/ status[row[h].tenant] = "open")

\* Mutant: the helper takes the dashboard's word for the DNS.
KnownIsEnough(h) == Known(h, FALSE)

PointsNow(h) == Known(h, FALSE) /\ Points(h, row[h])

\* release_domain; failing, it may already have removed the vhost.
Release(h) ==
    /\ Known(h, TRUE)
    /\ vhost' = vhost \ {h} /\ cert' = cert \ {h}

ReleaseFails(h) ==
    \/ ~Known(h, TRUE) /\ UNCHANGED <<web, spent>>
    \/ Disturbance /\ vhost' \in {vhost, vhost \ {h}} /\ UNCHANGED cert

-----------------------------------------------------------------------------
(* The custom-domains thread: run_due. *)

Item(kind, h) == [kind |-> kind, host |-> h, id |-> row[h].id, tenant |-> row[h].tenant]

\* Mutant: a removal is taken up when its next check is due.
ToRemoveByNext == {h \in Hosts : Exists(h) /\ row[h].removing /\ row[h].next <= now}

ToRemove == {h \in Hosts : Exists(h) /\ row[h].removing}

\* What is due when it wakes up.
Due ==
    {Item("remove", h) : h \in ToRemove}
    \cup {Item("check", h) : h \in {g \in Hosts : /\ Exists(g) /\ ~row[g].removing
                                                  /\ Pending(row[g]) /\ row[g].next <= now}}
    \cup {Item("health", h) : h \in {g \in Hosts : /\ Exists(g) /\ ~row[g].removing /\ Served(row[g])
                                                   /\ (row[g].checked <= now - HealthEvery \/ row[g].next <= now)}}

Wake ==
    /\ worker.at = "idle"
    /\ Due # {}
    /\ worker' = [Idle EXCEPT !.at = "next", !.t = now, !.todo = Due]
    /\ UNCHANGED <<status, row, lastId, primary, dns, web, purge, page, proved, late, now, spent>>

\* The next item: removals first, then checks, then served domains.
First(item) ==
    /\ item \in worker.todo
    /\ item.kind = "check" => \A i \in worker.todo : i.kind # "remove"
    /\ item.kind = "health" => \A i \in worker.todo : i.kind = "health"

NextItem(rest) == worker' = IF rest = {} THEN Idle ELSE [Idle EXCEPT !.at = "next", !.t = worker.t, !.todo = rest]
ItemDone == NextItem(worker.todo)

Go(item, place) ==
    worker' = [worker EXCEPT !.at = place, !.todo = @ \ {item}, !.kind = item.kind, !.host = item.host,
                             !.row = row[item.host], !.primary = primary[item.tenant] = item.host]

Expired(r, t) == r.status # "issuing_certificate" /\ t > r.until

StillThere(item) == row[item.host].id = item.id

\* The item's row is read again: gone, or of a closed tenant, it is left alone.
\* _advance gives up after PENDING_DAYS, and asks for a certificate once an hour.
Begin ==
    /\ worker.at = "next"
    /\ \E item \in worker.todo :
          LET h == item.host
              r == row[h]
              t == worker.t
              rest == worker.todo \ {item}
              expired == Expired(r, t)
              tooSoon == r.status = "issuing_certificate" /\ r.lastIssue # Never /\ t - r.lastIssue < IssueEvery
          IN
          /\ First(item)
          /\ \/ /\ ~StillThere(item) \/ (item.kind # "remove" /\ status[item.tenant] # "open")
                /\ NextItem(rest)
                /\ UNCHANGED row
             \/ /\ StillThere(item) /\ item.kind = "remove"
                /\ Go(item, "release")
                /\ UNCHANGED row
             \/ /\ StillThere(item) /\ item.kind = "health" /\ status[item.tenant] = "open"
                /\ Go(item, "dns")
                /\ UNCHANGED row
             \/ /\ StillThere(item) /\ item.kind = "check" /\ status[item.tenant] = "open"
                /\ \/ /\ expired
                      /\ row' = [row EXCEPT ![h] = [@ EXCEPT !.status = "failed", !.next = NotDue]]
                      /\ NextItem(rest)
                   \/ /\ tooSoon
                      /\ row' = [row EXCEPT ![h] = [@ EXCEPT !.next = r.lastIssue + IssueEvery]]
                      /\ NextItem(rest)
                   \/ /\ r.status = "issuing_certificate" /\ ~tooSoon
                      /\ row' = [row EXCEPT ![h] = [@ EXCEPT !.lastIssue = t]]
                      /\ Go(item, "cert")
                   \/ /\ r.status # "issuing_certificate" /\ ~expired
                      /\ Go(item, "dns")
                      /\ UNCHANGED row
    /\ UNCHANGED <<status, lastId, primary, dns, web, purge, page, proved, late, now, spent>>

\* The answer of dig: wrong only by a failed lookup.
Answer(h, ok) ==
    \/ ok = Points(h, worker.row) /\ UNCHANGED spent
    \/ ~ok /\ Points(h, worker.row) /\ Disturbance

\* _advance's DNS check; when it passes, _issue follows at once.
CheckDns ==
    LET h == worker.host
        t == worker.t IN
    /\ worker.at = "dns" /\ worker.kind = "check"
    /\ \/ /\ Answer(h, TRUE)
          /\ Update(h, worker.row, [row[h] EXCEPT !.checked = t, !.status = "issuing_certificate", !.next = t,
                                                  !.lastIssue = t])
          /\ worker' = [worker EXCEPT !.at = "cert"]
       \/ /\ Answer(h, FALSE)
          /\ Update(h, worker.row, [row[h] EXCEPT !.checked = t, !.status = "pending_dns", !.next = t + CheckEvery])
          /\ ItemDone
    /\ UNCHANGED <<status, lastId, primary, dns, web, purge, page, proved, late, now>>

\* _issue's failure; with the row gone, the rest of run_due goes with it.
IssueFailed ==
    LET h == worker.host
        failures == row[h].failures + 1 IN
    IF row[h].id # worker.row.id
    THEN worker' = Idle /\ UNCHANGED row
    ELSE /\ row' = [row EXCEPT ![h] =
                [@ EXCEPT !.failures = failures,
                          !.status = IF failures >= MaxIssueFailures THEN "failed" ELSE "issuing_certificate",
                          !.next = IF failures >= MaxIssueFailures THEN NotDue ELSE worker.t + IssueEvery]]
         /\ ItemDone

\* web.publish: issue-cert ...
IssueCert ==
    /\ worker.at = "cert"
    /\ \/ /\ PointsNow(worker.host)
          /\ cert' = cert \cup {worker.host}
          /\ worker' = [worker EXCEPT !.at = "vhost"]
          /\ UNCHANGED <<row, spent>>
       \/ /\ \/ ~PointsNow(worker.host) /\ UNCHANGED spent
             \/ Disturbance
          /\ IssueFailed
          /\ UNCHANGED cert
    /\ UNCHANGED <<status, lastId, primary, dns, vhost, purge, page, proved, late, now>>

\* ... write-vhost ...
WriteVhost ==
    LET h == worker.host IN
    /\ worker.at = "vhost"
    /\ \/ /\ PointsNow(h) /\ h \in cert
          /\ vhost' = vhost \cup {h}
          /\ proved' = IF Points(h, row[h]) THEN proved \cup {row[h].id} ELSE proved
          /\ worker' = [worker EXCEPT !.at = "reload"]
          /\ UNCHANGED <<row, spent>>
       \/ /\ \/ ~(PointsNow(h) /\ h \in cert) /\ UNCHANGED spent
             \/ Disturbance
          /\ IssueFailed
          /\ UNCHANGED <<vhost, proved>>
    /\ UNCHANGED <<status, lastId, primary, dns, cert, purge, page, late, now>>

Activated(h) == [row EXCEPT ![h] = [@ EXCEPT !.status = "active", !.verified = TRUE, !.failures = 0, !.next = NotDue,
                                             !.broken = Never]]

\* The row becomes active, if it is still there.
Activate(h) == row' = IF row[h].id = worker.row.id THEN Activated(h) ELSE row

\* The vhost is removed again, or that fails too.
TakenBack(h) == vhost' \in {vhost, vhost \ {h}}

\* ... and reload-nginx, undone if it fails (which can fail too).
Reload ==
    LET h == worker.host IN
    /\ worker.at = "reload"
    /\ \/ /\ Activate(h)
          /\ ItemDone
          /\ UNCHANGED <<vhost, spent>>
       \/ /\ Disturbance
          /\ TakenBack(h)
          /\ IssueFailed
    /\ UNCHANGED <<status, lastId, primary, dns, cert, purge, page, proved, late, now>>

StillBroken(r) == r.broken = Never \/ worker.t - r.broken < BrokenDays

\* _health: restored, broken since now, still broken, or to be released.  A row
\* that a late check_now has put back in set-up is no longer due for a check.
HealthDns ==
    LET h == worker.host
        r == worker.row
        t == worker.t
        seen == [row[h] EXCEPT !.checked = t, !.next = NotDue]
    IN
    /\ worker.at = "dns" /\ worker.kind = "health"
    /\ \/ /\ Answer(h, TRUE)
          /\ Update(h, r, IF r.status = "dns_broken" THEN [seen EXCEPT !.status = "active", !.broken = Never] ELSE seen)
          /\ ItemDone
       \/ /\ Answer(h, FALSE)
          /\ r.status = "active"
          /\ Update(h, r, [seen EXCEPT !.status = "dns_broken", !.broken = t])
          /\ ItemDone
       \/ /\ Answer(h, FALSE)
          /\ r.status # "active" /\ StillBroken(r)
          /\ Update(h, r, seen)
          /\ ItemDone
       \/ /\ Answer(h, FALSE)
          /\ r.status # "active" /\ ~StillBroken(r)
          /\ Update(h, r, seen)
          /\ worker' = [worker EXCEPT !.at = "release"]
    /\ UNCHANGED <<status, lastId, primary, dns, web, purge, page, proved, late, now>>

\* _health's release after BROKEN_DAYS, tried again later if it fails.
ReleaseBroken ==
    LET h == worker.host
        r == worker.row IN
    /\ worker.at = "release" /\ worker.kind = "health"
    /\ \/ /\ Release(h)
          /\ Update(h, r, [row[h] EXCEPT !.status = "failed"])
          /\ FallBack(r.tenant, h, worker.primary)
          /\ UNCHANGED spent
       \/ /\ ReleaseFails(h)
          /\ Update(h, r, [row[h] EXCEPT !.next = worker.t + RetryEvery])
          /\ UNCHANGED primary
    /\ ItemDone
    /\ UNCHANGED <<status, lastId, dns, purge, page, proved, late, now>>

\* _remove: released, then the row goes; a failure is retried at the next run.
Remove ==
    LET h == worker.host
        r == worker.row IN
    /\ worker.at = "release" /\ worker.kind = "remove"
    /\ \/ /\ Release(h)
          /\ Update(h, r, NoRow)
          /\ FallBack(r.tenant, h, worker.primary)
          /\ UNCHANGED spent
       \/ /\ ReleaseFails(h)
          /\ UNCHANGED <<row, primary>>
    /\ ItemDone
    /\ UNCHANGED <<status, lastId, dns, purge, page, proved, late, now>>

Worker == \/ Wake \/ Begin \/ CheckDns \/ IssueCert \/ WriteVhost \/ Reload
          \/ HealthDns \/ ReleaseBroken \/ Remove

-----------------------------------------------------------------------------
(* The purge of a cancelled tenant (lifecycle.purge_now): its hosts are read  *)
(* once, released one by one, and their rows deleted at the end.              *)

PurgeBegin(t) ==
    /\ purge = NoPurge
    /\ status[t] = "closed"
    /\ purge' = [tenant |-> t, hosts |-> OwnedBy(t)]
    /\ UNCHANGED <<status, row, lastId, primary, dns, web, worker, page, proved, late, now, spent>>

PurgeRelease ==
    /\ \E h \in purge.hosts :
          \/ Release(h) /\ purge' = [purge EXCEPT !.hosts = @ \ {h}] /\ UNCHANGED spent
          \/ ReleaseFails(h) /\ purge' = NoPurge
    /\ UNCHANGED <<status, row, lastId, primary, dns, worker, page, proved, late, now>>

PurgeRows ==
    /\ purge.tenant # None /\ purge.hosts = {}
    /\ row' = [h \in Hosts |-> IF h \in OwnedBy(purge.tenant) THEN NoRow ELSE row[h]]
    /\ primary' = [primary EXCEPT ![purge.tenant] = None]
    /\ status' = [status EXCEPT ![purge.tenant] = "purged"]
    /\ purge' = NoPurge
    /\ UNCHANGED <<lastId, dns, web, worker, page, proved, late, now, spent>>

\* A restart: the threads forget where they were.
Restart ==
    /\ Disturbance
    /\ now < MaxTime        \* the last day has none: what is left waits for the next
    /\ worker' = Idle /\ purge' = NoPurge /\ page' = [t \in Tenants |-> NoRequest]
    /\ UNCHANGED <<status, row, lastId, primary, dns, web, proved, late, now>>

Tick ==
    /\ now < MaxTime
    /\ now' = now + 1
    /\ UNCHANGED <<status, row, lastId, primary, dns, web, worker, purge, page, proved, late, spent>>

-----------------------------------------------------------------------------

Init ==
    /\ status = [t \in Tenants |-> "open"]
    /\ row = [h \in Hosts |-> NoRow]
    /\ lastId = 0
    /\ primary = [t \in Tenants |-> Home]
    /\ dns = [h \in Hosts |-> NoDns]
    /\ vhost = {} /\ cert = {}
    /\ worker = Idle
    /\ purge = NoPurge
    /\ page = [t \in Tenants |-> NoRequest]
    /\ proved = {}
    /\ late = {}
    /\ now = 0
    /\ spent = 0

Next ==
    \/ \E h \in Hosts : ProviderRemoves(h) \/ ChangeDns(h)
    \/ \E t \in Tenants : TenantActs(t) \/ OpenOrClose(t) \/ PurgeBegin(t)
    \/ PurgeRelease \/ PurgeRows
    \/ Worker
    \/ Restart
    \/ Tick

\* The thread loops for ever, the purge job goes on, and time passes.
Spec == Init /\ [][Next]_vars
FairSpec == Spec /\ WF_vars(Worker) /\ WF_vars(PurgeRelease \/ PurgeRows) /\ WF_vars(Tick)

-----------------------------------------------------------------------------

Ids == 0..MaxId
Times == 0..MaxTime
Rows == [id : Ids, tenant : Tenants \cup {None},
         status : {"verifying", "pending_dns", "issuing_certificate", "active", "dns_broken", "failed"},
         created : Times, until : Nat, next : Nat, checked : Times \cup {Never}, failures : 0..MaxIssueFailures,
         lastIssue : Times \cup {Never}, broken : Times \cup {Never}, verified : BOOLEAN, removing : BOOLEAN]
Items == [kind : {"remove", "check", "health"}, host : Hosts, id : Ids, tenant : Tenants]

\* Every variable keeps to its values.
TypeOK ==
    /\ status \in [Tenants -> {"open", "closed", "purged"}]
    /\ row \in [Hosts -> Rows]
    /\ lastId \in Ids
    /\ primary \in [Tenants -> Hosts \cup {None, Home}]
    /\ dns \in [Hosts -> [to : Tenants \cup {None}, token : Ids]]
    /\ vhost \subseteq Hosts /\ cert \subseteq Hosts
    /\ worker \in [at : {"idle", "next", "dns", "cert", "vhost", "reload", "release"}, t : Times, todo : SUBSET Items,
                   kind : {None, "remove", "check", "health"}, host : Hosts \cup {None}, row : Rows,
                   primary : BOOLEAN]
    /\ purge \in [tenant : Tenants \cup {None}, hosts : SUBSET Hosts]
    /\ page \in [Tenants -> [act : {"none", "add", "check", "primary"}, host : Hosts \cup {Home, None},
                             id : Ids, was : BOOLEAN]]
    /\ proved \subseteq Ids /\ late \subseteq {"check", "primary"} \X Ids
    /\ now \in Times
    /\ spent \in 0..MaxDisturbances

\* The links, mails and guides of a tenant (primary_host) never name somebody
\* else's domain, nor one on its way out that no longer resolves to the tenant,
\* unless a request that had read it before made it primary after its removal
\* was asked for; whatever the pages, the thread and a purge do in between.
PrimaryWorks ==
    \A t \in Tenants, h \in Hosts :
        primary[t] = h => /\ row[h].tenant = t
                          /\ Served(row[h]) /\ row[h].removing => <<"primary", row[h].id>> \in late

\* A domain is served for a tenant only if rdf-helper itself saw it point at
\* that tenant, for this very claim of the domain: a certificate run that ends
\* after its row was given to somebody else proves nothing for the new row.
VerifiedOwner == \A h \in Hosts : Served(row[h]) => row[h].id \in proved

\* Hosts whose present claim a request of another tenant has read and will replace.
Eyed == {h \in Hosts : Exists(h) /\ \E t \in Tenants : /\ page[t].act = "add"
                                                       /\ page[t].host = h /\ page[t].id = row[h].id}

Claims == INSTANCE DomainClaims WITH
    Nobody <- None, holder <- [h \in Hosts |-> row[h].tenant], served <- {h \in Hosts : Served(row[h])},
    eyed <- Eyed

\* Whatever the pages, the thread and a purge do to a row in between, a host in
\* service never passes to another tenant before its holder gave it up or let go
\* of it, unless that tenant had read this very claim while it was out of service;
\* and only the holder's own set-up puts it in service (add, is_released, _issue,
\* _health, _remove): CustomDomains implements DomainClaims.
ClaimsHold == Claims!ClaimsSpec

\* A domain of an open tenant doesn't stay in set-up for ever: it becomes
\* active or failed once its days are over, through failed look-ups, failed
\* certificates and restarts; unless a check_now that had read it before it was
\* served put it back in set-up.
PendingEnds ==
    \A h \in Hosts, i \in 1..MaxId :
        []<>(\/ row[h].id # i \/ row[h].removing \/ ~Pending(row[h]) \/ <<"check", i>> \in late
             \/ status[row[h].tenant] # "open"
             \/ row[h].until >= MaxTime \/ row[h].lastIssue > MaxTime - IssueEvery)

\* A domain being removed goes, whatever fails on the way.
RemovalEnds ==
    \A h \in Hosts, i \in 1..MaxId : (row[h].id = i /\ row[h].removing) ~> row[h].id # i

\* A domain whose DNS stays elsewhere is let go after BROKEN_DAYS.
BrokenEnds ==
    \A h \in Hosts, i \in 1..MaxId :
        []<>(\/ row[h].id # i \/ row[h].removing \/ row[h].status # "dns_broken"
             \/ status[row[h].tenant] # "open" \/ row[h].broken > MaxTime - BrokenDays)

\* A domain neither stays in set-up, nor broken, nor half removed for ever,
\* whatever look-ups, certificates and helper calls fail and whenever the
\* dashboard restarts (_advance, _health, _remove), but for one put back
\* in set-up by a check_now that had read it before it was served.
DomainsSettle == PendingEnds /\ RemovalEnds /\ BrokenEnds

=============================================================================
