# rustdesk-fleet: specifications and proofs

TLA+ models of the fleet dashboard's core logic, the TLC runs that check them
and the theorems TLAPS proves about them. Paths below are relative to
`src/subsystems/dashboard/app/` unless they start with `src/`.

    tlc -workers 2 -config lifecycle.cfg MCTenantLifecycle
    tlapm TenantLifecycle_proofs.tla

| module | what it models |
|---|---|
| `TenantLifecycle`, `ProviderHold` | a tenant's life, its relay and its subscription |
| `TenantCreation` | sign-ups, checkouts and the creation job |
| `DomainClaims`, `CustomDomains`, `DomainCheck` | what is promised of custom domains; how it is kept; the DNS check |
| `Accounts` | users, sessions, passkeys and hand-overs of one dashboard |
| `ProviderAdmins`, `SupportAccess` | the provider's admins; their access to a tenant's dashboard |
| `DevicePolicy`, `DeviceSessions`, `DeviceWatch` | devices: settings and registration, session log, online status |
| `LicensedQuantities`, `DeviceMeters` | what is pushed and reported to Stripe for billing by use |
| `Backups`, `Installers` | server backups and restores; client version, installers, links |
| `HostCache`, `RelayHelper`, `SchemaMigration` | host resolution; the root helper's relay commands; start-up migrations |
| `MC...` | the instances TLC checks |
| `..._proofs` | theorems and their proofs |

`PROJECT.json` lists the components, runs, mutants, hazards, findings and
theorems, and maps every definition to the lines it models.

## 1. The system

One uvicorn process with one worker. Inside it:

| thread | what runs there |
|---|---|
| event loop | every `async def` handler up to its next `await`, the Stripe webhook |
| thread pool | every plain `def` handler |
| jobs worker (`console/jobs.py`) | one provider job at a time, oldest first |
| maintenance (`console/maintenance.py`) | hourly passes; billing, lifecycle and sign-ups daily |
| domains, watcher | custom-domain checks, offline notifications |

They share SQLite databases (a connection per `get_db`, foreign keys on).
Outside the process: Stripe, the root helper (`rdf_helper.py`: docker, nginx,
certificates) and SMTP. Every call to one of these takes seconds, during which
all the other threads run. **What a thread read before such a call may be stale
after it**: that is the hazard most of the properties are about.

### Inventory

| component | state it keeps | operations | interacts with | hard parts | correct when | modelled |
|---|---|---|---|---|---|---|
| lifecycle (`console/lifecycle.py`) | `tenants` row: status, trial end, cancelled_at, purge_after, billing_suspended | suspend, activate, extend, cancel, reactivate, purge, daily pass | jobs, relays, billing, console | long helper calls in the middle; two threads; restarts | relay follows status, grace kept, purge last, due purges happen | yes |
| billing (`billing.py`) | `stripe_events`, `billing_subscriptions`, `trial_cards` | receive, process, sync, apply status, reconcile, cancel, resubscribe, change plan | Stripe, jobs, lifecycle, sign-ups | events lost, late, twice, reordered | the record converges to Stripe, the tenant follows it | partly |
| jobs (`console/jobs.py`) | `provider_jobs` | enqueue, run, recover | everything slow | restart in the middle; check-then-enqueue | a job ends, is undone or can be asked for again | partly |
| sign-up (`signup.py`, `public_site.py`) | `signups` | start, verify, checkout, retry | billing, tenants | slug races, repeated checkouts | one account, one slug, one trial per card | partly |
| creation (`console/tenants.py`) | `tenants`, job steps | create_tenant, undo, recover | relays, web, billing | failure at any step, failure of the undo | a failed creation leaves nothing | partly |
| relays (`console/relays.py`) | `relays`, `relay_port_blocks` | allocate, provision, start, stop, upgrade | helper | a limited range of ports | no two relays on one block | partly |
| root helper (`provisioning/rdf_helper.py`) | compose files, containers, vhosts, certificates | relay, domain and vhost commands | docker, nginx, certbot, dig | concurrent commands, files edited in between, kills | docker runs only its own renderings; a domain is pointed here | partly |
| console (`console/*_pages.py`) | none | forms | all the above | guards on rows read earlier | - | partly |
| maintenance (`console/maintenance.py`) | which day ran last | hourly and daily passes | billing, lifecycle, sign-ups, support | acts on rows read before mails | passes eventually act | partly |
| usage, plans (`billing_usage.py`, `plans.py`) | pushed quantities, peaks, prices | push quantities, record and report peaks, save a plan | Stripe | lost answers, crossing pushes, midnight | what Stripe charges is what there is | partly |
| provider accounts (`console/auth.py`, `console/routes.py`) | `provider_users`, enrolment links | sign in, invite, enrol, disable, enable | console, support | requests already let in; links in use | disabled means out | yes |
| support access (`support.py`) | grants, tokens, sessions | grant, revoke, enter, sweep | console, tenant dashboards | double use of a token, revocation in use | no access outside a grant | yes |
| custom domains (`domains.py`) | `tenant_domains` | add, check, issue, remove, release | DNS, helper, cache | several threads on one row | one holder, served only when verified, none hangs | yes |
| host cache (`tenancy.py`) | 30-second cache | resolve, invalidate | every request | store after invalidate | stale at most 30 s | yes |
| accounts (`auth.py`, `routes/users.py`, `routes/webauthn.py`, `handoff.py`) | users, sessions in cookies, passkeys, hand-over tokens | sign in, manage users, passkeys, methods, hand over | every request | requests in flight, session versions | ended sessions die, nobody loses the last passkey | partly |
| client API, devices (`routes/client_api.py`, `routes/api.py`, `routes/devices.py`, `routes/groups.py`) | devices, settings stamps, sessions, online status | heartbeat, audit, sync, delete, settings, sweep, notices | agents | repeated, late and lost calls | counted is true, sessions end once | partly |
| installers, links (`generate_installer.py`, `sign_installer.py`, `routes/links.py`) | pinned version, installers, links | update the pin, build, sign, link, download | GitHub, signing service | failed downloads, restarts | the pin has its files | partly |
| backups (`single-tenant/backup.py`, `backup_remote.py`) | archives, off-site copies | run, rotate, prune, restore, delete | console, S3 | two runs at once, a rotation during a restore | the chosen archive is restored, the safety copy stays | partly |
| migrations (`deps.py`, `tenant_migration.py`) | the schema | rebuild users, add columns, make tenant #1 | start-up, scripts | kill at any statement | all or nothing, can start again | partly |
| reports, timeline, notifications, templates, export pages | none or settings | queries, mails | - | wording, interval arithmetic | - | no |
| OS lifecycle data, client docs, set-up script, superseded provisioning | files | scripts, look-ups | - | - | - | no |

## 2. What is modelled

### TenantLifecycle

One tenant (never tenant #1) from the end of its creation to its purge, its
relay, its `billing_subscriptions` row, the customer's subscriptions at Stripe,
the undelivered events, the job queue, and where each thread is.

| in the model | in the code |
|---|---|
| `tenant` | the `tenants` row; `"deleted"`: the row is gone |
| `relay` | containers and keypair (`keys`: the first pair, a new one, none) |
| `bs` | the `billing_subscriptions` row, `sub = 0` for none |
| `stripe`, `events` | the truth at Stripe and the events it has yet to deliver |
| `queue`, `job` | `provider_jobs` queued and running |
| `proc[a]` | where thread `a` is, and what it read before its last call out |
| `now`, `spent` | the day; the disturbances used up |

A step is what a thread does between two calls that leave the process. The
three lifecycle jobs are therefore several actions each: `StartCancel` (read),
`CancelStop` (helper), `CancelMark` (write); `StartReactivate`,
`ReactivateStart`, `ReactivateReopen` and the sync after it; `StartPurge`,
`PurgeRemove`, `PurgeWipe`. `sync_subscription` is `SyncFetch` (row lookup and
Stripe's answer), then `SyncRecord` (the UPDATE and all of `apply_status`), run
by any of the threads. `apply_status` is `Verdict` (which branch), `Followed`
(what it writes to the tenant), `Recorded` (the subscription row) and the job it
queues. The maintenance thread reads (`DailyDue`, `TrialsDue`) and acts later
(`DailyPurge`, `TrialsSuspend`), since it mails other tenants in between.
`async` handlers need the loop idle; `billing_sync` runs in the pool.

A reactivation goes by the trial end of the row it read at its start. A
Resubscribe without a payment method only ends the old record (`StartCheckout`).

`ProviderHold` adds one history variable: the subscriptions the customer had
bought when a provider admin suspended the tenant, until an admin reactivates or
cancels it.

### TenantCreation

Everything up to there: several sign-ups and the console compete for slugs, port
blocks and cards; Checkout Sessions are paid, with or without a card; checkout
events are received, lost, handled, fail; the worker creates tenants, undoes
what failed and recovers after restarts.

| in the model | in the code |
|---|---|
| `signup`, `cardOwner` | `signups`, `trial_cards` |
| `session` | Checkout Sessions and the subscription each makes (same number) |
| `tenants` | by tenant id: row there, containers up, admin account there, block |
| `used` | how many port blocks were ever handed out |
| `retrying` | requests that have marked a sign-up "creating" and not queued its job yet |
| `stranded` | history: sign-ups that a restart caught in between |
| `received`, `queue`, `work` | `stripe_events`, `provider_jobs` queued, the running job and its step |

`StartCreate` checks the slug and commits the tenant's row; only then does the job
note the tenant's id (`NoteTenant`, its `_save`): a process killed between the two
recovers a job that names no tenant. `Provision` (with the port block), `Publish`, `Link`,
`Welcome` follow; a failure or a restart goes to `UndoRelay` and `UndoRows`. The foreign
key from `signups` to `tenants` is in `UndoRows`: with a sign-up linked, the last DELETE
fails. The console's Retry marks the sign-up and commits (`Retry`), then queues
(`RetryQueues`); an accepted checkout does the same in two steps of the worker (`Accept`,
`StartCreation`).

### What these two leave out, and why

* Windows of two consecutive statements with no call out between them: row
  lookup and fetch in `SyncFetch`, record and apply in `SyncRecord`,
  `active_for` and `enqueue`. The listed hazards name them.
  (`apply_status` also sends a mail at the first past-due day; the branch after
  it does nothing then unless PAST_DUE_SUSPEND_DAYS is 0.)
* Mails, warnings and their timestamps, audit rows, ending support sessions.
* `relay_upgrade_all`, plan changes, coupons, cancel at period end, the portal.
* Form fields, hourly and daily limits, link expiry, guides, vhosts and
  certificates (their undo tolerates any failure).
* `days` in the extend forms is 1. "unpaid" stands for unpaid and paused, which
  the code treats alike.
* checkout_again's Stripe calls are one step. A session without subscription
  isn't modelled: sessions are always opened in subscription mode.
* One tenant per lifecycle model: lifecycle steps of different tenants share
  only the queue and the threads, and waiting for them is stuttering here.

### Custom domains: DomainClaims, CustomDomains, DomainCheck

`DomainClaims` is the promise: a host has at most one holder, only the holder's
host is in service, and a host in service passes to somebody else only after its
holder gave it up or let go of it. `CustomDomains` is how `domains.py` keeps it,
and implements it under `holder = row.tenant`, `served = ` the hosts whose row is
"active" or "dns_broken" (`SERVED`): TLC checks it as a property, and it is proved.

| in the model | in the code |
|---|---|
| `status` | the tenant is open, closed or purged |
| `row`, `lastId` | `tenant_domains` by host name, the AUTOINCREMENT id |
| `primary` | by tenant, the host whose row has `is_primary` |
| `dns` | by host, the tenant or the row its records point here for |
| `vhost`, `cert` | server blocks and certificates there are |
| `worker` | the domains thread: its list for this round, its item, and the row it holds across dig or the helper |
| `purge` | a purge releasing the tenant's hosts one by one |
| `page` | by tenant, the request that has read a row and will write to it |
| `proved` | history: rows whose domain pointed at their tenant when their server block was written |
| `late` | history: rows a request wrote to, for what they were when it read them |
| `now`, `spent` | the clock; the disturbances used up |

`Begin`, `CheckDns`, `IssueCert`, `WriteVhost`, `Reload`, `HealthDns`,
`ReleaseBroken` and `Remove` are the thread's steps, cut where it is out at dig
or the helper. A page's request reads a row (`AskAdd`, `AskCheck`, `AskPrimary`) and
writes to it by id later (`Add`, `CheckNow`, `MakePrimary`), looking at nothing again;
whatever the worker, the provider, a purge and the removals of the same tenant do in
between is in the model. `RequestRemoval` is one step. The promise allows for the one
that matters, `eyed`: a claim somebody saw out of service, and deletes though it is
served by then. Whether DNS points at a tenant is one fact here; how `check_domain`
finds it, resolver by resolver and query by query, is `DomainCheck`.

### Accounts, ProviderAdmins, SupportAccess

`Accounts`: a session is a cookie, and the server keeps only the user's
`session_version`. A request is let in (`Arrive`: require_auth) and handled later
(one action per handler) with the user and capabilities of then; its answer
replaces the browser's cookie. `ended` is history: the sessions somebody ended, a
user and the line of one sign-in each, whatever version its cookie carries; `back`
those of them that a change of method or password or a hand-over has let in again.

`ProviderAdmins` has the same split for the console, and the body that
`enroll_complete` awaits between checking a link and using it. `SupportAccess`
extends it: grant, revoke and enter statement by statement, since they run in a
pool of threads.

### Devices: DevicePolicy, DeviceSessions, DeviceWatch

`DevicePolicy`: the client's exchange (asking, answered, applied; any answer may be
lost), groups and their `policy_ts`, devices shown or hidden, and the new-device
watcher, whose pass reads before it writes. `DeviceSessions`: posts that the client
repeats until they are too old, in any order, beside heartbeats and the sweep.
`DeviceWatch`: devices whose signs of life age, a channel that may fail for all of
them, and the watcher. Its pass keeps every status for the next pass (`WatchPass`) and
then gives notice device by device (`Tell`); an exception between two notices ends the
pass (`PassFails`), and a restart forgets every status (`WatcherRestarts`).

### Billing by use: LicensedQuantities, DeviceMeters

`LicensedQuantities` has three threads pushing one licensed count (hourly and
daily maintenance, the console's resync, a plan change), each in the steps read,
retrieve, update, save. `DeviceMeters` has the hourly pass of peaks, step by step,
with midnight, failed calls and restarts between any two.

### The server: Backups, Installers, HostCache, RelayHelper, SchemaMigration

`Backups`: archives on disk and off-site, every step of a run or restore an action
of its process; a restore copies the chosen archive to a private place first
(`Stage`, which fails when the file is gone by then). `Installers`: the pin's update,
the builders (page and rebuild thread), the file a version's rows share, one link.
At first there is no pin and no binary: architectures are staged by hand (`StageBinary`,
in any version that is out), an update fetches those staged so far, and the pin's file is
emptied before it is written (`TruncatePin`, `WritePin`); whoever reads it empty writes
the version the code starts from (`ReadEmpty`, `EmptyPin`, `SeedPin`, or a builder about
to insert its row). `found` is history: the architectures listed by the update that wrote
the pin. `HostCache`: the stages of one
request through `tenant_for_request`, the entry and its stamp, changes that are
committed and not yet invalidated. `RelayHelper`: commands as processes, the compose
file as an inode, so that a file replaced between comparison and use can be told from
one that wasn't. `SchemaMigration`: statements that commit at once and those inside a
transaction; a process looks whether the migration is needed (`LookAtTenancy`) before it
takes the lock (`BeginTenancy`), so several may get past the check, and each table is
looked at again under the lock. Rebuilding the users table loses its AUTOINCREMENT
counter, and `CarriedOver` is how migrate puts it back. Histories: the highest id handed
out, the users that were last created in another tenant (`abroad`), and whether the
rebuild for the old CHECK met a table with or without tenants (`usersRebuilt`).

### Left out of these

Each module's header names it. In the large: mails, wording, limits on guesses
(`ratelimit.py`, counters in memory), dynamic groups and the address book (plain
rows), which groups a user sees, other tenants' rows (every query is restricted by
tenant_id; CustomDomains has several tenants), the certificates
and nginx files of the provider's own hosts. Reports, the timeline and exports
only read. Templates and notifications only format. The set-up, check and
documentation scripts run once, alone, over files.

## 3. Runs

Every number that could grow is bounded by a constant. `MaxDisturbances` bounds
clicks, Stripe changes, failed outside calls and restarts **together**: what the
system does by itself is never bounded, so each run covers every reaction to
every combination of that many disturbances. Deadlock checking is off: when all
disturbances are used up and nothing is left to do, the system rests. The modules
without `MaxDisturbances` bound each kind by itself (`MaxClicks`, `MaxEdits`,
`MaxUpsets`, `MaxNames`, ...); the names say what is counted.

| run | instance | shows |
|---|---|---|
| `lifecycle` | Stripe tenant, 2 subscriptions, 1 pool thread, 2 days, 4 disturbances; 2.4 M states | the safety properties below |
| `lifecycle_live` | modes manual and Stripe, 3 disturbances, fair; 0.29 M states | the liveness properties |
| `creation` | 2 sign-ups, 2 slugs, 1 card, 2 blocks, 3 sessions, 3 disturbances, fair; 1.4 M states | the creation properties |
| `domains` | 2 tenants, 1 name, 1 domain each, 2 rows ever, 2 days, 4 disturbances, fair; 0.31 M states | who holds and is served under a name, and that nothing hangs |
| `components` | nine components and, of two of them, a second instance; one per behaviour; 2.2 M states | their safety |
| `devices` | five components, one per behaviour, fair; 0.35 M states | devices and usage, safety and liveness |
| `provider_hold`, `purge_subscribed`, `creation_undone`, `creation_paid`, `pushed_daily`, `migration_restart` | small | six places where the code does not do what a text says (section 4) |

`components` and `devices` check components that share no state: `turn`, chosen in
the initial state, names the one that moves, the others stay in an initial state.
`MCComponents` and `MCDevices` extend the modules they check, so TLC evaluates every
assumption the proofs use. So every behaviour of each component alone is a behaviour of the run, and what
holds there holds of it alone. (SupportAccess extends ProviderAdmins, the two that
do share state, and runs both; a second instance, `Staff`, has links to invite with.
Installers takes two turns: the pin and the builders without a link, and links with one
release, since nothing but the link's own actions reads it.)

The instances are small in numbers, not in cases:

* domains: intervals of 0 and 1 against a clock that reaches 2 put a domain before, at
  and past its days; one name for two tenants is the contest, a second row the take-over;
* accounts: two users (an admin and another), two browsers and two requests in flight
  give a late answer after a change by somebody else; one passkey is the last one;
* support: two grants, one token, one session: a grant extended or renewed during entry;
* backups: a timer and the console, two names, a server with and one without a
  passphrase, keeping one archive (rotation bites at once) or two;
* host cache: an entry lives one tick, so that one older and one younger are there
  (two ticks, in which a request can age, hold too: 6.1 M states by itself, not a run);
* DNS: two resolvers and the thirteen views that differ in how a name can point here
  or fail to, with two changes during the check;
* relay: two commands and two files, the least with which one replaces the other's;
* devices: one device, two groups, two seconds, five edits (enough to move a device away
  and back and change both groups); one connection whose reports all repeat;
* watcher: two devices, one known to the relay and one by its heartbeats only, and one
  fault: a notice for one is lost while the other's is sent, and the channel fails for both;
* clients: two versions and two architectures: the second is staged in an older version
  than the pin, or while an update is under way;
* schema: two processes, two tables and two user ids: both get past the check, and the
  highest id is deleted before the next is handed out;
* usage: two plans and prices, one device more or less, two upsets; three days for the meters.

The bounds are enough for the cases that matter: two subscriptions give a
resubscription over an ended one; grace, trial and past-due period of one day
with the clock reaching two give "before", "at" and "after" each deadline;
four disturbances give for example cancel, payment, failed helper call and
restart. In `creation` two blocks give the last one and one too many; one card
for two sign-ups gives the second trial; three sessions give a sign-up two of
them. Signups are not declared symmetric since liveness is checked.

Properties (TenantLifecycle): `GraceHeld` (the grace period is on record, from
the cancellation in force), `NoStaleBillingFlag` (no leftover billing suspension
on an open tenant), `WorkerHolds` (nobody moves the tenant from under a job that
is out at the helper), `PurgeIsLast`, `RelayFollowsStatus`,
`OnlyProviderLiftsSuspension`; and in the end: `CacheConverges`, `StripeDrives`
(the table in TENANCY.md), `TrialsEnd`, `DuePurged`.

Properties (TenantCreation): `PortsNeverShared`, `OneTrialPerCard`,
`CreatedHasTenant`, `LeftInTwoWaysOnly` (a job leaves a half-made tenant behind only
if its sign-up already points at it, or the process was killed before the job noted it),
`CreationEnds` (a sign-up doesn't stay "creating", unless a restart fell between that mark
and the queueing of the job).

Properties of the others:

* `ClaimsHold` (the refinement), `VerifiedOwner` (a domain in service was seen to
  point at its tenant for this very claim), `PrimaryWorks` (the primary host is the
  tenant's own and resolves to it, unless a request that had read it made it primary
  after its removal was asked for), `DomainsSettle` (no domain stays for ever in
  set-up, broken, or half removed, but for one that a late check put back in set-up).
* `PasskeyNeverMissing`; `EndedSessionsDie` (a session that was ended isn't let in again
  under whatever version, but by a change of its own method or password that was admitted
  before, or a hand-over under way); `DisabledIsOut` (on the console and in
  the tenants' dashboards); `RevokeEndsAll`, for a tenant whose requests come one after
  the other.
* `EchoedHasApplied` (a client whose stamp is the group's has what the group manages,
  if the stamp was given out once),
  `OnlyItselfComesBack`, `PolicyArrives`; `RepeatsCountOnce` (no repeat of an opening
  makes a second session, nor a peer's report of a session that was young when the report
  was first sent; never two open ones), `EverySessionEnds`; `LastWordIsTrue` (a device that
  is off for good is found offline, and the last notice doesn't say that it came online,
  unless an exception or a restart swallowed the one that it went off).
* `QuantityArrives`, `BilledAtPeak`.
* `ChosenIsRestored` (a complete archive, once chosen, is what is unpacked after the safety
  run and what goes back, whatever becomes of its file), `SafetyStays`; `PinHasBinaries` (a
  pin that an update wrote has the binaries of all architectures staged when it
  began); `StaleAtMostTTL` (stale for
  at most the cache's seconds and the time the request itself has run);
  `AcceptedIsPointed`; `RunsRendering`; `TenancyWhole` (the tables get their tenants all
  at once, a user made in another tenant meanwhile stays there, no id is handed out twice;
  but for what the rebuild of users for its CHECK loses).

Every property of a passing run has a mutant: an operator in the module, marked
"Mutant", that replaces a definition by what a plausible bug would make of it,
and with which TLC finds the property violated.

### Fairness

* The worker is weakly fair: `_worker` loops over the queue for ever.
* A handler or sync that was begun goes on (weak fairness of its next step).
* A request that has marked a sign-up goes on to queue its job (`RetryQueues`), unless
  the process restarts.
* Stripe retries a delivery until it gets its answer: `Receive` is weakly fair in
  `lifecycle_live` and `creation_paid`; `creation` doesn't need it.
* The maintenance passes are strongly fair: each is possible whenever the thread
  is idle and the tenant qualifies, but other passes make it busy in between; the
  hourly and daily schedule comes round to each of them.
* Time passes (`Tick`), up to the bound. No fairness on clicks, on Stripe
  changes or on failures.
* `run_due` is a loop: the domains thread is weakly fair, so are a purge that has
  begun and time. Nothing obliges DNS, certbot or the helper to succeed, nor a tenant
  to click.
* A client sends a heartbeat when it has no answer pending, and not all exchanges of
  a device are lost (strong fairness of `Heartbeat` and `Apply`); the sweep, the
  watcher's pass and its notices, the hourly and daily passes and time are weakly fair, their loops
  have no end. A push that was begun goes on, and either succeeds or fails.
  Failures and restarts are bounded by `MaxUpsets`, since a push that fails every
  day never arrives.

## 4. Where code and text disagree

* **A provider's suspension is lifted by a payment** (`ProviderSuspensionStands`).
  Suspended by the provider, cancelled because the subscription ended at Stripe, then
  resubscribed and paid within the grace: `_reactivate` opens the tenant. TENANCY.md
  says "A provider's suspension is never lifted by a payment". The run's property is
  about a subscription bought after the suspension, so its trace is this one. What does
  hold is the direct case, `OnlyProviderLiftsSuspension`. (Without any payment: a
  maintenance pass that fetched "trialing" before the provider suspended and cancelled
  the tenant, and records it after, queues a reactivation too.)
* **A purge of a tenant with a paid subscription** (`NoPurgeWhileSubscribed`):
  the guard reads the recorded status; a Resubscribe paid a moment ago is not on
  record yet. TENANCY.md: "a purge needs it cancelled first".
* **A failed creation that isn't undone** (`FailedIsUndone`). tenants.py: "If any step
  fails, or the dashboard restarts mid-way, everything done so far is undone". Killed
  between the commit of the tenant's row and the job's note of its id, the job names no
  tenant and `undo_creation(None)` does nothing: the row stays, the sign-up is failed, and
  a retry finds the slug taken. And once `creation_finished` has linked the sign-up, a
  failing sync or a restart runs into the foreign key; the tenant is left without relay,
  admin or subscription row, its sign-up "created". `LeftInTwoWaysOnly` shows that there
  is no third way.
* **A paid sign-up that never goes on** (`PaidSettles`): a checkout event lost
  between being recorded and queued, or whose job fails once. The reconciliation
  that billing.py's header names covers tenants, not sign-ups.
* **A quantity that isn't pushed any more** (`PushedDaily`). TENANCY.md: "Licensed
  quantities are pushed when they change (at most hourly) and daily". An item whose
  price is not one of the recorded plan's present prices is passed over. That happens
  when the provider exchanges a plan's price, or a plan change reaches Stripe and the
  dashboard stops before recording it. `QuantityArrives` shows that this is the only way.
* **A start-up that fails for ever** (`StartsAlways`). deps.py: "Every step is
  idempotent; safe on every startup." `CREATE TABLE users_rebuild` is committed at
  once; killed before the rename, every later start-up finds the table and fails.
  Batches that add two columns after testing for one do the same.

More that the models allow, without a run:

* Two checkout jobs of one sign-up, one during a retry, create twice, and the loser
  marks the sign-up of a working tenant failed; two failed sign-ups can each hold
  the other's slug; of two paid sessions of one sign-up the second is dropped. A restart
  between the mark "creating" and the queueing of the job leaves the sign-up so for ever:
  Retry refuses what isn't failed.
* Accounts. permissions.py says an account can never be edited into being unable to
  manage users; two admins who act at once (or whose requests were let in before)
  can leave none. auth.py says that deleting a user takes effect at once; a row of
  `handoff_tokens` refers to the user and the DELETE fails. A hand-over token
  outlives a sign-out of everything. `bump_session_version` says "End every session this
  user has open", yet a change of password or method that was admitted before it answers
  with a cookie of the new version and so brings the ended session back. Likewise two provider admins can disable each other.
* Support: the tenant's own two requests at once leave two grants, and a revoke
  ends one; two requests with one token both get in.
* Settings: a group's stamp is a second. Two groups saved within one can get the
  same stamp, and so can one group again if it managed nothing in between, though groups.py:350 says
  "two saves in the same second must still look like a change to devices". A device that
  moved from one to the other, or missed the gap, echoes the right stamp with the wrong
  settings and is never corrected. The properties of settings are therefore about stamps
  given out once.
* Sessions: a peer's report that is repeated after its close, of a session that began more
  than five minutes ago, opens a second one, and so does a heartbeat that the close has
  overtaken; the next heartbeat or the sweep ends them.
* DeviceWatch: an exception or a restart between keeping the statuses and sending the
  notices loses them for good: the next pass finds nothing changed. When the only device
  that reports goes off, it is found offline, then online again (no heartbeat for two
  minutes makes the channel look down, and its registration still counts), then offline,
  with a notice each. `_compute_status` says 15 minutes of a registration, the code takes
  1800 seconds. routes/api.py means not to mark every device offline at once when the
  channel fails; a device whose channel fell silent is offline between the first
  window and the second.
* Backups: a safety run whose encryption or copy fails is reported and the restore
  goes on. A chosen archive that a rotation removes before it is copied, or files that
  can't be put back, end a restore: the latter half-way.
* Installers: `update_version` promises to leave "the existing pin/assets untouched" on a
  failure; killed while it writes the pin, or read just then, the pin becomes the version
  the code starts from, whose binaries need not be there. An architecture that is staged
  while an update runs waits for the next release. On a fresh machine there is no binary
  to look for, so the set-up's `--with-installer-assets` downloads none. Deleting an installer deletes the file that a newer row of the same
  version has too, so the download page may have none, though USER_GUIDE.md says it
  always serves the newest.
* Custom domains: a domain can be "active" for a while without being in the web
  server's configuration; checking by hand asks for certificates more often than hourly.
  `add` may delete a claim that was served by then (it says "nothing was served");
  `make_primary` can make a domain primary that is being removed, until the worker has
  done it; a late `check_now` puts a served domain back in set-up, and where a health
  check was due at that moment, it isn't looked at again until somebody checks by hand.
* Migration: the rebuilt users table starts its AUTOINCREMENT at the highest id that
  is left, so a deleted user's id may be given out again. A second process that had looked
  at the CHECK before the first one migrated rebuilds the users without their tenant_id,
  and its own migration then gives all of them to tenant #1.

## 5. Proofs

Theorems hold for every value of the constants, with only the assumptions the modules
name, which the code justifies and TLC evaluates:

| assumption | says | because |
|---|---|---|
| `PoolAssumption`, `NamesAssumption`, `SignupsAssumption`, `CardsAssumption`, `AccountsAssumption`, `AdminsAssumption` | names that mean "none" or a thread of the code's own aren't users', hosts', ... | they are values of the model |
| `ModesAssumption` | billing modes are the three of the schema | its CHECK |
| `DaysAssumption`, `NumbersAssumption`, `BoundsAssumption`, `MetersAssumption`, `PolicyAssumption`, `SupportAssumption` | times and bounds are natural numbers, a grace and a custom domain's days at least one | constants of `lifecycle.py`, `domains.py` |
| `BackupsAssumption` | at least one archive is kept | `console/server.py:167` refuses less |
| `SessionsAssumption` | a client stops repeating within the window in which repeats are known, connections are finite | `routes/client_api.py:200` |
| `CheckAssumption` | at least one resolver is asked | `rdf_helper.py` names them |
| `HostAssumption` | an entry lives at least a tick, tenant #1 is there | `tenancy.py` |
| `VersionsAssumption` | the first version is the code's default, 0 is no version | `DEFAULT_VERSION` in `generate_installer.py` |
| `SchemaAssumption` | no process is called "none"; the users table is one of those that get a `tenant_id` | `TENANT_TABLES` in `tenant_migration.py` |

Every invariant and action property that a passing run checks is a theorem here. Each
proof has an inductive invariant, a lemma per helper or action, and a theorem that puts
them together; a lemma's name says what the action keeps.

**TenantLifecycle** (`TenantLifecycle_proofs`), for any number of pool threads,
subscriptions, days and disturbances:

* `TypeCorrect`: `TypeOK` is inductive once it says that a thread about to fetch
  has a subscription to fetch. It rests on a lemma per helper (`Followed`,
  `Recorded`, `Fetched`, ...) and one step per action.
* `GraceAlwaysHeld`, `BillingFlagNeverStale`: inductive with `TypeOK`. The flag
  needs that every write which opens a tenant clears it.
* `WorkerAlwaysHolds`, `PurgeAlwaysLast`, `RelayAlwaysFollows`: one mutual
  induction, because each needs the others' facts: that a job away at the helper
  still finds the tenant as it read it needs that no other thread changes a
  status other than between open and suspended, or undoes it while it is open;
  and that in turn needs which thread may be at which place.
* `SuspensionIsTheProviders`, from `JobInv`: a reactivation that Stripe asked for is
  queued only while the tenant is cancelled. Nothing else may change that until its
  turn comes, because `jobs.active_for` lets in one job at a time: of the queued and
  the running ones at most one acts on the tenant (`OneJob`).

The last four assume a tenant that is never billed by hand (`"manual" \notin Modes`):
`_trials` suspends from a row it read before a mail, so a manual tenant cancelled in
between is written back to suspended.

**TenantCreation** (`TenantCreation_proofs`), for any number of sign-ups, slugs, cards,
port blocks, sessions and disturbances:

* `TypeCorrect`: `TypeOK` alone says too little of a job. `Inv` adds what a
  queued job and the running one refer to (a recorded session, a slug that was
  asked for, a tenant that exists), and that whoever has a session is verified.
  That a sign-up once verified keeps its slug, and an event once recorded stays
  recorded (`Keeps`), carries a job's facts over every step.
* `PortsAreNeverShared`, from `BlocksOK`: the blocks handed out are distinct and
  at most `used`, also those of tenants that are gone, and a relay that is up has
  one.
* `TrialsArePerCard`, from `CardsOK`: a sign-up is billed for a recorded session,
  and while that one's trial runs, its card's owner is the sign-up. Needed
  because the card's owner is written, and the trial ended, in two steps with a
  call to Stripe between them.
* `CreatedIsReal` and `HalfMadeIsLinkedOrUnnoted`, from `MadeOK`: what has been made of
  the tenant by the time its job is at each step. The second is an action property: a
  tenant is let go only by `Welcome`, when it is whole, by `UndoRows`, and by a restart
  before the job has noted it.

**CustomDomains** (`CustomDomains_proofs`), for any number of tenants, names, rows, days,
failures and restarts:

* `ClaimsAlwaysHold`, that it implements `DomainClaims`. The invariant says that a row
  that exists has a tenant, one that doesn't has none and isn't served, and that while
  the thread or a request is out, the id it will write by is never the id of no row: so
  what it writes afterwards hits a row of that id or none at all; and that every claim a
  request is about to take over was seen out of service (`eyed`). One lemma per action shows
  that it maps to a step of the promise or to a stutter.
* `ServedIsVerified`, `PrimaryAlwaysWorks`, from `OwnersInv`. Ids aren't reused and
  stand for one claim of one host, so a verdict reached for an id is about the claim
  that gets written; a row in service was proved under its id; a primary host is the
  tenant's own row, and if it is being removed, a request that had read it before made it
  so (`late`). A step does one of three things to a host's
  row (`RowStep`): the same claim goes on, a new one begins, or it is gone.

**Accounts** (`Accounts_proofs`), for any number of users, browsers, passkeys and requests
in flight: `PasskeyIsNeverMissing`, `EndedSessionsStayDead`. The second needs (`LinesOK`)
that no cookie is ahead of its user's version, and that every cookie of a line that was
ended and not brought back is behind it: otherwise a late answer could carry a cookie of a
version yet to come. `ended` holds user and line, so a cookie that a handler issues anew
under a later version is still one of the ended session.

**ProviderAdmins, SupportAccess** (`SupportAccess_proofs`), for any number of admins,
browsers, links, grants, tokens and sessions:

* `SupportTypeCorrect`: the types, and that every grant, token, session and link a row or
  cookie refers to is there (`Refers`).
* `DisabledStaysOut`, from `DisabledAreOld`: a version that was disabled is below its
  admin's, which only grows. So no cookie that carries it works, whatever was let in,
  half enrolled or half entered at the time.
* `RevokeEndsEverySession`, from `OneLive`: at most one grant is live and a request that
  revokes knows it. Its hypothesis is that the tenant's own requests come one after the
  other; with two at once it is false (section 4).

**DevicePolicy, DeviceSessions, DeviceMeters** (`Devices_proofs`), for any number of
devices, groups, edits, connections, rows and days:

* `PolicyTypeCorrect`, `EchoesWhatItHas`, `OnlyItselfReturns`. `StampMeans` says that a
  stamp that was given out once stands for one state of one group's settings for good:
  whoever has it, the group, an answer under way or a client, means the same by it.
  Stamps are seconds, so some may be given out twice (`reused`, section 4).
* `AlwaysCountedHasApplied`, what the group page may conclude from its count: applied, or
  the device's next echo says otherwise. A run once checked the stronger claim that what
  is counted is applied, and it held only since four edits are too few: the attempt to
  prove it found a device that is moved to another group and back between two heartbeats.
* `SessionsTypeCorrect`, `RepeatsAlwaysCountOnce`. A row of a connection is never older
  than the first report of it (`NewSince`), and a report is repeated for no longer than
  the window in which rows are looked for: so a repeated opening finds the row. A peer's
  report finds it too where the session was young when the report was first sent, which
  the property says; and whoever adds a row has found no open one (`OneOpen`).
* `AlwaysBilledAtPeak`. A day with an event is over and isn't being recorded, so its
  peak can't change any more; what a pass is about to send is the peak of a day that is
  over; a pass that records began on its day, though midnight may have come since.

**RelayHelper, Installers, SchemaMigration, DomainCheck, HostCache** (`Server_proofs`):

* `AlwaysRunsRendering`, for any number of commands, rows, images and files: the text a
  command pipes is the one it compared, whatever becomes of the file.
* `PinAlwaysHasBinaries`, for any versions and architectures: an update that is at the
  pin has fetched every architecture it listed and put it in place (`UpdateOK`), binaries
  never go, and a reader that writes the default says that no update did.
* `TenancyAlwaysWhole`, for any number of processes, past the check or not, and users: one
  process is in a transaction, only it sees anything else than what is committed
  (`WriterOK`), what it sees has tenant #1 before the first table has a `tenant_id`, and
  the counter is the committed one, which no user's id is above (`Sound`).
* `AlwaysAcceptedIsPointed`, for any number of resolvers and changes. `held` is what a
  resolver has shown since the check began. Every result so far is justified by it
  (`Grounded`), says what the zone says while nothing changed (`Exact`), and so are the
  lookups under way (`SoFar`).
* `AlwaysStaleAtMostTTL`, for any cache time. An entry, and what a request took from one,
  is as fresh as the time since it was *read* (`Fresh`), although its age counts from when
  it was stored. The bound this gives is the cache's seconds and the request's own
  running time. An earlier statement left the latter out; it held in the run, since with
  entries of one tick a request has no time to age, and its induction failed.

**Backups** (`Backups_proofs`), for any number of runs at once, archives and settings:
`BackupsTypeCorrect`; `SafetyAlwaysStays`, `ChosenAlwaysRestored`. No two jobs write to
one name, and the last name handed out is there, once and complete, when its job claims
it and no provider deleted it (`LastInv`): rotation keeps the newest, and the newest is the safety archive unless a
later run began. For the archive chosen (`ChoiceInv`): no run writes a complete file
again, so the copy that is made under its name is of the very archive, and the restore
goes by that copy from there on. That the newest archive exists needs a
greatest element of a finite set, here by well-founded ordering of its subsets
(`LargestOf`), since induction schemes can't be instantiated.

Only model-checked:

* liveness (`CacheConverges`, `StripeDrives`, `TrialsEnd`, `DuePurged`, `CreationEnds`,
  `DomainsSettle`, `PolicyArrives`, `EverySessionEnds`, `LastWordIsTrue`,
  `QuantityArrives`): fairness is about ENABLED, which this prover does not reach;
* the refutations of section 4, which are about one instance by nature;
* what `LicensedQuantities`, `DeviceWatch` and `ProviderHold` do, of which the runs check
  liveness or a refutation only.

No module uses RECURSIVE operators, so nothing rests on induction over data.

## 6. What is left

1. A safety core of `LicensedQuantities` and `DeviceWatch` (which thread's save may
   overwrite which) on which a liveness argument could rest.
2. What holds of tenants billed by hand, whose trial may be written over a cancellation.
3. `JobQueue`: check and enqueue apart, and the upgrade of the whole fleet.
4. An abstract specification of a tenant's status, implemented by TenantLifecycle.
5. Rate limits and lock-outs, dynamic groups, the provider's own vhosts.
