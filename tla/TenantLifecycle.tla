--------------------------- MODULE TenantLifecycle ---------------------------
(***************************************************************************)
(* The life of one customer tenant (never tenant #1) of the fleet          *)
(* dashboard: console/lifecycle.py, the tenant's part of billing.py, the   *)
(* provider jobs that act on it (console/jobs.py, console/relays.py) and   *)
(* the console handlers that start them.                                   *)
(*                                                                         *)
(* Four kinds of thread share the database:                                *)
(*   "loop"    the event loop: every async handler, one at a time, and the *)
(*             Stripe webhook;                                             *)
(*   Pool      threadpool threads, which run the plain "def" handlers;     *)
(*   "worker"  the jobs thread: one provider job at a time, oldest first;  *)
(*   "maint"   the hourly maintenance thread.                              *)
(* A step is what a thread does between two calls that leave the process   *)
(* (Stripe, rdf-helper and docker, SMTP): what it read before such a call  *)
(* may be stale after it, and every other thread may run meanwhile.        *)
(*                                                                         *)
(* Time is counted in days; None (0) is SQL NULL and the clock starts at 1.*)
(* Mails, *_warning_sent_at columns and audit rows are left out.  "unpaid" *)
(* stands for Stripe's unpaid and paused, which the code treats alike.     *)
(***************************************************************************)
EXTENDS Integers, Sequences

CONSTANTS
    Pool,           \* threadpool threads
    Modes,          \* the billing modes this tenant is ever given
    MaxSubs,        \* Stripe subscriptions the customer may buy, in all
    GraceDays,      \* GRACE_DAYS
    TrialDays,      \* TRIAL_DAYS, and the length of Stripe's trial
    PastDueDays,    \* PAST_DUE_SUSPEND_DAYS
    MaxTime,        \* bound on the clock
    MaxDisturbances \* bound on console requests, Stripe changes, crashes and
                    \* failed outside calls, together

ASSUME PoolAssumption == Pool \cap {"loop", "worker", "maint"} = {}
ASSUME ModesAssumption == Modes # {} /\ Modes \subseteq {"internal", "manual", "stripe"}
ASSUME DaysAssumption == /\ GraceDays \in Nat \ {0}
                         /\ TrialDays \in Nat
                         /\ PastDueDays \in Nat
ASSUME BoundsAssumption == /\ MaxSubs \in Nat \ {0}
                           /\ MaxTime \in Nat
                           /\ MaxDisturbances \in Nat

VARIABLES
    tenant,     \* the tenants row; status "deleted": the row is gone
    relay,      \* its hbbs/hbbr containers and the keypair they were made with
    bs,         \* its billing_subscriptions row; sub 0: there is none
    stripe,     \* the truth at Stripe: subscriptions, trial end, open Checkouts
    events,     \* Stripe events not delivered yet
    queue,      \* provider_jobs with status 'queued', oldest first
    job,        \* the provider job with status 'running', or NoJob
    proc,       \* where each thread is, and what it read before its last call out
    now,        \* the day
    spent       \* how many disturbances there have been

vars == <<tenant, relay, bs, stripe, events, queue, job, proc, now, spent>>

None == 0
Actors == {"loop", "worker", "maint"} \cup Pool
Subs == 1..MaxSubs

Open == {"trial", "active"}
TenantStatuses == Open \cup {"suspended", "cancelled", "purged", "deleted"}

Good == {"trialing", "active"}
Paying == Good \cup {"past_due"}
Ended == {"canceled", "incomplete_expired"}
SubStatuses == Paying \cup Ended \cup {"none", "incomplete", "unpaid"}

RelayActions == {"start", "stop", "restart", "upgrade"}
TenantJobs == {"cancel_tenant", "reactivate_tenant", "purge_tenant"} \cup RelayActions
StripeJobs == {"checkout", "update"}     \* both are stripe_event jobs
Places == {"idle", "stop", "mark", "start", "reopen", "remove", "wipe", "relay",
           "fetch", "record", "undo", "unrow", "queue", "purge_due", "trial_due"}

Job(kind, by, sub) == [kind |-> kind, by |-> by, sub |-> sub]
NoJob == Job("none", "none", 0)
Idle == [at |-> "idle", sub |-> 0, status |-> "none", trialEnd |-> None, row |-> "none"]

Max(x, y) == IF x > y THEN x ELSE y

-----------------------------------------------------------------------------
(* Threads and jobs. *)

LoopIdle == proc["loop"].at = "idle"
WorkerFree == job = NoJob /\ proc["worker"].at = "idle"
MaintIdle == proc["maint"].at = "idle"

Disturbance == /\ spent < MaxDisturbances
               /\ spent' = spent + 1
Request == Disturbance      \* somebody clicks
Move == Disturbance         \* something changes at Stripe
Fault == Disturbance        \* an outside call fails, or the dashboard restarts

\* jobs.active_for: stripe_event jobs carry no tenant_id and don't count.
Active == \/ job.kind \in TenantJobs
          \/ \E i \in 1..Len(queue) : queue[i].kind \in TenantJobs

EnqueueUnlessActive(kind, by) ==
    queue' = IF Active THEN queue ELSE Append(queue, Job(kind, by, 0))

\* jobs.run_one takes the oldest job; run_pending only once the last one ended.
Take(kind) == /\ WorkerFree
              /\ queue # <<>>
              /\ Head(queue).kind = kind
              /\ queue' = Tail(queue)

GoTo(a, place) == proc' = [proc EXCEPT ![a].at = place]

\* The call thread a is in has returned; for the worker its job is finished.
Finish(a) == /\ proc' = [proc EXCEPT ![a] = Idle]
             /\ job' = IF a = "worker" THEN NoJob ELSE job

\* sync_subscription has returned.  The console's Cancel still has to queue
\* the cancellation; every other caller is done.
Synced(a) ==
    IF a = "loop" /\ proc[a].row # "none"
    THEN GoTo(a, "queue") /\ UNCHANGED job
    ELSE Finish(a)

-----------------------------------------------------------------------------
(* billing.sync_subscription and apply_status. *)

Applies == tenant.mode = "stripe" /\ tenant.status \notin {"purged", "deleted"}

\* Mutant: Stripe's status copied as it is.
WantCopied(s) == s

Want(s) == IF s = "trialing" THEN "trial" ELSE "active"

\* How long the subscription has been past due, by the dashboard's own note.
PastDueFor == now - (IF bs.pastDueSince = None THEN now ELSE bs.pastDueSince)

\* Mutant: billing lifts any suspension.
VerdictLifting(s) ==
    IF Applies /\ s \in Good /\ tenant.status = "suspended" THEN "reopen"
    ELSE IF Applies /\ s \in Good /\ tenant.status \in Open THEN "follow"
    ELSE "nothing"

\* Mutant: a payment never lifts a suspension.
VerdictNotLifting(s) ==
    CASE Applies /\ s \in Good /\ tenant.status \in Open -> "follow"
      [] Applies /\ s = "unpaid" /\ tenant.status \in Open -> "suspend"
      [] Applies /\ s = "canceled" /\ tenant.status \in Open \cup {"suspended"} -> "cancel"
      [] OTHER -> "nothing"

\* What apply_status does to a tenant whose subscription Stripe says is in
\* status s: the branch its if/elif chain takes.
Verdict(s) ==
    CASE ~Applies -> "nothing"
      [] Applies /\ s \in Good /\ tenant.status \in Open -> "follow"
      [] Applies /\ s \in Good /\ tenant.status = "suspended" /\ tenant.billingSuspended -> "reopen"
      [] Applies /\ s \in Good /\ tenant.status = "cancelled" /\ tenant.purgeAfter > now -> "reactivate"
      [] Applies /\ s = "past_due" /\ tenant.status \in Open /\ PastDueFor >= PastDueDays -> "suspend"
      [] Applies /\ s = "unpaid" /\ tenant.status \in Open -> "suspend"
      [] Applies /\ s = "canceled" /\ tenant.status \in Open \cup {"suspended"} -> "cancel"
      [] Applies /\ s = "incomplete_expired" /\ tenant.status \in Open -> "undo"
      [] OTHER -> "nothing"

\* Mutant: a good subscription reopens a cancelled tenant without its job.
FollowedReopening(s, e) ==
    CASE Verdict(s) \in {"follow", "reopen", "reactivate"} ->
            [tenant EXCEPT !.status = Want(s), !.billingSuspended = FALSE]
      [] Verdict(s) = "suspend" ->
            [tenant EXCEPT !.status = "suspended", !.billingSuspended = TRUE]
      [] OTHER -> tenant

\* Its writes to the tenant's row.
Followed(s, e) ==
    LET trialEnds == IF s = "trialing" THEN e ELSE None IN
    CASE Verdict(s) \in {"follow", "reopen"} ->
            [tenant EXCEPT !.status = Want(s), !.trialEnds = trialEnds, !.billingSuspended =
                IF Verdict(s) = "reopen" THEN FALSE ELSE @]
      [] Verdict(s) = "suspend" ->
            [tenant EXCEPT !.status = "suspended", !.billingSuspended = TRUE]
      [] OTHER -> tenant

\* The billing_subscriptions row after the UPDATE and the past-due
\* bookkeeping (which apply_status only reaches for a tenant it applies to).
Recorded(s, e) ==
    IF bs.sub = 0 THEN bs
    ELSE [bs EXCEPT !.status = s, !.trialEnd = IF s = "trialing" THEN e ELSE None,
                    !.pastDueSince = IF ~Applies THEN @
                                     ELSE IF s # "past_due" THEN None
                                     ELSE IF @ = None THEN now ELSE @]

\* The row lookup and the answer from Stripe: from here on the thread holds
\* the subscription's status while it asks for its card and test clock.
Fetched(a, sub, row) ==
    [proc EXCEPT ![a] = [at |-> "record", sub |-> sub, status |-> stripe.status[sub],
                         trialEnd |-> stripe.trialEnd, row |-> row]]

SyncFetch(a) ==
    /\ proc[a].at = "fetch"
    /\ \/ /\ bs.sub = proc[a].sub
          /\ proc' = Fetched(a, bs.sub, proc[a].row)
          /\ UNCHANGED <<job, spent>>
       \/ /\ bs.sub # proc[a].sub                         \* no longer ours
          /\ Synced(a)
          /\ UNCHANGED spent
       \/ Fault /\ Finish(a)                              \* Stripe unreachable
    /\ UNCHANGED <<tenant, relay, bs, stripe, events, queue, now>>

\* The answer is written to the row of the tenant it was looked up for, and
\* applied to the tenant as it is now.
SyncRecord(a) ==
    /\ proc[a].at = "record"
    /\ LET s == proc[a].status
           e == proc[a].trialEnd IN
       /\ bs' = Recorded(s, e)
       /\ tenant' = Followed(s, e)
       /\ \/ /\ Verdict(s) = "reactivate"
             /\ EnqueueUnlessActive("reactivate_tenant", "stripe")
             /\ Synced(a)
          \/ /\ Verdict(s) = "cancel"
             /\ EnqueueUnlessActive("cancel_tenant", "stripe")
             /\ Synced(a)
          \/ /\ Verdict(s) = "undo"
             /\ GoTo(a, "undo")
             /\ UNCHANGED <<queue, job>>
          \/ /\ Verdict(s) \notin {"reactivate", "cancel", "undo"}
             /\ Synced(a)
             /\ UNCHANGED queue
    /\ UNCHANGED <<relay, stripe, events, now, spent>>

\* tenants.undo_creation takes the relay down (an error is only noted) ...
UndoRelay(a) ==
    /\ proc[a].at = "undo"
    /\ GoTo(a, "unrow")
    /\ \/ relay' = [up |-> "gone", keys |-> "none"] /\ UNCHANGED spent
       \/ Fault /\ UNCHANGED relay
    /\ UNCHANGED <<tenant, bs, stripe, events, queue, job, now>>

\* ... and then deletes every row of the tenant, the tenant's own last.
UndoRows(a) ==
    /\ proc[a].at = "unrow"
    /\ tenant' = [tenant EXCEPT !.status = "deleted"]
    /\ bs' = [sub |-> 0, status |-> "none", trialEnd |-> None, pastDueSince |-> None]
    /\ Synced(a)
    /\ UNCHANGED <<relay, stripe, events, queue, now, spent>>

Sync(a) == SyncFetch(a) \/ SyncRecord(a) \/ UndoRelay(a) \/ UndoRows(a)

-----------------------------------------------------------------------------
(* The worker: lifecycle jobs. *)

JobFails == Finish("worker")

StartCancel ==
    /\ Take("cancel_tenant")
    /\ IF tenant.status \in Open \cup {"suspended"}
       THEN job' = Head(queue) /\ GoTo("worker", "stop")
       ELSE UNCHANGED <<job, proc>>
    /\ UNCHANGED <<tenant, relay, bs, stripe, events, now, spent>>

\* Mutant: the tenant is marked cancelled even if its relay didn't stop.
CancelStopIgnoringErrors ==
    /\ proc["worker"].at = "stop"
    /\ GoTo("worker", "mark")
    /\ \/ relay' = [relay EXCEPT !.up = "stopped"] /\ UNCHANGED spent
       \/ Fault /\ UNCHANGED relay
    /\ UNCHANGED <<tenant, bs, stripe, events, queue, job, now>>

CancelStop ==
    /\ proc["worker"].at = "stop"
    /\ \/ /\ relay.up # "gone"
          /\ relay' = [relay EXCEPT !.up = "stopped"]
          /\ GoTo("worker", "mark")
          /\ UNCHANGED <<job, spent>>
       \/ /\ relay.up = "gone"                            \* no compose file
          /\ JobFails
          /\ UNCHANGED <<relay, spent>>
       \/ Fault /\ JobFails /\ UNCHANGED relay
    /\ UNCHANGED <<tenant, bs, stripe, events, queue, now>>

\* lifecycle._set on a row that is gone changes nothing.
SetTenant(row) == tenant' = IF tenant.status = "deleted" THEN tenant ELSE row

\* Mutant: the grace period a day short.
CancelMarkShort ==
    /\ proc["worker"].at = "mark"
    /\ SetTenant([tenant EXCEPT !.status = "cancelled", !.cancelledAt = now,
                                !.purgeAfter = now + GraceDays - 1])
    /\ Finish("worker")
    /\ UNCHANGED <<relay, bs, stripe, events, queue, now, spent>>

CancelMark ==
    /\ proc["worker"].at = "mark"
    /\ SetTenant([tenant EXCEPT !.status = "cancelled", !.cancelledAt = now,
                                !.purgeAfter = now + GraceDays])
    /\ Finish("worker")
    /\ UNCHANGED <<relay, bs, stripe, events, queue, now, spent>>

\* lifecycle.reopened_status, of the row whose trial ends on day ends
ReopenedStatus(ends) == IF ends > now THEN "trial" ELSE "active"

\* Mutant: the billing flag outlives the suspension.
ReopenedKeepingFlag(ends) ==
    [tenant EXCEPT !.status = ReopenedStatus(ends), !.cancelledAt = None, !.purgeAfter = None,
                   !.trialEnds = IF ReopenedStatus(ends) = "trial" THEN @ ELSE None]

Reopened(ends) == [tenant EXCEPT !.status = ReopenedStatus(ends), !.cancelledAt = None, !.purgeAfter = None,
                                 !.billingSuspended = FALSE,
                                 !.trialEnds = IF ReopenedStatus(ends) = "trial" THEN @ ELSE None]

\* Job j reopens the tenant; a Stripe tenant's subscription is synced next.
\* mode and ends are the row's, as the job read it when it started.
ReopenAndSync(j, mode, ends) ==
    /\ SetTenant(Reopened(ends))
    /\ IF mode = "stripe" /\ bs.sub # 0
       THEN /\ job' = j
            /\ proc' = [proc EXCEPT !["worker"] = [Idle EXCEPT !.at = "fetch", !.sub = bs.sub]]
       ELSE Finish("worker")

\* A suspended tenant's relay never stopped: it is reopened at once.
StartReactivate ==
    /\ Take("reactivate_tenant")
    /\ \/ /\ tenant.status = "suspended"
          /\ ReopenAndSync(Head(queue), tenant.mode, tenant.trialEnds)
       \/ /\ tenant.status = "cancelled" /\ tenant.purgeAfter > now
          /\ job' = Head(queue)
          /\ proc' = [proc EXCEPT !["worker"] = [Idle EXCEPT !.at = "start", !.row = tenant.mode,
                                                           !.trialEnd = tenant.trialEnds]]
          /\ UNCHANGED tenant
       \/ /\ tenant.status # "suspended"
          /\ tenant.status # "cancelled" \/ tenant.purgeAfter <= now
          /\ UNCHANGED <<tenant, job, proc>>
    /\ UNCHANGED <<relay, bs, stripe, events, now, spent>>

ReactivateStart ==
    /\ proc["worker"].at = "start"
    /\ \/ /\ relay.up # "gone"
          /\ relay' = [relay EXCEPT !.up = "running"]
          /\ GoTo("worker", "reopen")
          /\ UNCHANGED <<job, spent>>
       \/ /\ relay.up = "gone"
          /\ JobFails
          /\ UNCHANGED <<relay, spent>>
       \/ Fault /\ JobFails /\ UNCHANGED relay
    /\ UNCHANGED <<tenant, bs, stripe, events, queue, now>>

ReactivateReopen ==
    /\ proc["worker"].at = "reopen"
    /\ ReopenAndSync(job, proc["worker"].row, proc["worker"].trialEnd)
    /\ UNCHANGED <<relay, bs, stripe, events, queue, now, spent>>

\* lifecycle.guard for "purge": no live subscription, as the dashboard has it.
PurgeGuard == ~(tenant.mode = "stripe" /\ bs.sub # 0 /\ bs.status \notin Ended)

\* Mutant: a purge that stopped half-way isn't run again.
StartPurgeOnce ==
    /\ Take("purge_tenant")
    /\ IF PurgeGuard /\ tenant.status = "cancelled" /\ relay.up # "gone"
       THEN job' = Head(queue) /\ GoTo("worker", "remove")
       ELSE UNCHANGED <<job, proc>>
    /\ UNCHANGED <<tenant, relay, bs, stripe, events, now, spent>>

StartPurge ==
    /\ Take("purge_tenant")
    /\ IF PurgeGuard /\ tenant.status \in {"cancelled", "purged"}
       THEN job' = Head(queue) /\ GoTo("worker", "remove")
       ELSE UNCHANGED <<job, proc>>
    /\ UNCHANGED <<tenant, relay, bs, stripe, events, now, spent>>

\* Containers, compose file, keypair and hbbs data.
PurgeRemove ==
    /\ proc["worker"].at = "remove"
    /\ \/ /\ relay' = [up |-> "gone", keys |-> "none"]
          /\ GoTo("worker", "wipe")
          /\ UNCHANGED <<job, spent>>
       \/ Fault /\ JobFails /\ UNCHANGED relay
    /\ UNCHANGED <<tenant, bs, stripe, events, queue, now>>

\* Hosts (which may fail), then files, rows and the status.
PurgeWipe ==
    /\ proc["worker"].at = "wipe"
    /\ Finish("worker")
    /\ \/ SetTenant([tenant EXCEPT !.status = "purged"]) /\ UNCHANGED spent
       \/ Fault /\ UNCHANGED tenant
    /\ UNCHANGED <<relay, bs, stripe, events, queue, now>>

\* relay_action: the console's Start, Stop, Restart and Upgrade.
StartRelayAction ==
    /\ \E action \in RelayActions : Take(action)
    /\ IF tenant.status \notin {"purged", "deleted"}      \* its relays row exists
       THEN job' = Head(queue) /\ GoTo("worker", "relay")
       ELSE UNCHANGED <<job, proc>>
    /\ UNCHANGED <<tenant, relay, bs, stripe, events, now, spent>>

RelayAction ==
    /\ proc["worker"].at = "relay"
    /\ Finish("worker")
    /\ \/ /\ job.kind = "stop" /\ relay.up # "gone"
          /\ relay' = [relay EXCEPT !.up = "stopped"]
          /\ UNCHANGED spent
       \/ /\ job.kind \in {"start", "restart"} /\ relay.up # "gone"
          /\ relay' = [relay EXCEPT !.up = "running"]
          /\ UNCHANGED spent
       \/ /\ job.kind = "upgrade"                         \* writes the compose file afresh
          /\ relay' = [up |-> "running", keys |-> IF relay.keys = "none" THEN "new" ELSE relay.keys]
          /\ UNCHANGED spent
       \/ /\ job.kind # "upgrade" /\ relay.up = "gone"
          /\ UNCHANGED <<relay, spent>>
       \/ Fault /\ UNCHANGED relay
    /\ UNCHANGED <<tenant, bs, stripe, events, queue, now>>

-----------------------------------------------------------------------------
(* The worker: stripe_event jobs. *)

StartEvent ==
    /\ Take("update")
    /\ LET sub == Head(queue).sub IN
       \/ /\ bs.sub = sub
          /\ job' = Head(queue)
          /\ proc' = Fetched("worker", sub, "none")
          /\ UNCHANGED spent
       \/ bs.sub # sub /\ UNCHANGED <<job, proc, spent>>
       \/ Fault /\ UNCHANGED <<job, proc>>
    /\ UNCHANGED <<tenant, relay, bs, stripe, events, now>>

\* billing.resubscribed: without a card the subscription is cancelled; a second
\* one paid for is left to the provider; a tenant that is gone can't have one
\* (the foreign key).
StartCheckout ==
    /\ Take("checkout")
    /\ LET sub == Head(queue).sub
           second == bs.sub \notin {0, sub} /\ bs.status \in Paying IN
       \/ /\ tenant.status # "deleted" /\ ~second
          /\ bs' = [bs EXCEPT !.sub = sub, !.status = "incomplete", !.pastDueSince = None]
          /\ job' = Head(queue)
          /\ proc' = [proc EXCEPT !["worker"] = [Idle EXCEPT !.at = "fetch", !.sub = sub]]
          /\ UNCHANGED <<stripe, events, spent>>
       \/ /\ tenant.status = "deleted" \/ second
          /\ UNCHANGED <<bs, stripe, events, job, proc, spent>>
       \/ /\ Move /\ stripe.status[sub] \notin Ended
          /\ stripe' = [stripe EXCEPT !.status[sub] = "canceled"]
          /\ events' = events \cup {[kind |-> "update", sub |-> sub]}
          /\ UNCHANGED <<bs, job, proc>>
       \/ Fault /\ UNCHANGED <<bs, stripe, events, job, proc>>
    /\ UNCHANGED <<tenant, relay, now>>

Worker == \/ StartCancel \/ CancelStop \/ CancelMark
          \/ StartReactivate \/ ReactivateStart \/ ReactivateReopen
          \/ StartPurge \/ PurgeRemove \/ PurgeWipe
          \/ StartRelayAction \/ RelayAction
          \/ StartEvent \/ StartCheckout
          \/ Sync("worker")

-----------------------------------------------------------------------------
(* The maintenance thread: lifecycle.daily reads its rows, mails other      *)
(* tenants' admins, and then acts on what it read; _trials the same.  Once  *)
(* a day reconcile syncs the subscription.                                  *)

DailyDue ==
    /\ MaintIdle
    /\ tenant.status = "cancelled" /\ tenant.purgeAfter # None /\ tenant.purgeAfter <= now
    /\ GoTo("maint", "purge_due")
    /\ UNCHANGED <<tenant, relay, bs, stripe, events, queue, job, now, spent>>

DailyPurge ==
    /\ proc["maint"].at = "purge_due"
    /\ EnqueueUnlessActive("purge_tenant", "scheduled")
    /\ Finish("maint")
    /\ UNCHANGED <<tenant, relay, bs, stripe, events, now, spent>>

\* Mutant: only tenants whose trial is a day over.
TrialsDueLate ==
    /\ MaintIdle
    /\ tenant.status = "trial" /\ tenant.mode = "manual"
    /\ tenant.trialEnds # None /\ tenant.trialEnds < now
    /\ GoTo("maint", "trial_due")
    /\ UNCHANGED <<tenant, relay, bs, stripe, events, queue, job, now, spent>>

TrialsDue ==
    /\ MaintIdle
    /\ tenant.status = "trial" /\ tenant.mode = "manual"
    /\ tenant.trialEnds # None /\ tenant.trialEnds <= now
    /\ GoTo("maint", "trial_due")
    /\ UNCHANGED <<tenant, relay, bs, stripe, events, queue, job, now, spent>>

TrialsSuspend ==
    /\ proc["maint"].at = "trial_due"
    /\ SetTenant([tenant EXCEPT !.status = "suspended"])
    /\ Finish("maint")
    /\ UNCHANGED <<relay, bs, stripe, events, queue, now, spent>>

\* Mutant: only open tenants are reconciled.
ReconcileOpen ==
    /\ MaintIdle
    /\ Applies /\ bs.sub # 0 /\ tenant.status \in Open
    /\ proc' = Fetched("maint", bs.sub, "none")
    /\ UNCHANGED <<tenant, relay, bs, stripe, events, queue, job, now, spent>>

Reconcile ==
    /\ MaintIdle
    /\ Applies /\ bs.sub # 0
    /\ proc' = Fetched("maint", bs.sub, "none")
    /\ UNCHANGED <<tenant, relay, bs, stripe, events, queue, job, now, spent>>

Maintenance == DailyDue \/ DailyPurge \/ TrialsDue \/ TrialsSuspend \/ Reconcile \/ Sync("maint")

-----------------------------------------------------------------------------
(* The console.  tenant_pages.py's handlers are async: they need the loop. *)

Exists == tenant.status \notin {"purged", "deleted"}      \* _lifecycle_target

\* Mutant: any tenant can be suspended.
SuspendAny ==
    /\ LoopIdle /\ Request
    /\ tenant' = [tenant EXCEPT !.status = "suspended", !.billingSuspended = FALSE]
    /\ UNCHANGED <<relay, bs, stripe, events, queue, job, proc, now>>

Suspend ==
    /\ LoopIdle /\ Request
    /\ tenant.status \in Open
    /\ tenant' = [tenant EXCEPT !.status = "suspended", !.billingSuspended = FALSE]
    /\ UNCHANGED <<relay, bs, stripe, events, queue, job, proc, now>>

Activate ==
    /\ LoopIdle /\ Request
    /\ tenant.status = "trial"
    /\ tenant' = [tenant EXCEPT !.status = "active", !.trialEnds = None]
    /\ UNCHANGED <<relay, bs, stripe, events, queue, job, proc, now>>

ExtendTrial ==
    /\ LoopIdle /\ Request
    /\ tenant.mode # "stripe"
    /\ tenant.trialEnds # None /\ tenant.status \in {"trial", "suspended"}
    /\ tenant' = [tenant EXCEPT !.trialEnds = Max(now, @) + 1]
    /\ UNCHANGED <<relay, bs, stripe, events, queue, job, proc, now>>

ExtendGrace ==
    /\ LoopIdle /\ Request
    /\ tenant.status = "cancelled" /\ tenant.purgeAfter # None
    /\ tenant' = [tenant EXCEPT !.purgeAfter = @ + 1]
    /\ UNCHANGED <<relay, bs, stripe, events, queue, job, proc, now>>

\* _queue: refused while the tenant has a job.
QueueRequest(kind) ==
    /\ Request
    /\ ~Active
    /\ queue' = Append(queue, Job(kind, "provider", 0))
    /\ UNCHANGED <<tenant, relay, bs, stripe, events, job, proc, now>>

Reactivate == LoopIdle /\ tenant.status \in {"suspended", "cancelled"} /\ QueueRequest("reactivate_tenant")
Cancel == LoopIdle /\ Exists /\ tenant.mode # "stripe" /\ QueueRequest("cancel_tenant")
Purge == LoopIdle /\ PurgeGuard /\ tenant.status = "cancelled" /\ QueueRequest("purge_tenant")

\* relay_pages.relay_action and billing_pages.billing_mode are plain def handlers.
RelayRequest == Exists /\ \E action \in RelayActions : QueueRequest(action)

SetBillingMode ==
    /\ Request
    /\ \E mode \in Modes \ {tenant.mode} :
          /\ mode = "stripe" => bs.sub # 0
          /\ SetTenant([tenant EXCEPT !.mode = mode])
    /\ UNCHANGED <<relay, bs, stripe, events, queue, job, proc, now>>

\* Cancel for a Stripe tenant: the subscription is cancelled at Stripe (which
\* refuses one that ended), synced, and then the tenant's job is queued if
\* the row read first wasn't cancelled.
CancelSubscription ==
    /\ LoopIdle /\ Request
    /\ Exists /\ tenant.mode = "stripe" /\ bs.sub # 0
    /\ \/ /\ bs.status \notin Ended /\ stripe.status[bs.sub] \notin Ended
          /\ stripe' = [stripe EXCEPT !.status[bs.sub] = "canceled"]
          /\ events' = events \cup {[kind |-> "update", sub |-> bs.sub]}
       \/ bs.status \in Ended /\ UNCHANGED <<stripe, events>>
    /\ proc' = [proc EXCEPT !["loop"] = [Idle EXCEPT !.at = "fetch", !.sub = bs.sub, !.row = tenant.status]]
    /\ UNCHANGED <<tenant, relay, bs, queue, job, now>>

CancelQueue ==
    /\ proc["loop"].at = "queue"
    /\ queue' = IF Active \/ proc["loop"].row = "cancelled" THEN queue
                ELSE Append(queue, Job("cancel_tenant", "provider", 0))
    /\ Finish("loop")
    /\ UNCHANGED <<tenant, relay, bs, stripe, events, now, spent>>

\* Extend trial for a Stripe tenant: Stripe's trial_end moves, then a sync.
ExtendTrialStripe ==
    /\ LoopIdle /\ Request
    /\ Exists /\ tenant.mode = "stripe" /\ bs.sub # 0
    /\ bs.status = "trialing" /\ bs.trialEnd # None /\ stripe.status[bs.sub] = "trialing"
    /\ stripe' = [stripe EXCEPT !.trialEnd = Max(now, bs.trialEnd) + 1]
    /\ proc' = [proc EXCEPT !["loop"] = [Idle EXCEPT !.at = "fetch", !.sub = bs.sub]]
    /\ UNCHANGED <<tenant, relay, bs, events, queue, job, now>>

\* "Sync now" on the tenant's page, in a threadpool thread.
BillingSync(p) ==
    /\ proc[p].at = "idle" /\ Request
    /\ bs.sub # 0
    /\ proc' = Fetched(p, bs.sub, "none")
    /\ UNCHANGED <<tenant, relay, bs, stripe, events, queue, job, now>>

\* Resubscribe on the export page opens a Checkout Session, nothing else.
Resubscribe ==
    /\ Request
    /\ tenant.mode = "stripe" /\ tenant.status = "cancelled"
    /\ bs.sub # 0 /\ bs.status \notin Paying
    /\ stripe' = [stripe EXCEPT !.sessions = @ + 1]
    /\ UNCHANGED <<tenant, relay, bs, events, queue, job, proc, now>>

Console == \/ Suspend \/ Activate \/ ExtendTrial \/ ExtendGrace
           \/ Reactivate \/ Cancel \/ Purge \/ RelayRequest \/ SetBillingMode
           \/ CancelSubscription \/ CancelQueue \/ ExtendTrialStripe \/ Sync("loop")
           \/ Resubscribe
           \/ \E p \in Pool : BillingSync(p) \/ Sync(p)

-----------------------------------------------------------------------------
(* Stripe, the customer, time and restarts. *)

StripeNext(s) ==
    CASE s = "trialing" -> {"active", "past_due", "unpaid", "canceled"}
      [] s = "active" -> {"past_due", "unpaid", "canceled"}
      [] s = "past_due" -> {"active", "unpaid", "canceled"}
      [] s = "unpaid" -> {"active", "canceled"}
      [] s = "incomplete" -> {"active", "incomplete_expired"}
      [] OTHER -> {}

StripeChange ==
    /\ Move
    /\ \E sub \in Subs : \E s \in StripeNext(stripe.status[sub]) :
          /\ stripe' = [stripe EXCEPT !.status[sub] = s]
          /\ events' = events \cup {[kind |-> "update", sub |-> sub]}
    /\ UNCHANGED <<tenant, relay, bs, queue, job, proc, now>>

\* The customer pays for an open Checkout, whatever has happened since.
CheckoutPaid ==
    /\ Move
    /\ stripe.sessions > 0
    /\ \E sub \in Subs :
          /\ stripe.status[sub] = "none"
          /\ \A earlier \in 1..(sub - 1) : stripe.status[earlier] # "none"
          /\ stripe' = [stripe EXCEPT !.status = [@ EXCEPT ![sub] = "active"], !.sessions = @ - 1]
          /\ events' = events \cup {[kind |-> "checkout", sub |-> sub]}
    /\ UNCHANGED <<tenant, relay, bs, queue, job, proc, now>>

\* billing.receive records the event and queues its job.  A redelivery is
\* refused by the unique event_id and changes nothing.
Receive ==
    /\ LoopIdle
    /\ \E event \in events :
          /\ events' = events \ {event}
          /\ queue' = Append(queue, Job(event.kind, "stripe", event.sub))
    /\ UNCHANGED <<tenant, relay, bs, stripe, job, proc, now, spent>>

\* A restart ends every thread where it is.  jobs.recover_interrupted marks
\* the running job failed: none of these kinds has a recover function, and
\* queued jobs stay queued.  An event that receive() had recorded but not
\* queued is lost: its redelivery is a duplicate.
Crash ==
    /\ Fault
    /\ proc' = [a \in Actors |-> Idle]
    /\ job' = NoJob
    /\ \/ UNCHANGED events
       \/ LoopIdle /\ \E event \in events : events' = events \ {event}
    /\ UNCHANGED <<tenant, relay, bs, stripe, queue, now>>

Tick ==
    /\ now < MaxTime
    /\ now' = now + 1
    /\ UNCHANGED <<tenant, relay, bs, stripe, events, queue, job, proc, spent>>

-----------------------------------------------------------------------------
(* A tenant as its creation job leaves it: on trial, its relay running. *)

Init ==
    /\ \E mode \in Modes, s \in {"trialing", "incomplete"} :
          LET billed == mode = "stripe"
              trialEnds == 1 + TrialDays IN
          /\ tenant = [status |-> "trial", mode |-> mode, billingSuspended |-> FALSE,
                       trialEnds |-> trialEnds, cancelledAt |-> None, purgeAfter |-> None]
          /\ stripe = [status |-> [sub \in Subs |-> IF sub = 1 /\ billed THEN s ELSE "none"],
                       trialEnd |-> trialEnds, sessions |-> 0]
          /\ bs = [sub |-> IF billed THEN 1 ELSE 0, status |-> IF billed THEN s ELSE "none",
                   trialEnd |-> IF billed /\ s = "trialing" THEN trialEnds ELSE None,
                   pastDueSince |-> None]
    /\ relay = [up |-> "running", keys |-> "first"]
    /\ events = {}
    /\ queue = <<>>
    /\ job = NoJob
    /\ proc = [a \in Actors |-> Idle]
    /\ now = 1
    /\ spent = 0

Next == Worker \/ Maintenance \/ Console \/ StripeChange \/ CheckoutPaid \/ Receive \/ Crash \/ Tick

Spec == Init /\ [][Next]_vars

-----------------------------------------------------------------------------
(* What must hold. *)

BillingModes == {"internal", "manual", "stripe"}
TenantRows == [status : TenantStatuses, mode : BillingModes, billingSuspended : BOOLEAN,
               trialEnds : Nat, cancelledAt : Nat, purgeAfter : Nat]
Relays == [up : {"running", "stopped", "gone"}, keys : {"first", "new", "none"}]
BillingRows == [sub : Subs \cup {0}, status : SubStatuses, trialEnd : Nat, pastDueSince : Nat]
StripeStates == [status : [Subs -> SubStatuses], trialEnd : Nat, sessions : Nat]
Jobs == [kind : TenantJobs, by : {"provider", "stripe", "scheduled"}, sub : {0}]
            \cup [kind : StripeJobs, by : {"stripe"}, sub : Subs]
Threads == [at : Places, sub : Subs \cup {0}, status : SubStatuses, trialEnd : Nat,
            row : TenantStatuses \cup BillingModes \cup {"none"}]

\* Every variable has its type: the columns of the rows, the queued and the
\* running job, and each thread's place and what it holds there.
TypeOK ==
    /\ tenant \in TenantRows
    /\ relay \in Relays
    /\ bs \in BillingRows
    /\ stripe \in StripeStates
    /\ events \subseteq [kind : StripeJobs, sub : Subs]
    /\ queue \in Seq(Jobs)
    /\ job \in Jobs \cup {NoJob}
    /\ proc \in [Actors -> Threads]
    /\ \A a \in Actors : proc[a].at = "fetch" => proc[a].sub \in Subs
    /\ now \in Nat \ {0}
    /\ spent \in Nat

\* A cancelled tenant always has the whole grace period on record, counted
\* from the cancellation in force, however cancellations, reactivations,
\* extensions and syncs interleave (lifecycle._cancel, extend_grace).
GraceHeld ==
    tenant.status = "cancelled" =>
        /\ tenant.cancelledAt # None
        /\ tenant.purgeAfter >= tenant.cancelledAt + GraceDays

\* An open tenant carries no leftover billing suspension: were the flag to
\* survive a reopening, the next payment would lift a suspension that billing
\* did not make (apply_status, suspend, _reactivate).
NoStaleBillingFlag == tenant.status \in Open => ~tenant.billingSuspended

\* While a job is out at the helper, no other thread moves the tenant from
\* under it: a cancellation still finds it open or suspended, a reactivation
\* and a purge still find it cancelled, and each knows what it has done to the
\* relay (_cancel, _reactivate and purge_now read the tenant once, before the
\* helper's call; an undone creation's rows may go meanwhile).
BeingUndone == \E a \in Actors : proc[a].at \in {"undo", "unrow"}
WorkerHolds ==
    LET at == proc["worker"].at IN
    /\ at \in {"stop", "mark"} => tenant.status \in Open \cup {"suspended", "deleted"}
    /\ at = "mark" => relay.up # "running"
    /\ at \in {"start", "reopen"} => tenant.status \in {"cancelled", "deleted"}
    /\ at = "reopen" => relay.up = "running" \/ BeingUndone \/ tenant.status = "deleted"
    /\ at \in {"remove", "wipe"} => tenant.status \in {"cancelled", "purged", "deleted"}
    /\ at = "wipe" => relay.up = "gone"

\* A purge takes a tenant that is cancelled when its data goes, and nothing
\* brings a purged tenant back: not a sync, a job, a console action or a
\* maintenance pass under way meanwhile (purge_now against every other writer;
\* an undone creation's rows go altogether).
PurgeIsLast ==
    [][/\ tenant.status # "purged" /\ tenant'.status = "purged" => tenant.status = "cancelled"
       /\ tenant.status = "purged" => tenant'.status \in {"purged", "deleted"}]_vars

\* A tenant is closed only with its relay down, and leaves the cancelled state
\* for an open one only with its relay running, or while an unpaid creation is
\* being undone (_cancel and _reactivate: the docker call comes first, and no
\* other job runs in between).
RelayFollowsStatus ==
    [][/\ tenant.status # "cancelled" /\ tenant'.status = "cancelled" => relay.up # "running"
       /\ tenant.status = "cancelled" /\ tenant'.status \in Open \cup {"suspended"} =>
             relay.up = "running" \/ BeingUndone]_vars

\* Only a job the provider asked for reopens a tenant that billing did not
\* suspend (billing.py: "a suspension billing made is lifted when the
\* subscription is good again; one a provider admin made is not").
OnlyProviderLiftsSuspension ==
    [][tenant.status = "suspended" /\ ~tenant.billingSuspended /\ tenant'.status \in Open
         => job.by = "provider" \/ (queue # <<>> /\ Head(queue).by = "provider")]_vars

\* TENANCY.md: "a purge needs it cancelled first" (the tenant's Stripe
\* subscription), the reason for lifecycle.guard("purge").
NoPurgeWhileSubscribed ==
    [][proc["worker"].at # "remove" /\ proc'["worker"].at = "remove" /\ tenant.mode = "stripe" =>
         \A sub \in Subs : stripe.status[sub] \in Ended \cup {"none"}]_vars

-----------------------------------------------------------------------------
(* Liveness.  The worker thread runs whenever it has a job, a handler that  *)
(* was started goes on, Stripe retries a delivery until it is accepted, and *)
(* every maintenance pass takes each of its steps (strong fairness: a step  *)
(* is possible again and again, whenever the thread is idle).               *)

Fairness ==
    /\ WF_vars(Worker)
    /\ WF_vars(Sync("loop") \/ CancelQueue)
    /\ \A p \in Pool : WF_vars(Sync(p))
    /\ WF_vars(DailyPurge \/ TrialsSuspend \/ Sync("maint"))
    /\ SF_vars(DailyDue) /\ SF_vars(TrialsDue) /\ SF_vars(Reconcile)
    /\ WF_vars(Receive)
    /\ WF_vars(Tick)

FairSpec == Spec /\ Fairness

Driven == tenant.mode = "stripe" /\ Exists /\ bs.sub # 0

\* Whatever was lost, late, repeated or overtaken, once Stripe is quiet the
\* recorded status is the subscription's own (billing.py: events may come twice
\* or out of order; reconcile repairs the rest).
CacheConverges == <>[](Driven => bs.status = stripe.status[bs.sub])

\* ... and the tenant ends up where TENANCY.md's table puts it: open while the
\* subscription is good (unless the provider suspended it, or it is cancelled
\* and its grace is over or its purge has begun), not open when unpaid or past
\* due too long, cancelled when canceled, undone when never paid.
InStep ==
    LET s == stripe.status[bs.sub] IN
    /\ s \in Good => \/ tenant.status = Want(s)
                     \/ tenant.status = "suspended" /\ ~tenant.billingSuspended
                     \/ tenant.status = "cancelled" /\ (tenant.purgeAfter <= now \/ relay.up = "gone")
    /\ s = "past_due" /\ PastDueFor >= PastDueDays => tenant.status \notin Open
    /\ s \in {"unpaid", "incomplete_expired"} => tenant.status \notin Open
    /\ s = "canceled" => tenant.status = "cancelled"
StripeDrives == <>[](Driven => InStep)

\* A manual tenant's trial that is over doesn't stay open (lifecycle._trials).
TrialsEnd ==
    <>[](tenant.mode = "manual" /\ tenant.status = "trial" /\ tenant.trialEnds # None => tenant.trialEnds > now)

\* A cancelled tenant whose grace is over is purged, unless the purge guard
\* refuses it (lifecycle.daily, _purge), a failed or interrupted purge
\* included: it is queued again.
DuePurged == <>[](tenant.status = "cancelled" /\ tenant.purgeAfter <= now => ~PurgeGuard)

=============================================================================
