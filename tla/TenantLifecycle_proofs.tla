------------------------ MODULE TenantLifecycle_proofs ------------------------
(***************************************************************************)
(* Proofs about TenantLifecycle, for every number of threadpool threads,   *)
(* every set of billing modes and all bounds.                              *)
(***************************************************************************)
EXTENDS TenantLifecycle, TLAPS

Known == Jobs \cup {NoJob}
ThreadsOK == /\ proc \in [Actors -> Threads]
             /\ \A a \in Actors : proc[a].at = "fetch" => proc[a].sub \in Subs

-----------------------------------------------------------------------------
(* What the building blocks of the actions do to the types. *)

\* A finished thread holds nothing, and the worker then has no job.
LEMMA FinishType ==
    ASSUME ThreadsOK, job \in Known, NEW a \in Actors, Finish(a)
    PROVE  ThreadsOK' /\ job' \in Known
  <1>1. Idle \in Threads /\ Idle.at # "fetch"
    BY DEF Idle, Threads, Places, Subs, SubStatuses, None
  <1> QED BY <1>1 DEF Finish, ThreadsOK, Known

\* A thread may move on to any place but a fetch.
LEMMA GoToType ==
    ASSUME ThreadsOK, NEW a \in Actors, NEW place \in Places, place # "fetch", GoTo(a, place)
    PROVE  ThreadsOK'
  <1>1. [proc[a] EXCEPT !.at = place] \in Threads
    BY DEF ThreadsOK, Threads
  <1> QED BY <1>1 DEF GoTo, ThreadsOK, Threads

\* The end of a sync, for every thread.
LEMMA SyncedType ==
    ASSUME ThreadsOK, job \in Known, NEW a \in Actors, Synced(a)
    PROVE  ThreadsOK' /\ job' \in Known
  <1>1. CASE GoTo(a, "queue") /\ UNCHANGED job
    BY <1>1, GoToType DEF Places
  <1>2. CASE Finish(a)
    BY <1>2, FinishType
  <1> QED BY <1>1, <1>2 DEF Synced

\* A thread that has its answer from Stripe.
LEMMA FetchedType ==
    ASSUME ThreadsOK, stripe \in StripeStates, NEW a \in Actors, NEW sub \in Subs,
           NEW row \in TenantStatuses \cup BillingModes \cup {"none"},
           proc' = Fetched(a, sub, row)
    PROVE  ThreadsOK'
  <1>1. [at |-> "record", sub |-> sub, status |-> stripe.status[sub],
         trialEnd |-> stripe.trialEnd, row |-> row] \in Threads
    BY DEF Threads, Places, StripeStates
  <1> QED BY <1>1 DEF Fetched, ThreadsOK

\* A thread about to ask Stripe, with and without the row Cancel read first.
LEMMA ToFetchType ==
    ASSUME ThreadsOK, NEW a \in Actors, NEW sub \in Subs,
           NEW row \in TenantStatuses \cup BillingModes \cup {"none"},
           \/ proc' = [proc EXCEPT ![a] = [Idle EXCEPT !.at = "fetch", !.sub = sub, !.row = row]]
           \/ proc' = [proc EXCEPT ![a] = [Idle EXCEPT !.at = "fetch", !.sub = sub]]
    PROVE  ThreadsOK'
  <1>1. /\ [Idle EXCEPT !.at = "fetch", !.sub = sub, !.row = row] \in Threads
        /\ [Idle EXCEPT !.at = "fetch", !.sub = sub] \in Threads
    BY DEF Idle, Threads, Places, SubStatuses, None
  <1>2. /\ [Idle EXCEPT !.at = "fetch", !.sub = sub, !.row = row].sub = sub
        /\ [Idle EXCEPT !.at = "fetch", !.sub = sub].sub = sub
    BY DEF Idle
  <1> QED BY <1>1, <1>2 DEF ThreadsOK

\* The job taken is the oldest one, of the kind asked for.
LEMMA TakeType ==
    ASSUME queue \in Seq(Jobs), NEW kind, Take(kind)
    PROVE  Head(queue) \in Jobs /\ Head(queue).kind = kind /\ queue' \in Seq(Jobs)
  BY DEF Take

LEMMA AppendType ==
    ASSUME queue \in Seq(Jobs), NEW kind \in TenantJobs, NEW by \in {"provider", "stripe", "scheduled"}
    PROVE  Append(queue, Job(kind, by, 0)) \in Seq(Jobs)
  <1>1. Job(kind, by, 0) \in Jobs
    BY DEF Job, Jobs
  <1> QED BY <1>1

LEMMA EnqueueType ==
    ASSUME queue \in Seq(Jobs), NEW kind \in TenantJobs, NEW by \in {"provider", "stripe", "scheduled"},
           EnqueueUnlessActive(kind, by)
    PROVE  queue' \in Seq(Jobs)
  BY AppendType DEF EnqueueUnlessActive

LEMMA SetTenantType ==
    ASSUME tenant \in TenantRows, NEW row \in TenantRows, SetTenant(row)
    PROVE  tenant' \in TenantRows
  BY DEF SetTenant

\* A reopened tenant is on trial or active.
LEMMA ReopenedType ==
    ASSUME tenant \in TenantRows, NEW ends
    PROVE  Reopened(ends) \in TenantRows
  <1>1. ReopenedStatus(ends) \in TenantStatuses
    BY DEF ReopenedStatus, TenantStatuses, Open
  <1> QED BY <1>1 DEF Reopened, TenantRows, None

-----------------------------------------------------------------------------
(* Type correctness, one step for each action. *)

LEMMA InitType == Init => TypeOK
  <1> SUFFICES ASSUME Init PROVE TypeOK
    OBVIOUS
  <1>1. Idle \in Threads /\ Idle.at # "fetch"
    BY DEF Idle, Threads, Places, Subs, SubStatuses, None
  <1>2. ThreadsOK
    BY <1>1 DEF Init, ThreadsOK
  <1>3. tenant \in TenantRows /\ bs \in BillingRows /\ stripe \in StripeStates
    BY ModesAssumption, DaysAssumption, BoundsAssumption
    DEF Init, TenantRows, BillingRows, StripeStates, BillingModes, TenantStatuses, Open, SubStatuses,
        Paying, Good, Ended, Subs, None
  <1> QED BY <1>2, <1>3 DEF Init, TypeOK, ThreadsOK, Relays, NoJob, Job

LEMMA SyncType ==
    ASSUME TypeOK, NEW a \in Actors, Sync(a)
    PROVE  TypeOK'
  <1> USE DEF TypeOK
  <1>0. ThreadsOK /\ job \in Known
    BY DEF ThreadsOK, Known
  <1>1. CASE SyncFetch(a)
    <2>1. ThreadsOK' /\ job' \in Known
      <3>1. CASE proc' = Fetched(a, bs.sub, proc[a].row) /\ bs.sub = proc[a].sub /\ UNCHANGED job
        <4>1. bs.sub \in Subs /\ proc[a].row \in TenantStatuses \cup BillingModes \cup {"none"}
          BY <1>0, <1>1, <3>1 DEF SyncFetch, ThreadsOK, Threads
        <4> QED BY <1>0, <3>1, <4>1, FetchedType
      <3>2. CASE Synced(a)
        BY <1>0, <3>2, SyncedType
      <3>3. CASE Finish(a)
        BY <1>0, <3>3, FinishType
      <3> QED BY <1>1, <3>1, <3>2, <3>3 DEF SyncFetch
    <2> QED BY <1>1, <2>1 DEF SyncFetch, Fault, Disturbance, ThreadsOK, Known
  <1>2. CASE SyncRecord(a)
    <2> DEFINE s == proc[a].status
               e == proc[a].trialEnd
    <2>1. s \in SubStatuses /\ e \in Nat
      BY DEF Threads
    <2>2. bs' \in BillingRows
      <3>1. bs' = Recorded(s, e)
        BY <1>2 DEF SyncRecord
      <3> QED BY <2>1, <3>1 DEF Recorded, BillingRows, None
    <2>3. tenant' \in TenantRows
      <3>1. tenant' = Followed(s, e)
        BY <1>2 DEF SyncRecord
      <3> QED BY <2>1, <3>1 DEF Followed, TenantRows, Want, TenantStatuses, Open, None
    <2>4. queue' \in Seq(Jobs)
      BY <1>2, EnqueueType DEF SyncRecord, TenantJobs
    <2>5. ThreadsOK' /\ job' \in Known
      <3>1. CASE Synced(a)
        BY <1>0, <3>1, SyncedType
      <3>2. CASE GoTo(a, "undo") /\ UNCHANGED job
        BY <1>0, <3>2, GoToType DEF Places
      <3> QED BY <1>2, <3>1, <3>2 DEF SyncRecord
    <2> QED BY <1>2, <2>2, <2>3, <2>4, <2>5 DEF SyncRecord, ThreadsOK, Known
  <1>3. CASE UndoRelay(a)
    <2>1. ThreadsOK'
      BY <1>0, <1>3, GoToType DEF UndoRelay, Places
    <2> QED BY <1>3, <2>1 DEF UndoRelay, Fault, Disturbance, ThreadsOK, Relays
  <1>4. CASE UndoRows(a)
    <2>1. ThreadsOK' /\ job' \in Known
      BY <1>0, <1>4, SyncedType DEF UndoRows
    <2>2. tenant' \in TenantRows /\ bs' \in BillingRows
      BY <1>4 DEF UndoRows, TenantRows, BillingRows, TenantStatuses, SubStatuses, None
    <2> QED BY <1>4, <2>1, <2>2 DEF UndoRows, ThreadsOK, Known
  <1> QED BY <1>1, <1>2, <1>3, <1>4 DEF Sync

LEMMA CancelType ==
    ASSUME TypeOK, StartCancel \/ CancelStop \/ CancelMark
    PROVE  TypeOK'
  <1> USE DEF TypeOK
  <1>0. ThreadsOK /\ job \in Known /\ "worker" \in Actors
    BY DEF ThreadsOK, Known, Actors
  <1>1. CASE StartCancel
    <2>1. Head(queue) \in Jobs /\ queue' \in Seq(Jobs)
      BY <1>1, TakeType DEF StartCancel
    <2>2. ThreadsOK'
      BY <1>0, <1>1, GoToType DEF StartCancel, ThreadsOK, Places
    <2> QED BY <1>1, <2>1, <2>2 DEF StartCancel, ThreadsOK
  <1>2. CASE CancelStop
    <2>1. ThreadsOK' /\ job' \in Known
      BY <1>0, <1>2, GoToType, FinishType DEF CancelStop, JobFails, Places
    <2>2. relay' \in Relays
      BY <1>2 DEF CancelStop, Relays
    <2> QED BY <1>2, <2>1, <2>2 DEF CancelStop, Fault, Disturbance, ThreadsOK, Known
  <1>3. CASE CancelMark
    <2>1. ThreadsOK' /\ job' \in Known
      BY <1>0, <1>3, FinishType DEF CancelMark
    <2>2. tenant' \in TenantRows
      <3> DEFINE row == [tenant EXCEPT !.status = "cancelled", !.cancelledAt = now,
                                        !.purgeAfter = now + GraceDays]
      <3>1. now \in Nat /\ now + GraceDays \in Nat
        BY DaysAssumption
      <3>2. row \in TenantRows
        BY <3>1 DEF TenantRows, TenantStatuses
      <3>3. SetTenant(row)
        BY <1>3 DEF CancelMark
      <3> QED BY <3>2, <3>3, SetTenantType
    <2> QED BY <1>3, <2>1, <2>2 DEF CancelMark, ThreadsOK, Known
  <1> QED BY <1>1, <1>2, <1>3

LEMMA ReopenAndSyncType ==
    ASSUME TypeOK, NEW j \in Known, NEW mode, NEW ends, ReopenAndSync(j, mode, ends)
    PROVE  tenant' \in TenantRows /\ ThreadsOK' /\ job' \in Known
  <1> USE DEF TypeOK
  <1>0. ThreadsOK /\ job \in Known /\ "worker" \in Actors
    BY DEF ThreadsOK, Known, Actors
  <1>1. tenant' \in TenantRows
    BY ReopenedType, SetTenantType DEF ReopenAndSync
  <1>2. CASE mode = "stripe" /\ bs.sub # 0
    <2>1. bs.sub \in Subs
      BY <1>2 DEF BillingRows
    <2>2. ThreadsOK'
      BY <1>0, <1>2, <2>1, ToFetchType DEF ReopenAndSync
    <2> QED BY <1>1, <1>2, <2>2 DEF ReopenAndSync, Known
  <1>3. CASE ~(mode = "stripe" /\ bs.sub # 0)
    BY <1>0, <1>1, <1>3, FinishType DEF ReopenAndSync
  <1> QED BY <1>2, <1>3

LEMMA ReactivateType ==
    ASSUME TypeOK, StartReactivate \/ ReactivateStart \/ ReactivateReopen
    PROVE  TypeOK'
  <1> USE DEF TypeOK
  <1>0. ThreadsOK /\ job \in Known /\ "worker" \in Actors
    BY DEF ThreadsOK, Known, Actors
  <1>1. CASE StartReactivate
    <2>1. Head(queue) \in Jobs /\ queue' \in Seq(Jobs)
      BY <1>1, TakeType DEF StartReactivate
    <2>2. tenant' \in TenantRows /\ ThreadsOK' /\ job' \in Known
      <3>1. CASE ReopenAndSync(Head(queue), tenant.mode, tenant.trialEnds)
        BY <2>1, <3>1, ReopenAndSyncType DEF Known
      <3>2. CASE /\ job' = Head(queue)
                 /\ proc' = [proc EXCEPT !["worker"] = [Idle EXCEPT !.at = "start", !.row = tenant.mode, !.trialEnd = tenant.trialEnds]]
                 /\ UNCHANGED tenant
        <4>1. [Idle EXCEPT !.at = "start", !.row = tenant.mode, !.trialEnd = tenant.trialEnds] \in Threads
          BY DEF Idle, Threads, Places, SubStatuses, None, TenantRows
        <4>2. [Idle EXCEPT !.at = "start", !.row = tenant.mode, !.trialEnd = tenant.trialEnds].at # "fetch"
          BY DEF Idle
        <4>3. ThreadsOK'
          BY <1>0, <3>2, <4>1, <4>2 DEF ThreadsOK
        <4> QED BY <2>1, <3>2, <4>3 DEF Known
      <3>3. CASE UNCHANGED <<tenant, job, proc>>
        BY <1>0, <3>3 DEF ThreadsOK
      <3> QED BY <1>1, <3>1, <3>2, <3>3 DEF StartReactivate
    <2> QED BY <1>1, <2>1, <2>2 DEF StartReactivate, ThreadsOK, Known
  <1>2. CASE ReactivateStart
    <2>1. ThreadsOK' /\ job' \in Known
      BY <1>0, <1>2, GoToType, FinishType DEF ReactivateStart, JobFails, Places
    <2>2. relay' \in Relays
      BY <1>2 DEF ReactivateStart, Relays
    <2> QED BY <1>2, <2>1, <2>2 DEF ReactivateStart, Fault, Disturbance, ThreadsOK, Known
  <1>3. CASE ReactivateReopen
    <2>1. proc["worker"].at = "reopen"
      BY <1>3 DEF ReactivateReopen
    <2>2. tenant' \in TenantRows /\ ThreadsOK' /\ job' \in Known
      <3>1. ReopenAndSync(job, proc["worker"].row, proc["worker"].trialEnd)
        BY <1>3 DEF ReactivateReopen
      <3> QED BY <1>0, <3>1, ReopenAndSyncType
    <2> QED BY <1>3, <2>2 DEF ReactivateReopen, ThreadsOK, Known
  <1> QED BY <1>1, <1>2, <1>3

LEMMA PurgeType ==
    ASSUME TypeOK, StartPurge \/ PurgeRemove \/ PurgeWipe
    PROVE  TypeOK'
  <1> USE DEF TypeOK
  <1>0. ThreadsOK /\ job \in Known /\ "worker" \in Actors
    BY DEF ThreadsOK, Known, Actors
  <1>1. CASE StartPurge
    <2>1. Head(queue) \in Jobs /\ queue' \in Seq(Jobs)
      BY <1>1, TakeType DEF StartPurge
    <2>2. ThreadsOK'
      BY <1>0, <1>1, GoToType DEF StartPurge, ThreadsOK, Places
    <2> QED BY <1>1, <2>1, <2>2 DEF StartPurge, ThreadsOK
  <1>2. CASE PurgeRemove
    <2>1. ThreadsOK' /\ job' \in Known
      BY <1>0, <1>2, GoToType, FinishType DEF PurgeRemove, JobFails, Places
    <2> QED BY <1>2, <2>1 DEF PurgeRemove, Fault, Disturbance, Relays, ThreadsOK, Known
  <1>3. CASE PurgeWipe
    <2>1. ThreadsOK' /\ job' \in Known
      BY <1>0, <1>3, FinishType DEF PurgeWipe
    <2>2. tenant' \in TenantRows
      BY <1>3, SetTenantType DEF PurgeWipe, TenantRows, TenantStatuses
    <2> QED BY <1>3, <2>1, <2>2 DEF PurgeWipe, Fault, Disturbance, ThreadsOK, Known
  <1> QED BY <1>1, <1>2, <1>3

LEMMA RelayActionType ==
    ASSUME TypeOK, StartRelayAction \/ RelayAction
    PROVE  TypeOK'
  <1> USE DEF TypeOK
  <1>0. ThreadsOK /\ job \in Known /\ "worker" \in Actors
    BY DEF ThreadsOK, Known, Actors
  <1>1. CASE StartRelayAction
    <2>1. Head(queue) \in Jobs /\ queue' \in Seq(Jobs)
      BY <1>1, TakeType DEF StartRelayAction
    <2>2. ThreadsOK'
      BY <1>0, <1>1, GoToType DEF StartRelayAction, ThreadsOK, Places
    <2> QED BY <1>1, <2>1, <2>2 DEF StartRelayAction, ThreadsOK
  <1>2. CASE RelayAction
    <2>1. ThreadsOK' /\ job' \in Known
      BY <1>0, <1>2, FinishType DEF RelayAction
    <2>2. relay' \in Relays
      BY <1>2 DEF RelayAction, Relays
    <2> QED BY <1>2, <2>1, <2>2 DEF RelayAction, Fault, Disturbance, ThreadsOK, Known
  <1> QED BY <1>1, <1>2

\* A stripe_event job names a subscription.
LEMMA EventJob ==
    ASSUME NEW j \in Jobs, j.kind \in StripeJobs
    PROVE  j.sub \in Subs
  BY DEF Jobs, StripeJobs, TenantJobs, RelayActions

LEMMA EventType ==
    ASSUME TypeOK, StartEvent \/ StartCheckout
    PROVE  TypeOK'
  <1> USE DEF TypeOK
  <1>0. ThreadsOK /\ job \in Known /\ "worker" \in Actors
    BY DEF ThreadsOK, Known, Actors
  <1> DEFINE sub == Head(queue).sub
  <1>1. Head(queue) \in Jobs /\ queue' \in Seq(Jobs) /\ sub \in Subs
    BY TakeType, EventJob DEF StartEvent, StartCheckout, StripeJobs
  <1>2. CASE StartEvent
    <2>1. ThreadsOK'
      <3>1. CASE proc' = Fetched("worker", sub, "none")
        BY <1>0, <1>1, <3>1, FetchedType
      <3>2. CASE UNCHANGED proc
        BY <1>0, <3>2 DEF ThreadsOK
      <3> QED BY <1>2, <3>1, <3>2 DEF StartEvent
    <2> QED BY <1>1, <1>2, <2>1 DEF StartEvent, Fault, Disturbance, ThreadsOK
  <1>3. CASE StartCheckout
    <2>1. ThreadsOK'
      <3>1. CASE proc' = [proc EXCEPT !["worker"] = [Idle EXCEPT !.at = "fetch", !.sub = sub]]
        BY <1>0, <1>1, <3>1, ToFetchType
      <3>2. CASE UNCHANGED proc
        BY <1>0, <3>2 DEF ThreadsOK
      <3> QED BY <1>3, <3>1, <3>2 DEF StartCheckout
    <2>2. bs' \in BillingRows
      <3>1. CASE UNCHANGED bs
        BY <3>1
      <3>2. CASE bs' = [bs EXCEPT !.sub = sub, !.status = "incomplete", !.pastDueSince = None]
        BY <1>1, <3>2 DEF BillingRows, SubStatuses, None
      <3> QED BY <1>3, <3>1, <3>2 DEF StartCheckout
    <2>3. stripe' \in StripeStates /\ events' \subseteq [kind : StripeJobs, sub : Subs]
      <3>1. CASE UNCHANGED <<stripe, events>>
        BY <3>1
      <3>2. CASE /\ stripe' = [stripe EXCEPT !.status[sub] = "canceled"]
                 /\ events' = events \cup {[kind |-> "update", sub |-> sub]}
        <4>1. "canceled" \in SubStatuses /\ "update" \in StripeJobs
          BY DEF SubStatuses, Ended, StripeJobs
        <4>2. stripe' \in StripeStates
          BY <3>2, <4>1 DEF StripeStates
        <4>3. [kind |-> "update", sub |-> sub] \in [kind : StripeJobs, sub : Subs]
          BY <1>1, <4>1
        <4> QED BY <3>2, <4>2, <4>3
      <3> QED BY <1>3, <3>1, <3>2 DEF StartCheckout
    <2>4. spent' \in Nat
      BY <1>3 DEF StartCheckout, Move, Fault, Disturbance
    <2>5. job' \in Known
      BY <1>0, <1>1, <1>3 DEF StartCheckout, Known
    <2> QED BY <1>1, <1>3, <2>1, <2>2, <2>3, <2>4, <2>5 DEF StartCheckout, ThreadsOK, Known
  <1> QED BY <1>2, <1>3

LEMMA MaintenanceType ==
    ASSUME TypeOK, DailyDue \/ DailyPurge \/ TrialsDue \/ TrialsSuspend \/ Reconcile
    PROVE  TypeOK'
  <1> USE DEF TypeOK
  <1>0. ThreadsOK /\ job \in Known /\ "maint" \in Actors
    BY DEF ThreadsOK, Known, Actors
  <1>1. CASE DailyDue
    <2>1. ThreadsOK'
      BY <1>0, <1>1, GoToType DEF DailyDue, Places
    <2> QED BY <1>1, <2>1 DEF DailyDue, ThreadsOK
  <1>2. CASE DailyPurge
    <2>1. ThreadsOK' /\ job' \in Known
      BY <1>0, <1>2, FinishType DEF DailyPurge
    <2>2. queue' \in Seq(Jobs)
      BY <1>2, EnqueueType DEF DailyPurge, TenantJobs
    <2> QED BY <1>2, <2>1, <2>2 DEF DailyPurge, ThreadsOK, Known
  <1>3. CASE TrialsDue
    <2>1. ThreadsOK'
      BY <1>0, <1>3, GoToType DEF TrialsDue, Places
    <2> QED BY <1>3, <2>1 DEF TrialsDue, ThreadsOK
  <1>4. CASE TrialsSuspend
    <2>1. ThreadsOK' /\ job' \in Known
      BY <1>0, <1>4, FinishType DEF TrialsSuspend
    <2>2. tenant' \in TenantRows
      BY <1>4, SetTenantType DEF TrialsSuspend, TenantRows, TenantStatuses
    <2> QED BY <1>4, <2>1, <2>2 DEF TrialsSuspend, ThreadsOK, Known
  <1>5. CASE Reconcile
    <2>1. bs.sub \in Subs
      BY <1>5 DEF Reconcile, BillingRows
    <2>2. ThreadsOK'
      BY <1>0, <1>5, <2>1, FetchedType DEF Reconcile
    <2> QED BY <1>5, <2>2 DEF Reconcile, ThreadsOK
  <1> QED BY <1>1, <1>2, <1>3, <1>4, <1>5

\* The console's actions on the tenant's row alone.
LEMMA RowActionType ==
    ASSUME TypeOK, Suspend \/ Activate \/ ExtendTrial \/ ExtendGrace \/ SetBillingMode
    PROVE  TypeOK'
  <1> USE DEF TypeOK, Request, Disturbance
  <1>0. ThreadsOK
    BY DEF ThreadsOK
  <1>1. CASE Suspend
    <2>1. tenant' \in TenantRows
      BY <1>1 DEF Suspend, TenantRows, TenantStatuses
    <2> QED BY <1>1, <2>1 DEF Suspend
  <1>2. CASE Activate
    <2>1. tenant' \in TenantRows
      BY <1>2 DEF Activate, TenantRows, TenantStatuses, Open, None
    <2> QED BY <1>2, <2>1 DEF Activate
  <1>3. CASE ExtendTrial
    <2>1. Max(now, tenant.trialEnds) + 1 \in Nat
      BY DEF Max, TenantRows
    <2>2. tenant' \in TenantRows
      BY <1>3, <2>1 DEF ExtendTrial, TenantRows
    <2> QED BY <1>3, <2>2 DEF ExtendTrial
  <1>4. CASE ExtendGrace
    <2>1. tenant.purgeAfter + 1 \in Nat
      BY DEF TenantRows
    <2>2. tenant' \in TenantRows
      BY <1>4, <2>1 DEF ExtendGrace, TenantRows
    <2> QED BY <1>4, <2>2 DEF ExtendGrace
  <1>5. CASE SetBillingMode
    <2>1. PICK mode \in Modes : SetTenant([tenant EXCEPT !.mode = mode])
      BY <1>5 DEF SetBillingMode
    <2>2. [tenant EXCEPT !.mode = mode] \in TenantRows
      BY ModesAssumption DEF TenantRows, BillingModes
    <2>3. tenant' \in TenantRows
      BY <2>1, <2>2, SetTenantType
    <2> QED BY <1>5, <2>3 DEF SetBillingMode
  <1> QED BY <1>1, <1>2, <1>3, <1>4, <1>5

\* The console's actions that queue a job.
LEMMA QueueActionType ==
    ASSUME TypeOK, Reactivate \/ Cancel \/ Purge \/ RelayRequest \/ CancelQueue
    PROVE  TypeOK'
  <1> USE DEF TypeOK
  <1>0. ThreadsOK /\ job \in Known /\ "loop" \in Actors
    BY DEF ThreadsOK, Known, Actors
  <1>1. ASSUME NEW kind \in TenantJobs, QueueRequest(kind)
        PROVE  TypeOK'
    <2>1. queue' \in Seq(Jobs)
      BY <1>1, AppendType DEF QueueRequest
    <2> QED BY <1>1, <2>1 DEF QueueRequest, Request, Disturbance
  <1>2. CASE CancelQueue
    <2>1. ThreadsOK' /\ job' \in Known
      BY <1>0, <1>2, FinishType DEF CancelQueue
    <2>2. queue' \in Seq(Jobs)
      BY <1>2, AppendType DEF CancelQueue, TenantJobs
    <2> QED BY <1>2, <2>1, <2>2 DEF CancelQueue, ThreadsOK, Known
  <1> QED BY <1>1, <1>2 DEF Reactivate, Cancel, Purge, RelayRequest, TenantJobs

\* The actions that call Stripe, and what happens there.
LEMMA StripeActionType ==
    ASSUME TypeOK,
           \/ CancelSubscription \/ ExtendTrialStripe \/ Resubscribe
           \/ \E p \in Pool : BillingSync(p)
           \/ StripeChange \/ CheckoutPaid
    PROVE  TypeOK'
  <1> USE DEF TypeOK, Request, Move, Disturbance
  <1>0. ThreadsOK /\ "loop" \in Actors
    BY DEF ThreadsOK, Actors
  <1>1. CASE CancelSubscription
    <2>1. bs.sub \in Subs
      BY <1>1 DEF CancelSubscription, BillingRows
    <2>2. stripe' \in StripeStates /\ events' \subseteq [kind : StripeJobs, sub : Subs]
      BY <1>1, <2>1 DEF CancelSubscription, StripeStates, SubStatuses, Ended, StripeJobs
    <2>3. tenant.status \in TenantStatuses
      BY DEF TenantRows
    <2>4. ThreadsOK'
      BY <1>0, <1>1, <2>1, <2>3, ToFetchType DEF CancelSubscription
    <2> QED BY <1>1, <2>2, <2>4 DEF CancelSubscription, ThreadsOK
  <1>2. CASE ExtendTrialStripe
    <2>1. Max(now, bs.trialEnd) + 1 \in Nat
      BY DEF Max, BillingRows
    <2>2. stripe' \in StripeStates
      BY <1>2, <2>1 DEF ExtendTrialStripe, StripeStates
    <2>3. bs.sub \in Subs
      BY <1>2 DEF ExtendTrialStripe, BillingRows
    <2>4. ThreadsOK'
      BY <1>0, <1>2, <2>3, ToFetchType DEF ExtendTrialStripe
    <2> QED BY <1>2, <2>2, <2>4 DEF ExtendTrialStripe, ThreadsOK
  <1>3. CASE Resubscribe
    <2>1. stripe' \in StripeStates
      BY <1>3 DEF Resubscribe, StripeStates
    <2> QED BY <1>3, <2>1 DEF Resubscribe
  <1>4. ASSUME NEW p \in Pool, BillingSync(p)
        PROVE  TypeOK'
    <2>1. bs.sub \in Subs /\ p \in Actors
      BY <1>4 DEF BillingSync, BillingRows, Actors
    <2>2. ThreadsOK'
      BY <1>0, <1>4, <2>1, FetchedType DEF BillingSync
    <2> QED BY <1>4, <2>2 DEF BillingSync, ThreadsOK
  <1>5. CASE StripeChange
    <2>0. PICK sub \in Subs : \E s \in StripeNext(stripe.status[sub]) :
            /\ stripe' = [stripe EXCEPT !.status[sub] = s]
            /\ events' = events \cup {[kind |-> "update", sub |-> sub]}
      BY <1>5 DEF StripeChange
    <2>1. PICK s \in StripeNext(stripe.status[sub]) :
            /\ stripe' = [stripe EXCEPT !.status[sub] = s]
            /\ events' = events \cup {[kind |-> "update", sub |-> sub]}
      BY <2>0
    <2>2. s \in SubStatuses
      BY DEF StripeNext, SubStatuses, Paying, Good, Ended
    <2>3. stripe' \in StripeStates /\ events' \subseteq [kind : StripeJobs, sub : Subs]
      BY <2>1, <2>2 DEF StripeStates, StripeJobs
    <2> QED BY <1>5, <2>3 DEF StripeChange
  <1>6. CASE CheckoutPaid
    <2>1. PICK sub \in Subs :
            /\ stripe' = [stripe EXCEPT !.status = [@ EXCEPT ![sub] = "active"], !.sessions = @ - 1]
            /\ events' = events \cup {[kind |-> "checkout", sub |-> sub]}
      BY <1>6 DEF CheckoutPaid
    <2>2. /\ stripe.sessions > 0
          /\ UNCHANGED <<tenant, relay, bs, queue, job, proc, now>>
          /\ spent' = spent + 1
      BY <1>6, Zenon DEF CheckoutPaid, Move, Disturbance
    <2>3. [stripe.status EXCEPT ![sub] = "active"] \in [Subs -> SubStatuses]
      BY DEF StripeStates, SubStatuses, Paying, Good
    <2>4. stripe.sessions - 1 \in Nat
      BY <2>2 DEF StripeStates
    <2>5. stripe' \in StripeStates
      BY <2>1, <2>3, <2>4 DEF StripeStates
    <2>6. events' \subseteq [kind : StripeJobs, sub : Subs]
      BY <2>1 DEF StripeJobs
    <2> QED BY <2>2, <2>5, <2>6
  <1> QED BY <1>1, <1>2, <1>3, <1>4, <1>5, <1>6

LEMMA EnvironmentType ==
    ASSUME TypeOK, Receive \/ Crash \/ Tick
    PROVE  TypeOK'
  <1> USE DEF TypeOK
  <1>1. CASE Receive
    <2>1. PICK event \in events : queue' = Append(queue, Job(event.kind, "stripe", event.sub))
      BY <1>1 DEF Receive
    <2>2. Job(event.kind, "stripe", event.sub) \in Jobs
      BY DEF Job, Jobs
    <2>3. queue' \in Seq(Jobs)
      BY <2>1, <2>2
    <2>4. events' \subseteq events
      BY <1>1 DEF Receive
    <2> QED BY <1>1, <2>3, <2>4 DEF Receive
  <1>2. CASE Crash
    <2>1. Idle \in Threads /\ Idle.at # "fetch"
      BY DEF Idle, Threads, Places, SubStatuses, None
    <2> QED BY <1>2, <2>1 DEF Crash, Fault, Disturbance
  <1>3. CASE Tick
    BY <1>3 DEF Tick
  <1> QED BY <1>1, <1>2, <1>3

LEMMA NextType == TypeOK /\ [Next]_vars => TypeOK'
  <1> SUFFICES ASSUME TypeOK, [Next]_vars PROVE TypeOK'
    OBVIOUS
  <1>1. CASE Worker
    BY <1>1, CancelType, ReactivateType, PurgeType, RelayActionType, EventType, SyncType
    DEF Worker, Actors
  <1>2. CASE Maintenance
    BY <1>2, MaintenanceType, SyncType DEF Maintenance, Actors
  <1>3. CASE Console
    BY <1>3, RowActionType, QueueActionType, StripeActionType, SyncType DEF Console, Actors
  <1>4. CASE StripeChange \/ CheckoutPaid
    BY <1>4, StripeActionType
  <1>5. CASE Receive \/ Crash \/ Tick
    BY <1>5, EnvironmentType
  <1>6. CASE UNCHANGED vars
    BY <1>6 DEF vars, TypeOK
  <1> QED BY <1>1, <1>2, <1>3, <1>4, <1>5, <1>6 DEF Next

\* Every variable keeps its type, whatever the threads, Stripe and the
\* failures do: in particular a thread about to ask Stripe always has a
\* subscription to ask for.
THEOREM TypeCorrect == Spec => []TypeOK
  BY InitType, NextType, PTL DEF Spec

-----------------------------------------------------------------------------
(***************************************************************************)
(* What no interleaving of the threads, no failure and no restart does to  *)
(* the tenant, proved on top of type correctness.                          *)
(***************************************************************************)

\* The actions that write the tenant's row.
RowStep == \/ \E a \in Actors : SyncRecord(a) \/ UndoRows(a)
           \/ CancelMark \/ StartReactivate \/ ReactivateReopen
           \/ PurgeWipe \/ TrialsSuspend
           \/ Suspend \/ Activate \/ ExtendTrial \/ ExtendGrace \/ SetBillingMode

LEMMA RowSteps ==
    ASSUME [Next]_vars
    PROVE  RowStep \/ UNCHANGED tenant
  <1>1. CASE Worker
    BY <1>1 DEF Worker, RowStep, Actors, Sync, SyncFetch, UndoRelay, StartCancel, CancelStop,
        ReactivateStart, StartPurge, PurgeRemove, StartRelayAction, RelayAction, StartEvent, StartCheckout
  <1>2. CASE Maintenance
    BY <1>2 DEF Maintenance, RowStep, Actors, Sync, SyncFetch, UndoRelay, DailyDue, DailyPurge,
        TrialsDue, Reconcile
  <1>3. CASE Console
    BY <1>3 DEF Console, RowStep, Actors, Sync, SyncFetch, UndoRelay, Reactivate, Cancel, Purge,
        RelayRequest, QueueRequest, CancelSubscription, CancelQueue, ExtendTrialStripe, Resubscribe,
        BillingSync
  <1>4. CASE StripeChange \/ CheckoutPaid \/ Receive \/ Crash \/ Tick
    BY <1>4 DEF StripeChange, CheckoutPaid, Receive, Crash, Tick
  <1>5. CASE UNCHANGED vars
    BY <1>5 DEF vars
  <1> QED BY <1>1, <1>2, <1>3, <1>4, <1>5 DEF Next

\* What a sync may do to the row, by the status the tenant has.
LEMMA FollowedCases ==
    ASSUME tenant \in TenantRows, NEW s \in SubStatuses, NEW e \in Nat
    PROVE  /\ Followed(s, e).cancelledAt = tenant.cancelledAt
           /\ Followed(s, e).purgeAfter = tenant.purgeAfter
           /\ \/ Followed(s, e) = tenant
              \/ /\ tenant.status \in Open \/ (tenant.status = "suspended" /\ tenant.billingSuspended)
                 /\ Followed(s, e).status \in Open
                 /\ tenant.status \in Open => Followed(s, e).billingSuspended = tenant.billingSuspended
                 /\ tenant.status = "suspended" => ~Followed(s, e).billingSuspended
              \/ tenant.status \in Open /\ Followed(s, e).status = "suspended"
  <1> DEFINE v == Verdict(s)
             trialEnds == IF s = "trialing" THEN e ELSE None
  <1>0. Want(s) \in Open
    BY DEF Want, Open
  <1>1. CASE v \in {"follow", "reopen"}
    <2>1. Followed(s, e) = [tenant EXCEPT !.status = Want(s), !.trialEnds = trialEnds,
            !.billingSuspended = IF v = "reopen" THEN FALSE ELSE @]
      BY <1>1 DEF Followed
    <2>2. v = "follow" => tenant.status \in Open
      BY DEF Verdict
    <2>3. v = "reopen" => tenant.status = "suspended" /\ tenant.billingSuspended
      BY DEF Verdict
    <2> QED BY <1>0, <1>1, <2>1, <2>2, <2>3 DEF TenantRows, Open
  <1>2. CASE v = "suspend"
    <2>1. Followed(s, e) = [tenant EXCEPT !.status = "suspended", !.billingSuspended = TRUE]
      BY <1>2 DEF Followed
    <2>2. tenant.status \in Open
      BY <1>2 DEF Verdict
    <2> QED BY <2>1, <2>2 DEF TenantRows
  <1>3. CASE v \notin {"follow", "reopen", "suspend"}
    BY <1>3 DEF Followed
  <1> QED BY <1>1, <1>2, <1>3

\* The columns a reopening sets.
LEMMA ReopenedRow ==
    ASSUME tenant \in TenantRows
    PROVE  \A ends : Reopened(ends).status \in Open /\ ~Reopened(ends).billingSuspended
  BY DEF Reopened, ReopenedStatus, TenantRows, Open

-----------------------------------------------------------------------------
(* The grace period and the billing flag. *)

RowInv == GraceHeld /\ NoStaleBillingFlag

LEMMA RowInvInit == Init => RowInv
  BY DEF Init, RowInv, GraceHeld, NoStaleBillingFlag

LEMMA RowInvNext == TypeOK /\ RowInv /\ [Next]_vars => RowInv'
  <1> SUFFICES ASSUME TypeOK, RowInv, [Next]_vars PROVE RowInv'
    OBVIOUS
  <1> USE DEF RowInv, GraceHeld, NoStaleBillingFlag
  <1>0. tenant \in TenantRows /\ now \in Nat \ {0}
    BY DEF TypeOK
  <1>1. ASSUME NEW a \in Actors, SyncRecord(a) PROVE RowInv'
    <2>1. proc[a].status \in SubStatuses /\ proc[a].trialEnd \in Nat
      BY DEF TypeOK, Threads
    <2>2. tenant' = Followed(proc[a].status, proc[a].trialEnd)
      BY <1>1 DEF SyncRecord
    <2> QED BY <1>0, <2>1, <2>2, FollowedCases DEF Open, TenantRows
  <1>2. ASSUME NEW a \in Actors, UndoRows(a) PROVE RowInv'
    BY <1>0, <1>2 DEF UndoRows, TenantRows, Open
  <1>3. CASE CancelMark
    <2>1. GraceDays \in Nat
      BY DaysAssumption
    <2>2. \/ tenant.status = "deleted" /\ tenant' = tenant
          \/ tenant' = [tenant EXCEPT !.status = "cancelled", !.cancelledAt = now,
                                      !.purgeAfter = now + GraceDays]
      BY <1>3 DEF CancelMark, SetTenant
    <2>3. CASE tenant' = tenant
      BY <2>3
    <2>4. CASE tenant' = [tenant EXCEPT !.status = "cancelled", !.cancelledAt = now,
                                        !.purgeAfter = now + GraceDays]
      <3>1. /\ tenant'.status = "cancelled"
            /\ tenant'.cancelledAt = now
            /\ tenant'.purgeAfter = now + GraceDays
        BY <1>0, <2>4 DEF TenantRows
      <3> QED BY <1>0, <2>1, <3>1 DEF Open, None
    <2> QED BY <2>2, <2>3, <2>4
  <1>4. CASE StartReactivate \/ ReactivateReopen
    <2>1. UNCHANGED tenant \/ (\E ends : tenant' = Reopened(ends))
      BY <1>4 DEF StartReactivate, ReactivateReopen, ReopenAndSync, SetTenant
    <2> QED BY <1>0, <2>1, ReopenedRow DEF Open
  <1>5. CASE PurgeWipe
    BY <1>0, <1>5 DEF PurgeWipe, SetTenant, TenantRows, Open
  <1>6. CASE TrialsSuspend
    BY <1>0, <1>6 DEF TrialsSuspend, SetTenant, TenantRows, Open
  <1>7. CASE Suspend
    BY <1>0, <1>7 DEF Suspend, TenantRows, Open
  <1>8. CASE Activate
    BY <1>0, <1>8 DEF Activate, TenantRows, Open
  <1>9. CASE ExtendTrial
    BY <1>0, <1>9 DEF ExtendTrial, TenantRows, Open
  <1>10. CASE ExtendGrace
    BY <1>0, <1>10, DaysAssumption DEF ExtendGrace, TenantRows, Open
  <1>11. CASE SetBillingMode
    <2>1. PICK mode \in Modes : SetTenant([tenant EXCEPT !.mode = mode])
      BY <1>11 DEF SetBillingMode
    <2> QED BY <1>0, <2>1 DEF SetTenant, TenantRows, Open
  <1>12. CASE UNCHANGED tenant
    BY <1>12
  <1> QED BY <1>1, <1>2, <1>3, <1>4, <1>5, <1>6, <1>7, <1>8, <1>9, <1>10, <1>11, <1>12,
             RowSteps DEF RowStep

\* No cancelled tenant is ever without its whole grace period, in any billing
\* mode and whatever the threads, Stripe and failures do.
THEOREM GraceAlwaysHeld == Spec => []GraceHeld
  <1>1. TypeOK /\ RowInv /\ [Next]_vars => RowInv'
    BY RowInvNext
  <1>2. RowInv => GraceHeld
    BY DEF RowInv
  <1> QED BY <1>1, <1>2, RowInvInit, TypeCorrect, PTL DEF Spec

\* No open tenant ever carries a leftover billing suspension.
THEOREM BillingFlagNeverStale == Spec => []NoStaleBillingFlag
  <1>1. TypeOK /\ RowInv /\ [Next]_vars => RowInv'
    BY RowInvNext
  <1>2. RowInv => NoStaleBillingFlag
    BY DEF RowInv
  <1> QED BY <1>1, <1>2, RowInvInit, TypeCorrect, PTL DEF Spec

-----------------------------------------------------------------------------
(* The worker's hold on the tenant.  A manual tenant's trial is suspended   *)
(* from a row read before the pass's mails, whatever became of the tenant   *)
(* since (lifecycle._trials), so what follows is about a tenant that is     *)
(* never billed manually.                                                   *)

ModeInv == tenant.mode \in Modes /\ proc["maint"].at # "trial_due"

HoldInv == ModeInv /\ WorkerHolds

Holding == {"stop", "mark", "start", "reopen", "remove", "wipe"}

\* What every step but the worker's own jobs may do to the status.
Gentle == \/ tenant'.status \in {tenant.status, "deleted"}
          \/ {tenant.status, tenant'.status} \subseteq Open \cup {"suspended"}

LEMMA HoldInvInit == Init => HoldInv
  BY DEF Init, HoldInv, ModeInv, WorkerHolds, Idle, Actors

LEMMA FreeStep ==
    ASSUME proc'["worker"].at \notin Holding
    PROVE  WorkerHolds'
  BY DEF WorkerHolds, Holding

\* A step of another thread.
LEMMA GentleStep ==
    ASSUME WorkerHolds, Gentle,
           proc'["worker"].at = proc["worker"].at,
           relay' = relay \/ (relay'.up = "gone" /\ BeingUndone'),
           BeingUndone => BeingUndone' \/ tenant'.status = "deleted"
    PROVE  WorkerHolds'
  BY DEF WorkerHolds, Gentle, Open

\* A thread that isn't undoing a creation leaves the undoing of others alone.
LEMMA UndoingGoesOn ==
    ASSUME TypeOK, NEW a \in Actors, NEW t, proc' = [proc EXCEPT ![a] = t],
           proc[a].at \notin {"undo", "unrow"}
    PROVE  BeingUndone => BeingUndone'
  BY DEF TypeOK, BeingUndone

LEMMA FinishOrGoTo ==
    ASSUME NEW a \in Actors, \/ Finish(a) \/ Synced(a) \/ \E place \in Places : GoTo(a, place)
    PROVE  \E t : proc' = [proc EXCEPT ![a] = t]
  BY DEF Finish, Synced, GoTo

LEMMA SyncHolds ==
    ASSUME TypeOK, HoldInv, NEW a \in Actors, Sync(a)
    PROVE  WorkerHolds'
  <1> USE DEF TypeOK
  <1>1. CASE a = "worker"
    <2>1. proc'["worker"].at \in {"record", "idle", "undo", "unrow"}
      <3>1. Idle.at = "idle"
        BY DEF Idle
      <3>2. Synced(a) \/ Finish(a) => proc'["worker"].at = "idle"
        BY <1>1, <3>1 DEF Synced, Finish
      <3>3. \A place : GoTo(a, place) => proc'["worker"].at = place
        BY <1>1 DEF GoTo, Threads
      <3>4. proc' = Fetched(a, bs.sub, proc[a].row) => proc'["worker"].at = "record"
        BY <1>1 DEF Fetched
      <3> QED BY <3>2, <3>3, <3>4 DEF Sync, SyncFetch, SyncRecord, UndoRelay, UndoRows
    <2> QED BY <2>1, FreeStep DEF Holding
  <1>2. CASE a # "worker"
    <2>1. PICK t : proc' = [proc EXCEPT ![a] = t]
      BY DEF Sync, SyncFetch, SyncRecord, UndoRelay, UndoRows, Fetched, Synced, GoTo, Finish
    <2>2. proc'["worker"].at = proc["worker"].at
      BY <1>2, <2>1 DEF Actors
    <2>3. CASE SyncFetch(a)
      <3>1. BeingUndone => BeingUndone'
        BY <2>1, <2>3, UndoingGoesOn DEF SyncFetch
      <3> QED BY <2>2, <2>3, <3>1, GentleStep DEF SyncFetch, Gentle, HoldInv
    <2>4. CASE SyncRecord(a)
      <3>1. BeingUndone => BeingUndone'
        BY <2>1, <2>4, UndoingGoesOn DEF SyncRecord
      <3>2. Gentle
        <4>1. proc[a].status \in SubStatuses /\ proc[a].trialEnd \in Nat
          BY DEF Threads
        <4>2. tenant' = Followed(proc[a].status, proc[a].trialEnd)
          BY <2>4 DEF SyncRecord
        <4> QED BY <4>1, <4>2, FollowedCases DEF Gentle
      <3> QED BY <2>2, <2>4, <3>1, <3>2, GentleStep DEF SyncRecord, HoldInv
    <2>5. CASE UndoRelay(a)
      <3>1. proc'[a].at = "unrow"
        BY <2>5 DEF UndoRelay, GoTo, Threads
      <3>2. BeingUndone'
        BY <3>1 DEF BeingUndone
      <3>3. relay' = relay \/ relay'.up = "gone"
        BY <2>5 DEF UndoRelay
      <3> QED BY <2>2, <2>5, <3>2, <3>3, GentleStep DEF UndoRelay, Gentle, HoldInv
    <2>6. CASE UndoRows(a)
      <3>1. tenant'.status = "deleted"
        BY <2>6 DEF UndoRows, TenantRows
      <3> QED BY <2>2, <2>6, <3>1, GentleStep DEF UndoRows, Gentle, HoldInv
    <2> QED BY <2>3, <2>4, <2>5, <2>6 DEF Sync
  <1> QED BY <1>1, <1>2

LEMMA WorkerJobHolds ==
    ASSUME TypeOK, HoldInv,
           \/ StartCancel \/ CancelStop \/ CancelMark
           \/ StartReactivate \/ ReactivateStart \/ ReactivateReopen
           \/ StartPurge \/ PurgeRemove \/ PurgeWipe
           \/ StartRelayAction \/ RelayAction \/ StartEvent \/ StartCheckout
    PROVE  WorkerHolds'
  <1> USE DEF TypeOK
  <1>0. /\ "worker" \in Actors
        /\ Finish("worker") => proc'["worker"].at = "idle"
        /\ \A place : GoTo("worker", place) => proc'["worker"].at = place
    BY DEF Actors, Finish, GoTo, Idle, Threads
  <1>1. CASE StartCancel
    <2>1. CASE tenant.status \in Open \cup {"suspended"}
      BY <1>0, <1>1, <2>1 DEF StartCancel, WorkerHolds
    <2>2. CASE tenant.status \notin Open \cup {"suspended"}
      BY <1>1, <2>2, FreeStep DEF StartCancel, Take, WorkerFree, Holding
    <2> QED BY <2>1, <2>2
  <1>2. CASE CancelStop
    <2>1. CASE relay' = [relay EXCEPT !.up = "stopped"] /\ GoTo("worker", "mark")
      <3>1. proc'["worker"].at = "mark" /\ relay'.up = "stopped"
        BY <1>0, <2>1 DEF Relays
      <3> QED BY <1>2, <3>1 DEF CancelStop, HoldInv, WorkerHolds
    <2>2. CASE Finish("worker")
      BY <1>0, <2>2, FreeStep DEF Holding
    <2> QED BY <1>2, <2>1, <2>2 DEF CancelStop, JobFails
  <1>3. CASE CancelMark \/ RelayAction \/ PurgeWipe
    BY <1>0, <1>3, FreeStep DEF CancelMark, RelayAction, PurgeWipe, Holding
  <1>4. CASE StartReactivate
    <2>1. CASE ReopenAndSync(Head(queue), tenant.mode, tenant.trialEnds)
      BY <1>0, <2>1, FreeStep DEF ReopenAndSync, Holding, Idle
    <2>2. CASE /\ tenant.status = "cancelled"
               /\ proc' = [proc EXCEPT !["worker"] = [Idle EXCEPT !.at = "start", !.row = tenant.mode, !.trialEnd = tenant.trialEnds]]
               /\ UNCHANGED tenant
      <3>1. [Idle EXCEPT !.at = "start", !.row = tenant.mode, !.trialEnd = tenant.trialEnds].at = "start"
        BY DEF Idle
      <3>2. proc'["worker"].at = "start"
        BY <1>0, <2>2, <3>1
      <3> QED BY <2>2, <3>2 DEF WorkerHolds
    <2>3. CASE UNCHANGED proc
      BY <1>4, <2>3, FreeStep DEF StartReactivate, Take, WorkerFree, Holding
    <2> QED BY <1>4, <2>1, <2>2, <2>3 DEF StartReactivate
  <1>5. CASE ReactivateStart
    <2>1. CASE relay' = [relay EXCEPT !.up = "running"] /\ GoTo("worker", "reopen")
      <3>1. proc'["worker"].at = "reopen" /\ relay'.up = "running"
        BY <1>0, <2>1 DEF Relays
      <3> QED BY <1>5, <3>1 DEF ReactivateStart, HoldInv, WorkerHolds
    <2>2. CASE Finish("worker")
      BY <1>0, <2>2, FreeStep DEF Holding
    <2> QED BY <1>5, <2>1, <2>2 DEF ReactivateStart, JobFails
  <1>6. CASE ReactivateReopen
    BY <1>0, <1>6, FreeStep DEF ReactivateReopen, ReopenAndSync, Holding, Idle
  <1>7. CASE StartPurge
    <2>1. CASE tenant.status \in {"cancelled", "purged"} /\ GoTo("worker", "remove")
      BY <1>0, <1>7, <2>1 DEF StartPurge, WorkerHolds
    <2>2. CASE UNCHANGED proc
      BY <1>7, <2>2, FreeStep DEF StartPurge, Take, WorkerFree, Holding
    <2> QED BY <1>7, <2>1, <2>2 DEF StartPurge
  <1>8. CASE PurgeRemove
    <2>1. CASE relay' = [up |-> "gone", keys |-> "none"] /\ GoTo("worker", "wipe")
      <3>1. proc'["worker"].at = "wipe" /\ relay'.up = "gone"
        BY <1>0, <2>1
      <3> QED BY <1>8, <3>1 DEF PurgeRemove, HoldInv, WorkerHolds
    <2>2. CASE Finish("worker")
      BY <1>0, <2>2, FreeStep DEF Holding
    <2> QED BY <1>8, <2>1, <2>2 DEF PurgeRemove, JobFails
  <1>9. CASE StartRelayAction
    <2>1. proc'["worker"].at \in {"relay", "idle"}
      BY <1>0, <1>9 DEF StartRelayAction, Take, WorkerFree
    <2> QED BY <2>1, FreeStep DEF Holding
  <1>10. CASE StartEvent \/ StartCheckout
    <2>1. proc'["worker"].at \in {"record", "fetch", "idle"}
      <3> DEFINE sub == Head(queue).sub
      <3>1. proc["worker"].at = "idle"
        BY <1>10 DEF StartEvent, StartCheckout, Take, WorkerFree
      <3>2. proc' = Fetched("worker", sub, "none") => proc'["worker"].at = "record"
        BY <1>0 DEF Fetched
      <3>3. [Idle EXCEPT !.at = "fetch", !.sub = sub].at = "fetch"
        BY DEF Idle
      <3>4. proc' = [proc EXCEPT !["worker"] = [Idle EXCEPT !.at = "fetch", !.sub = sub]]
              => proc'["worker"].at = "fetch"
        BY <1>0, <3>3
      <3> QED BY <1>10, <3>1, <3>2, <3>4 DEF StartEvent, StartCheckout
    <2> QED BY <2>1, FreeStep DEF Holding
  <1> QED BY <1>1, <1>2, <1>3, <1>4, <1>5, <1>6, <1>7, <1>8, <1>9, <1>10

\* The steps of the maintenance thread and the event loop that only move
\* that thread, and the console's actions on the row.
LEMMA OtherStepHolds ==
    ASSUME TypeOK, HoldInv,
           \/ DailyDue \/ DailyPurge \/ TrialsDue \/ TrialsSuspend \/ Reconcile
           \/ CancelSubscription \/ CancelQueue \/ ExtendTrialStripe
           \/ \E p \in Pool : BillingSync(p)
           \/ Suspend \/ Activate \/ ExtendTrial \/ ExtendGrace \/ SetBillingMode
    PROVE  WorkerHolds'
  <1> USE DEF TypeOK
  <1>1. ASSUME NEW a \in Actors, a # "worker", proc[a].at \notin {"undo", "unrow"},
               NEW t, proc' = [proc EXCEPT ![a] = t], UNCHANGED <<tenant, relay>>
        PROVE  WorkerHolds'
    <2>1. proc'["worker"].at = proc["worker"].at
      BY <1>1 DEF Actors
    <2>2. BeingUndone => BeingUndone'
      BY <1>1, UndoingGoesOn
    <2> QED BY <1>1, <2>1, <2>2, GentleStep DEF Gentle, HoldInv
  <1>2. CASE DailyDue \/ DailyPurge \/ TrialsDue \/ Reconcile
    <2>1. "maint" \in Actors /\ "maint" # "worker"
      BY DEF Actors
    <2>2. \E t : proc' = [proc EXCEPT !["maint"] = t]
      BY <1>2 DEF DailyDue, DailyPurge, TrialsDue, Reconcile, Finish, GoTo, Fetched
    <2>3. proc["maint"].at \notin {"undo", "unrow"} /\ UNCHANGED <<tenant, relay>>
      BY <1>2 DEF DailyDue, DailyPurge, TrialsDue, Reconcile, MaintIdle
    <2> QED BY <1>1, <2>1, <2>2, <2>3
  <1>3. CASE TrialsSuspend
    BY <1>3 DEF TrialsSuspend, HoldInv, ModeInv
  <1>4. CASE CancelSubscription \/ CancelQueue \/ ExtendTrialStripe
    <2>1. "loop" \in Actors /\ "loop" # "worker"
      BY DEF Actors
    <2>2. \E t : proc' = [proc EXCEPT !["loop"] = t]
      BY <1>4 DEF CancelSubscription, CancelQueue, ExtendTrialStripe, Finish
    <2>3. proc["loop"].at \notin {"undo", "unrow"} /\ UNCHANGED <<tenant, relay>>
      BY <1>4 DEF CancelSubscription, CancelQueue, ExtendTrialStripe, LoopIdle
    <2> QED BY <1>1, <2>1, <2>2, <2>3
  <1>5. ASSUME NEW p \in Pool, BillingSync(p) PROVE WorkerHolds'
    <2>1. p \in Actors /\ p # "worker"
      BY PoolAssumption DEF Actors
    <2>2. \E t : proc' = [proc EXCEPT ![p] = t]
      BY <1>5 DEF BillingSync, Fetched
    <2>3. proc[p].at \notin {"undo", "unrow"} /\ UNCHANGED <<tenant, relay>>
      BY <1>5 DEF BillingSync
    <2> QED BY <1>1, <2>1, <2>2, <2>3
  <1>6. CASE Suspend \/ Activate \/ ExtendTrial \/ ExtendGrace \/ SetBillingMode
    <2>1. UNCHANGED <<proc, relay>>
      BY <1>6 DEF Suspend, Activate, ExtendTrial, ExtendGrace, SetBillingMode
    <2>2. Gentle
      BY <1>6 DEF Suspend, Activate, ExtendTrial, ExtendGrace, SetBillingMode, SetTenant, Gentle,
          TenantRows, Open
    <2>3. BeingUndone => BeingUndone'
      BY <2>1 DEF BeingUndone
    <2> QED BY <2>1, <2>2, <2>3, GentleStep DEF HoldInv
  <1> QED BY <1>2, <1>3, <1>4, <1>5, <1>6

LEMMA ModeInvNext ==
    ASSUME TypeOK, ModeInv, "manual" \notin Modes, [Next]_vars
    PROVE  ModeInv'
  <1> USE DEF TypeOK
  <1>1. tenant'.mode \in Modes
    <2>1. tenant \in TenantRows /\ tenant.mode \in Modes
      BY DEF ModeInv
    <2>2. ASSUME NEW a \in Actors, SyncRecord(a) PROVE tenant'.mode = tenant.mode
      BY <2>1, <2>2 DEF SyncRecord, Followed, TenantRows
    <2>3. ASSUME NEW a \in Actors, UndoRows(a) PROVE tenant'.mode = tenant.mode
      BY <2>1, <2>3 DEF UndoRows, TenantRows
    <2>4. CASE SetBillingMode
      <3>1. PICK mode \in Modes : SetTenant([tenant EXCEPT !.mode = mode])
        BY <2>4 DEF SetBillingMode
      <3> QED BY <2>1, <3>1 DEF SetTenant, TenantRows
    <2>5. CASE \/ CancelMark \/ PurgeWipe \/ TrialsSuspend
               \/ Suspend \/ Activate \/ ExtendTrial \/ ExtendGrace
      BY <2>1, <2>5 DEF CancelMark, PurgeWipe, TrialsSuspend, Suspend, Activate, ExtendTrial,
          ExtendGrace, SetTenant, TenantRows
    <2>6. CASE StartReactivate \/ ReactivateReopen
      BY <2>1, <2>6 DEF StartReactivate, ReactivateReopen, ReopenAndSync, SetTenant, Reopened, TenantRows
    <2> QED BY <2>1, <2>2, <2>3, <2>4, <2>5, <2>6, RowSteps DEF RowStep
  <1>2. proc'["maint"].at # "trial_due"
    <2>0. proc["maint"].at # "trial_due" /\ "maint" \in Actors
      BY DEF ModeInv, Actors
    <2>1. ASSUME NEW a \in Actors, a # "maint", NEW t, proc' = [proc EXCEPT ![a] = t]
          PROVE  proc'["maint"].at # "trial_due"
      BY <2>0, <2>1
    <2>2. ASSUME NEW a \in Actors, Sync(a) PROVE proc'["maint"].at # "trial_due"
      <3>1. CASE a = "maint"
        <4>1. Idle.at = "idle"
          BY DEF Idle
        <4>2. Synced(a) \/ Finish(a) => proc'["maint"].at = "idle"
          BY <3>1, <4>1 DEF Synced, Finish
        <4>3. \A place : GoTo(a, place) => proc'["maint"].at = place
          BY <3>1 DEF GoTo, Threads
        <4>4. proc' = Fetched(a, bs.sub, proc[a].row) => proc'["maint"].at = "record"
          BY <3>1 DEF Fetched
        <4> QED BY <2>2, <4>2, <4>3, <4>4 DEF Sync, SyncFetch, SyncRecord, UndoRelay, UndoRows
      <3>2. CASE a # "maint"
        BY <2>1, <2>2, <3>2 DEF Sync, SyncFetch, SyncRecord, UndoRelay, UndoRows, Fetched, Synced, GoTo, Finish
      <3> QED BY <3>1, <3>2
    <2>3. CASE Worker
      <3>1. CASE UNCHANGED proc
        BY <2>0, <3>1
      <3>2. CASE \E t : proc' = [proc EXCEPT !["worker"] = t]
        BY <2>1, <3>2 DEF Actors
      <3>3. CASE Sync("worker")
        BY <2>2, <3>3 DEF Actors
      <3> QED BY <2>3, <3>1, <3>2, <3>3 DEF Worker, StartCancel, CancelStop, CancelMark, StartReactivate,
            ReactivateStart, ReactivateReopen, ReopenAndSync, StartPurge, PurgeRemove, PurgeWipe,
            StartRelayAction, RelayAction, StartEvent, StartCheckout, JobFails, Finish, GoTo, Fetched
    <2>4. CASE Maintenance
      <3>1. Finish("maint") => proc'["maint"].at = "idle"
        BY <2>0 DEF Finish, Idle
      <3>2. \A place : GoTo("maint", place) => proc'["maint"].at = place
        BY <2>0 DEF GoTo, Threads
      <3>3. proc' = Fetched("maint", bs.sub, "none") => proc'["maint"].at = "record"
        BY <2>0 DEF Fetched
      <3>4. ~TrialsDue
        BY DEF TrialsDue, ModeInv
      <3> QED BY <2>0, <2>2, <2>4, <3>1, <3>2, <3>3, <3>4 DEF Maintenance, DailyDue, DailyPurge,
            TrialsSuspend, Reconcile
    <2>5. CASE Console
      <3>1. CASE UNCHANGED proc
        BY <2>0, <3>1
      <3>2. CASE \E a \in {"loop"} \cup Pool : \E t : proc' = [proc EXCEPT ![a] = t]
        BY <2>1, <3>2, PoolAssumption DEF Actors
      <3>3. CASE \E a \in Actors : Sync(a)
        BY <2>2, <3>3
      <3>4. CASE CancelSubscription \/ CancelQueue \/ ExtendTrialStripe \/ \E p \in Pool : BillingSync(p)
        BY <3>2, <3>4 DEF CancelSubscription, CancelQueue, ExtendTrialStripe, BillingSync, Finish, Fetched
      <3>5. CASE \/ Suspend \/ Activate \/ ExtendTrial \/ ExtendGrace \/ Reactivate \/ Cancel
                 \/ Purge \/ RelayRequest \/ SetBillingMode \/ Resubscribe
        BY <3>1, <3>5 DEF Suspend, Activate, ExtendTrial, ExtendGrace, Reactivate, Cancel, Purge,
            RelayRequest, QueueRequest, SetBillingMode, Resubscribe
      <3> QED BY <2>5, <3>3, <3>4, <3>5 DEF Console, Actors
    <2>6. CASE StripeChange \/ CheckoutPaid \/ Receive \/ Crash \/ Tick
      <3>1. CASE UNCHANGED proc
        BY <2>0, <3>1
      <3>2. CASE Crash
        BY <2>0, <3>2 DEF Crash, Idle
      <3> QED BY <2>6, <3>1, <3>2 DEF StripeChange, CheckoutPaid, Receive, Tick
    <2>7. CASE UNCHANGED vars
      BY <2>0, <2>7 DEF vars
    <2> QED BY <2>3, <2>4, <2>5, <2>6, <2>7 DEF Next
  <1> QED BY <1>1, <1>2 DEF ModeInv

LEMMA HoldInvNext ==
    ASSUME "manual" \notin Modes
    PROVE  TypeOK /\ HoldInv /\ [Next]_vars => HoldInv'
  <1> SUFFICES ASSUME TypeOK, HoldInv, [Next]_vars PROVE WorkerHolds'
    BY ModeInvNext DEF HoldInv
  <1>1. CASE Worker
    BY <1>1, WorkerJobHolds, SyncHolds DEF Worker, Actors
  <1>2. CASE Maintenance
    BY <1>2, OtherStepHolds, SyncHolds DEF Maintenance, Actors
  <1>3. ASSUME UNCHANGED <<tenant, relay, proc>> PROVE WorkerHolds'
    BY <1>3 DEF HoldInv, WorkerHolds, BeingUndone
  <1>4. CASE Console
    <2>1. CASE Reactivate \/ Cancel \/ Purge \/ RelayRequest \/ Resubscribe
      BY <1>3, <2>1 DEF Reactivate, Cancel, Purge, RelayRequest, QueueRequest, Resubscribe
    <2> QED BY <1>4, <2>1, OtherStepHolds, SyncHolds DEF Console, Actors
  <1>5. CASE StripeChange \/ CheckoutPaid \/ Receive \/ Tick
    BY <1>3, <1>5 DEF StripeChange, CheckoutPaid, Receive, Tick
  <1>6. CASE Crash
    BY <1>6, FreeStep DEF Crash, Idle, Holding, Actors
  <1>7. CASE UNCHANGED vars
    BY <1>3, <1>7 DEF vars
  <1> QED BY <1>1, <1>2, <1>4, <1>5, <1>6, <1>7 DEF Next

\* While a job is out at the helper no other thread moves its tenant from
\* under it, for a tenant that is never billed manually.
THEOREM WorkerAlwaysHolds ==
    ASSUME "manual" \notin Modes
    PROVE  Spec => []WorkerHolds
  <1>1. TypeOK /\ HoldInv /\ [Next]_vars => HoldInv'
    BY HoldInvNext
  <1>2. HoldInv => WorkerHolds
    BY DEF HoldInv
  <1> QED BY <1>1, <1>2, HoldInvInit, TypeCorrect, PTL DEF Spec

\* One step of PurgeIsLast.
PurgeStep ==
    /\ tenant.status # "purged" /\ tenant'.status = "purged" => tenant.status = "cancelled"
    /\ tenant.status = "purged" => tenant'.status \in {"purged", "deleted"}

LEMMA PurgeStepHolds ==
    ASSUME TypeOK, HoldInv, [Next]_vars
    PROVE  PurgeStep
  <1> USE DEF TypeOK, PurgeStep
  <1>0. tenant \in TenantRows
    OBVIOUS
  <1>1. ASSUME NEW a \in Actors, SyncRecord(a) PROVE PurgeStep
    <2>1. proc[a].status \in SubStatuses /\ proc[a].trialEnd \in Nat
      BY DEF Threads
    <2>2. tenant' = Followed(proc[a].status, proc[a].trialEnd)
      BY <1>1 DEF SyncRecord
    <2> QED BY <2>1, <2>2, FollowedCases DEF Open
  <1>2. ASSUME NEW a \in Actors, UndoRows(a) PROVE PurgeStep
    BY <1>0, <1>2 DEF UndoRows, TenantRows
  <1>3. CASE CancelMark \/ PurgeWipe
    BY <1>0, <1>3 DEF CancelMark, PurgeWipe, SetTenant, TenantRows, HoldInv, WorkerHolds, Open
  <1>4. CASE StartReactivate \/ ReactivateReopen
    <2>1. UNCHANGED tenant \/ (\E ends : tenant' = Reopened(ends))
      BY <1>4 DEF StartReactivate, ReactivateReopen, ReopenAndSync, SetTenant
    <2>2. UNCHANGED tenant \/ tenant.status # "purged"
      BY <1>4 DEF StartReactivate, ReactivateReopen, ReopenAndSync, SetTenant, HoldInv, WorkerHolds
    <2> QED BY <2>1, <2>2, ReopenedRow DEF Open
  <1>5. CASE TrialsSuspend
    BY <1>5 DEF TrialsSuspend, HoldInv, ModeInv
  <1>6. CASE Suspend \/ Activate \/ ExtendTrial \/ ExtendGrace
    BY <1>0, <1>6 DEF Suspend, Activate, ExtendTrial, ExtendGrace, TenantRows, Open
  <1>7. CASE SetBillingMode
    <2>1. PICK mode \in Modes : SetTenant([tenant EXCEPT !.mode = mode])
      BY <1>7 DEF SetBillingMode
    <2> QED BY <1>0, <2>1 DEF SetTenant, TenantRows
  <1> QED BY <1>1, <1>2, <1>3, <1>4, <1>5, <1>6, <1>7, RowSteps DEF RowStep

\* A purge only ever takes a cancelled tenant, and is final, for a tenant
\* that is never billed manually.
THEOREM PurgeAlwaysLast ==
    ASSUME "manual" \notin Modes
    PROVE  Spec => PurgeIsLast
  <1>1. TypeOK /\ HoldInv /\ [Next]_vars => HoldInv'
    BY HoldInvNext
  <1>2. TypeOK /\ HoldInv /\ [Next]_vars => [PurgeStep]_vars
    BY PurgeStepHolds
  <1> QED BY <1>1, <1>2, HoldInvInit, TypeCorrect, PTL DEF Spec, PurgeIsLast, PurgeStep

\* One step of RelayFollowsStatus.
RelayStep ==
    /\ tenant.status # "cancelled" /\ tenant'.status = "cancelled" => relay.up # "running"
    /\ tenant.status = "cancelled" /\ tenant'.status \in Open \cup {"suspended"} =>
          relay.up = "running" \/ BeingUndone

LEMMA RelayStepHolds ==
    ASSUME TypeOK, HoldInv, [Next]_vars
    PROVE  RelayStep
  <1> USE DEF TypeOK, RelayStep
  <1>0. tenant \in TenantRows
    OBVIOUS
  <1>1. ASSUME NEW a \in Actors, SyncRecord(a) PROVE RelayStep
    <2>1. proc[a].status \in SubStatuses /\ proc[a].trialEnd \in Nat
      BY DEF Threads
    <2>2. tenant' = Followed(proc[a].status, proc[a].trialEnd)
      BY <1>1 DEF SyncRecord
    <2> QED BY <2>1, <2>2, FollowedCases DEF Open
  <1>2. ASSUME NEW a \in Actors, UndoRows(a) PROVE RelayStep
    BY <1>0, <1>2 DEF UndoRows, TenantRows, Open
  <1>3. CASE CancelMark \/ PurgeWipe
    BY <1>0, <1>3 DEF CancelMark, PurgeWipe, SetTenant, TenantRows, HoldInv, WorkerHolds, Open
  <1>4. CASE StartReactivate
    <2>1. UNCHANGED tenant \/ (tenant.status = "suspended" /\ \E ends : tenant' = Reopened(ends))
      <3>1. CASE tenant.status = "suspended" /\ ReopenAndSync(Head(queue), tenant.mode, tenant.trialEnds)
        BY <3>1 DEF ReopenAndSync, SetTenant
      <3>2. CASE UNCHANGED tenant
        BY <3>2
      <3> QED BY <1>4, <3>1, <3>2 DEF StartReactivate
    <2> QED BY <2>1, ReopenedRow DEF Open
  <1>5. CASE ReactivateReopen
    <2>1. UNCHANGED tenant \/ (\E ends : tenant' = Reopened(ends))
      BY <1>5 DEF ReactivateReopen, ReopenAndSync, SetTenant
    <2>2. relay.up = "running" \/ BeingUndone \/ tenant.status = "deleted"
      BY <1>5 DEF ReactivateReopen, HoldInv, WorkerHolds
    <2> QED BY <2>1, <2>2, ReopenedRow DEF Open
  <1>6. CASE TrialsSuspend
    BY <1>6 DEF TrialsSuspend, HoldInv, ModeInv
  <1>7. CASE Suspend \/ Activate \/ ExtendTrial \/ ExtendGrace
    BY <1>0, <1>7 DEF Suspend, Activate, ExtendTrial, ExtendGrace, TenantRows, Open
  <1>8. CASE SetBillingMode
    <2>1. PICK mode \in Modes : SetTenant([tenant EXCEPT !.mode = mode])
      BY <1>8 DEF SetBillingMode
    <2> QED BY <1>0, <2>1 DEF SetTenant, TenantRows, Open
  <1>9. CASE UNCHANGED tenant
    BY <1>9 DEF Open
  <1> QED BY <1>1, <1>2, <1>3, <1>4, <1>5, <1>6, <1>7, <1>8, <1>9, RowSteps DEF RowStep

\* A tenant is cancelled only with its relay down and reopened from there only
\* with its relay running (or while an unpaid creation is being undone), for
\* a tenant that is never billed manually.
THEOREM RelayAlwaysFollows ==
    ASSUME "manual" \notin Modes
    PROVE  Spec => RelayFollowsStatus
  <1>1. TypeOK /\ HoldInv /\ [Next]_vars => HoldInv'
    BY HoldInvNext
  <1>2. TypeOK /\ HoldInv /\ [Next]_vars => [RelayStep]_vars
    BY RelayStepHolds
  <1> QED BY <1>1, <1>2, HoldInvInit, TypeCorrect, PTL DEF Spec, RelayFollowsStatus, RelayStep

-----------------------------------------------------------------------------
(***************************************************************************)
(* One job acts on the tenant at a time (jobs.active_for is asked in the   *)
(* step that queues one), so a reactivation Stripe asked for still finds   *)
(* the tenant cancelled when its turn comes.                               *)
(***************************************************************************)

\* Of the job that runs and those that wait, one at most acts on the tenant.
OneJob(j, q) ==
    /\ \A i, k \in 1..Len(q) : q[i].kind \in TenantJobs /\ q[k].kind \in TenantJobs => i = k
    /\ j.kind \in TenantJobs => \A i \in 1..Len(q) : q[i].kind \notin TenantJobs

Shut == {"cancelled", "purged", "deleted"}

\* Job j reopens the tenant, and nobody at the provider asked for it.
Unasked(j) == j.kind = "reactivate_tenant" /\ j.by # "provider"

JobInv ==
    /\ OneJob(job, queue)
    /\ proc["worker"].at \in {"start", "reopen"} => job.kind = "reactivate_tenant"
    /\ (\E i \in 1..Len(queue) : Unasked(queue[i])) => tenant.status \in Shut

LEMMA JobInvInit == Init => JobInv
  BY DEF Init, JobInv, OneJob, NoJob, Job, Idle, Actors, TenantJobs, RelayActions

LEMMA OneJobTaken ==
    ASSUME NEW q \in Seq(Jobs), q # <<>>, OneJob(NoJob, q), NEW j \in {Head(q), NoJob}
    PROVE  /\ OneJob(j, Tail(q))
           /\ \A i \in 1..Len(Tail(q)) : i + 1 \in 1..Len(q) /\ Tail(q)[i] = q[i + 1]
  <1>1. Len(q) \in Nat /\ Len(q) >= 1 /\ Len(Tail(q)) = Len(q) - 1 /\ Head(q) = q[1]
    OBVIOUS
  <1>2. \A i \in 1..Len(Tail(q)) : i + 1 \in 1..Len(q) /\ Tail(q)[i] = q[i + 1]
    BY <1>1
  <1>3. \A i, k \in 1..Len(Tail(q)) : Tail(q)[i].kind \in TenantJobs /\ Tail(q)[k].kind \in TenantJobs => i = k
    <2> SUFFICES ASSUME NEW i \in 1..Len(Tail(q)), NEW k \in 1..Len(Tail(q)),
                        Tail(q)[i].kind \in TenantJobs, Tail(q)[k].kind \in TenantJobs
                 PROVE  i = k
      OBVIOUS
    <2>1. i + 1 = k + 1
      BY <1>2 DEF OneJob
    <2> QED BY <1>1, <2>1
  <1>4. ASSUME j.kind \in TenantJobs, NEW i \in 1..Len(Tail(q)) PROVE Tail(q)[i].kind \notin TenantJobs
    <2>1. NoJob.kind \notin TenantJobs
      BY DEF NoJob, Job, TenantJobs, RelayActions
    <2>2. q[1].kind \in TenantJobs /\ 1 \in 1..Len(q) /\ i + 1 # 1
      BY <1>1, <1>4, <2>1
    <2> QED BY <1>2, <2>2 DEF OneJob
  <1> QED BY <1>2, <1>3, <1>4 DEF OneJob

LEMMA OneJobAdded ==
    ASSUME NEW q \in Seq(Jobs), NEW j \in Known, OneJob(j, q), NEW x \in Jobs,
           x.kind \in StripeJobs \/ (j.kind \notin TenantJobs /\ \A i \in 1..Len(q) : q[i].kind \notin TenantJobs)
    PROVE  /\ OneJob(j, Append(q, x))
           /\ Len(Append(q, x)) = Len(q) + 1 /\ Append(q, x)[Len(q) + 1] = x
           /\ \A i \in 1..Len(q) : Append(q, x)[i] = q[i]
  <1> DEFINE a == Append(q, x)
  <1>1. Len(q) \in Nat /\ Len(a) = Len(q) + 1 /\ a[Len(q) + 1] = x /\ \A i \in 1..Len(q) : a[i] = q[i]
    OBVIOUS
  <1>2. \A i \in 1..Len(a) : i \in 1..Len(q) \/ i = Len(q) + 1
    BY <1>1
  <1>3. x.kind \in StripeJobs => x.kind \notin TenantJobs
    BY DEF StripeJobs, TenantJobs, RelayActions
  <1> HIDE DEF a
  <1> QED BY <1>1, <1>2, <1>3 DEF OneJob, a

LEMMA OneJobEnded ==
    ASSUME NEW q, NEW j, OneJob(j, q)
    PROVE  OneJob(NoJob, q)
  <1>1. NoJob.kind \notin TenantJobs
    BY DEF NoJob, Job, TenantJobs, RelayActions
  <1> QED BY <1>1 DEF OneJob

\* A step leaves the queue alone, takes a job from it, adds a job that acts on the tenant while there is none, or
\* adds one that Stripe's event asks for.
Kept == queue' = queue /\ job' \in {job, NoJob}
Taken == queue # <<>> /\ job = NoJob /\ queue' = Tail(queue) /\ job' \in {Head(queue), NoJob}
Added == /\ ~Active /\ job' \in {job, NoJob}
         /\ \E x \in Jobs : queue' = Append(queue, x) /\ (Unasked(x) => tenant.status = "cancelled" /\ tenant' = tenant)
Heard == job' = job /\ \E x \in Jobs : x.kind \in StripeJobs /\ queue' = Append(queue, x)

LEMMA SyncQueue ==
    ASSUME TypeOK, NEW a \in Actors, Sync(a)
    PROVE  Kept \/ Added
  <1>1. \A b : (Finish(b) => job' \in {job, NoJob}) /\ (Synced(b) => job' \in {job, NoJob})
    BY DEF Finish, Synced
  <1>2. CASE SyncFetch(a) \/ UndoRelay(a) \/ UndoRows(a)
    BY <1>1, <1>2 DEF SyncFetch, UndoRelay, UndoRows, Kept
  <1>3. CASE SyncRecord(a)
    <2> DEFINE s == proc[a].status
    <2>1. ASSUME NEW kind \in TenantJobs, kind = "reactivate_tenant" => Verdict(s) = "reactivate",
                 Verdict(s) \in {"reactivate", "cancel"}, EnqueueUnlessActive(kind, "stripe"), Synced(a)
          PROVE  Kept \/ Added
      <3>1. CASE Active
        BY <1>1, <2>1, <3>1 DEF EnqueueUnlessActive, Kept
      <3>2. CASE ~Active
        <4>1. Job(kind, "stripe", 0) \in Jobs
          BY DEF Job, Jobs
        <4>2. tenant' = tenant
          BY <1>3, <2>1 DEF SyncRecord, Followed
        <4>3. kind = "reactivate_tenant" => tenant.status = "cancelled"
          BY <2>1 DEF Verdict
        <4>4. Unasked(Job(kind, "stripe", 0)) => kind = "reactivate_tenant"
          BY DEF Unasked, Job
        <4> QED BY <1>1, <2>1, <3>2, <4>1, <4>2, <4>3, <4>4 DEF EnqueueUnlessActive, Added
      <3> QED BY <3>1, <3>2
    <2>2. {"reactivate_tenant", "cancel_tenant"} \subseteq TenantJobs /\ "reactivate_tenant" # "cancel_tenant"
      BY DEF TenantJobs
    <2> QED BY <1>1, <1>3, <2>1, <2>2 DEF SyncRecord, Kept
  <1> QED BY <1>2, <1>3 DEF Sync

LEMMA QueueSteps ==
    ASSUME TypeOK, [Next]_vars
    PROVE  Kept \/ Taken \/ Added \/ Heard
  <1>1. \A b : Finish(b) => job' \in {job, NoJob}
    BY DEF Finish
  <1>2. ASSUME NEW kind, Take(kind), job' \in {job, NoJob, Head(queue)} PROVE Taken
    BY <1>2 DEF Take, WorkerFree, Taken
  <1>3. ASSUME NEW kind \in TenantJobs, NEW by \in {"provider", "scheduled"}, kind = "reactivate_tenant" => by = "provider",
               ~Active, queue' = Append(queue, Job(kind, by, 0)), job' \in {job, NoJob}
        PROVE  Added
    <2>1. Job(kind, by, 0) \in Jobs /\ ~Unasked(Job(kind, by, 0))
      BY <1>3 DEF Job, Jobs, Unasked
    <2> QED BY <1>3, <2>1 DEF Added
  <1>4. ASSUME NEW a \in Actors, Sync(a) PROVE Kept \/ Added
    BY <1>4, SyncQueue
  <1>5. CASE Worker
    <2>1. CASE \/ StartCancel \/ StartReactivate \/ StartPurge \/ StartRelayAction \/ StartEvent \/ StartCheckout
      BY <1>1, <1>2, <2>1 DEF StartCancel, StartReactivate, ReopenAndSync, StartPurge, StartRelayAction, StartEvent,
          StartCheckout
    <2>2. CASE \/ CancelStop \/ CancelMark \/ ReactivateStart \/ ReactivateReopen \/ PurgeRemove \/ PurgeWipe
               \/ RelayAction
      BY <1>1, <2>2 DEF CancelStop, CancelMark, ReactivateStart, ReactivateReopen, ReopenAndSync, PurgeRemove, PurgeWipe,
          RelayAction, JobFails, Kept
    <2> QED BY <1>4, <1>5, <2>1, <2>2 DEF Worker, Actors
  <1>6. CASE Maintenance
    <2>1. CASE DailyPurge
      <3>1. CASE Active
        BY <1>1, <2>1, <3>1 DEF DailyPurge, EnqueueUnlessActive, Kept
      <3>2. CASE ~Active
        BY <1>1, <1>3, <2>1, <3>2 DEF DailyPurge, EnqueueUnlessActive, TenantJobs
      <3> QED BY <3>1, <3>2
    <2>2. CASE DailyDue \/ TrialsDue \/ TrialsSuspend \/ Reconcile
      BY <1>1, <2>2 DEF DailyDue, TrialsDue, TrialsSuspend, Reconcile, Kept
    <2> QED BY <1>4, <1>6, <2>1, <2>2 DEF Maintenance, Actors
  <1>7. CASE Console
    <2>1. ASSUME NEW kind \in TenantJobs, QueueRequest(kind) PROVE Added
      BY <1>3, <2>1 DEF QueueRequest
    <2>2. CASE Reactivate \/ Cancel \/ Purge \/ RelayRequest
      BY <2>1, <2>2 DEF Reactivate, Cancel, Purge, RelayRequest, TenantJobs
    <2>3. CASE CancelQueue
      BY <1>1, <1>3, <2>3 DEF CancelQueue, Kept, TenantJobs
    <2>4. CASE \/ Suspend \/ Activate \/ ExtendTrial \/ ExtendGrace \/ SetBillingMode \/ CancelSubscription
               \/ ExtendTrialStripe \/ Resubscribe \/ \E p \in Pool : BillingSync(p)
      BY <2>4 DEF Suspend, Activate, ExtendTrial, ExtendGrace, SetBillingMode, CancelSubscription, ExtendTrialStripe,
          Resubscribe, BillingSync, Kept
    <2> QED BY <1>4, <1>7, <2>2, <2>3, <2>4 DEF Console, Actors
  <1>8. CASE Receive
    <2>1. PICK event \in events : queue' = Append(queue, Job(event.kind, "stripe", event.sub))
      BY <1>8 DEF Receive
    <2>2. event.kind \in StripeJobs /\ event.sub \in Subs
      BY DEF TypeOK
    <2>3. Job(event.kind, "stripe", event.sub) \in Jobs /\ Job(event.kind, "stripe", event.sub).kind \in StripeJobs
      BY <2>2 DEF Job, Jobs
    <2> QED BY <1>8, <2>1, <2>3 DEF Receive, Heard
  <1>9. CASE StripeChange \/ CheckoutPaid \/ Crash \/ Tick \/ UNCHANGED vars
    BY <1>9 DEF StripeChange, CheckoutPaid, Crash, Tick, vars, Kept
  <1> QED BY <1>5, <1>6, <1>7, <1>8, <1>9 DEF Next

LEMMA OneJobNext ==
    ASSUME TypeOK, OneJob(job, queue), [Next]_vars
    PROVE  OneJob(job', queue')
  <1>1. queue \in Seq(Jobs) /\ job \in Known
    BY DEF TypeOK, Known
  <1>2. CASE Kept
    BY <1>2, OneJobEnded DEF Kept
  <1>3. CASE Taken
    BY <1>1, <1>3, OneJobTaken DEF Taken
  <1>4. CASE Added
    <2>1. PICK x \in Jobs : queue' = Append(queue, x)
      BY <1>4 DEF Added
    <2>2. OneJob(job, queue')
      BY <1>1, <1>4, <2>1, OneJobAdded DEF Added, Active
    <2> QED BY <1>4, <2>2, OneJobEnded DEF Added
  <1>5. CASE Heard
    BY <1>1, <1>5, OneJobAdded DEF Heard
  <1> QED BY <1>2, <1>3, <1>4, <1>5, QueueSteps

\* Where a reactivation's worker is.
LEMMA WorkerPlaceNext ==
    ASSUME TypeOK, JobInv, [Next]_vars
    PROVE  proc'["worker"].at \in {"start", "reopen"} => job'.kind = "reactivate_tenant"
  <1> DEFINE Goal == proc'["worker"].at \in {"start", "reopen"} => job'.kind = "reactivate_tenant"
  <1> USE DEF TypeOK
  <1>0. /\ "worker" \in Actors
        /\ Finish("worker") => proc'["worker"].at = "idle"
        /\ \A place : GoTo("worker", place) => proc'["worker"].at = place
    BY DEF Actors, Finish, GoTo, Idle, Threads
  <1>1. ASSUME job' = job, proc'["worker"].at = proc["worker"].at PROVE Goal
    BY <1>1 DEF JobInv
  <1>2. ASSUME NEW a \in Actors, a # "worker", NEW t, proc' = [proc EXCEPT ![a] = t], job' = job PROVE Goal
    BY <1>0, <1>1, <1>2
  <1>3. ASSUME NEW a \in Actors, Sync(a) PROVE Goal
    <2>1. CASE a = "worker"
      <3>1. Idle.at = "idle"
        BY DEF Idle
      <3>2. Synced(a) => proc'["worker"].at = "idle"
        BY <1>0, <2>1, <3>1 DEF Synced
      <3>3. proc' = Fetched(a, bs.sub, proc[a].row) => proc'["worker"].at = "record"
        BY <2>1 DEF Fetched
      <3>4. proc'["worker"].at \in {"record", "idle", "undo", "unrow"}
        BY <1>0, <1>3, <2>1, <3>2, <3>3 DEF Sync, SyncFetch, SyncRecord, UndoRelay, UndoRows
      <3> QED BY <3>4
    <2>2. CASE a # "worker"
      <3>1. (\E t : proc' = [proc EXCEPT ![a] = t]) /\ job' = job
        BY <1>3, <2>2 DEF Sync, SyncFetch, SyncRecord, UndoRelay, UndoRows, Fetched, Synced, GoTo, Finish
      <3> QED BY <1>2, <2>2, <3>1
    <2> QED BY <2>1, <2>2
  <1>4. CASE Worker
    <2>1. CASE StartReactivate
      <3>1. Head(queue).kind = "reactivate_tenant" /\ proc["worker"].at = "idle"
        BY <2>1 DEF StartReactivate, Take, WorkerFree
      <3>2. ReopenAndSync(Head(queue), tenant.mode, tenant.trialEnds) => proc'["worker"].at \in {"fetch", "idle"}
        BY <1>0 DEF ReopenAndSync, Idle
      <3> QED BY <2>1, <3>1, <3>2 DEF StartReactivate
    <2>2. CASE ReactivateStart
      BY <1>0, <1>1, <2>2 DEF ReactivateStart, JobFails, JobInv
    <2>3. CASE ReactivateReopen
      <3>1. proc'["worker"].at \in {"fetch", "idle"}
        BY <1>0, <2>3 DEF ReactivateReopen, ReopenAndSync, Idle
      <3> QED BY <3>1
    <2>4. CASE \/ StartCancel \/ CancelStop \/ CancelMark \/ StartPurge \/ PurgeRemove \/ PurgeWipe
               \/ StartRelayAction \/ RelayAction
      <3>1. proc'["worker"].at \in {"idle", "stop", "mark", "remove", "wipe", "relay"}
        BY <1>0, <2>4 DEF StartCancel, CancelStop, CancelMark, StartPurge, PurgeRemove, PurgeWipe, StartRelayAction,
            RelayAction, JobFails, Take, WorkerFree
      <3> QED BY <3>1
    <2>5. CASE StartEvent \/ StartCheckout
      <3> DEFINE sub == Head(queue).sub
      <3>1. proc["worker"].at = "idle"
        BY <2>5 DEF StartEvent, StartCheckout, Take, WorkerFree
      <3>2. proc' = Fetched("worker", sub, "none") => proc'["worker"].at = "record"
        BY <1>0 DEF Fetched
      <3>3. [Idle EXCEPT !.at = "fetch", !.sub = sub].at = "fetch"
        BY DEF Idle
      <3>4. proc' = [proc EXCEPT !["worker"] = [Idle EXCEPT !.at = "fetch", !.sub = sub]]
              => proc'["worker"].at = "fetch"
        BY <1>0, <3>3
      <3>5. proc'["worker"].at \in {"record", "fetch", "idle"}
        BY <2>5, <3>1, <3>2, <3>4 DEF StartEvent, StartCheckout
      <3> QED BY <3>5
    <2> QED BY <1>0, <1>3, <1>4, <2>1, <2>2, <2>3, <2>4, <2>5 DEF Worker
  <1>5. CASE Maintenance
    <2>1. "maint" \in Actors /\ "maint" # "worker"
      BY DEF Actors
    <2>2. CASE DailyDue \/ DailyPurge \/ TrialsDue \/ TrialsSuspend \/ Reconcile
      <3>1. (\E t : proc' = [proc EXCEPT !["maint"] = t]) /\ job' = job
        BY <2>2 DEF DailyDue, DailyPurge, TrialsDue, TrialsSuspend, Reconcile, Finish, GoTo, Fetched
      <3> QED BY <1>2, <2>1, <3>1
    <2> QED BY <1>3, <1>5, <2>1, <2>2 DEF Maintenance
  <1>6. CASE Console
    <2>1. "loop" \in Actors /\ "loop" # "worker" /\ \A p \in Pool : p \in Actors /\ p # "worker"
      BY PoolAssumption DEF Actors
    <2>2. CASE CancelSubscription \/ CancelQueue \/ ExtendTrialStripe
      <3>1. (\E t : proc' = [proc EXCEPT !["loop"] = t]) /\ job' = job
        BY <2>2 DEF CancelSubscription, CancelQueue, ExtendTrialStripe, Finish
      <3> QED BY <1>2, <2>1, <3>1
    <2>3. ASSUME NEW p \in Pool, BillingSync(p) PROVE Goal
      BY <1>2, <2>1, <2>3 DEF BillingSync, Fetched
    <2>4. CASE \/ Suspend \/ Activate \/ ExtendTrial \/ ExtendGrace \/ Reactivate \/ Cancel
               \/ Purge \/ RelayRequest \/ SetBillingMode \/ Resubscribe
      BY <1>1, <2>4 DEF Suspend, Activate, ExtendTrial, ExtendGrace, Reactivate, Cancel, Purge, RelayRequest,
          QueueRequest, SetBillingMode, Resubscribe
    <2> QED BY <1>3, <1>6, <2>1, <2>2, <2>3, <2>4 DEF Console
  <1>7. CASE Crash
    BY <1>0, <1>7 DEF Crash, Idle
  <1>8. CASE StripeChange \/ CheckoutPaid \/ Receive \/ Tick \/ UNCHANGED vars
    BY <1>1, <1>8 DEF StripeChange, CheckoutPaid, Receive, Tick, vars
  <1> QED BY <1>4, <1>5, <1>6, <1>7, <1>8 DEF Next

\* Only a reactivation brings the tenant back.
LEMMA ShutStays ==
    ASSUME TypeOK, HoldInv, [Next]_vars, tenant.status \in Shut
    PROVE  tenant'.status \in Shut \/ ReactivateReopen
  <1> USE DEF TypeOK, Shut
  <1>0. tenant \in TenantRows
    OBVIOUS
  <1>1. ASSUME NEW a \in Actors, SyncRecord(a) PROVE tenant'.status \in Shut
    <2>1. proc[a].status \in SubStatuses /\ proc[a].trialEnd \in Nat
      BY DEF Threads
    <2>2. tenant' = Followed(proc[a].status, proc[a].trialEnd)
      BY <1>1 DEF SyncRecord
    <2> QED BY <2>1, <2>2, FollowedCases DEF Open
  <1>2. ASSUME NEW a \in Actors, UndoRows(a) PROVE tenant'.status \in Shut
    BY <1>0, <1>2 DEF UndoRows, TenantRows
  <1>3. CASE CancelMark \/ PurgeWipe
    BY <1>0, <1>3 DEF CancelMark, PurgeWipe, SetTenant, TenantRows
  <1>4. CASE StartReactivate
    BY <1>4 DEF StartReactivate
  <1>5. CASE TrialsSuspend
    BY <1>5 DEF TrialsSuspend, HoldInv, ModeInv
  <1>6. CASE Suspend \/ Activate \/ ExtendTrial \/ ExtendGrace
    BY <1>0, <1>6 DEF Suspend, Activate, ExtendTrial, ExtendGrace, TenantRows, Open
  <1>7. CASE SetBillingMode
    <2>1. PICK mode \in Modes : SetTenant([tenant EXCEPT !.mode = mode])
      BY <1>7 DEF SetBillingMode
    <2> QED BY <1>0, <2>1 DEF SetTenant, TenantRows
  <1> QED BY <1>1, <1>2, <1>3, <1>4, <1>5, <1>6, <1>7, RowSteps DEF RowStep

LEMMA JobInvNext ==
    ASSUME TypeOK, HoldInv, JobInv, [Next]_vars
    PROVE  JobInv'
  <1>1. queue \in Seq(Jobs) /\ job \in Known /\ OneJob(job, queue)
    BY DEF TypeOK, Known, JobInv
  <1>2. (\E i \in 1..Len(queue') : Unasked(queue'[i])) =>
            \/ \E i \in 1..Len(queue) : Unasked(queue[i])
            \/ tenant.status = "cancelled" /\ tenant' = tenant
    <2> SUFFICES ASSUME NEW i \in 1..Len(queue'), Unasked(queue'[i])
                 PROVE  \/ \E k \in 1..Len(queue) : Unasked(queue[k])
                        \/ tenant.status = "cancelled" /\ tenant' = tenant
      OBVIOUS
    <2>1. CASE Kept
      BY <2>1 DEF Kept
    <2>2. CASE Taken
      BY <1>1, <2>2, OneJobTaken DEF Taken
    <2>3. CASE Added
      <3>1. PICK x \in Jobs : /\ queue' = Append(queue, x)
                              /\ Unasked(x) => tenant.status = "cancelled" /\ tenant' = tenant
        BY <2>3 DEF Added
      <3>2. job.kind \notin TenantJobs /\ \A k \in 1..Len(queue) : queue[k].kind \notin TenantJobs
        BY <2>3 DEF Added, Active
      <3>3. /\ Len(queue') = Len(queue) + 1 /\ queue'[Len(queue) + 1] = x
            /\ \A k \in 1..Len(queue) : queue'[k] = queue[k]
        BY <1>1, <3>1, <3>2, OneJobAdded
      <3>4. i \in 1..Len(queue) \/ i = Len(queue) + 1
        BY <1>1, <3>3
      <3> QED BY <3>1, <3>3, <3>4
    <2>4. CASE Heard
      <3>1. PICK x \in Jobs : x.kind \in StripeJobs /\ queue' = Append(queue, x)
        BY <2>4 DEF Heard
      <3>2. /\ Len(queue') = Len(queue) + 1 /\ queue'[Len(queue) + 1] = x
            /\ \A k \in 1..Len(queue) : queue'[k] = queue[k]
        BY <1>1, <3>1, OneJobAdded
      <3>3. i \in 1..Len(queue) \/ i = Len(queue) + 1
        BY <1>1, <3>2
      <3>4. ~Unasked(x)
        BY <3>1 DEF Unasked, StripeJobs
      <3> QED BY <3>2, <3>3, <3>4
    <2> QED BY <2>1, <2>2, <2>3, <2>4, QueueSteps
  <1>3. ASSUME NEW i \in 1..Len(queue), Unasked(queue[i]), ReactivateReopen PROVE FALSE
    <2>1. job.kind = "reactivate_tenant"
      BY <1>3 DEF ReactivateReopen, JobInv
    <2> QED BY <1>1, <1>3, <2>1 DEF OneJob, Unasked, TenantJobs
  <1>4. (\E i \in 1..Len(queue') : Unasked(queue'[i])) => tenant'.status \in Shut
    <2>1. CASE \E i \in 1..Len(queue) : Unasked(queue[i])
      BY <1>3, <2>1, ShutStays DEF JobInv
    <2>2. CASE tenant.status = "cancelled" /\ tenant' = tenant
      BY <2>2 DEF Shut
    <2> QED BY <1>2, <2>1, <2>2
  <1> QED BY <1>1, <1>4, OneJobNext, WorkerPlaceNext DEF JobInv

\* One step of OnlyProviderLiftsSuspension.
LiftStep ==
    tenant.status = "suspended" /\ ~tenant.billingSuspended /\ tenant'.status \in Open
        => job.by = "provider" \/ (queue # <<>> /\ Head(queue).by = "provider")

LEMMA LiftStepHolds ==
    ASSUME TypeOK, HoldInv, JobInv, [Next]_vars
    PROVE  LiftStep
  <1> SUFFICES ASSUME tenant.status = "suspended", ~tenant.billingSuspended, tenant'.status \in Open
               PROVE  queue # <<>> /\ Head(queue).by = "provider"
    BY DEF LiftStep
  <1> USE DEF TypeOK
  <1>0. tenant \in TenantRows
    OBVIOUS
  <1>1. ASSUME NEW a \in Actors, SyncRecord(a) PROVE FALSE
    <2>1. proc[a].status \in SubStatuses /\ proc[a].trialEnd \in Nat
      BY DEF Threads
    <2>2. tenant' = Followed(proc[a].status, proc[a].trialEnd)
      BY <1>1 DEF SyncRecord
    <2> QED BY <2>1, <2>2, FollowedCases DEF Open
  <1>2. ASSUME NEW a \in Actors, UndoRows(a) PROVE FALSE
    BY <1>0, <1>2 DEF UndoRows, TenantRows, Open
  <1>3. CASE CancelMark \/ PurgeWipe \/ TrialsSuspend \/ Suspend \/ Activate \/ ExtendTrial \/ ExtendGrace
    BY <1>0, <1>3 DEF CancelMark, PurgeWipe, TrialsSuspend, Suspend, Activate, ExtendTrial, ExtendGrace, SetTenant,
        TenantRows, Open
  <1>4. CASE SetBillingMode
    <2>1. PICK mode \in Modes : SetTenant([tenant EXCEPT !.mode = mode])
      BY <1>4 DEF SetBillingMode
    <2> QED BY <1>0, <2>1 DEF SetTenant, TenantRows, Open
  <1>5. CASE ReactivateReopen
    BY <1>5 DEF ReactivateReopen, HoldInv, WorkerHolds
  <1>6. CASE StartReactivate
    <2>1. queue # <<>> /\ Head(queue).kind = "reactivate_tenant" /\ Head(queue) = queue[1] /\ 1 \in 1..Len(queue)
      BY <1>6 DEF StartReactivate, Take
    <2>2. ~Unasked(queue[1])
      BY <2>1 DEF JobInv, Shut
    <2> QED BY <2>1, <2>2 DEF Unasked
  <1>7. CASE UNCHANGED tenant
    BY <1>7 DEF Open
  <1> QED BY <1>1, <1>2, <1>3, <1>4, <1>5, <1>6, <1>7, RowSteps DEF RowStep

\* Neither a sync nor a reactivation that Stripe asked for reopens a tenant the provider suspended, for a tenant
\* that is never billed manually: when the reactivation's turn comes the tenant is still cancelled (apply_status,
\* jobs.active_for, lifecycle._reactivate).
THEOREM SuspensionIsTheProviders ==
    ASSUME "manual" \notin Modes
    PROVE  Spec => OnlyProviderLiftsSuspension
  <1>1. TypeOK /\ HoldInv /\ [Next]_vars => HoldInv'
    BY HoldInvNext
  <1>2. TypeOK /\ HoldInv /\ JobInv /\ [Next]_vars => JobInv'
    BY JobInvNext
  <1>3. TypeOK /\ HoldInv /\ JobInv /\ [Next]_vars => [LiftStep]_vars
    BY LiftStepHolds
  <1> QED BY <1>1, <1>2, <1>3, HoldInvInit, JobInvInit, TypeCorrect, PTL DEF Spec, OnlyProviderLiftsSuspension, LiftStep

=============================================================================
