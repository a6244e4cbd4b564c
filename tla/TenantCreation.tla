--------------------------- MODULE TenantCreation ---------------------------
(***************************************************************************)
(* How customer tenants come to exist: the public sign-up (signup.py,      *)
(* public_site.py), the checkout events of billing.py, the console's "New  *)
(* tenant" and "Retry", and the create_tenant job with its undo            *)
(* (console/tenants.py, console/jobs.py, console/relays.py).               *)
(*                                                                         *)
(* A step is what a thread does between two calls that leave the process   *)
(* (Stripe, rdf-helper); the worker runs one job at a time, and handlers   *)
(* run between any two of its steps.  A Checkout Session and the           *)
(* subscription it makes share a number.  A card is its fingerprint.       *)
(*                                                                         *)
(* Left out: vhost and certificate (their undo tolerates any failure and   *)
(* no property reads them), guides, mails, limits per hour and per day,    *)
(* link expiry, and what happens to a tenant once it is linked             *)
(* (TenantLifecycle).                                                      *)
(***************************************************************************)
EXTENDS Integers, Sequences, FiniteSets

CONSTANTS
    Signups,        \* the people who sign up
    Slugs,          \* the addresses they ask for
    Cards,          \* card fingerprints
    Blocks,         \* relay port blocks in RELAY_PORT_BASE..RELAY_PORT_MAX
    MinFreeBlocks,  \* SIGNUP_MIN_FREE_BLOCKS
    MaxSessions,    \* bound on Checkout Sessions
    MaxDisturbances \* bound on failed calls, restarts and repeated requests

ASSUME SignupsAssumption == Signups \cap {"console", "none"} = {}
ASSUME CardsAssumption == "none" \notin Cards
ASSUME NumbersAssumption == /\ Blocks \in Nat
                            /\ MinFreeBlocks \in Nat
                            /\ MaxSessions \in Nat
                            /\ MaxDisturbances \in Nat

VARIABLES
    signup,     \* the signups rows; status "none": there is no row
    session,    \* at Stripe: Checkout Sessions and their subscriptions
    cardOwner,  \* trial_cards: the sign-up a card was first seen with
    tenants,    \* by tenant id: the tenants row and what was made for it
    used,       \* relay_port_blocks handed out so far
    received,   \* stripe_events: sessions whose event is recorded
    retrying,   \* sign-ups a console request marked, its job not queued yet
    stranded,   \* history: sign-ups a restart caught marked, with no job queued
    queue,      \* provider_jobs with status 'queued', oldest first
    work,       \* the running job, where it is, and its tenant_id
    spent       \* how many disturbances there have been

vars == <<signup, session, cardOwner, tenants, used, received, retrying, stranded, queue, work, spent>>

Console == "console"
None == "none"
Sessions == 1..MaxSessions
Tenants == 1..Len(tenants)

Creating(ref, slug) == [kind |-> "create", ref |-> ref, slug |-> slug, session |-> 0]
CheckoutEvent(k) == [kind |-> "checkout", ref |-> None, slug |-> None, session |-> k]
Idle == [at |-> "idle", job |-> CheckoutEvent(0), tenant |-> 0]

Disturbance == /\ spent < MaxDisturbances
               /\ spent' = spent + 1

-----------------------------------------------------------------------------
(* Slugs. *)

\* A sign-up in progress holds its slug, a failed one too, unless it was
\* refused for lack of a card.
Holds(s, slug) ==
    /\ signup[s].slug = slug
    /\ signup[s].status \in {"pending_verification", "checkout", "creating", "failed"}
    /\ ~(signup[s].status = "failed" /\ signup[s].reason = "no card")

\* tenants.slug_error, for a slug asked for by sign-up "who" (or the console).
SlugTaken(slug, who) ==
    \/ \E t \in Tenants : tenants[t].row /\ tenants[t].slug = slug
    \/ \E s \in Signups \ {who} : Holds(s, slug)

FreeBlocks == Blocks - used

-----------------------------------------------------------------------------
(* The public site. *)

NoSignup == [status |-> "none", slug |-> None, reason |-> "none", sub |-> 0, tenant |-> 0]

\* signup.start
Start(s) ==
    /\ signup[s].status = "none"
    /\ FreeBlocks >= MinFreeBlocks
    /\ \E slug \in Slugs :
          /\ ~SlugTaken(slug, None)
          /\ signup' = [signup EXCEPT ![s] = [NoSignup EXCEPT !.status = "pending_verification", !.slug = slug]]
    /\ UNCHANGED <<session, cardOwner, tenants, used, received, retrying, stranded, queue, work, spent>>

\* maintenance deletes a sign-up nobody verified.
PurgeUnverified(s) ==
    /\ signup[s].status = "pending_verification"
    /\ signup' = [signup EXCEPT ![s] = NoSignup]
    /\ UNCHANGED <<session, cardOwner, tenants, used, received, retrying, stranded, queue, work, spent>>

\* A new Checkout Session for s.
NewSession(s) ==
    \E k \in Sessions :
        /\ session[k].status = "none"
        /\ \A earlier \in 1..(k - 1) : session[earlier].status # "none"
        /\ session' = [session EXCEPT ![k] = [@ EXCEPT !.status = "open", !.signup = s]]

\* verify_submit: the link is spent first, then Stripe is asked for a session.
Verify(s) ==
    /\ signup[s].status = "pending_verification"
    /\ signup' = [signup EXCEPT ![s].status = "checkout"]
    /\ \/ NewSession(s) /\ UNCHANGED spent
       \/ Disturbance /\ UNCHANGED session                \* Stripe unreachable
    /\ UNCHANGED <<cardOwner, tenants, used, received, retrying, stranded, queue, work>>

\* checkout_again: a fresh session; a sign-up refused for its payment method
\* waits for payment again, if its slug is still free.
CheckoutAgain(s) ==
    /\ Disturbance
    /\ \/ /\ signup[s].status = "checkout"
          /\ UNCHANGED signup
       \/ /\ signup[s].status = "failed" /\ signup[s].reason = "no card"
          /\ ~SlugTaken(signup[s].slug, s)
          /\ signup' = [signup EXCEPT ![s] = [@ EXCEPT !.status = "checkout", !.reason = "none", !.sub = 0]]
    /\ NewSession(s) \/ UNCHANGED session                 \* Stripe unreachable
    /\ UNCHANGED <<cardOwner, tenants, used, received, retrying, stranded, queue, work>>

\* The customer completes a session: with a card, or with a wallet that leaves
\* none on file.  The trial starts at Stripe at once.
Pay(k) ==
    /\ session[k].status = "open"
    /\ \E card \in Cards \cup {None} :
          session' = [session EXCEPT ![k] = [@ EXCEPT !.status = "trialing", !.card = card]]
    /\ UNCHANGED <<signup, cardOwner, tenants, used, received, retrying, stranded, queue, work, spent>>

\* billing.receive: the event is recorded once and its job queued.
Receive(k) ==
    /\ session[k].status \notin {"none", "open"}
    /\ k \notin received
    /\ received' = received \cup {k}
    /\ queue' = Append(queue, CheckoutEvent(k))
    /\ UNCHANGED <<signup, session, cardOwner, tenants, used, retrying, stranded, work, spent>>

-----------------------------------------------------------------------------
(* The console. *)

\* The "New tenant" form: a free slug that no queued or running job creates.
NewTenant(slug) ==
    /\ Disturbance
    /\ ~SlugTaken(slug, None)
    /\ \A i \in 1..Len(queue) : queue[i].slug # slug
    /\ work.job.slug # slug
    /\ queue' = Append(queue, Creating(Console, slug))
    /\ UNCHANGED <<signup, session, cardOwner, tenants, used, received, retrying, stranded, work>>

\* signup_retry: a paid-for sign-up whose creation failed is marked "creating",
\* which is committed (one request per sign-up at a time) ...
Retry(s) ==
    /\ Disturbance
    /\ s \notin retrying
    /\ signup[s].status = "failed"
    /\ signup[s].sub # 0
    /\ signup[s].reason # "no card"
    /\ signup' = [signup EXCEPT ![s] = [@ EXCEPT !.status = "creating", !.reason = "none"]]
    /\ retrying' = retrying \cup {s}
    /\ UNCHANGED <<session, cardOwner, tenants, used, received, stranded, queue, work>>

\* ... and its job is queued after that.
RetryQueues(s) ==
    /\ s \in retrying
    /\ retrying' = retrying \ {s}
    /\ queue' = Append(queue, Creating(s, signup[s].slug))
    /\ UNCHANGED <<signup, session, cardOwner, tenants, used, received, stranded, work, spent>>

-----------------------------------------------------------------------------
(* The worker: a completed checkout. *)

At(place) == work.at = place
Do(place) == work' = [work EXCEPT !.at = place]
Done == work' = Idle

Take(kind) ==
    /\ At("idle")
    /\ queue # <<>>
    /\ Head(queue).kind = kind

\* The session is fetched, then its sign-up's row read: one that is being
\* created, or was, is left alone.  A job that fails is not tried again.
StartCheckout ==
    /\ Take("checkout")
    /\ queue' = Tail(queue)
    /\ \/ /\ signup[session[Head(queue).session].signup].status \notin {"creating", "created"}
          /\ work' = [Idle EXCEPT !.at = "card", !.job = Head(queue)]
          /\ UNCHANGED spent
       \/ /\ signup[session[Head(queue).session].signup].status \in {"creating", "created"}
          /\ UNCHANGED <<work, spent>>
       \/ Disturbance /\ UNCHANGED work
    /\ UNCHANGED <<signup, session, cardOwner, tenants, used, received, retrying, stranded>>

Paid == session[work.job.session]
Payer == Paid.signup

\* The checkout is good: the sign-up's tenant is to be created.  That much is
\* committed before the creation is queued.
Accept ==
    /\ signup' = [signup EXCEPT ![Payer] =
                   [@ EXCEPT !.status = "creating", !.reason = "none", !.sub = work.job.session]]
    /\ Do("enqueue")

\* Mutant: a card counts as used only once its tenant exists.
SeenOnlyIfCreated ==
    /\ cardOwner[Paid.card] \notin {None, Payer}
    /\ signup[cardOwner[Paid.card]].status = "created"

\* The card was first seen with somebody else.
CardSeen == cardOwner[Paid.card] \notin {None, Payer}

\* The subscription and its card are fetched: what the sign-up's row says now
\* is not looked at again.
CheckoutCard ==
    /\ At("card")
    /\ \/ /\ Paid.card = None                             \* _no_card
          /\ signup' = [signup EXCEPT ![Payer] =
                         [@ EXCEPT !.status = "failed", !.reason = "no card", !.sub = work.job.session]]
          /\ Do("refuse")
          /\ UNCHANGED <<cardOwner, spent>>
       \/ /\ Paid.card # None
          /\ cardOwner' = [cardOwner EXCEPT ![Paid.card] = IF @ = None THEN Payer ELSE @]
          /\ IF CardSeen THEN Do("deny") /\ UNCHANGED signup ELSE Accept
          /\ UNCHANGED spent
       \/ Disturbance /\ Done /\ UNCHANGED <<signup, cardOwner>>
    /\ UNCHANGED <<session, tenants, used, received, retrying, stranded, queue>>

\* One trial per card: this one ends now.
CheckoutDeny ==
    /\ At("deny")
    /\ \/ /\ session' = [session EXCEPT ![work.job.session].status = "active"]
          /\ Accept
          /\ UNCHANGED spent
       \/ Disturbance /\ Done /\ UNCHANGED <<session, signup>>
    /\ UNCHANGED <<cardOwner, tenants, used, received, retrying, stranded, queue>>

\* start_creation
StartCreation ==
    /\ At("enqueue")
    /\ queue' = Append(queue, Creating(Payer, signup[Payer].slug))
    /\ Done
    /\ UNCHANGED <<signup, session, cardOwner, tenants, used, received, retrying, stranded, spent>>

\* _no_card cancels the subscription; a failure is only logged.
CheckoutRefuse ==
    /\ At("refuse")
    /\ Done
    /\ \/ session' = [session EXCEPT ![work.job.session].status = "canceled"] /\ UNCHANGED spent
       \/ Disturbance /\ UNCHANGED session
    /\ UNCHANGED <<signup, cardOwner, tenants, used, received, retrying, stranded, queue>>

-----------------------------------------------------------------------------
(* The worker: create_tenant. *)

Tenant == tenants[work.tenant]
SetTenant(row) == tenants' = [tenants EXCEPT ![work.tenant] = row]

\* billing.creation_failed, for a job that sign-up ref paid for.
CreationFailed(ref) ==
    signup' = IF ref = Console THEN signup
              ELSE [signup EXCEPT ![ref] = [@ EXCEPT !.status = "failed", !.reason = "creation", !.tenant = 0]]

\* Mutant: the block of a creation that was undone is handed out again.
FreedBlock ==
    IF \E t \in Tenants : ~tenants[t].row /\ tenants[t].block # 0
    THEN tenants[CHOOSE t \in Tenants : ~tenants[t].row /\ tenants[t].block # 0].block
    ELSE used + 1

\* relays.allocate_block: the one after the highest ever used.
NextBlock == used + 1

\* Mutant: the last block of the range is counted wrong.
BlocksLeftOneTooMany == NextBlock <= Blocks + 1

BlocksLeft == NextBlock <= Blocks

\* The slug is checked again and the tenant's row committed.  Before that a
\* failure, or a restart, leaves nothing to undo.
StartCreate ==
    /\ Take("create")
    /\ queue' = Tail(queue)
    /\ LET job == Head(queue) IN
       \/ /\ SlugTaken(job.slug, job.ref)
          /\ CreationFailed(job.ref)
          /\ UNCHANGED <<tenants, work, spent>>
       \/ /\ Disturbance
          /\ CreationFailed(job.ref)
          /\ UNCHANGED <<tenants, work>>
       \/ /\ ~SlugTaken(job.slug, job.ref)
          /\ tenants' = Append(tenants, [slug |-> job.slug, row |-> TRUE, up |-> FALSE, admin |-> FALSE, block |-> 0])
          /\ work' = [at |-> "note", job |-> job, tenant |-> Len(tenants) + 1]
          /\ UNCHANGED <<signup, spent>>
    /\ UNCHANGED <<session, cardOwner, used, received, retrying, stranded>>

\* job._save: the job's own row names the tenant from here on.
NoteTenant ==
    /\ At("note")
    /\ Do("provision")
    /\ UNCHANGED <<signup, session, cardOwner, tenants, used, received, retrying, stranded, queue, spent>>

\* A port block, which is committed, and relays.provision with it: its
\* containers may be up although it failed.  Without a block left, or after a
\* failure, what there is is undone.
Provision ==
    /\ At("provision")
    /\ \/ /\ ~BlocksLeft
          /\ Do("undo")
          /\ UNCHANGED <<tenants, used, spent>>
       \/ /\ BlocksLeft
          /\ used' = NextBlock
          /\ \/ SetTenant([Tenant EXCEPT !.block = NextBlock, !.up = TRUE]) /\ Do("publish") /\ UNCHANGED spent
             \/ /\ Disturbance /\ Do("undo")
                /\ \E up \in BOOLEAN : SetTenant([Tenant EXCEPT !.block = NextBlock, !.up = up])
    /\ UNCHANGED <<signup, session, cardOwner, received, retrying, stranded, queue>>

\* The web domain and the guides; then the first admin (for the console's
\* tenants an invitation) and creation_finished's rows, which link the sign-up.
Publish ==
    /\ At("publish")
    /\ \/ /\ SetTenant([Tenant EXCEPT !.admin = TRUE])
          /\ IF work.job.ref = Console
             THEN Do("welcome") /\ UNCHANGED signup
             ELSE /\ Do("link")
                  /\ signup' = [signup EXCEPT ![work.job.ref] =
                                    [@ EXCEPT !.status = "created", !.reason = "none", !.tenant = work.tenant]]
          /\ UNCHANGED spent
       \/ Disturbance /\ Do("undo") /\ UNCHANGED <<tenants, signup>>
    /\ UNCHANGED <<session, cardOwner, used, received, retrying, stranded, queue>>

\* creation_finished ends with sync_subscription, whose errors it doesn't catch.
Link ==
    /\ At("link")
    /\ \/ Do("welcome") /\ UNCHANGED spent
       \/ Disturbance /\ Do("undo")
    /\ UNCHANGED <<signup, session, cardOwner, tenants, used, received, retrying, stranded, queue>>

\* A mail that can't be sent is only noted.
Welcome ==
    /\ At("welcome")
    /\ Done
    /\ UNCHANGED <<signup, session, cardOwner, tenants, used, received, retrying, stranded, queue, spent>>

\* undo_creation: the relay comes down (an error is only noted) ...
UndoRelay ==
    /\ At("undo")
    /\ Do("unrow")
    /\ \/ SetTenant([Tenant EXCEPT !.up = FALSE]) /\ UNCHANGED spent
       \/ Disturbance /\ UNCHANGED tenants
    /\ UNCHANGED <<signup, session, cardOwner, used, received, retrying, stranded, queue>>

Linked == \E s \in Signups : signup[s].tenant = work.tenant

\* Mutant: rows are deleted without foreign keys being checked.
UndoRowsUnchecked ==
    /\ At("unrow")
    /\ Done
    /\ SetTenant([Tenant EXCEPT !.admin = FALSE, !.row = FALSE])
    /\ IF Linked THEN UNCHANGED signup ELSE CreationFailed(work.job.ref)
    /\ UNCHANGED <<session, cardOwner, used, received, retrying, stranded, queue, spent>>

\* ... and the tenant's rows go.  The last, its own, can't be deleted while a
\* sign-up refers to it (signups.tenant_id REFERENCES tenants): undo_creation
\* then raises, and creation_failed is not reached.
UndoRows ==
    /\ At("unrow")
    /\ Done
    /\ IF Linked
       THEN SetTenant([Tenant EXCEPT !.admin = FALSE]) /\ UNCHANGED signup
       ELSE /\ SetTenant([Tenant EXCEPT !.admin = FALSE, !.row = FALSE])
            /\ CreationFailed(work.job.ref)
    /\ UNCHANGED <<session, cardOwner, used, received, retrying, stranded, queue, spent>>

Worker ==
    \/ StartCheckout \/ CheckoutCard \/ CheckoutDeny \/ CheckoutRefuse \/ StartCreation
    \/ StartCreate \/ NoteTenant \/ Provision \/ Publish \/ Link \/ Welcome
    \/ UndoRelay \/ UndoRows

\* Mutant: an interrupted creation is not undone, only its sign-up is told.
RestartWithoutUndo ==
    /\ work' = Idle
    /\ IF work.job.kind = "create" THEN CreationFailed(work.job.ref) ELSE UNCHANGED signup

\* Mutant: creations have no recover function.
RestartForgetting == work' = Idle /\ UNCHANGED signup

\* jobs.recover_interrupted: a creation is undone (_recover), any other job
\* left running is only marked failed.  A tenant the job's row doesn't name
\* yet isn't undone: only the sign-up is told.
Restart ==
    \/ /\ work.job.kind = "create" /\ work.at # "note"
       /\ Do("undo")
       /\ UNCHANGED signup
    \/ /\ work.at = "note"
       /\ Done
       /\ CreationFailed(work.job.ref)
    \/ /\ work.job.kind # "create"
       /\ Done
       /\ UNCHANGED signup

\* Sign-ups marked "creating" whose job isn't queued yet.
Unqueued == retrying \cup IF At("enqueue") THEN {Payer} ELSE {}

\* A restart while something is under way; receive() may have recorded an event
\* and not queued its job yet, and the redelivery of that event is a duplicate.
\* A creation that was about to be queued is forgotten.
Crash ==
    /\ Disturbance
    /\ Restart
    /\ retrying' = {}
    /\ stranded' = stranded \cup Unqueued
    /\ \/ /\ ~At("idle") \/ retrying # {}
          /\ UNCHANGED received
       \/ \E k \in Sessions \ received :
             session[k].status \notin {"none", "open"} /\ received' = received \cup {k}
    /\ UNCHANGED <<session, cardOwner, tenants, used, queue>>

-----------------------------------------------------------------------------

Init ==
    /\ signup = [s \in Signups |-> NoSignup]
    /\ session = [k \in Sessions |-> [status |-> "none", signup |-> None, card |-> None]]
    /\ cardOwner = [card \in Cards |-> None]
    /\ tenants = <<>>
    /\ used = 0
    /\ received = {}
    /\ retrying = {}
    /\ stranded = {}
    /\ queue = <<>>
    /\ work = Idle
    /\ spent = 0

Next ==
    \/ \E s \in Signups : Start(s) \/ PurgeUnverified(s) \/ Verify(s) \/ CheckoutAgain(s) \/ Retry(s) \/ RetryQueues(s)
    \/ \E k \in Sessions : Pay(k) \/ Receive(k)
    \/ \E slug \in Slugs : NewTenant(slug)
    \/ Worker
    \/ Crash

Spec == Init /\ [][Next]_vars

-----------------------------------------------------------------------------
(* What must hold. *)

SignupRows == [status : {"none", "pending_verification", "checkout", "creating", "created", "failed"},
               slug : Slugs \cup {None}, reason : {"none", "no card", "creation"},
               sub : Sessions \cup {0}, tenant : Nat]
TenantRows == [slug : Slugs, row : BOOLEAN, up : BOOLEAN, admin : BOOLEAN, block : 0..Blocks]
Jobs == [kind : {"create", "checkout"}, ref : Signups \cup {Console, None}, slug : Slugs \cup {None},
         session : Sessions \cup {0}]
Places == {"idle", "card", "deny", "refuse", "enqueue", "note", "provision", "publish", "link", "welcome", "undo", "unrow"}

\* Every variable has its type; in particular no port block beyond the
\* configured range is ever handed out.
TypeOK ==
    /\ signup \in [Signups -> SignupRows]
    /\ session \in [Sessions -> [status : {"none", "open", "trialing", "active", "canceled"},
                                 signup : Signups \cup {None}, card : Cards \cup {None}]]
    /\ cardOwner \in [Cards -> Signups \cup {None}]
    /\ tenants \in Seq(TenantRows)
    /\ used \in 0..Blocks
    /\ received \subseteq Sessions
    /\ retrying \subseteq Signups
    /\ stranded \subseteq Signups
    /\ queue \in Seq(Jobs)
    /\ work \in [at : Places, job : Jobs, tenant : Nat]
    /\ spent \in Nat

\* Two relays never run on the same port block, not even when one of them was
\* left running by a failed undo (allocate_block, undo_creation).
PortsNeverShared ==
    \A t, u \in Tenants : t # u /\ tenants[t].up /\ tenants[u].up => tenants[t].block # tenants[u].block

\* The subscription a sign-up's tenant was or is to be created for.
Billed(s) == IF signup[s].status \in {"creating", "created"} \/ signup[s].reason = "creation"
             THEN signup[s].sub ELSE 0

Trialing(s, card) ==
    /\ Billed(s) # 0
    /\ session[Billed(s)].card = card
    /\ session[Billed(s)].status = "trialing"

\* However sign-ups, sessions, retries and failures mix, two accounts never
\* both run a trial on one card (checkout_completed, trial_cards).
OneTrialPerCard ==
    \A card \in Cards : \A s, r \in Signups : Trialing(s, card) /\ Trialing(r, card) => s = r

\* A sign-up is never shown as created with no tenant behind it, or with one
\* of another address (creation_finished, undo_creation, creation_failed).
CreatedHasTenant ==
    \A s \in Signups : signup[s].status = "created" =>
        /\ signup[s].tenant \in Tenants
        /\ tenants[signup[s].tenant].row
        /\ tenants[signup[s].tenant].slug = signup[s].slug

Unfinished(t) == tenants[t].row /\ ~(tenants[t].up /\ tenants[t].admin) /\ work.tenant # t

\* No job leaves a tenant half made behind, but in two ways: its sign-up already
\* points at it, or the process was killed before the job's row named it
\* (create_tenant, _save, _recover, undo_creation).
LeftInTwoWaysOnly ==
    [][\A t \in Tenants : ~Unfinished(t) /\ Unfinished(t)' =>
          \/ \E s \in Signups : signup'[s].tenant = t
          \/ Crash /\ At("note") /\ work.tenant = t]_vars

\* tenants.py: "If any step fails, or the dashboard restarts mid-way,
\* everything done so far is undone".
FailedIsUndone == \A t \in Tenants : ~Unfinished(t)

-----------------------------------------------------------------------------
(* Liveness: the worker runs, a request that was begun goes on, and Stripe   *)
(* delivers until it is answered.                                            *)

WorkSpec == Spec /\ WF_vars(Worker) /\ WF_vars(\E s \in Signups : RetryQueues(s))

FairSpec == WorkSpec /\ WF_vars(\E k \in Sessions : Receive(k))

\* A sign-up never stays "being created", where it would hold its slug and could
\* be neither paid for nor retried, unless a restart fell between its marking
\* and the queueing of its job (start_creation, create_tenant, _recover).
CreationEnds ==
    \A s \in Signups : signup[s].status = "creating" ~> signup[s].status # "creating" \/ s \in stranded

\* billing.py: "events arriving out of order (or twice, or not at all: the
\* daily reconciliation) still end in the right state"; for a checkout paid
\* with a card, that its sign-up no longer waits for payment.
PaidSettles ==
    \A k \in Sessions, s \in Signups :
        session[k].signup = s /\ session[k].card # None /\ signup[s].status = "checkout"
            ~> signup[s].status # "checkout"

=============================================================================
