------------------------- MODULE TenantCreation_proofs -------------------------
(***************************************************************************)
(* Proofs about TenantCreation, for any sign-ups, slugs, cards and blocks  *)
(* and all bounds.                                                         *)
(***************************************************************************)
EXTENDS TenantCreation, SequenceTheorems, TLAPS

(***************************************************************************)
(* TypeOK says too little of a job: it could be a checkout of no session,  *)
(* or a creation of no slug.  JobOK says what a job refers to, WorkOK the  *)
(* same of the running one at each place, and SignupsOK that whoever has a *)
(* session has asked for a slug.                                           *)
(***************************************************************************)

Verified(s) == signup[s].status \notin {"none", "pending_verification"}

JobOK(j) ==
    \/ /\ j.kind = "checkout"
       /\ j.session \in received
    \/ /\ j.kind = "create"
       /\ j.slug \in Slugs
       /\ \/ j.ref = Console
          \/ j.ref \in Signups /\ Verified(j.ref) /\ signup[j.ref].slug = j.slug

SignupsOK ==
    /\ \A s \in Signups : signup[s].status # "none" => signup[s].slug \in Slugs
    /\ \A k \in Sessions : session[k].status # "none" => session[k].signup \in Signups /\ Verified(session[k].signup)
    /\ \A k \in received : session[k].status \notin {"none", "open"}

CheckoutPlaces == {"card", "deny", "refuse", "enqueue"}
CreatePlaces == {"note", "provision", "publish", "link", "welcome", "undo", "unrow"}

WorkOK ==
    /\ work.at = "idle" => work = Idle
    /\ work.at \in CheckoutPlaces => work.job.kind = "checkout" /\ work.tenant = 0 /\ JobOK(work.job)
    /\ work.at = "deny" => Paid.card \in Cards
    /\ work.at = "refuse" => Paid.card = None
    /\ work.at \in CreatePlaces => work.job.kind = "create" /\ work.tenant \in Tenants /\ JobOK(work.job)

QueueOK == /\ \A i \in 1..Len(queue) : JobOK(queue[i])
           /\ \A s \in retrying : Verified(s)

Inv == TypeOK /\ SignupsOK /\ WorkOK /\ QueueOK

-----------------------------------------------------------------------------
(* Once verified, a sign-up stays verified and keeps its slug, and a recorded *)
(* event stays recorded: a job that was good stays good.                      *)

Keeps == /\ received \subseteq received'
         /\ \A s \in Signups : Verified(s) => Verified(s)' /\ signup'[s].slug = signup[s].slug

LEMMA JobStays ==
    ASSUME Keeps, NEW j, JobOK(j)
    PROVE  JobOK(j)'
  BY DEF Keeps, JobOK

LEMMA QueueStays ==
    ASSUME TypeOK, QueueOK, Keeps, retrying' \subseteq retrying,
           queue' = queue \/ (queue # <<>> /\ queue' = Tail(queue))
    PROVE  QueueOK'
  <1>1. \A i \in 1..Len(queue') : \E k \in 1..Len(queue) : queue'[i] = queue[k]
    <2>1. CASE queue' = queue
      BY <2>1
    <2>2. CASE queue # <<>> /\ queue' = Tail(queue)
      <3>1. Len(queue') = Len(queue) - 1 /\ \A i \in 1..Len(queue') : queue'[i] = queue[i + 1]
        BY <2>2, HeadTailProperties, LenProperties DEF TypeOK
      <3> QED BY SMTT(30), <3>1, LenProperties DEF TypeOK
    <2> QED BY <2>1, <2>2
  <1>2. \A i \in 1..Len(queue) : JobOK(queue[i])
    BY DEF QueueOK
  <1>3. \A s \in retrying' : Verified(s)'
    BY DEF QueueOK, Keeps, TypeOK
  <1>4. ASSUME NEW i \in 1..Len(queue') PROVE JobOK(queue[i])'
    <2>1. \E k \in 1..Len(queue) : queue'[i] = queue[k] /\ JobOK(queue[k])
      BY <1>1, <1>2
    <2> QED BY <2>1 DEF JobOK, Keeps
  <1> QED BY <1>3, <1>4 DEF QueueOK

LEMMA QueueGrows ==
    ASSUME TypeOK, QueueOK, Keeps, NEW j \in Jobs, queue' = Append(queue, j), JobOK(j)',
           retrying' \subseteq retrying
    PROVE  QueueOK'
  <1>1. \A i \in 1..Len(queue') : queue'[i] = j \/ (i \in 1..Len(queue) /\ queue'[i] = queue[i])
    BY DEF TypeOK
  <1>2. \A i \in 1..Len(queue) : JobOK(queue[i])
    BY DEF QueueOK
  <1>3. \A s \in retrying' : Verified(s)'
    BY DEF QueueOK, Keeps, TypeOK
  <1>4. ASSUME NEW i \in 1..Len(queue') PROVE JobOK(queue[i])'
    <2>1. queue'[i] = j \/ \E k \in 1..Len(queue) : queue'[i] = queue[k] /\ JobOK(queue[k])
      BY <1>1, <1>2
    <2> QED BY <2>1 DEF JobOK, Keeps
  <1> QED BY <1>3, <1>4 DEF QueueOK

-----------------------------------------------------------------------------
(* The public site and the console. *)

LEMMA InitInv == Init => Inv
  <1> SUFFICES ASSUME Init PROVE Inv
    OBVIOUS
  <1> USE DEF Init, Idle, CheckoutEvent, None
  <1>1. TypeOK
    BY NumbersAssumption DEF TypeOK, SignupRows, NoSignup, Jobs, Places
  <1>2. SignupsOK
    BY DEF SignupsOK, NoSignup
  <1>3. WorkOK
    BY DEF WorkOK, CheckoutPlaces, CreatePlaces
  <1>4. QueueOK
    BY DEF QueueOK
  <1> QED BY <1>1, <1>2, <1>3, <1>4 DEF Inv

LEMMA WorkStays ==
    ASSUME TypeOK, WorkOK, Keeps, UNCHANGED work, Tenants \subseteq Tenants',
           \A k \in received : session'[k].card = session[k].card
    PROVE  WorkOK'
  <1>1. JobOK(work.job) => JobOK(work.job)'
    BY JobStays
  <1>2. work.at \in CheckoutPlaces => Paid' = session'[work.job.session] /\ work.job.session \in received
    BY DEF WorkOK, Paid, JobOK
  <1>3. work.at = "deny" => Paid'.card \in Cards
    BY <1>2 DEF WorkOK, Paid, CheckoutPlaces
  <1>4. work.at = "refuse" => Paid'.card = None
    BY <1>2 DEF WorkOK, Paid, CheckoutPlaces
  <1> QED BY <1>1, <1>3, <1>4 DEF WorkOK, Idle, CheckoutEvent, JobOK

LEMMA RowTypes ==
    ASSUME TypeOK, NEW s \in Signups
    PROVE  /\ signup[s] \in SignupRows
           /\ signup[s].slug \in Slugs \cup {None}
           /\ signup[s].sub \in Sessions \cup {0}
           /\ signup[s].tenant \in Nat
  BY DEF TypeOK, SignupRows

LEMMA SpentType ==
    ASSUME TypeOK, Disturbance \/ UNCHANGED spent
    PROVE  spent' \in Nat
  BY DEF TypeOK, Disturbance

\* Rows with some of their columns changed are rows.
LEMMA RowEdits ==
    ASSUME NEW row \in SignupRows,
           NEW status \in {"none", "pending_verification", "checkout", "creating", "created", "failed"},
           NEW reason \in {"none", "no card", "creation"}, NEW sub \in Sessions \cup {0}, NEW t \in Nat
    PROVE  /\ [row EXCEPT !.status = status, !.reason = reason] \in SignupRows
           /\ [row EXCEPT !.status = status, !.reason = reason, !.sub = sub] \in SignupRows
           /\ [row EXCEPT !.status = status, !.reason = reason, !.tenant = t] \in SignupRows
  <1>1. \A r \in SignupRows : /\ [r EXCEPT !.status = status] \in SignupRows
                              /\ [r EXCEPT !.reason = reason] \in SignupRows
                              /\ [r EXCEPT !.sub = sub] \in SignupRows
                              /\ [r EXCEPT !.tenant = t] \in SignupRows
    BY DEF SignupRows
  <1> QED BY <1>1

LEMMA StartInv ==
    ASSUME Inv, NEW s \in Signups, Start(s)
    PROVE  Inv'
  <1>1. PICK slug \in Slugs :
            signup' = [signup EXCEPT ![s] = [NoSignup EXCEPT !.status = "pending_verification", !.slug = slug]]
    BY DEF Start
  <1>2. [NoSignup EXCEPT !.status = "pending_verification", !.slug = slug] \in SignupRows
    BY DEF NoSignup, SignupRows, Sessions
  <1>3. TypeOK'
    BY <1>1, <1>2 DEF Inv, TypeOK, Start
  <1>4. Keeps
    BY <1>1 DEF Keeps, Verified, Start, Inv, TypeOK
  <1>5. SignupsOK'
    BY <1>1, <1>4 DEF SignupsOK, Inv, Start, TypeOK, NoSignup, Keeps
  <1>6. WorkOK'
    BY <1>4, WorkStays DEF Inv, Start, Tenants
  <1>7. QueueOK'
    BY <1>4, QueueStays DEF Inv, Start
  <1> QED BY <1>3, <1>5, <1>6, <1>7 DEF Inv

LEMMA PurgeUnverifiedInv ==
    ASSUME Inv, NEW s \in Signups, PurgeUnverified(s)
    PROVE  Inv'
  <1>1. TypeOK'
    BY DEF Inv, TypeOK, PurgeUnverified, NoSignup, SignupRows
  <1>2. Keeps
    BY DEF Keeps, Verified, PurgeUnverified, Inv, TypeOK
  <1>3. SignupsOK'
    BY <1>2 DEF SignupsOK, Inv, PurgeUnverified, TypeOK, NoSignup, Keeps
  <1>4. WorkOK'
    BY <1>2, WorkStays DEF Inv, PurgeUnverified, Tenants
  <1>5. QueueOK'
    BY <1>2, QueueStays DEF Inv, PurgeUnverified
  <1> QED BY <1>1, <1>3, <1>4, <1>5 DEF Inv

\* A session is opened for a verified sign-up, or none is.
LEMMA SessionStep ==
    ASSUME Inv, NEW s \in Signups, NewSession(s) \/ UNCHANGED session
    PROVE  /\ session' \in [Sessions -> [status : {"none", "open", "trialing", "active", "canceled"},
                                         signup : Signups \cup {None}, card : Cards \cup {None}]]
           /\ \A k \in received : session'[k] = session[k]
           /\ \A k \in Sessions : session'[k].status # "none" =>
                 session'[k] = session[k] \/ session'[k].signup = s
  <1>1. CASE UNCHANGED session
    BY <1>1 DEF Inv, TypeOK
  <1>2. CASE NewSession(s)
    <2>1. PICK k \in Sessions : /\ session[k].status = "none"
                                /\ session' = [session EXCEPT ![k] = [@ EXCEPT !.status = "open", !.signup = s]]
      BY <1>2 DEF NewSession
    <2>2. session'[k].signup = s /\ session' \in [Sessions -> [status : {"none", "open", "trialing", "active", "canceled"},
                                         signup : Signups \cup {None}, card : Cards \cup {None}]]
      BY <2>1 DEF Inv, TypeOK
    <2>3. \A x \in Sessions \ {k} : session'[x] = session[x]
      BY <2>1 DEF Inv, TypeOK
    <2>4. k \notin received /\ received \subseteq Sessions
      BY <2>1 DEF Inv, SignupsOK, TypeOK
    <2> QED BY <2>2, <2>3, <2>4
  <1> QED BY <1>1, <1>2

LEMMA VerifyInv ==
    ASSUME Inv, NEW s \in Signups, Verify(s)
    PROVE  Inv'
  <1>0. NewSession(s) \/ UNCHANGED session
    BY DEF Verify
  <1>s. spent' \in Nat
    BY SpentType DEF Inv, Verify
  <1>r. [signup[s] EXCEPT !.status = "checkout"] \in SignupRows
    BY RowTypes DEF Inv, SignupRows
  <1>1. TypeOK'
    BY <1>0, <1>s, <1>r, SessionStep DEF Inv, TypeOK, Verify
  <1>2. Keeps /\ Verified(s)' /\ signup'[s].slug \in Slugs
    BY DEF Keeps, Verified, Verify, Inv, TypeOK, SignupsOK, SignupRows
  <1>3. SignupsOK'
    BY <1>0, <1>2, SessionStep DEF SignupsOK, Inv, Verify, TypeOK, Keeps
  <1>4. WorkOK'
    BY <1>0, <1>2, SessionStep, WorkStays DEF Inv, Verify, Tenants
  <1>5. QueueOK'
    BY <1>2, QueueStays DEF Inv, Verify
  <1> QED BY <1>1, <1>3, <1>4, <1>5 DEF Inv

LEMMA CheckoutAgainInv ==
    ASSUME Inv, NEW s \in Signups, CheckoutAgain(s)
    PROVE  Inv'
  <1>0. NewSession(s) \/ UNCHANGED session
    BY DEF CheckoutAgain
  <1>s. spent' \in Nat
    BY SpentType DEF Inv, CheckoutAgain
  <1>r. \/ UNCHANGED signup
        \/ signup' = [signup EXCEPT ![s] = [@ EXCEPT !.status = "checkout", !.reason = "none", !.sub = 0]]
    BY DEF CheckoutAgain
  <1>t. [signup[s] EXCEPT !.status = "checkout", !.reason = "none", !.sub = 0] \in SignupRows
    BY RowEdits, RowTypes DEF Inv
  <1>1. signup' \in [Signups -> SignupRows]
    BY <1>r, <1>t DEF Inv, TypeOK
  <1>2. TypeOK'
    BY <1>0, <1>1, <1>s, SessionStep DEF Inv, TypeOK, CheckoutAgain
  <1>v. Verified(s) /\ signup[s].slug \in Slugs
    BY DEF CheckoutAgain, Verified, Inv, SignupsOK
  <1>3. Keeps /\ Verified(s)' /\ signup'[s].slug \in Slugs
    <2>1. CASE UNCHANGED signup
      BY <1>v, <2>1 DEF Keeps, Verified, CheckoutAgain
    <2>2. CASE signup' = [signup EXCEPT ![s] = [@ EXCEPT !.status = "checkout", !.reason = "none", !.sub = 0]]
      <3>1. signup'[s].status = "checkout" /\ signup'[s].slug = signup[s].slug
        BY <2>2, RowTypes DEF Inv, TypeOK, SignupRows
      <3>2. \A r \in Signups \ {s} : signup'[r] = signup[r]
        BY <2>2 DEF Inv, TypeOK
      <3> QED BY <1>v, <3>1, <3>2 DEF Keeps, Verified, CheckoutAgain
    <2> QED BY <1>r, <2>1, <2>2
  <1>4. SignupsOK'
    BY ZenonT(60), <1>0, <1>3, SessionStep DEF SignupsOK, Inv, CheckoutAgain, TypeOK, Keeps
  <1>5. WorkOK'
    BY <1>0, <1>3, SessionStep, WorkStays DEF Inv, CheckoutAgain, Tenants
  <1>6. QueueOK'
    BY <1>3, QueueStays DEF Inv, CheckoutAgain
  <1> QED BY <1>2, <1>4, <1>5, <1>6 DEF Inv

LEMMA PayInv ==
    ASSUME Inv, NEW k \in Sessions, Pay(k)
    PROVE  Inv'
  <1>1. TypeOK'
    BY ZenonT(60) DEF Inv, TypeOK, Pay
  <1>2. Keeps
    BY DEF Keeps, Verified, Pay
  <1>3. k \notin received
    BY DEF Inv, SignupsOK, Pay
  <1>4. SignupsOK'
    BY <1>2, <1>3 DEF SignupsOK, Inv, Pay, TypeOK, Keeps, Verified
  <1>5. WorkOK'
    BY <1>2, <1>3, WorkStays DEF Inv, Pay, Tenants, TypeOK
  <1>6. QueueOK'
    BY <1>2, QueueStays DEF Inv, Pay
  <1> QED BY <1>1, <1>4, <1>5, <1>6 DEF Inv

LEMMA ReceiveInv ==
    ASSUME Inv, NEW k \in Sessions, Receive(k)
    PROVE  Inv'
  <1>0. CheckoutEvent(k) \in Jobs
    BY DEF CheckoutEvent, Jobs
  <1>1. TypeOK'
    BY <1>0 DEF Inv, TypeOK, Receive
  <1>2. Keeps
    BY DEF Keeps, Verified, Receive
  <1>3. SignupsOK'
    BY DEF SignupsOK, Inv, Receive, Verified
  <1>4. WorkOK'
    BY <1>2, WorkStays DEF Inv, Receive, Tenants
  <1>5. JobOK(CheckoutEvent(k))'
    BY DEF JobOK, CheckoutEvent, Receive
  <1>6. QueueOK'
    BY <1>0, <1>2, <1>5, QueueGrows DEF Inv, Receive
  <1> QED BY <1>1, <1>3, <1>4, <1>6 DEF Inv

LEMMA NewTenantInv ==
    ASSUME Inv, NEW slug \in Slugs, NewTenant(slug)
    PROVE  Inv'
  <1>0. Creating(Console, slug) \in Jobs
    BY DEF Creating, Jobs
  <1>1. TypeOK'
    BY <1>0 DEF Inv, TypeOK, NewTenant, Disturbance
  <1>2. Keeps
    BY DEF Keeps, Verified, NewTenant
  <1>3. SignupsOK'
    BY DEF SignupsOK, Inv, NewTenant, Verified
  <1>4. WorkOK'
    BY <1>2, WorkStays DEF Inv, NewTenant, Tenants
  <1>5. JobOK(Creating(Console, slug))'
    BY DEF JobOK, Creating
  <1>6. QueueOK'
    BY <1>0, <1>2, <1>5, QueueGrows DEF Inv, NewTenant
  <1> QED BY <1>1, <1>3, <1>4, <1>6 DEF Inv

LEMMA RetryInv ==
    ASSUME Inv, NEW s \in Signups, Retry(s)
    PROVE  Inv'
  <1>1. TypeOK'
    <2>1. spent' \in Nat
      BY SpentType DEF Inv, Retry
    <2>2. [signup[s] EXCEPT !.status = "creating", !.reason = "none"] \in SignupRows
      BY RowEdits, RowTypes DEF Inv
    <2>3. signup' \in [Signups -> SignupRows]
      BY <2>2 DEF Inv, TypeOK, Retry
    <2> QED BY <2>1, <2>3 DEF Inv, TypeOK, Retry
  <1>2. Keeps /\ Verified(s)' /\ signup'[s].slug = signup[s].slug
    BY ZenonT(60) DEF Keeps, Verified, Retry, Inv, TypeOK, SignupRows
  <1>3. SignupsOK'
    BY <1>2 DEF SignupsOK, Inv, Retry, Keeps, TypeOK
  <1>4. WorkOK'
    BY <1>2, WorkStays DEF Inv, Retry, Tenants
  <1>5. QueueOK'
    <2>1. \A r \in retrying' : Verified(r)'
      BY <1>2 DEF Inv, QueueOK, Retry, Keeps, TypeOK
    <2>2. \A i \in 1..Len(queue) : JobOK(queue[i])'
      BY <1>2 DEF Inv, QueueOK, Retry, JobOK, Keeps
    <2> QED BY <2>1, <2>2 DEF QueueOK, Retry, JobOK
  <1> QED BY <1>1, <1>3, <1>4, <1>5 DEF Inv

LEMMA RetryQueuesInv ==
    ASSUME Inv, NEW s \in Signups, RetryQueues(s)
    PROVE  Inv'
  <1>0. /\ signup[s].slug \in Slugs /\ Creating(s, signup[s].slug) \in Jobs /\ Verified(s)
        /\ retrying' \subseteq retrying
    BY DEF Creating, Jobs, Inv, SignupsOK, RetryQueues, QueueOK, Verified
  <1>1. TypeOK'
    <2>1. queue' = Append(queue, Creating(s, signup[s].slug))
      BY DEF RetryQueues
    <2>2. queue' \in Seq(Jobs)
      BY <1>0, <2>1 DEF Inv, TypeOK
    <2> QED BY <1>0, <2>2 DEF Inv, TypeOK, RetryQueues
  <1>2. Keeps
    BY DEF Keeps, Verified, RetryQueues
  <1>3. SignupsOK'
    BY DEF SignupsOK, Inv, RetryQueues, Verified
  <1>4. WorkOK'
    BY <1>2, WorkStays DEF Inv, RetryQueues, Tenants
  <1>5. JobOK(Creating(s, signup[s].slug))'
    BY <1>0, <1>2 DEF JobOK, Creating, Keeps
  <1>6. QueueOK'
    BY <1>0, <1>2, <1>5, QueueGrows DEF Inv, RetryQueues
  <1> QED BY <1>1, <1>3, <1>4, <1>6 DEF Inv

-----------------------------------------------------------------------------
(* The worker. *)

LEMMA HeadOK ==
    ASSUME TypeOK, QueueOK, queue # <<>>
    PROVE  Head(queue) \in Jobs /\ JobOK(Head(queue)) /\ Tail(queue) \in Seq(Jobs)
  <1>1. Head(queue) = queue[1] /\ 1 \in 1..Len(queue)
    BY DEF TypeOK
  <1> QED BY <1>1, HeadTailProperties DEF TypeOK, QueueOK

\* What the worker does to a session keeps it paid and its owner and card.
SessionTypes == [Sessions -> [status : {"none", "open", "trialing", "active", "canceled"},
                              signup : Signups \cup {None}, card : Cards \cup {None}]]
SessionsMove ==
    /\ session' \in SessionTypes
    /\ \A k \in Sessions :
          /\ session'[k].signup = session[k].signup
          /\ session'[k].card = session[k].card
          /\ \/ session'[k].status = session[k].status
             \/ session[k].status \notin {"none", "open"} /\ session'[k].status \notin {"none", "open"}

LEMMA SameSessions ==
    ASSUME Inv, UNCHANGED session
    PROVE  SessionsMove
  BY DEF Inv, TypeOK, SessionsMove, SessionTypes

LEMMA SameSignups ==
    ASSUME Inv, SessionsMove, UNCHANGED <<signup, received>>
    PROVE  Keeps /\ SignupsOK' /\ signup' \in [Signups -> SignupRows]
  <1>1. Keeps
    BY DEF Keeps, Verified
  <1>2. SignupsOK'
    BY DEF Inv, TypeOK, SignupsOK, SessionsMove, Verified
  <1> QED BY <1>1, <1>2 DEF Inv, TypeOK

LEMMA SignupEdited ==
    ASSUME Inv, SessionsMove, UNCHANGED received, NEW s \in Signups, Verified(s), NEW row \in SignupRows,
           row.status \notin {"none", "pending_verification"}, row.slug = signup[s].slug,
           signup' = [signup EXCEPT ![s] = row]
    PROVE  Keeps /\ SignupsOK' /\ signup' \in [Signups -> SignupRows]
  <1>1. signup' \in [Signups -> SignupRows] /\ signup'[s] = row /\ \A r \in Signups \ {s} : signup'[r] = signup[r]
    BY DEF Inv, TypeOK
  <1>2. Keeps
    BY <1>1 DEF Keeps, Verified
  <1>3. \A r \in Signups : signup'[r].status # "none" => signup'[r].slug \in Slugs
    BY <1>1 DEF Inv, SignupsOK, Verified
  <1>4. SignupsOK'
    BY <1>1, <1>2, <1>3 DEF Inv, TypeOK, SignupsOK, SessionsMove, Keeps
  <1> QED BY <1>1, <1>2, <1>4

\* The sign-up a checkout job is about.
LEMMA PayerOK ==
    ASSUME Inv, work.at \in CheckoutPlaces
    PROVE  /\ work.job.session \in received /\ work.job.session \in Sessions
           /\ Paid.status \notin {"none", "open"}
           /\ Payer \in Signups /\ Verified(Payer) /\ signup[Payer].slug \in Slugs
           /\ Paid.card \in Cards \cup {None}
  <1>1. work.job.session \in received /\ work.job.session \in Sessions
    BY DEF Inv, WorkOK, JobOK, TypeOK
  <1>2. Paid.status \notin {"none", "open"} /\ Payer \in Signups /\ Verified(Payer)
    BY <1>1 DEF Inv, SignupsOK, Paid, Payer
  <1>3. Paid.card \in Cards \cup {None}
    BY <1>1 DEF Inv, TypeOK, Paid
  <1> QED BY <1>1, <1>2, <1>3 DEF Inv, SignupsOK, Verified

\* The tenant a creation job is about, and what it was asked for.
LEMMA CreatingOK ==
    ASSUME Inv, work.at \in CreatePlaces
    PROVE  /\ work.job.kind = "create" /\ JobOK(work.job) /\ work.job.slug \in Slugs
           /\ work.tenant \in Tenants /\ Tenant \in TenantRows
           /\ \/ work.job.ref = Console
              \/ work.job.ref \in Signups /\ Verified(work.job.ref) /\ signup[work.job.ref].slug = work.job.slug
  <1>1. work.job.kind = "create" /\ JobOK(work.job) /\ work.tenant \in Tenants
    BY DEF Inv, WorkOK
  <1>2. Tenant \in TenantRows
    BY <1>1 DEF Tenant, Tenants, Inv, TypeOK
  <1> QED BY <1>1, <1>2 DEF JobOK

WorkType == [at : Places, job : Jobs, tenant : Nat]

LEMMA DoneOK ==
    ASSUME Done
    PROVE  WorkOK' /\ work' \in WorkType
  BY DEF Done, WorkOK, Idle, CheckoutEvent, WorkType, Places, Jobs, None, CheckoutPlaces, CreatePlaces

LEMMA CreateGoesOn ==
    ASSUME Inv, Keeps, work.at \in CreatePlaces, NEW place \in CreatePlaces, Do(place), Tenants' = Tenants
    PROVE  WorkOK' /\ work' \in WorkType
  <1>1. work' = [work EXCEPT !.at = place] /\ work \in WorkType
    BY DEF Do, Inv, TypeOK, WorkType
  <1>2. work'.at = place /\ work'.job = work.job /\ work'.tenant = work.tenant /\ work' \in WorkType
    BY <1>1 DEF WorkType, CreatePlaces, Places
  <1>3. JobOK(work.job)'
    BY CreatingOK, JobStays, <1>2 DEF JobOK, Keeps
  <1> QED BY <1>2, <1>3, CreatingOK DEF WorkOK, CheckoutPlaces, CreatePlaces, JobOK

LEMMA SetTenantType ==
    ASSUME Inv, work.at \in CreatePlaces, NEW row \in TenantRows, SetTenant(row)
    PROVE  tenants' \in Seq(TenantRows) /\ Tenants' = Tenants
  BY CreatingOK, ExceptSeq DEF SetTenant, Tenants, Inv, TypeOK

LEMMA StartCheckoutInv ==
    ASSUME Inv, StartCheckout
    PROVE  Inv'
  <1>1. Keeps /\ SignupsOK' /\ signup' \in [Signups -> SignupRows]
    BY SameSessions, SameSignups DEF StartCheckout
  <1>2. Head(queue) \in Jobs /\ JobOK(Head(queue)) /\ Head(queue).kind = "checkout" /\ queue' = Tail(queue)
        /\ queue' \in Seq(Jobs) /\ queue # <<>>
    BY HeadOK DEF Inv, StartCheckout, Take
  <1>j. PICK job \in Jobs : job = Head(queue)
    BY <1>2
  <1>3. WorkOK' /\ work' \in WorkType
    <2>1. CASE UNCHANGED work
      BY <1>1, <2>1, WorkStays DEF Inv, TypeOK, WorkType, StartCheckout, Tenants
    <2>2. CASE work' = [Idle EXCEPT !.at = "card", !.job = Head(queue)]
      <3>1. work'.at = "card" /\ work'.job = job /\ work'.tenant = 0 /\ work' \in WorkType
        BY <1>j, <2>2 DEF Idle, WorkType, Places
      <3>2. JobOK(job)' /\ job.kind = "checkout"
        BY <1>1, <1>2, <1>j, JobStays
      <3>3. JobOK(work.job)'
        BY <3>1, <3>2 DEF JobOK
      <3> QED BY <3>1, <3>2, <3>3 DEF WorkOK, CheckoutPlaces, CreatePlaces
    <2> QED BY <2>1, <2>2 DEF StartCheckout
  <1>4. QueueOK'
    BY <1>1, <1>2, QueueStays DEF Inv, StartCheckout
  <1>5. spent' \in Nat
    BY SpentType DEF Inv, StartCheckout
  <1>6. TypeOK'
    BY <1>1, <1>2, <1>3, <1>5 DEF Inv, TypeOK, StartCheckout, WorkType
  <1> QED BY <1>1, <1>3, <1>4, <1>6 DEF Inv

\* A checkout job goes on to its next step, with the card it needs there.
LEMMA CheckoutGoesOn ==
    ASSUME Inv, Keeps, SessionsMove, work.at \in CheckoutPlaces, NEW place \in {"deny", "refuse", "enqueue"}, Do(place),
           place = "deny" => Paid.card # None, place = "refuse" => Paid.card = None
    PROVE  WorkOK' /\ work' \in WorkType
  <1>1. work \in WorkType /\ work.job.kind = "checkout" /\ work.tenant = 0 /\ JobOK(work.job)
    BY DEF Inv, TypeOK, WorkOK, WorkType, CheckoutPlaces
  <1>2. work'.at = place /\ work'.job = work.job /\ work'.tenant = 0 /\ work' \in WorkType
    BY <1>1 DEF Do, WorkType, Places
  <1>3. JobOK(work.job)'
    BY <1>1, <1>2 DEF JobOK, Keeps
  <1>4. Paid'.card = Paid.card
    BY <1>2, PayerOK DEF Paid, SessionsMove
  <1>5. Paid.card \in Cards \cup {None}
    BY PayerOK
  <1> QED BY <1>1, <1>2, <1>3, <1>4, <1>5 DEF WorkOK, CheckoutPlaces, CreatePlaces

LEMMA AcceptInv ==
    ASSUME Inv, work.at \in CheckoutPlaces, Accept, SessionsMove, UNCHANGED <<received, queue, retrying>>
    PROVE  /\ Keeps /\ SignupsOK' /\ signup' \in [Signups -> SignupRows]
           /\ QueueOK' /\ WorkOK' /\ work' \in WorkType
  <1>p. PICK p \in Signups, slug \in Slugs, k \in Sessions :
            p = Payer /\ slug = signup[Payer].slug /\ k = work.job.session
    BY PayerOK
  <1>1. PICK row \in SignupRows :
            row = [signup[p] EXCEPT !.status = "creating", !.reason = "none", !.sub = k]
    BY RowTypes, RowEdits, 0 \in Nat DEF Inv
  <1>2. row.status = "creating" /\ row.slug = slug
    BY <1>p, <1>1, RowTypes DEF Inv, SignupRows
  <1>3. signup' = [signup EXCEPT ![p] = row] /\ Do("enqueue")
    BY <1>p, <1>1 DEF Accept
  <1>4. Verified(p) /\ signup[p].slug = slug
    BY <1>p, PayerOK
  <1>5. Keeps /\ SignupsOK' /\ signup' \in [Signups -> SignupRows]
    BY <1>2, <1>3, <1>4, SignupEdited
  <1>6. QueueOK'
    BY <1>5, QueueStays DEF Inv
  <1> QED BY <1>3, <1>5, <1>6, CheckoutGoesOn

LEMMA StartCreationInv ==
    ASSUME Inv, StartCreation
    PROVE  Inv'
  <1>0. work.at \in CheckoutPlaces
    BY DEF StartCreation, At, CheckoutPlaces
  <1>p. PICK p \in Signups, slug \in Slugs : p = Payer /\ slug = signup[Payer].slug
    BY <1>0, PayerOK
  <1> DEFINE job == Creating(p, slug)
  <1>1. job \in Jobs /\ queue' = Append(queue, job) /\ queue' \in Seq(Jobs)
    BY <1>p, AppendProperties DEF Creating, Jobs, StartCreation, Inv, TypeOK
  <1>2. Keeps
    BY DEF Keeps, Verified, StartCreation
  <1>3. SignupsOK'
    BY DEF SignupsOK, Inv, StartCreation, Verified
  <1>4. WorkOK' /\ work' \in WorkType
    BY DoneOK DEF StartCreation
  <1>5. JobOK(job)'
    BY <1>0, <1>p, <1>2, PayerOK DEF JobOK, Creating, Keeps
  <1>6. QueueOK'
    BY <1>1, <1>2, <1>5, QueueGrows DEF Inv, StartCreation
  <1>7. TypeOK'
    BY <1>1, <1>4 DEF Inv, TypeOK, StartCreation, WorkType
  <1> QED BY <1>3, <1>4, <1>6, <1>7 DEF Inv

LEMMA CheckoutCardInv ==
    ASSUME Inv, CheckoutCard
    PROVE  Inv'
  <1>0. work.at = "card" /\ work.at \in CheckoutPlaces /\ SessionsMove
    BY SameSessions DEF CheckoutCard, At, CheckoutPlaces
  <1>s. spent' \in Nat
    BY SpentType DEF Inv, CheckoutCard
  <1>c. cardOwner' \in [Cards -> Signups \cup {None}]
    BY <1>0, PayerOK DEF CheckoutCard, Inv, TypeOK
  <1>1. /\ Keeps /\ SignupsOK' /\ signup' \in [Signups -> SignupRows]
        /\ QueueOK' /\ WorkOK' /\ work' \in WorkType
    <2>1. CASE /\ Paid.card = None
               /\ signup' = [signup EXCEPT ![Payer] =
                     [@ EXCEPT !.status = "failed", !.reason = "no card", !.sub = work.job.session]]
               /\ Do("refuse")
      <3>1. PICK p \in Signups, k \in Sessions : p = Payer /\ k = work.job.session
        BY <1>0, PayerOK
      <3>2. PICK row \in SignupRows :
                row = [signup[p] EXCEPT !.status = "failed", !.reason = "no card", !.sub = k]
        BY RowTypes, RowEdits, 0 \in Nat DEF Inv
      <3>3. row.status = "failed" /\ row.slug = signup[p].slug /\ signup' = [signup EXCEPT ![p] = row]
        BY <2>1, <3>1, <3>2, RowTypes DEF Inv, SignupRows
      <3>4. Keeps /\ SignupsOK' /\ signup' \in [Signups -> SignupRows]
        BY <1>0, <3>1, <3>3, PayerOK, SignupEdited DEF CheckoutCard
      <3> QED BY <1>0, <2>1, <3>4, QueueStays, CheckoutGoesOn DEF Inv, CheckoutCard
    <2>2. CASE Paid.card # None /\ Do("deny") /\ UNCHANGED signup
      <3>1. Keeps /\ SignupsOK' /\ signup' \in [Signups -> SignupRows]
        BY <1>0, <2>2, SameSignups DEF CheckoutCard
      <3> QED BY <1>0, <2>2, <3>1, QueueStays, CheckoutGoesOn DEF Inv, CheckoutCard
    <2>3. CASE Accept
      BY <1>0, <2>3, AcceptInv DEF CheckoutCard
    <2>4. CASE Done /\ UNCHANGED signup
      <3>1. Keeps /\ SignupsOK' /\ signup' \in [Signups -> SignupRows]
        BY <1>0, <2>4, SameSignups DEF CheckoutCard
      <3> QED BY <2>4, <3>1, QueueStays, DoneOK DEF Inv, CheckoutCard
    <2> QED BY <2>1, <2>2, <2>3, <2>4 DEF CheckoutCard
  <1>2. TypeOK'
    BY <1>1, <1>s, <1>c DEF Inv, TypeOK, CheckoutCard, WorkType
  <1> QED BY <1>1, <1>2 DEF Inv

LEMMA PaidMoves ==
    ASSUME Inv, work.at \in CheckoutPlaces, NEW status \in {"active", "canceled"},
           session' = [session EXCEPT ![work.job.session].status = status]
    PROVE  SessionsMove
  <1>1. PICK k \in Sessions : k = work.job.session /\ session[k].status \notin {"none", "open"}
    BY PayerOK DEF Paid
  <1>2. session \in SessionTypes /\ session' = [session EXCEPT ![k].status = status]
    BY <1>1 DEF Inv, TypeOK, SessionTypes
  <1>3. session' \in SessionTypes
    BY <1>2 DEF SessionTypes
  <1>4. /\ session'[k].signup = session[k].signup /\ session'[k].card = session[k].card
        /\ session'[k].status = status
    BY <1>2 DEF SessionTypes
  <1>5. \A x \in Sessions \ {k} : session'[x] = session[x]
    BY <1>2 DEF SessionTypes
  <1> QED BY <1>1, <1>3, <1>4, <1>5 DEF SessionsMove

LEMMA CheckoutDenyInv ==
    ASSUME Inv, CheckoutDeny
    PROVE  Inv'
  <1>0. work.at \in CheckoutPlaces
    BY DEF CheckoutDeny, At, CheckoutPlaces
  <1>s. spent' \in Nat
    BY SpentType DEF Inv, CheckoutDeny
  <1>1. SessionsMove
    <2>1. CASE UNCHANGED session
      BY <2>1, SameSessions
    <2>2. CASE session' = [session EXCEPT ![work.job.session].status = "active"]
      BY <1>0, <2>2, PaidMoves
    <2> QED BY <2>1, <2>2 DEF CheckoutDeny
  <1>2. /\ Keeps /\ SignupsOK' /\ signup' \in [Signups -> SignupRows]
        /\ QueueOK' /\ WorkOK' /\ work' \in WorkType
    <2>1. CASE Accept
      BY <1>0, <1>1, <2>1, AcceptInv DEF CheckoutDeny
    <2>2. CASE Done /\ UNCHANGED signup
      <3>1. Keeps /\ SignupsOK' /\ signup' \in [Signups -> SignupRows]
        BY <1>1, <2>2, SameSignups DEF CheckoutDeny
      <3> QED BY <2>2, <3>1, QueueStays, DoneOK DEF Inv, CheckoutDeny
    <2> QED BY <2>1, <2>2 DEF CheckoutDeny
  <1>3. TypeOK'
    BY <1>1, <1>2, <1>s DEF Inv, TypeOK, CheckoutDeny, WorkType, SessionsMove, SessionTypes
  <1> QED BY <1>2, <1>3 DEF Inv

LEMMA CheckoutRefuseInv ==
    ASSUME Inv, CheckoutRefuse
    PROVE  Inv'
  <1>0. work.at \in CheckoutPlaces
    BY DEF CheckoutRefuse, At, CheckoutPlaces
  <1>s. spent' \in Nat
    BY SpentType DEF Inv, CheckoutRefuse
  <1>1. SessionsMove
    <2>1. CASE UNCHANGED session
      BY <2>1, SameSessions
    <2>2. CASE session' = [session EXCEPT ![work.job.session].status = "canceled"]
      BY <1>0, <2>2, PaidMoves
    <2> QED BY <2>1, <2>2 DEF CheckoutRefuse
  <1>2. Keeps /\ SignupsOK' /\ signup' \in [Signups -> SignupRows]
    BY <1>1, SameSignups DEF CheckoutRefuse
  <1>3. QueueOK' /\ WorkOK' /\ work' \in WorkType
    BY <1>2, QueueStays, DoneOK DEF Inv, CheckoutRefuse
  <1>4. TypeOK'
    BY <1>1, <1>2, <1>3, <1>s DEF Inv, TypeOK, CheckoutRefuse, WorkType, SessionsMove, SessionTypes
  <1> QED BY <1>2, <1>3, <1>4 DEF Inv

\* creation_failed, for the sign-up (or the console) of a job that is good.
LEMMA FailedKeeps ==
    ASSUME Inv, NEW ref, ref = Console \/ (ref \in Signups /\ Verified(ref)), CreationFailed(ref),
           UNCHANGED <<session, received>>
    PROVE  Keeps /\ SignupsOK' /\ signup' \in [Signups -> SignupRows]
  <1>0. SessionsMove
    BY SameSessions
  <1>1. CASE ref = Console
    BY <1>0, <1>1, SameSignups DEF CreationFailed
  <1>2. CASE ref # Console
    <2>1. ref \in Signups /\ Verified(ref)
      BY <1>2
    <2>2. PICK row \in SignupRows :
              row = [signup[ref] EXCEPT !.status = "failed", !.reason = "creation", !.tenant = 0]
      BY <2>1, RowTypes, RowEdits, 0 \in Nat, 0 \in Sessions \cup {0} DEF Inv
    <2>3. row.status = "failed" /\ row.slug = signup[ref].slug
      BY <2>1, <2>2, RowTypes DEF Inv, SignupRows
    <2>4. signup' = [signup EXCEPT ![ref] = row]
      BY <1>2, <2>2 DEF CreationFailed
    <2> QED BY <1>0, <2>1, <2>3, <2>4, SignupEdited
  <1> QED BY <1>1, <1>2

LEMMA StartCreateInv ==
    ASSUME Inv, StartCreate
    PROVE  Inv'
  <1>1. PICK job \in Jobs : job = Head(queue)
    BY HeadOK DEF Inv, StartCreate, Take
  <1>2. JobOK(job) /\ job.kind = "create" /\ queue # <<>> /\ queue' = Tail(queue) /\ queue' \in Seq(Jobs)
    BY <1>1, HeadOK DEF Inv, StartCreate, Take
  <1>3. job.slug \in Slugs /\ (job.ref = Console \/ (job.ref \in Signups /\ Verified(job.ref)))
    BY <1>2 DEF JobOK
  <1>s. spent' \in Nat
    BY SpentType DEF Inv, StartCreate
  <1>4. CASE CreationFailed(job.ref) /\ UNCHANGED <<tenants, work>>
    <2>1. Keeps /\ SignupsOK' /\ signup' \in [Signups -> SignupRows]
      BY <1>3, <1>4, FailedKeeps DEF StartCreate
    <2>2. WorkOK' /\ QueueOK'
      BY <1>2, <1>4, <2>1, WorkStays, QueueStays DEF Inv, Tenants, StartCreate
    <2>3. TypeOK'
      BY <1>2, <1>4, <1>s, <2>1 DEF Inv, TypeOK, StartCreate
    <2> QED BY <2>1, <2>2, <2>3 DEF Inv
  <1>5. CASE /\ tenants' = Append(tenants, [slug |-> job.slug, row |-> TRUE, up |-> FALSE, admin |-> FALSE, block |-> 0])
             /\ work' = [at |-> "note", job |-> job, tenant |-> Len(tenants) + 1]
             /\ UNCHANGED signup
    <2>1. Keeps /\ SignupsOK' /\ signup' \in [Signups -> SignupRows]
      BY <1>5, SameSessions, SameSignups DEF StartCreate
    <2>3. [slug |-> job.slug, row |-> TRUE, up |-> FALSE, admin |-> FALSE, block |-> 0] \in TenantRows
      BY <1>3, NumbersAssumption DEF TenantRows
    <2>4. tenants' \in Seq(TenantRows) /\ Len(tenants') = Len(tenants) + 1 /\ Len(tenants) \in Nat
      BY <1>5, <2>3, AppendProperties, LenProperties DEF Inv, TypeOK
    <2>5. work'.at = "note" /\ work'.job = job /\ work'.tenant = Len(tenants) + 1
          /\ work' \in WorkType
      BY <1>5, <2>4 DEF WorkType, Places
    <2>6. JobOK(job)'
      BY <1>2, <2>1, JobStays
    <2>7. JobOK(work.job)'
      BY <2>5, <2>6 DEF JobOK
    <2>8. work'.tenant \in Tenants'
      BY <2>4, <2>5 DEF Tenants
    <2>9. WorkOK'
      BY <1>2, <2>5, <2>7, <2>8 DEF WorkOK, CheckoutPlaces, CreatePlaces
    <2>10. QueueOK'
      BY <1>2, <2>1, QueueStays DEF Inv, StartCreate
    <2>11. TypeOK'
      BY <1>2, <1>s, <2>1, <2>4, <2>5 DEF Inv, TypeOK, StartCreate, WorkType
    <2> QED BY <2>1, <2>9, <2>10, <2>11 DEF Inv
  <1> QED BY <1>1, <1>4, <1>5 DEF StartCreate

\* A tenant's row with what was made for it changed is a row.
LEMMA TenantEdits ==
    ASSUME NEW t \in TenantRows, NEW x \in BOOLEAN, NEW y \in BOOLEAN
    PROVE  /\ [t EXCEPT !.up = x] \in TenantRows
           /\ [t EXCEPT !.admin = x] \in TenantRows
           /\ [t EXCEPT !.admin = x, !.row = y] \in TenantRows
  <1>1. \A r \in TenantRows : /\ [r EXCEPT !.up = x] \in TenantRows
                              /\ [r EXCEPT !.admin = x] \in TenantRows
                              /\ [r EXCEPT !.row = y] \in TenantRows
    BY DEF TenantRows
  <1> QED BY <1>1

\* A step of a creation job: the tenant's row may change, the job goes on or
\* ends, and the sign-up is as some lemma above leaves it.
LEMMA CreateStep ==
    ASSUME Inv, work.at \in CreatePlaces,
           Keeps /\ SignupsOK' /\ signup' \in [Signups -> SignupRows],
           UNCHANGED tenants \/ \E row \in TenantRows : SetTenant(row),
           Done \/ \E place \in CreatePlaces : Do(place),
           Disturbance \/ UNCHANGED spent, used' \in 0..Blocks,
           UNCHANGED <<session, cardOwner, received, retrying, stranded, queue>>
    PROVE  Inv'
  <1>1. tenants' \in Seq(TenantRows) /\ Tenants' = Tenants
    BY SetTenantType DEF Inv, TypeOK, Tenants
  <1>2. WorkOK' /\ work' \in WorkType
    BY <1>1, DoneOK, CreateGoesOn
  <1>3. QueueOK'
    BY QueueStays DEF Inv
  <1>4. spent' \in Nat
    BY SpentType DEF Inv
  <1>5. TypeOK'
    BY <1>1, <1>2, <1>4 DEF Inv, TypeOK, WorkType
  <1> QED BY <1>2, <1>3, <1>5 DEF Inv

\* A row with a block and containers is a row.
LEMMA BlockEdit ==
    ASSUME NEW t \in TenantRows, NEW b \in 0..Blocks, NEW x \in BOOLEAN, NEW r
    PROVE  r = [t EXCEPT !.block = b, !.up = x] =>
               r \in TenantRows /\ r.up = x /\ r.block = b /\ r.admin = t.admin /\ r.row = t.row /\ r.slug = t.slug
  BY DEF TenantRows

LEMMA UsedType ==
    ASSUME Inv
    PROVE  used \in 0..Blocks /\ (BlocksLeft => NextBlock \in 0..Blocks)
  BY NumbersAssumption DEF Inv, TypeOK, BlocksLeft, NextBlock

LEMMA NoteTenantInv ==
    ASSUME Inv, NoteTenant
    PROVE  Inv'
  <1>1. work.at \in CreatePlaces /\ Do("provision") /\ "provision" \in CreatePlaces
    BY DEF NoteTenant, At, CreatePlaces
  <1> QED BY <1>1, UsedType, SameSessions, SameSignups, CreateStep DEF NoteTenant

LEMMA ProvisionInv ==
    ASSUME Inv, Provision
    PROVE  Inv'
  <1>1. work.at \in CreatePlaces
    BY DEF Provision, At, CreatePlaces
  <1>2. UNCHANGED tenants \/ \E row \in TenantRows : SetTenant(row)
    <2>1. ASSUME NEW up \in BOOLEAN, BlocksLeft, SetTenant([Tenant EXCEPT !.block = NextBlock, !.up = up])
          PROVE  \E row \in TenantRows : SetTenant(row)
      BY <1>1, <2>1, CreatingOK, UsedType, BlockEdit
    <2> QED BY <2>1 DEF Provision
  <1>3. (\E place \in CreatePlaces : Do(place)) /\ (Disturbance \/ UNCHANGED spent) /\ used' \in 0..Blocks
    BY UsedType DEF Provision, CreatePlaces
  <1> QED BY <1>1, <1>2, <1>3, SameSessions, SameSignups, CreateStep DEF Provision

LEMMA PublishInv ==
    ASSUME Inv, Publish
    PROVE  Inv'
  <1>1. work.at \in CreatePlaces
    BY DEF Publish, At, CreatePlaces
  <1>2. UNCHANGED tenants \/ \E row \in TenantRows : SetTenant(row)
    BY <1>1, CreatingOK, TenantEdits DEF Publish
  <1>3. (\E place \in CreatePlaces : Do(place)) /\ (Disturbance \/ UNCHANGED spent)
    BY DEF Publish, CreatePlaces
  <1>4. CASE UNCHANGED signup
    BY <1>1, <1>2, <1>3, <1>4, SameSessions, SameSignups, CreateStep, UsedType DEF Publish
  <1>5. CASE /\ work.job.ref # Console
             /\ signup' = [signup EXCEPT ![work.job.ref] =
                              [@ EXCEPT !.status = "created", !.reason = "none", !.tenant = work.tenant]]
    <2>1. PICK s \in Signups : s = work.job.ref /\ Verified(s)
      BY <1>1, <1>5, CreatingOK
    <2>2. PICK t \in Nat : t = work.tenant
      BY DEF Inv, TypeOK
    <2>3. PICK row \in SignupRows :
              row = [signup[s] EXCEPT !.status = "created", !.reason = "none", !.tenant = t]
      BY RowTypes, RowEdits, 0 \in Sessions \cup {0} DEF Inv
    <2>4. row.status = "created" /\ row.slug = signup[s].slug /\ signup' = [signup EXCEPT ![s] = row]
      BY <1>5, <2>1, <2>2, <2>3, RowTypes DEF Inv, SignupRows
    <2>5. Keeps /\ SignupsOK' /\ signup' \in [Signups -> SignupRows]
      BY <2>1, <2>4, SameSessions, SignupEdited DEF Publish
    <2> QED BY <1>1, <1>2, <1>3, <2>5, CreateStep, UsedType DEF Publish
  <1> QED BY <1>4, <1>5 DEF Publish

LEMMA LinkInv ==
    ASSUME Inv, Link \/ Welcome
    PROVE  Inv'
  <1>1. work.at \in CreatePlaces
    BY DEF Link, Welcome, At, CreatePlaces
  <1>2. (Done \/ \E place \in CreatePlaces : Do(place)) /\ (Disturbance \/ UNCHANGED spent)
    BY DEF Link, Welcome, CreatePlaces
  <1> QED BY <1>1, <1>2, SameSessions, SameSignups, CreateStep, UsedType DEF Link, Welcome

LEMMA UndoRelayInv ==
    ASSUME Inv, UndoRelay
    PROVE  Inv'
  <1>1. work.at \in CreatePlaces
    BY DEF UndoRelay, At, CreatePlaces
  <1>2. UNCHANGED tenants \/ \E row \in TenantRows : SetTenant(row)
    BY <1>1, CreatingOK, TenantEdits DEF UndoRelay
  <1>3. (\E place \in CreatePlaces : Do(place)) /\ (Disturbance \/ UNCHANGED spent)
    BY DEF UndoRelay, CreatePlaces
  <1> QED BY <1>1, <1>2, <1>3, SameSessions, SameSignups, CreateStep, UsedType DEF UndoRelay

LEMMA UndoRowsInv ==
    ASSUME Inv, UndoRows
    PROVE  Inv'
  <1>1. work.at \in CreatePlaces
    BY DEF UndoRows, At, CreatePlaces
  <1>2. \E row \in TenantRows : SetTenant(row)
    BY <1>1, CreatingOK, TenantEdits DEF UndoRows
  <1>3. Keeps /\ SignupsOK' /\ signup' \in [Signups -> SignupRows]
    BY <1>1, CreatingOK, SameSessions, SameSignups, FailedKeeps DEF UndoRows
  <1> QED BY <1>1, <1>2, <1>3, CreateStep, UsedType DEF UndoRows

\* What creation_failed makes of a row.
LEMMA FailedRow ==
    ASSUME NEW row \in SignupRows, NEW new,
           new = [row EXCEPT !.status = "failed", !.reason = "creation", !.tenant = 0]
    PROVE  new \in SignupRows /\ new.status = "failed" /\ new.slug = row.slug
  <1>1. new \in SignupRows
    BY RowEdits, 0 \in Nat, 0 \in Sessions \cup {0}
  <1>2. row = [status |-> row.status, slug |-> row.slug, reason |-> row.reason, sub |-> row.sub, tenant |-> row.tenant]
    BY DEF SignupRows
  <1> QED BY <1>1, <1>2

LEMMA UnqueuedType ==
    ASSUME Inv
    PROVE  Unqueued \subseteq Signups
  <1>1. At("enqueue") => Payer \in Signups
    BY PayerOK DEF At, CheckoutPlaces
  <1> QED BY <1>1 DEF Unqueued, Inv, TypeOK

LEMMA CrashInv ==
    ASSUME Inv, Crash
    PROVE  Inv'
  <1>r. received \subseteq received' /\ received' \subseteq Sessions
        /\ \A k \in received' : session[k].status \notin {"none", "open"}
    BY DEF Crash, Inv, TypeOK, SignupsOK
  <1>1. Keeps /\ SignupsOK' /\ signup' \in [Signups -> SignupRows] /\ WorkOK' /\ work' \in WorkType
    <2>1. CASE work.at = "note" /\ Done /\ CreationFailed(work.job.ref)
      <3>1. work.job.ref = Console \/ (work.job.ref \in Signups /\ Verified(work.job.ref))
        BY <2>1, CreatingOK DEF CreatePlaces
      <3>2. PICK ref : ref = work.job.ref
        OBVIOUS
      <3>3. \/ UNCHANGED signup
            \/ /\ ref \in Signups /\ Verified(ref)
               /\ signup' = [signup EXCEPT ![ref] = [@ EXCEPT !.status = "failed", !.reason = "creation", !.tenant = 0]]
        BY <2>1, <3>1, <3>2 DEF CreationFailed
      <3>4. \A s \in Signups : \/ signup'[s] = signup[s]
                               \/ Verified(s) /\ signup'[s] = [signup[s] EXCEPT !.status = "failed", !.reason = "creation", !.tenant = 0]
        BY <3>3 DEF Inv, TypeOK
      <3>5. \A s \in Signups : \/ signup'[s] = signup[s]
                               \/ /\ Verified(s) /\ signup'[s] \in SignupRows /\ signup'[s].status = "failed"
                                  /\ signup'[s].slug = signup[s].slug
        <4>1. \A row \in SignupRows : \A new :
                 new = [row EXCEPT !.status = "failed", !.reason = "creation", !.tenant = 0] =>
                    new \in SignupRows /\ new.status = "failed" /\ new.slug = row.slug
          BY FailedRow
        <4>2. \A s \in Signups : signup[s] \in SignupRows
          BY DEF Inv, TypeOK
        <4> QED BY <3>4, <4>1, <4>2
      <3>6. signup' \in [Signups -> SignupRows]
        BY <3>3, <3>5, RowTypes DEF Inv, TypeOK
      <3>7. Keeps
        BY <1>r, <3>5 DEF Keeps, Verified
      <3>8. SignupsOK'
        BY <1>r, <3>5, <3>7 DEF Crash, Inv, SignupsOK, Verified, Keeps
      <3> QED BY <2>1, <3>6, <3>7, <3>8, DoneOK
    <2>2. CASE UNCHANGED signup
      <3>1. Keeps
        BY <1>r, <2>2 DEF Keeps, Verified
      <3>2. SignupsOK' /\ signup' \in [Signups -> SignupRows]
        BY <1>r, <2>2 DEF Crash, Inv, TypeOK, SignupsOK, Verified
      <3>3. CASE work.job.kind = "create" /\ Do("undo")
        <4>1. work.at \in CreatePlaces
          BY <3>3 DEF Inv, TypeOK, WorkOK, Places, CheckoutPlaces, CreatePlaces, Idle, CheckoutEvent
        <4> QED BY <3>1, <3>2, <3>3, <4>1, CreateGoesOn DEF Crash, CreatePlaces, Tenants
      <3>4. CASE Done
        BY <3>1, <3>2, <3>4, DoneOK
      <3> QED BY <2>2, <3>3, <3>4 DEF Crash, Restart, CreationFailed
    <2> QED BY <2>1, <2>2 DEF Crash, Restart
  <1>4. QueueOK'
    BY <1>1, QueueStays DEF Crash, Inv
  <1>5. spent' \in Nat /\ stranded' \subseteq Signups /\ retrying' = {}
    BY SpentType, UnqueuedType DEF Crash, Inv, TypeOK
  <1>6. TypeOK'
    BY <1>r, <1>1, <1>5 DEF Crash, Inv, TypeOK, WorkType
  <1> QED BY <1>1, <1>4, <1>6 DEF Inv

-----------------------------------------------------------------------------

LEMMA InvNext == Inv /\ [Next]_vars => Inv'
  <1> SUFFICES ASSUME Inv, [Next]_vars PROVE Inv'
    OBVIOUS
  <1>1. ASSUME NEW s \in Signups, Start(s) \/ PurgeUnverified(s) \/ Verify(s) \/ CheckoutAgain(s) \/ Retry(s) \/ RetryQueues(s)
        PROVE  Inv'
    BY <1>1, StartInv, PurgeUnverifiedInv, VerifyInv, CheckoutAgainInv, RetryInv, RetryQueuesInv
  <1>2. ASSUME NEW k \in Sessions, Pay(k) \/ Receive(k) PROVE Inv'
    BY <1>2, PayInv, ReceiveInv
  <1>3. ASSUME NEW slug \in Slugs, NewTenant(slug) PROVE Inv'
    BY <1>3, NewTenantInv
  <1>4. CASE Worker
    BY <1>4, StartCheckoutInv, CheckoutCardInv, CheckoutDenyInv, CheckoutRefuseInv, StartCreationInv, StartCreateInv,
       NoteTenantInv, ProvisionInv,
       PublishInv, LinkInv, UndoRelayInv, UndoRowsInv DEF Worker
  <1>5. CASE Crash
    BY <1>5, CrashInv
  <1>6. CASE UNCHANGED vars
    BY <1>6 DEF vars, Inv, TypeOK, SignupsOK, WorkOK, QueueOK, JobOK, Verified, Tenants, Paid
  <1> QED BY <1>1, <1>2, <1>3, <1>4, <1>5, <1>6 DEF Next

\* Every reachable state is well typed, whatever the numbers of sign-ups,
\* slugs, cards, blocks, sessions and failures.
THEOREM TypeCorrect == Spec => []TypeOK
  <1>1. Inv => TypeOK
    BY DEF Inv
  <1> QED BY <1>1, InitInv, InvNext, PTL DEF Spec

-----------------------------------------------------------------------------
(***************************************************************************)
(* The safety properties of TenantCreation, each from an invariant of its  *)
(* own on top of the typing invariant Inv.                                 *)
(***************************************************************************)

Outside ==
    \/ \E s \in Signups : Start(s) \/ PurgeUnverified(s) \/ Verify(s) \/ CheckoutAgain(s) \/ Retry(s) \/ RetryQueues(s)
    \/ \E k \in Sessions : Pay(k) \/ Receive(k)
    \/ \E slug \in Slugs : NewTenant(slug)
Checkout == StartCheckout \/ CheckoutCard \/ CheckoutDeny \/ CheckoutRefuse \/ StartCreation

\* The web and the console leave tenants and the worker alone.
LEMMA OutsideQuiet ==
    ASSUME Outside
    PROVE  UNCHANGED <<tenants, used, work, cardOwner>>
  BY DEF Outside, Start, PurgeUnverified, Verify, CheckoutAgain, Retry, RetryQueues, Pay, Receive, NewTenant

\* So does a checkout's job with tenants; it has none of its own.
LEMMA CheckoutQuiet ==
    ASSUME Inv, Checkout
    PROVE  /\ UNCHANGED <<tenants, used>>
           /\ work.tenant = 0 /\ work'.tenant = 0
           /\ work'.at \in CheckoutPlaces \cup {"idle"}
  <1>1. UNCHANGED <<tenants, used>>
    BY DEF Checkout, StartCheckout, CheckoutCard, CheckoutDeny, CheckoutRefuse, StartCreation
  <1>2. work \in WorkType /\ Idle.tenant = 0 /\ Idle.at = "idle"
    BY DEF Inv, TypeOK, WorkType, Idle
  <1>3. work.tenant = 0
    BY <1>2 DEF Inv, WorkOK, CheckoutPlaces, Checkout, StartCheckout, CheckoutCard, CheckoutDeny, CheckoutRefuse, StartCreation, At, Take
  <1>4. work' = work \/ Done \/ (\E place \in {"deny", "refuse", "enqueue"} : Do(place))
        \/ work' = [Idle EXCEPT !.at = "card", !.job = Head(queue)]
    BY DEF Checkout, StartCheckout, CheckoutCard, CheckoutDeny, CheckoutRefuse, StartCreation, Accept
  <1>5. work' = work => work.at = "idle" \/ work.at \in CheckoutPlaces
    BY DEF Checkout, StartCheckout, CheckoutCard, CheckoutDeny, CheckoutRefuse, StartCreation, At, Take, CheckoutPlaces
  <1> QED BY <1>1, <1>2, <1>3, <1>4, <1>5 DEF Done, Do, WorkType, Idle, CheckoutPlaces

LEMMA NextCases ==
    ASSUME [Next]_vars
    PROVE  \/ Outside \/ Checkout \/ Crash \/ UNCHANGED vars
           \/ StartCreate \/ NoteTenant \/ Provision \/ Publish \/ Link \/ Welcome \/ UndoRelay \/ UndoRows
  BY DEF Next, Outside, Checkout, Worker

\* A creation job's step on its tenant's row leaves the others' alone.
LEMMA RowSet ==
    ASSUME Inv, work.at \in CreatePlaces, NEW row, row \in TenantRows, SetTenant(row)
    PROVE  /\ Len(tenants') = Len(tenants) /\ Tenants' = Tenants
           /\ tenants'[work.tenant] = row
           /\ \A t \in Tenants \ {work.tenant} : tenants'[t] = tenants[t]
  BY CreatingOK, ExceptSeq DEF SetTenant, Tenants, Inv, TypeOK

\* The columns after an edit of a tenant's row.
LEMMA EditedColumns ==
    ASSUME NEW t \in TenantRows, NEW x \in BOOLEAN, NEW y \in BOOLEAN, NEW r
    PROVE  /\ r = [t EXCEPT !.up = x] =>
                 r \in TenantRows /\ r.up = x /\ r.block = t.block /\ r.admin = t.admin /\ r.row = t.row /\ r.slug = t.slug
           /\ r = [t EXCEPT !.admin = x] =>
                 r \in TenantRows /\ r.up = t.up /\ r.block = t.block /\ r.admin = x /\ r.row = t.row /\ r.slug = t.slug
           /\ r = [t EXCEPT !.admin = x, !.row = y] =>
                 r \in TenantRows /\ r.up = t.up /\ r.block = t.block /\ r.admin = x /\ r.row = y /\ r.slug = t.slug
  <1>0. /\ [t EXCEPT !.up = x] \in TenantRows /\ [t EXCEPT !.admin = x] \in TenantRows
        /\ [t EXCEPT !.admin = x, !.row = y] \in TenantRows
    BY TenantEdits
  <1>1. \A z \in TenantRows : z = [slug |-> z.slug, row |-> z.row, up |-> z.up, admin |-> z.admin, block |-> z.block]
    BY DEF TenantRows
  <1>2. ASSUME r = [t EXCEPT !.up = x]
        PROVE  r.up = x /\ r.block = t.block /\ r.admin = t.admin /\ r.row = t.row /\ r.slug = t.slug
    BY <1>1, <1>2
  <1>3. ASSUME r = [t EXCEPT !.admin = x]
        PROVE  r.up = t.up /\ r.block = t.block /\ r.admin = x /\ r.row = t.row /\ r.slug = t.slug
    BY <1>1, <1>3
  <1>4. ASSUME r = [t EXCEPT !.admin = x, !.row = y]
        PROVE  r.up = t.up /\ r.block = t.block /\ r.admin = x /\ r.row = y /\ r.slug = t.slug
    BY <1>1, <1>4
  <1> QED BY <1>0, <1>2, <1>3, <1>4

-----------------------------------------------------------------------------
(* Ports. *)

\* Blocks are handed out in order, each to one tenant, and a relay is only
\* brought up on a block of its own.
BlocksOK ==
    /\ \A t \in Tenants : tenants[t].block <= used
    /\ \A t, u \in Tenants : t # u /\ tenants[t].block # 0 => tenants[t].block # tenants[u].block
    /\ \A t \in Tenants : tenants[t].up => tenants[t].block # 0

LEMMA BlocksInit == Init => BlocksOK
  BY DEF Init, BlocksOK, Tenants, Idle

LEMMA BlockTypes ==
    ASSUME Inv, BlocksOK
    PROVE  /\ used \in Nat /\ NextBlock = used + 1
           /\ \A t \in Tenants : tenants[t].block \in Nat /\ tenants[t].block <= used
  <1>1. \A t \in Tenants : tenants[t] \in TenantRows
    BY DEF Tenants, Inv, TypeOK
  <1>2. \A t \in Tenants : tenants[t].block \in 0..Blocks
    BY <1>1 DEF TenantRows
  <1> QED BY <1>2, NumbersAssumption DEF BlocksOK, NextBlock, Inv, TypeOK

\* A step that only edits one tenant's row keeps the blocks apart, if it
\* brings up none that was down.
LEMMA BlocksEdited ==
    ASSUME Inv, BlocksOK, work.at \in CreatePlaces, NEW row \in TenantRows, SetTenant(row),
           row.block = Tenant.block, row.up => Tenant.up, UNCHANGED used
    PROVE  BlocksOK'
  <1>1. /\ Tenants' = Tenants /\ tenants'[work.tenant] = row
        /\ \A t \in Tenants \ {work.tenant} : tenants'[t] = tenants[t]
    BY RowSet
  <1>2. \A t \in Tenants : tenants'[t].block = tenants[t].block
    BY <1>1 DEF Tenant
  <1>3. \A t \in Tenants : tenants'[t].up => tenants[t].block # 0
    BY <1>1, CreatingOK DEF Tenant, BlocksOK
  <1> QED BY <1>1, <1>2, <1>3 DEF BlocksOK

\* A tenant that is given the next block has one that no other has.
LEMMA BlockGiven ==
    ASSUME Inv, BlocksOK, work.at \in CreatePlaces, NEW row \in TenantRows, SetTenant(row),
           row.block = NextBlock, used' = NextBlock
    PROVE  BlocksOK'
  <1>1. /\ Tenants' = Tenants /\ tenants'[work.tenant] = row /\ work.tenant \in Tenants
        /\ \A t \in Tenants \ {work.tenant} : tenants'[t] = tenants[t]
    BY RowSet, CreatingOK
  <1>2. \A t \in Tenants' : tenants'[t].block <= used'
    BY <1>1, BlockTypes
  <1>3. \A t, u \in Tenants' : t # u /\ tenants'[t].block # 0 => tenants'[t].block # tenants'[u].block
    <2>1. \A t \in Tenants \ {work.tenant} : tenants'[t].block \in Nat /\ tenants'[t].block <= used
      BY <1>1, BlockTypes
    <2>2. tenants'[work.tenant].block = used + 1 /\ used \in Nat
      BY <1>1, BlockTypes
    <2>3. \A t \in Tenants \ {work.tenant} : tenants'[t].block # tenants'[work.tenant].block
      BY <2>1, <2>2
    <2>4. \A t, u \in Tenants \ {work.tenant} : t # u /\ tenants'[t].block # 0 => tenants'[t].block # tenants'[u].block
      BY <1>1 DEF BlocksOK
    <2> QED BY <1>1, <2>3, <2>4
  <1>4. \A t \in Tenants' : tenants'[t].up => tenants'[t].block # 0
    <2>1. NextBlock # 0
      BY BlockTypes
    <2> QED BY <1>1, <2>1 DEF BlocksOK
  <1> QED BY <1>2, <1>3, <1>4 DEF BlocksOK

LEMMA BlocksNext == Inv /\ BlocksOK /\ [Next]_vars => BlocksOK'
  <1> SUFFICES ASSUME Inv, BlocksOK, [Next]_vars PROVE BlocksOK'
    OBVIOUS
  <1>1. CASE UNCHANGED <<tenants, used>>
    BY <1>1 DEF BlocksOK, Tenants
  <1>2. CASE Outside \/ Checkout \/ UNCHANGED vars
    BY <1>1, <1>2, OutsideQuiet, CheckoutQuiet DEF vars
  <1>3. CASE Crash \/ NoteTenant \/ Link \/ Welcome
    BY <1>1, <1>3 DEF Crash, NoteTenant, Link, Welcome
  <1>5. CASE Provision /\ ~UNCHANGED <<tenants, used>>
    <2>1. work.at \in CreatePlaces /\ BlocksLeft /\ used' = NextBlock
      BY <1>5 DEF Provision, At, CreatePlaces
    <2>2. PICK up \in BOOLEAN : SetTenant([Tenant EXCEPT !.block = NextBlock, !.up = up])
      BY <1>5 DEF Provision
    <2>3. PICK row : row = [Tenant EXCEPT !.block = NextBlock, !.up = up]
      OBVIOUS
    <2>4. row \in TenantRows /\ row.block = NextBlock
      <3>1. NextBlock \in 0..Blocks /\ Tenant \in TenantRows
        BY <2>1, CreatingOK, UsedType
      <3> QED BY <2>3, <3>1 DEF TenantRows
    <2> QED BY <2>1, <2>2, <2>3, <2>4, BlockGiven
  <1>6. CASE Publish \/ UndoRelay \/ UndoRows
    <2>1. work.at \in CreatePlaces /\ UNCHANGED used
      BY <1>6 DEF Publish, UndoRelay, UndoRows, At, CreatePlaces
    <2>2. CASE UNCHANGED tenants
      BY <1>1, <2>1, <2>2
    <2>3. CASE \E row \in TenantRows : SetTenant(row) /\ row.block = Tenant.block /\ (row.up => Tenant.up)
      BY <2>1, <2>3, BlocksEdited
    <2>4. Tenant \in TenantRows
      BY <2>1, CreatingOK
    <2>5. \A row : \/ row = [Tenant EXCEPT !.admin = TRUE]
                   \/ row = [Tenant EXCEPT !.up = FALSE]
                   \/ row = [Tenant EXCEPT !.admin = FALSE]
                   \/ row = [Tenant EXCEPT !.admin = FALSE, !.row = FALSE]
             => row \in TenantRows /\ row.block = Tenant.block /\ (row.up => Tenant.up)
      BY <2>4, EditedColumns
    <2> QED BY <1>6, <2>2, <2>3, <2>5 DEF Publish, UndoRelay, UndoRows
  <1>7. CASE StartCreate /\ ~UNCHANGED <<tenants, used>>
    <2>1. PICK job : tenants' = Append(tenants, [slug |-> job.slug, row |-> TRUE, up |-> FALSE, admin |-> FALSE,
                                                 block |-> 0])
      BY <1>7 DEF StartCreate
    <2>2. /\ Len(tenants) \in Nat /\ Len(tenants') = Len(tenants) + 1
          /\ \A t \in Tenants : tenants'[t] = tenants[t]
          /\ tenants'[Len(tenants) + 1].block = 0
          /\ ~tenants'[Len(tenants) + 1].up
      BY <2>1, LenProperties DEF Tenants, Inv, TypeOK
    <2>3. Tenants' = Tenants \cup {Len(tenants) + 1} /\ Len(tenants) + 1 \notin Tenants /\ used' = used
      BY <1>7, <2>2 DEF Tenants, StartCreate
    <2>4. \A t \in Tenants' : tenants'[t].block <= used'
      BY <2>2, <2>3, BlockTypes
    <2>5. \A t, u \in Tenants' : t # u /\ tenants'[t].block # 0 => tenants'[t].block # tenants'[u].block
      BY <2>2, <2>3 DEF BlocksOK
    <2>6. \A t \in Tenants' : tenants'[t].up => tenants'[t].block # 0
      BY <2>2, <2>3 DEF BlocksOK
    <2> QED BY <2>4, <2>5, <2>6 DEF BlocksOK
  <1> QED BY <1>1, <1>2, <1>3, <1>5, <1>6, <1>7, NextCases

\* Two relays never run on the same ports, whatever fails and however often
\* creations are undone, for any number of port blocks.
THEOREM PortsAreNeverShared == Spec => []PortsNeverShared
  <1>1. BlocksOK => PortsNeverShared
    BY DEF BlocksOK, PortsNeverShared
  <1> QED BY <1>1, InitInv, InvNext, BlocksInit, BlocksNext, PTL DEF Spec

-----------------------------------------------------------------------------
(* What is made, and what is undone. *)

\* What has been made of a tenant by the time its job is at a later step.
MadeOK ==
    /\ work.at \in {"note", "provision", "publish", "link", "welcome"} =>
          tenants[work.tenant].row /\ tenants[work.tenant].slug = work.job.slug
    /\ work.at \in {"publish", "link", "welcome"} => tenants[work.tenant].up
    /\ work.at \in {"link", "welcome"} => tenants[work.tenant].admin

LEMMA MadeNext == Inv /\ MadeOK /\ [Next]_vars => MadeOK'
  <1> SUFFICES ASSUME Inv, MadeOK, [Next]_vars PROVE MadeOK'
    OBVIOUS
  <1>0. work \in WorkType
    BY DEF Inv, TypeOK, WorkType
  <1>1. CASE UNCHANGED <<tenants, work>>
    BY <1>1 DEF MadeOK
  <1>2. CASE work'.at \notin {"note", "provision", "publish", "link", "welcome"}
    BY <1>2 DEF MadeOK
  <1>3. CASE Outside \/ UNCHANGED vars
    BY <1>1, <1>3, OutsideQuiet DEF vars
  <1>4. CASE Checkout \/ Crash \/ Welcome \/ UndoRelay \/ UndoRows
    BY <1>0, <1>2, <1>4, CheckoutQuiet DEF Crash, Restart, Welcome, UndoRelay, UndoRows, Do, Done, Idle,
       WorkType, CheckoutPlaces
  <1>5. CASE Provision
    <2>1. CASE BlocksLeft /\ SetTenant([Tenant EXCEPT !.block = NextBlock, !.up = TRUE]) /\ Do("publish")
      <3>1. PICK row : row = [Tenant EXCEPT !.block = NextBlock, !.up = TRUE]
        OBVIOUS
      <3>2. work.at = "provision" /\ work.at \in CreatePlaces
        BY <1>5 DEF Provision, At, CreatePlaces
      <3>3. row \in TenantRows /\ row.up /\ row.row = Tenant.row /\ row.slug = Tenant.slug
        <4>1. NextBlock \in 0..Blocks /\ Tenant \in TenantRows
          BY <2>1, <3>2, CreatingOK, UsedType
        <4> QED BY <3>1, <4>1 DEF TenantRows
      <3>4. tenants'[work.tenant] = row
        BY <2>1, <3>1, <3>2, <3>3, RowSet
      <3>5. work'.at = "publish" /\ work'.tenant = work.tenant /\ work'.job = work.job
        BY <1>0, <2>1 DEF Do, WorkType
      <3> QED BY <3>2, <3>3, <3>4, <3>5 DEF MadeOK, Tenant
    <2>2. CASE Do("undo")
      BY <1>0, <1>2, <2>2 DEF Do, WorkType
    <2> QED BY <1>5, <2>1, <2>2 DEF Provision
  <1>6. CASE Publish
    <2>1. CASE SetTenant([Tenant EXCEPT !.admin = TRUE])
      <3>1. PICK row : row = [Tenant EXCEPT !.admin = TRUE]
        OBVIOUS
      <3>2. work.at = "publish" /\ work.at \in CreatePlaces
        BY <1>6 DEF Publish, At, CreatePlaces
      <3>3. row \in TenantRows /\ row.up = Tenant.up /\ row.admin /\ row.row = Tenant.row /\ row.slug = Tenant.slug
        BY <3>1, <3>2, CreatingOK, EditedColumns
      <3>4. tenants'[work.tenant] = row
        BY <2>1, <3>1, <3>2, <3>3, RowSet
      <3>5. work'.tenant = work.tenant /\ work'.job = work.job
        BY <1>0, <1>6 DEF Publish, Do, WorkType
      <3> QED BY <3>2, <3>3, <3>4, <3>5 DEF MadeOK, Tenant
    <2>2. CASE Do("undo")
      BY <1>0, <1>2, <2>2 DEF Do, WorkType
    <2> QED BY <1>6, <2>1, <2>2 DEF Publish
  <1>7. CASE Link
    <2>1. work.at = "link" /\ work'.tenant = work.tenant /\ work'.job = work.job
          /\ work'.at \in {"welcome", "undo"} /\ UNCHANGED tenants
      BY <1>0, <1>7 DEF Link, At, Do, WorkType
    <2> QED BY <2>1 DEF MadeOK
  <1>n. CASE NoteTenant
    BY <1>0, <1>n DEF NoteTenant, At, Do, WorkType, MadeOK
  <1>8. CASE StartCreate
    <2>1. CASE ~UNCHANGED <<tenants, work>>
      <3>1. PICK job : /\ tenants' = Append(tenants, [slug |-> job.slug, row |-> TRUE, up |-> FALSE, admin |-> FALSE,
                                                      block |-> 0])
                       /\ work' = [at |-> "note", job |-> job, tenant |-> Len(tenants) + 1]
        BY <1>8, <2>1 DEF StartCreate
      <3>2. tenants'[Len(tenants) + 1].row /\ tenants'[Len(tenants) + 1].slug = job.slug
        BY <3>1, LenProperties DEF Inv, TypeOK
      <3> QED BY <3>1, <3>2 DEF MadeOK
    <2> QED BY <1>1, <2>1
  <1> QED BY <1>3, <1>4, <1>5, <1>6, <1>7, <1>n, <1>8, NextCases

LEMMA MadeInit == Init => MadeOK
  BY DEF Init, MadeOK, Idle

-----------------------------------------------------------------------------
(* One trial per card. *)

\* A sign-up is billed for a recorded checkout; while that one's trial runs,
\* its card is the sign-up's.
CardOK(s) ==
    signup[s].sub # 0 =>
        /\ signup[s].sub \in received
        /\ LET paid == session[signup[s].sub] IN
              paid.status = "trialing" /\ paid.card \in Cards => cardOwner[paid.card] = s

CardsOK == \A s \in Signups : CardOK(s)

\* A recorded session is not paid for again, and a card keeps its owner.
SessionsKeep ==
    /\ received \subseteq received'
    /\ \A k \in received : session'[k] = session[k] \/ session'[k].status # "trialing"
    /\ \A card \in Cards : cardOwner[card] # None => cardOwner'[card] = cardOwner[card]

LEMMA CardKept ==
    ASSUME SessionsKeep, NEW s \in Signups, CardOK(s), signup'[s].sub \in {0, signup[s].sub}
    PROVE  CardOK(s)'
  <1> SUFFICES ASSUME signup'[s].sub # 0 PROVE CardOK(s)'
    BY DEF CardOK
  <1>1. /\ signup'[s].sub = signup[s].sub /\ signup[s].sub \in received /\ signup[s].sub \in received'
        /\ session'[signup[s].sub] = session[signup[s].sub] \/ session'[signup[s].sub].status # "trialing"
    BY DEF CardOK, SessionsKeep
  <1>2. s # None
    BY SignupsAssumption DEF None
  <1> QED BY <1>1, <1>2 DEF CardOK, SessionsKeep

LEMMA CardsInit == Init => CardsOK
  BY DEF Init, CardsOK, CardOK, NoSignup

LEMMA FailedSub ==
    ASSUME Inv, NEW s \in Signups, NEW ref, CreationFailed(ref)
    PROVE  signup'[s].sub = signup[s].sub
  <1>1. signup \in [Signups -> SignupRows] /\ signup[s] \in SignupRows
    BY DEF Inv, TypeOK
  <1>2. CASE signup'[s] = signup[s]
    BY <1>2
  <1>3. CASE signup'[s] = [signup[s] EXCEPT !.status = "failed", !.reason = "creation", !.tenant = 0]
    BY <1>1, <1>3 DEF SignupRows
  <1> QED BY <1>1, <1>2, <1>3 DEF CreationFailed

\* Only the end of a checkout says which session a sign-up is billed for.
LEMMA SubsKept ==
    ASSUME Inv, [Next]_vars, ~CheckoutCard, ~CheckoutDeny, NEW r \in Signups
    PROVE  signup'[r].sub \in {0, signup[r].sub}
  <1>1. signup \in [Signups -> SignupRows] /\ signup[r] \in SignupRows
    BY DEF Inv, TypeOK
  <1>2. CASE signup'[r] = signup[r]
    BY <1>2
  <1>3. CASE Outside /\ signup'[r] # signup[r]
    <2>1. CASE Start(r)
      <3>1. PICK slug \in Slugs : signup'[r] = [NoSignup EXCEPT !.status = "pending_verification", !.slug = slug]
        BY <1>1, <2>1 DEF Start
      <3> QED BY <3>1 DEF NoSignup
    <2>2. CASE PurgeUnverified(r)
      BY <1>1, <2>2 DEF PurgeUnverified, NoSignup
    <2>3. CASE Verify(r)
      <3>1. signup'[r] = [signup[r] EXCEPT !.status = "checkout"]
        BY <1>1, <2>3 DEF Verify
      <3> QED BY <1>1, <3>1 DEF SignupRows
    <2>4. CASE CheckoutAgain(r)
      <3>1. signup'[r] = [signup[r] EXCEPT !.status = "checkout", !.reason = "none", !.sub = 0]
        BY <1>1, <1>3, <2>4 DEF CheckoutAgain
      <3> QED BY <1>1, <3>1 DEF SignupRows
    <2>5. CASE Retry(r)
      <3>1. signup'[r] = [signup[r] EXCEPT !.status = "creating", !.reason = "none"]
        BY <1>1, <2>5 DEF Retry
      <3> QED BY <1>1, <3>1 DEF SignupRows
    <2>6. ASSUME NEW s \in Signups, s # r,
                 Start(s) \/ PurgeUnverified(s) \/ Verify(s) \/ CheckoutAgain(s) \/ Retry(s) \/ RetryQueues(s)
          PROVE  signup'[r] = signup[r]
      BY <1>1, <2>6 DEF Start, PurgeUnverified, Verify, CheckoutAgain, Retry, RetryQueues
    <2>7. CASE UNCHANGED signup
      BY <1>2, <2>7
    <2> QED BY <1>3, <2>1, <2>2, <2>3, <2>4, <2>5, <2>6, <2>7 DEF Outside, Pay, Receive, NewTenant, RetryQueues
  <1>4. CASE StartCreate \/ UndoRows \/ Crash
    BY <1>2, <1>4, FailedSub DEF StartCreate, UndoRows, Crash, Restart
  <1>5. CASE Publish /\ signup'[r] # signup[r]
    <2>1. signup'[r] = [signup[r] EXCEPT !.status = "created", !.reason = "none", !.tenant = work.tenant]
      BY <1>1, <1>5 DEF Publish
    <2> QED BY <1>1, <2>1 DEF SignupRows
  <1> QED
    BY <1>2, <1>3, <1>4, <1>5, NextCases
    DEF Checkout, StartCheckout, CheckoutRefuse, StartCreation, NoteTenant, Provision, Link, Welcome, UndoRelay, vars

LEMMA SessionsKept ==
    ASSUME Inv, [Next]_vars
    PROVE  SessionsKeep
  <1>0. /\ session \in [Sessions -> [status : {"none", "open", "trialing", "active", "canceled"},
                                    signup : Signups \cup {None}, card : Cards \cup {None}]]
        /\ cardOwner \in [Cards -> Signups \cup {None}]
        /\ received \subseteq Sessions
        /\ \A k \in received : session[k].status \notin {"none", "open"}
    BY DEF Inv, TypeOK, SignupsOK
  <1>1. received \subseteq received'
    BY NextCases DEF Outside, Start, PurgeUnverified, Verify, CheckoutAgain, Retry, RetryQueues, Pay, Receive, NewTenant,
       Checkout, StartCheckout, CheckoutCard, CheckoutDeny, CheckoutRefuse, StartCreation, Crash, StartCreate, NoteTenant, Provision,
       Publish, Link, Welcome, UndoRelay, UndoRows, vars
  <1>2. ASSUME NEW card \in Cards, cardOwner[card] # None PROVE cardOwner'[card] = cardOwner[card]
    <2>1. CASE CheckoutCard
      BY <1>0, <1>2, <2>1 DEF CheckoutCard
    <2>2. CASE UNCHANGED cardOwner
      BY <2>2
    <2> QED BY <2>1, <2>2, NextCases, OutsideQuiet
        DEF Checkout, StartCheckout, CheckoutDeny, CheckoutRefuse, StartCreation, Crash, StartCreate, NoteTenant, Provision, Publish, Link,
            Welcome, UndoRelay, UndoRows, vars
  <1>3. ASSUME NEW k \in received PROVE session'[k] = session[k] \/ session'[k].status # "trialing"
    <2>1. CASE UNCHANGED session
      BY <2>1
    <2>2. CASE \E s \in Signups : NewSession(s)
      BY <1>0, <2>2 DEF NewSession
    <2>3. CASE \E j \in Sessions : Pay(j)
      BY <1>0, <2>3 DEF Pay
    <2>4. CASE CheckoutDeny \/ CheckoutRefuse
      BY <1>0, <2>4 DEF CheckoutDeny, CheckoutRefuse, StartCreation
    <2>5. CASE Outside
      BY <2>1, <2>2, <2>3, <2>5 DEF Outside, Start, PurgeUnverified, Verify, CheckoutAgain, Retry, RetryQueues, Receive, NewTenant
    <2> QED BY <2>1, <2>4, <2>5, NextCases
        DEF Checkout, StartCheckout, CheckoutCard, StartCreation, Crash, StartCreate, NoteTenant, Provision, Publish, Link,
            Welcome, UndoRelay, UndoRows, vars
  <1> QED BY <1>1, <1>2, <1>3 DEF SessionsKeep

LEMMA CardsNext == Inv /\ CardsOK /\ [Next]_vars => CardsOK'
  <1> SUFFICES ASSUME Inv, CardsOK, [Next]_vars, NEW s \in Signups PROVE CardOK(s)'
    BY DEF CardsOK
  <1>0. /\ SessionsKeep /\ CardOK(s)
        /\ signup \in [Signups -> SignupRows] /\ signup[s] \in SignupRows
    BY SessionsKept DEF CardsOK, Inv, TypeOK
  <1>1. CASE signup'[s].sub \in {0, signup[s].sub}
    BY <1>0, <1>1, CardKept
  <1>2. CASE CheckoutCard \/ CheckoutDeny
    <2>0. /\ Payer \in Signups /\ work.job.session \in received
          /\ work.job.session \in Sessions /\ Paid.status \notin {"none", "open"}
      BY <1>2, SignupsAssumption DEF Inv, TypeOK, WorkOK, SignupsOK, JobOK, CheckoutPlaces, CheckoutCard, CheckoutDeny, At,
         Payer, Paid
    <2>1. CASE s # Payer \/ UNCHANGED signup
      <3>1. signup'[s] = signup[s]
        BY <1>0, <1>2, <2>1 DEF CheckoutCard, CheckoutDeny, Accept
      <3> QED BY <1>1, <3>1
    <2>2. CASE s = Payer /\ ~UNCHANGED signup
      <3>1. signup'[s].sub = work.job.session
        <4>1. \/ signup'[s] = [signup[s] EXCEPT !.status = "creating", !.reason = "none", !.sub = work.job.session]
              \/ signup'[s] = [signup[s] EXCEPT !.status = "failed", !.reason = "no card", !.sub = work.job.session]
          BY <1>0, <1>2, <2>2 DEF CheckoutCard, CheckoutDeny, Accept
        <4> QED BY <1>0, <2>0, <4>1 DEF SignupRows
      <3>2. work.job.session \in received'
        BY <1>0, <2>0 DEF SessionsKeep
      <3>3. CASE CheckoutCard
        <4>1. session' = session /\ cardOwner \in [Cards -> Signups \cup {None}]
          BY <3>3 DEF CheckoutCard, Inv, TypeOK
        <4>2. Paid.card \in Cards => cardOwner'[Paid.card] = s
          BY <2>2, <3>3, <4>1, CardsAssumption DEF CheckoutCard, CardSeen, None
        <4> QED BY <3>1, <3>2, <4>1, <4>2 DEF CardOK, Paid
      <3>4. CASE CheckoutDeny
        <4>1. session'[work.job.session].status = "active"
          BY <2>0, <2>2, <3>4 DEF CheckoutDeny, Inv, TypeOK
        <4> QED BY <3>1, <3>2, <4>1 DEF CardOK
      <3> QED BY <1>2, <3>3, <3>4
    <2> QED BY <2>1, <2>2
  <1> QED BY <1>1, <1>2, SubsKept

\* Two accounts never both run a trial on one card, for any number of
\* sign-ups and sessions.
THEOREM TrialsArePerCard == Spec => []OneTrialPerCard
  <1>1. Inv /\ CardsOK => OneTrialPerCard
    <2> SUFFICES ASSUME Inv, CardsOK, NEW card \in Cards, NEW s \in Signups, NEW r \in Signups,
                        Trialing(s, card), Trialing(r, card)
                 PROVE  s = r
      BY DEF OneTrialPerCard
    <2>1. cardOwner[card] = s
      BY DEF CardsOK, CardOK, Trialing, Billed
    <2>2. cardOwner[card] = r
      BY DEF CardsOK, CardOK, Trialing, Billed
    <2> QED BY <2>1, <2>2
  <1> QED BY <1>1, InitInv, InvNext, CardsInit, CardsNext, PTL DEF Spec

-----------------------------------------------------------------------------
(* No tenant is missing, and none is left half made. *)

\* Only the end of its creation makes a sign-up "created".
LEMMA CreatedByPublish ==
    ASSUME Inv, [Next]_vars, NEW s \in Signups, signup'[s] # signup[s], signup'[s].status = "created"
    PROVE  /\ Publish
           /\ SetTenant([Tenant EXCEPT !.admin = TRUE])
           /\ s = work.job.ref
           /\ signup'[s].tenant = work.tenant /\ signup'[s].slug = signup[s].slug
  <1>1. signup \in [Signups -> SignupRows] /\ signup[s] \in SignupRows
    BY DEF Inv, TypeOK
  <1>2. ~Outside
    <2>1. ASSUME Start(s) \/ PurgeUnverified(s) PROVE FALSE
      <3>1. \/ signup'[s] = NoSignup
            \/ \E slug \in Slugs : signup'[s] = [NoSignup EXCEPT !.status = "pending_verification", !.slug = slug]
        BY <1>1, <2>1 DEF Start, PurgeUnverified
      <3>2. \A slug : [NoSignup EXCEPT !.status = "pending_verification", !.slug = slug].status = "pending_verification"
        BY DEF NoSignup
      <3>3. NoSignup.status = "none"
        BY DEF NoSignup
      <3> QED BY <3>1, <3>2, <3>3
    <2>2. ASSUME Verify(s) \/ CheckoutAgain(s) \/ Retry(s) PROVE FALSE
      <3>1. \/ signup'[s] = [signup[s] EXCEPT !.status = "checkout"]
            \/ signup'[s] = [signup[s] EXCEPT !.status = "checkout", !.reason = "none", !.sub = 0]
            \/ signup'[s] = [signup[s] EXCEPT !.status = "creating", !.reason = "none"]
        BY <1>1, <2>2 DEF Verify, CheckoutAgain, Retry, RetryQueues
      <3> QED BY <1>1, <3>1 DEF SignupRows
    <2>3. ASSUME NEW r \in Signups, r # s,
                 Start(r) \/ PurgeUnverified(r) \/ Verify(r) \/ CheckoutAgain(r) \/ Retry(r) \/ RetryQueues(r)
          PROVE  FALSE
      BY <1>1, <2>3 DEF Start, PurgeUnverified, Verify, CheckoutAgain, Retry, RetryQueues
    <2> QED BY <2>1, <2>2, <2>3 DEF Outside, Pay, Receive, NewTenant, RetryQueues
  <1>3. ~Checkout
    <2>1. SUFFICES ASSUME CheckoutCard \/ CheckoutDeny PROVE FALSE
      BY DEF Checkout, StartCheckout, CheckoutRefuse, StartCreation
    <2>2. \/ signup'[s] = [signup[s] EXCEPT !.status = "creating", !.reason = "none", !.sub = work.job.session]
          \/ signup'[s] = [signup[s] EXCEPT !.status = "failed", !.reason = "no card", !.sub = work.job.session]
      BY <1>1, <2>1 DEF CheckoutCard, CheckoutDeny, Accept
    <2> QED BY <1>1, <2>2 DEF SignupRows
  <1>4. ~(StartCreate \/ UndoRows \/ Crash)
    <2>1. ASSUME NEW ref, CreationFailed(ref) PROVE FALSE
      <3>1. signup'[s] = [signup[s] EXCEPT !.status = "failed", !.reason = "creation", !.tenant = 0]
        BY <1>1, <2>1 DEF CreationFailed
      <3> QED BY <1>1, <3>1 DEF SignupRows
    <2> QED BY <2>1 DEF StartCreate, UndoRows, Crash, Restart
  <1>5. Publish
    BY <1>2, <1>3, <1>4, NextCases DEF NoteTenant, Provision, Link, Welcome, UndoRelay, vars
  <1>6. signup'[s] = [signup[s] EXCEPT !.status = "created", !.reason = "none", !.tenant = work.tenant]
        /\ s = work.job.ref /\ SetTenant([Tenant EXCEPT !.admin = TRUE])
    BY <1>1, <1>5 DEF Publish
  <1> QED BY <1>1, <1>5, <1>6 DEF SignupRows

\* A tenant's row goes only as the last step of its undo, and only when no
\* sign-up refers to it; and a step changes no row but its job's.
LEMMA RowsKept ==
    ASSUME Inv, [Next]_vars, NEW t \in Tenants
    PROVE  /\ t \in Tenants'
           /\ tenants'[t].slug = tenants[t].slug
           /\ tenants'[t].row # tenants[t].row => UndoRows /\ t = work.tenant /\ ~Linked
           /\ t # work.tenant => tenants'[t] = tenants[t]
  <1>0. /\ work \in WorkType /\ tenants \in Seq(TenantRows) /\ Len(tenants) \in Nat
        /\ tenants[t] \in TenantRows
    BY LenProperties DEF Inv, TypeOK, WorkType, Tenants
  <1>1. CASE UNCHANGED tenants
    BY <1>1 DEF Tenants
  <1>2. CASE Outside \/ Checkout \/ Crash \/ NoteTenant \/ Link \/ Welcome \/ UNCHANGED vars
    BY <1>1, <1>2, OutsideQuiet, CheckoutQuiet DEF Crash, NoteTenant, Link, Welcome, vars
  <1>3. CASE StartCreate /\ ~UNCHANGED tenants
    <2>1. PICK row : tenants' = Append(tenants, row)
      BY <1>3 DEF StartCreate
    <2>2. Len(tenants') = Len(tenants) + 1 /\ tenants'[t] = tenants[t]
      BY <1>0, <2>1, LenProperties DEF Tenants
    <2> QED BY <1>0, <2>2 DEF Tenants
  <1>4. ASSUME NEW row \in TenantRows, SetTenant(row), work.at \in CreatePlaces, row.slug = Tenant.slug,
               row.row # Tenant.row => UndoRows /\ ~Linked
        PROVE  /\ t \in Tenants'
               /\ tenants'[t].slug = tenants[t].slug
               /\ tenants'[t].row # tenants[t].row => UndoRows /\ t = work.tenant /\ ~Linked
               /\ t # work.tenant => tenants'[t] = tenants[t]
    <2>1. /\ Tenants' = Tenants /\ tenants'[work.tenant] = row
          /\ \A u \in Tenants \ {work.tenant} : tenants'[u] = tenants[u]
      BY <1>4, RowSet
    <2> QED BY <1>4, <2>1 DEF Tenant
  <1>5. CASE (Provision \/ Publish \/ UndoRelay \/ UndoRows) /\ ~UNCHANGED tenants
    <2>1. work.at \in CreatePlaces /\ Tenant \in TenantRows
      BY <1>5, CreatingOK DEF Provision, Publish, UndoRelay, UndoRows, At, CreatePlaces
    <2>2. PICK row : /\ SetTenant(row)
                     /\ \/ \E up \in BOOLEAN : row = [Tenant EXCEPT !.up = up]
                        \/ \E up \in BOOLEAN : BlocksLeft /\ row = [Tenant EXCEPT !.block = NextBlock, !.up = up]
                        \/ \E admin \in BOOLEAN : row = [Tenant EXCEPT !.admin = admin]
                        \/ UndoRows /\ ~Linked /\ row = [Tenant EXCEPT !.admin = FALSE, !.row = FALSE]
      BY <1>5 DEF Provision, Publish, UndoRelay, UndoRows
    <2>3. ASSUME NEW x \in BOOLEAN, row = [Tenant EXCEPT !.up = x] \/ row = [Tenant EXCEPT !.admin = x]
          PROVE  row \in TenantRows /\ row.slug = Tenant.slug /\ row.row = Tenant.row
      <3>1. row \in TenantRows
        BY <2>1, <2>3, TenantEdits
      <3> QED BY <2>1, <2>3, <3>1 DEF TenantRows
    <2>4. ASSUME row = [Tenant EXCEPT !.admin = FALSE, !.row = FALSE]
          PROVE  row \in TenantRows /\ row.slug = Tenant.slug
      <3>1. row \in TenantRows
        BY <2>1, <2>4, TenantEdits
      <3> QED BY <2>1, <2>4, <3>1 DEF TenantRows
    <2>5. ASSUME NEW x \in BOOLEAN, BlocksLeft, row = [Tenant EXCEPT !.block = NextBlock, !.up = x]
          PROVE  row \in TenantRows /\ row.slug = Tenant.slug /\ row.row = Tenant.row
      <3>1. NextBlock \in 0..Blocks
        BY <2>5, UsedType
      <3> QED BY <2>1, <2>5, <3>1 DEF TenantRows
    <2> QED BY <1>4, <2>1, <2>2, <2>3, <2>4, <2>5
  <1> QED BY <1>1, <1>2, <1>3, <1>5, NextCases

LEMMA CreatedNext ==
    Inv /\ MadeOK /\ CreatedHasTenant /\ [Next]_vars => CreatedHasTenant'
  <1> SUFFICES ASSUME Inv, MadeOK, CreatedHasTenant, [Next]_vars, NEW s \in Signups, signup'[s].status = "created"
               PROVE  /\ signup'[s].tenant \in Tenants'
                      /\ tenants'[signup'[s].tenant].row
                      /\ tenants'[signup'[s].tenant].slug = signup'[s].slug
    BY DEF CreatedHasTenant
  <1>1. CASE signup'[s] = signup[s]
    <2>1. signup[s].tenant \in Tenants /\ tenants[signup[s].tenant].row
          /\ tenants[signup[s].tenant].slug = signup[s].slug
      BY <1>1 DEF CreatedHasTenant
    <2>2. ~(signup[s].tenant = work.tenant /\ ~Linked)
      BY DEF Linked
    <2> QED BY <1>1, <2>1, <2>2, RowsKept
  <1>2. CASE signup'[s] # signup[s]
    <2>1. /\ Publish /\ SetTenant([Tenant EXCEPT !.admin = TRUE]) /\ s = work.job.ref
          /\ signup'[s].tenant = work.tenant /\ signup'[s].slug = signup[s].slug
      BY <1>2, CreatedByPublish
    <2>2. work.at = "publish" /\ work.at \in CreatePlaces
      BY <2>1 DEF Publish, At, CreatePlaces
    <2>3. work.tenant \in Tenants /\ work.job.slug = signup[s].slug
      BY <2>1, <2>2, SignupsAssumption DEF Inv, WorkOK, JobOK, CreatePlaces, Console
    <2>4. tenants[work.tenant].row /\ tenants[work.tenant].slug = work.job.slug
      BY <2>2 DEF MadeOK
    <2>5. ~UndoRows
      BY <2>2 DEF UndoRows, At
    <2> QED BY <2>1, <2>3, <2>4, <2>5, RowsKept
  <1> QED BY <1>1, <1>2

\* Whoever is told that their account is ready has a tenant, under the address
\* they asked for, whatever failed on the way.
THEOREM CreatedIsReal == Spec => []CreatedHasTenant
  <1>1. Init => CreatedHasTenant
    BY DEF Init, CreatedHasTenant, NoSignup
  <1> QED BY <1>1, InitInv, InvNext, MadeInit, MadeNext, CreatedNext, PTL DEF Spec

\* Only a finished creation and a finished undo let go of their tenant, and a
\* restart that finds a job whose row doesn't name it.
LEMMA LetGo ==
    ASSUME Inv, [Next]_vars, work.tenant \in Tenants, work'.tenant # work.tenant
    PROVE  Welcome \/ UndoRows \/ (Crash /\ At("note"))
  <1>0. work \in WorkType /\ work.tenant # 0 /\ Idle.tenant = 0
    BY DEF Inv, TypeOK, WorkType, Tenants, Idle
  <1>1. work.at \in CreatePlaces /\ work.job.kind = "create"
    BY <1>0 DEF Inv, TypeOK, WorkOK, Places, CheckoutPlaces, CreatePlaces
  <1>2. ~Outside /\ ~Checkout
    BY <1>0, OutsideQuiet, CheckoutQuiet
  <1>3. ~StartCreate
    BY <1>1 DEF StartCreate, Take, At, CreatePlaces
  <1>4. Crash => At("note")
    BY <1>0, <1>1 DEF Crash, Restart, WorkType, Do, At
  <1>5. ~(NoteTenant \/ Provision \/ Publish \/ Link \/ UndoRelay)
    BY <1>0 DEF NoteTenant, Provision, Publish, Link, UndoRelay, Do, WorkType
  <1> QED BY <1>2, <1>3, <1>4, <1>5, NextCases DEF vars

LEMMA LeftStep ==
    ASSUME Inv, MadeOK, [Next]_vars, NEW t \in Tenants, ~Unfinished(t), Unfinished(t)'
    PROVE  \/ \E s \in Signups : signup'[s].tenant = t
           \/ Crash /\ At("note") /\ work.tenant = t
  <1>1. tenants'[t].row /\ ~(tenants'[t].up /\ tenants'[t].admin) /\ work'.tenant # t
    BY DEF Unfinished
  <1>2. work.tenant = t
    BY <1>1, RowsKept DEF Unfinished
  <1>3. CASE Welcome
    BY <1>1, <1>2, <1>3 DEF Welcome, At, MadeOK
  <1>4. CASE UndoRows
    <2>1. work.at \in CreatePlaces /\ Tenant \in TenantRows
      BY <1>4, CreatingOK DEF UndoRows, At, CreatePlaces
    <2>2. CASE Linked
      BY <1>2, <1>4, <2>2 DEF UndoRows, Linked
    <2>3. CASE ~Linked
      <3>1. PICK row : row = [Tenant EXCEPT !.admin = FALSE, !.row = FALSE]
        OBVIOUS
      <3>2. row \in TenantRows
        BY <2>1, <3>1, TenantEdits
      <3>3. row.row = FALSE
        BY <2>1, <3>1 DEF TenantRows
      <3>4. tenants'[t] = row
        BY <1>2, <1>4, <2>1, <2>3, <3>1, <3>2, RowSet DEF UndoRows
      <3> QED BY <1>1, <3>3, <3>4
    <2> QED BY <2>2, <2>3
  <1>5. CASE Crash /\ At("note")
    BY <1>2, <1>5
  <1> QED BY <1>1, <1>2, <1>3, <1>4, <1>5, LetGo

\* A job that ends, or is cut off, leaves a half-made tenant in two ways only:
\* its sign-up refers to it already, or its own row doesn't name it yet.
THEOREM HalfMadeIsLinkedOrUnnoted == Spec => LeftInTwoWaysOnly
  <1>1. Inv /\ MadeOK /\ [Next]_vars =>
            [\A t \in Tenants : ~Unfinished(t) /\ Unfinished(t)' =>
                \/ \E s \in Signups : signup'[s].tenant = t
                \/ Crash /\ At("note") /\ work.tenant = t]_vars
    BY LeftStep
  <1> QED BY <1>1, InitInv, InvNext, MadeInit, MadeNext, PTL DEF Spec, LeftInTwoWaysOnly

=============================================================================
