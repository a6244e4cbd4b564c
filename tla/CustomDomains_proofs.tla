--------------------------- MODULE CustomDomains_proofs ---------------------------
(***************************************************************************)
(* CustomDomains implements DomainClaims, for any number of tenants, hosts,  *)
(* claims, days and disturbances.                                            *)
(*                                                                          *)
(* A step changes one row of an existing claim and keeps its id and tenant    *)
(* (OneRow), or is Add, Remove or PurgeRows, or leaves the rows alone.  That   *)
(* the thread and a request find the claim they read by its id needs that no   *)
(* id is given out twice, and that they never hold the id of no row: IInv.      *)
(***************************************************************************)
EXTENDS CustomDomains, TLAPS

Statuses == {"verifying", "pending_dns", "issuing_certificate", "active", "dns_broken", "failed"}
AnyRow == [id : Nat, tenant : Tenants \cup {None}, status : Statuses,
           created : Int, until : Int, next : Int, checked : Int, failures : Int, lastIssue : Int, broken : Int,
           verified : BOOLEAN, removing : BOOLEAN]
AnyItem == [kind : {"remove", "check", "health"}, host : Hosts, id : Nat \ {0}, tenant : Tenants]
\* A row of the same claim.
EditsOf(r) == {e \in AnyRow : e.id = r.id /\ e.tenant = r.tenant}
Out == {"dns", "cert", "vhost", "reload", "release"}

\* A row that is there has a tenant, one that isn't has none and isn't served.
RowsOK ==
    /\ row \in [Hosts -> AnyRow]
    /\ \A h \in Hosts : Exists(h) <=> row[h].tenant \in Tenants
    /\ \A h \in Hosts : ~Exists(h) => ~Served(row[h])

\* The thread is out for a claim it has read.
WorkerOK ==
    /\ worker \in [at : {"idle", "next"} \cup Out, t : Int, todo : SUBSET AnyItem, kind : {None, "remove", "check", "health"},
                   host : Hosts \cup {None}, row : AnyRow, primary : BOOLEAN]
    /\ worker.at \in Out => worker.host \in Hosts /\ worker.row.id # 0

Requests == [act : {"none", "add", "check", "primary"}, host : Hosts \cup {Home, None}, id : Nat, was : BOOLEAN]

\* What a request has read: no id is given out twice, so a row of that id is the claim it read.
RequestOK(t) ==
    LET q == page[t] IN
    /\ q.id <= lastId
    /\ q.act = "add" => /\ q.host \in Hosts
                        /\ Exists(q.host) /\ row[q.host].id = q.id => row[q.host].tenant # t
    /\ q.act = "check" \/ (q.act = "primary" /\ q.host # Home) =>
          /\ q.host \in Hosts /\ q.id # 0
          /\ row[q.host].id = q.id => row[q.host].tenant = t

PagesOK ==
    /\ page \in [Tenants -> Requests]
    /\ \A h \in Hosts : row[h].id <= lastId
    /\ \A t \in Tenants : RequestOK(t)

IInv ==
    /\ RowsOK
    /\ WorkerOK
    /\ PagesOK
    /\ now \in Nat /\ lastId \in Nat
    /\ purge \in [tenant : Tenants \cup {None}, hosts : SUBSET Hosts]

\* A host's claim goes on, or ends, or is a new one.
ClaimsGoOn ==
    \A h \in Hosts : \/ row'[h].id = row[h].id /\ row'[h].tenant = row[h].tenant
                     \/ row'[h].id = 0
                     \/ row'[h].id = lastId' /\ lastId' = lastId + 1

ClaimsStep == [Claims!ClaimsNext]_(Claims!claims) /\ ClaimsGoOn

\* No request begins or ends to add a domain.
AddsKept ==
    \A t \in Tenants : /\ page[t].act = "add" \/ page'[t].act = "add" => page'[t] = page[t]

-----------------------------------------------------------------------------

LEMMA SamePage == page' = page => AddsKept
BY DEF AddsKept

\* Then the hosts eyed are those whose claims go on.
LEMMA EyedKept ==
    ASSUME AddsKept, NEW gone \in SUBSET Hosts,
           \A h \in gone : row'[h].id = 0,
           \A h \in Hosts \ gone : row'[h].id = row[h].id
    PROVE  Eyed' = Eyed \ gone
BY DEF AddsKept, Eyed, Exists

\* A step that leaves the rows alone stutters.
LEMMA Stutters ==
    ASSUME row' = row, AddsKept
    PROVE  (RowsOK => RowsOK') /\ ClaimsStep
<1>1. Eyed' = Eyed
  <2>1. Eyed' = Eyed \ {}
    <3> {} \in SUBSET Hosts
      OBVIOUS
    <3> QED
      BY EyedKept
  <2> QED
    BY <2>1
<1> QED
  BY <1>1 DEF RowsOK, ClaimsStep, ClaimsGoOn, Claims!claims, Exists, Served

\* A step that changes the row of a claim, but not whose claim it is, puts its host in service or out of it.
LEMMA OneRow ==
    ASSUME RowsOK, NEW g \in Hosts, Exists(g), NEW new \in EditsOf(row[g]),
           row' = [row EXCEPT ![g] = new], AddsKept
    PROVE  RowsOK' /\ ClaimsStep
<1>1. /\ row' \in [Hosts -> AnyRow]
      /\ row'[g] = new /\ \A h \in Hosts \ {g} : row'[h] = row[h]
      /\ new.id = row[g].id /\ new.tenant = row[g].tenant
  BY DEF RowsOK, EditsOf
<1>2. RowsOK'
  BY <1>1 DEF RowsOK, Exists
<1>3. [h \in Hosts |-> row'[h].tenant] = [h \in Hosts |-> row[h].tenant] /\ ClaimsGoOn
  BY <1>1 DEF ClaimsGoOn
<1>7. Eyed' = Eyed
  <2>1. Eyed' = Eyed \ {}
    <3> {} \in SUBSET Hosts /\ \A h \in Hosts \ {} : row'[h].id = row[h].id
      BY <1>1
    <3> QED
      BY EyedKept
  <2> QED
    BY <2>1
<1>4. row[g].tenant \in Tenants /\ row[g].tenant # None
  BY NamesAssumption DEF RowsOK, None
<1>5. CASE Served(new)
  <2>1. {h \in Hosts : Served(row'[h])} = {h \in Hosts : Served(row[h])} \cup {g}
    BY <1>1, <1>5 DEF Served
  <2>2. Claims!Serve(g)
    BY <2>1, <1>3, <1>4, <1>7 DEF Claims!Serve, Served
  <2> QED
    BY <1>2, <1>3, <2>2 DEF ClaimsStep, Claims!ClaimsNext
<1>6. CASE ~Served(new)
  <2>1. {h \in Hosts : Served(row'[h])} = {h \in Hosts : Served(row[h])} \ {g}
    BY <1>1, <1>6 DEF Served
  <2>2. Claims!GiveUp(g)
    BY <2>1, <1>3, <1>7 DEF Claims!GiveUp, Served
  <2> QED
    BY <1>2, <1>3, <2>2 DEF ClaimsStep, Claims!ClaimsNext
<1> QED
  BY <1>5, <1>6

LEMMA NotHosts == None \notin Hosts /\ Home \notin Hosts /\ None \notin Tenants
BY NamesAssumption DEF None, Home

\* Values of rows.
LEMMA RowValues ==
    /\ NoRow \in AnyRow /\ NoRow.id = 0 /\ NoRow.tenant = None /\ NoRow.status = "failed"
    /\ Never \in Int /\ NotDue \in Int
    /\ \A k \in {MaxTime, PendingDays, CheckEvery, IssueEvery, RetryEvery, MaxIssueFailures} : k \in Int
BY NumbersAssumption DEF NoRow, AnyRow, Statuses, None, Never, NotDue

\* What the pages and the thread write to a row leaves it the same claim's.
LEMMA Edits ==
    ASSUME NEW r \in AnyRow, NEW x \in Int, NEW y \in Int, NEW z \in Int, NEW s \in Statuses
    PROVE  /\ [r EXCEPT !.next = x] \in EditsOf(r)
           /\ [r EXCEPT !.lastIssue = x] \in EditsOf(r)
           /\ [r EXCEPT !.status = s] \in EditsOf(r)
           /\ [r EXCEPT !.removing = TRUE, !.next = x] \in EditsOf(r)
           /\ [r EXCEPT !.status = s, !.next = x] \in EditsOf(r)
           /\ [r EXCEPT !.status = s, !.next = x, !.until = y, !.failures = z] \in EditsOf(r)
           /\ [r EXCEPT !.checked = x, !.status = s, !.next = y] \in EditsOf(r)
           /\ [r EXCEPT !.checked = x, !.status = s, !.next = y, !.lastIssue = z] \in EditsOf(r)
           /\ [r EXCEPT !.failures = x, !.status = s, !.next = y] \in EditsOf(r)
           /\ [r EXCEPT !.status = s, !.verified = TRUE, !.failures = x, !.next = y, !.broken = z] \in EditsOf(r)
           /\ [r EXCEPT !.checked = x, !.next = y] \in EditsOf(r)
           /\ [r EXCEPT !.status = s, !.broken = x] \in EditsOf(r)
<1>1. [r EXCEPT !.next = x] \in EditsOf(r)
  BY DEF AnyRow, EditsOf
<1>2. [r EXCEPT !.lastIssue = x] \in EditsOf(r)
  BY DEF AnyRow, EditsOf
<1>3. [r EXCEPT !.status = s] \in EditsOf(r)
  BY DEF AnyRow, EditsOf
<1>4. [r EXCEPT !.removing = TRUE, !.next = x] \in EditsOf(r)
  BY DEF AnyRow, EditsOf
<1>5. [r EXCEPT !.status = s, !.next = x] \in EditsOf(r)
  BY DEF AnyRow, EditsOf
<1>6. [r EXCEPT !.status = s, !.next = x, !.until = y, !.failures = z] \in EditsOf(r)
  BY DEF AnyRow, EditsOf
<1>7. [r EXCEPT !.checked = x, !.status = s, !.next = y] \in EditsOf(r)
  BY DEF AnyRow, EditsOf
<1>8. [r EXCEPT !.checked = x, !.status = s, !.next = y, !.lastIssue = z] \in EditsOf(r)
  BY DEF AnyRow, EditsOf
<1>9. [r EXCEPT !.failures = x, !.status = s, !.next = y] \in EditsOf(r)
  BY DEF AnyRow, EditsOf
<1>10. [r EXCEPT !.status = s, !.verified = TRUE, !.failures = x, !.next = y, !.broken = z] \in EditsOf(r)
  BY DEF AnyRow, EditsOf
<1>11. [r EXCEPT !.checked = x, !.next = y] \in EditsOf(r)
  BY DEF AnyRow, EditsOf
<1>12. [r EXCEPT !.status = s, !.broken = x] \in EditsOf(r)
  BY DEF AnyRow, EditsOf
<1> QED
  BY <1>1, <1>2, <1>3, <1>4, <1>5, <1>6, <1>7, <1>8, <1>9, <1>10, <1>11, <1>12

\* UPDATE ... WHERE id = r.id, with whose claim it is unchanged.
LEMMA Updates ==
    ASSUME RowsOK, NEW g \in Hosts, NEW r, r.id # 0, NEW new \in EditsOf(row[g]),
           Update(g, r, new), AddsKept
    PROVE  RowsOK' /\ ClaimsStep
<1>1. CASE row[g].id = r.id
  BY <1>1, OneRow DEF Update, Exists
<1>2. CASE row[g].id # r.id
  BY <1>2, Stutters DEF Update
<1> QED
  BY <1>1, <1>2

\* The rows of a tenant's claims go.
LEMMA LetGoStep ==
    ASSUME RowsOK, NEW t \in Tenants, NEW gone \in SUBSET Hosts, \A h \in gone : row[h].tenant = t,
           row' = [h \in Hosts |-> IF h \in gone THEN NoRow ELSE row[h]], AddsKept
    PROVE  RowsOK' /\ ClaimsStep
<1>1. row' \in [Hosts -> AnyRow]
  BY RowValues DEF RowsOK
<1>2. /\ \A h \in gone : row'[h] = NoRow
      /\ \A h \in Hosts \ gone : row'[h] = row[h]
  OBVIOUS
<1>3. \A h \in gone : ~Served(row'[h]) /\ row'[h].id = 0 /\ row'[h].tenant = None
  BY <1>2, RowValues DEF Served
<1>4. None \notin Tenants
  BY NamesAssumption DEF None
<1>5. RowsOK'
  <2>1. \A h \in Hosts : row'[h].id # 0 <=> row'[h].tenant \in Tenants
    BY <1>2, <1>3, <1>4 DEF RowsOK, Exists
  <2>2. \A h \in Hosts : row'[h].id = 0 => ~Served(row'[h])
    BY <1>2, <1>3 DEF RowsOK, Exists
  <2> QED
    BY <1>1, <2>1, <2>2 DEF RowsOK, Exists, Served
<1>6. [h \in Hosts |-> row'[h].tenant] =
         [h \in Hosts |-> IF h \in gone THEN None ELSE [g \in Hosts |-> row[g].tenant][h]]
  BY <1>2, <1>3
<1>7. {h \in Hosts : Served(row'[h])} = {h \in Hosts : Served(row[h])} \ gone
  BY <1>2, <1>3 DEF Served
<1>9. Eyed' = Eyed \ gone /\ ClaimsGoOn
  BY <1>2, <1>3, EyedKept DEF ClaimsGoOn
<1>8. Claims!LetGo(t, gone)
  BY <1>6, <1>7, <1>9 DEF Claims!LetGo, Served
<1> QED
  BY <1>5, <1>8, <1>9 DEF ClaimsStep, Claims!ClaimsNext

-----------------------------------------------------------------------------
(* The pages. *)

\* A request that reads changes no row; only one to add a domain sets an eye on it.
LEMMA AskAddStep ==
    ASSUME IInv, NEW t \in Tenants, NEW g \in Hosts, AskAdd(t, g)
    PROVE  RowsOK' /\ ClaimsStep
<1> DEFINE q == [act |-> "add", host |-> g, id |-> row[g].id, was |-> FALSE]
<1>0. g # Home /\ Asks(t, "add", g, FALSE)
  BY NotHosts DEF AskAdd
<1>1. row' = row /\ page' = [page EXCEPT ![t] = q] /\ page[t].act = "none"
  BY <1>0 DEF Asks, NoRequest
<1>2. page'[t] = q /\ \A u \in Tenants \ {t} : page'[u] = page[u]
  BY <1>1 DEF IInv, PagesOK
<1>3. Eyed' = IF Exists(g) THEN Eyed \cup {g} ELSE Eyed
  <2>1. \A h \in Hosts : h \in Eyed' <=> h \in Eyed \/ (h = g /\ Exists(g))
    BY <1>1, <1>2 DEF Eyed, Exists
  <2> QED
    BY <2>1 DEF Eyed
<1>4. ~Served(row[g])
  BY DEF AskAdd, Released, Served, Pending, IInv, RowsOK
<1>5. RowsOK' /\ ClaimsGoOn
  BY <1>1 DEF IInv, RowsOK, Exists, ClaimsGoOn, Served
<1>6. CASE Exists(g)
  <2>1. Claims!SetEye(g)
    BY <1>1, <1>3, <1>4, <1>6 DEF Claims!SetEye, Served
  <2> QED
    BY <1>5, <2>1 DEF ClaimsStep, Claims!ClaimsNext
<1>7. CASE ~Exists(g)
  BY <1>1, <1>3, <1>5, <1>7 DEF ClaimsStep, Claims!claims, Served
<1> QED
  BY <1>6, <1>7

LEMMA AskStep ==
    ASSUME IInv, NEW t \in Tenants, NEW h, AskCheck(t, h) \/ AskPrimary(t, h)
    PROVE  RowsOK' /\ ClaimsStep
<1>1. PICK q : q.act # "add" /\ page' = [page EXCEPT ![t] = q] /\ page[t].act = "none" /\ row' = row
  BY DEF AskCheck, AskPrimary, Asks, NoRequest
<1>2. AddsKept
  BY <1>1 DEF AddsKept, IInv, PagesOK
<1> QED
  BY <1>1, <1>2, Stutters DEF IInv

\* A request that is done leaves its tenant's page.
LEMMA Answered ==
    ASSUME IInv, NEW t \in Tenants, NEW act, Asked(t, act)
    PROVE  /\ page[t].act = act /\ page'[t] = NoRequest /\ \A u \in Tenants \ {t} : page'[u] = page[u]
           /\ act # "add" => AddsKept
BY DEF Asked, IInv, PagesOK, AddsKept, NoRequest

\* An add that is refused forgets what it saw.
LEMMA RefusedStep ==
    ASSUME IInv, NEW t \in Tenants, Asked(t, "add"), row' = row
    PROVE  RowsOK' /\ ClaimsStep
<1> DEFINE g == page[t].host
<1>1. g \in Hosts /\ page'[t].act = "none" /\ \A u \in Tenants \ {t} : page'[u] = page[u]
  BY Answered DEF IInv, PagesOK, RequestOK, NoRequest
<1>2. RowsOK' /\ ClaimsGoOn
  BY DEF IInv, RowsOK, Exists, ClaimsGoOn, Served
<1>3. \A h \in Hosts \ {g} : h \in Eyed' <=> h \in Eyed
  BY <1>1, Answered DEF Eyed, Exists
<1>4. Eyed' \subseteq Eyed
  BY <1>1 DEF Eyed, Exists
<1>5. Eyed' = Eyed \/ Eyed' = Eyed \ {g}
  <2> Eyed \subseteq Hosts
    BY DEF Eyed
  <2> HIDE DEF g
  <2> QED
    BY <1>3, <1>4
<1>6. Claims!Forget(g) \/ UNCHANGED Claims!claims
  BY <1>5 DEF Claims!Forget, Claims!claims, Served
<1> QED
  BY <1>1, <1>2, <1>6 DEF ClaimsStep, Claims!ClaimsNext

LEMMA AddStep ==
    ASSUME IInv, NEW t \in Tenants, Add(t)
    PROVE  RowsOK' /\ ClaimsStep
<1> DEFINE g == page[t].host
           new == [NoRow EXCEPT !.id = lastId', !.tenant = t, !.status = "verifying", !.created = now,
                                !.until = now + PendingDays, !.next = now]
<1>a. CASE ~Claimable(t)
  BY <1>a, RefusedStep DEF Add
<1>b. CASE Claimable(t)
  <2>1. row' = [row EXCEPT ![g] = new] /\ lastId' = lastId + 1 /\ lastId \in Nat
    BY <1>b DEF Add, IInv
  <2>2. /\ new \in AnyRow /\ new.id = lastId' /\ new.tenant = t /\ ~Served(new)
    <3>1. now \in Int /\ now + PendingDays \in Int
      BY RowValues DEF IInv
    <3> lastId' \in Nat /\ t \in Tenants \cup {None} /\ "verifying" \in Statuses /\ NoRow \in AnyRow
      BY <2>1, RowValues DEF Statuses
    <3>2. new \in AnyRow
      BY <3>1 DEF AnyRow
    <3>3. new.id = lastId' /\ new.tenant = t /\ new.status = "verifying"
      BY DEF AnyRow
    <3> QED
      BY <3>2, <3>3 DEF Served
  <2>0. /\ g \in Hosts /\ RowsOK /\ page[t].act = "add"
        /\ page'[t].act = "none" /\ \A u \in Tenants \ {t} : page'[u] = page[u]
        /\ Exists(g) => row[g].id = page[t].id /\ row[g].tenant # t
    BY <1>b, Answered DEF Add, IInv, PagesOK, RequestOK, NoRequest, Claimable
  <2> HIDE DEF new
  <2>3. /\ row' \in [Hosts -> AnyRow]
        /\ row'[g] = new /\ \A h \in Hosts \ {g} : row'[h] = row[h]
    BY <2>0, <2>1, <2>2 DEF RowsOK
  <2>4. RowsOK' /\ ClaimsGoOn
    BY <2>0, <2>1, <2>2, <2>3 DEF RowsOK, Exists, ClaimsGoOn
  <2>5. g \notin {h \in Hosts : Served(row[h])} \/ g \in Eyed
    BY <2>0 DEF Eyed, RowsOK
  <2>6. row[g].tenant # t
    BY <2>0, NotHosts DEF RowsOK
  <2>7. [h \in Hosts |-> row'[h].tenant] = [[h \in Hosts |-> row[h].tenant] EXCEPT ![g] = t]
    BY <2>0, <2>2, <2>3
  <2>8. {h \in Hosts : Served(row'[h])} = {h \in Hosts : Served(row[h])} \ {g}
    BY <2>2, <2>3 DEF Served
  <2>9. Eyed' = Eyed \ {g}
    <3>1. \A u \in Tenants : page'[u].act = "add" => page'[u].id # row'[g].id
      BY <2>0, <2>1, <2>2, <2>3 DEF IInv, PagesOK, Requests, RequestOK
    <3>2. g \notin Eyed'
      BY <3>1 DEF Eyed
    <3>3. \A h \in Hosts \ {g} : h \in Eyed' <=> h \in Eyed
      BY <2>0, <2>3 DEF Eyed, Exists
    <3> QED
      BY <3>2, <3>3 DEF Eyed
  <2> HIDE DEF g
  <2>10. PICK h \in Hosts : h = g
    BY <2>0
  <2>11. Claims!Claim(t, h)
    BY <2>0, <2>5, <2>6, <2>7, <2>8, <2>9, <2>10 DEF Claims!Claim, Served
  <2>12. Claims!ClaimsNext
    BY <2>11 DEF Claims!ClaimsNext
  <2> QED
    BY <2>4, <2>12 DEF ClaimsStep
<1> QED
  BY <1>a, <1>b

LEMMA CheckNowStep ==
    ASSUME IInv, NEW t \in Tenants, CheckNow(t)
    PROVE  RowsOK' /\ ClaimsStep
<1> DEFINE g == page[t].host
           new == IF page[t].was THEN [row[g] EXCEPT !.next = now]
                  ELSE [row[g] EXCEPT !.status = "verifying", !.next = now, !.until = now + PendingDays, !.failures = 0]
<1>1. g \in Hosts /\ page[t].id # 0 /\ AddsKept
  BY Answered DEF CheckNow, IInv, PagesOK, RequestOK
<1>2. row[g] \in AnyRow /\ now \in Int /\ now + PendingDays \in Int /\ RowsOK
  BY <1>1, RowValues DEF IInv, RowsOK
<1>3. /\ [row[g] EXCEPT !.next = now] \in EditsOf(row[g])
      /\ [row[g] EXCEPT !.status = "verifying", !.next = now, !.until = now + PendingDays, !.failures = 0]
            \in EditsOf(row[g])
  <2> "verifying" \in Statuses /\ 0 \in Int
    BY DEF Statuses
  <2> QED
    BY <1>2, Edits
<1>4. Update(g, page[t], new)
  BY DEF CheckNow
<1>5. new \in EditsOf(row[g])
  BY <1>3
<1> HIDE DEF new, g
<1> QED
  BY <1>1, <1>2, <1>4, <1>5, Updates

LEMMA RequestRemovalStep ==
    ASSUME IInv, NEW g \in Hosts, RequestRemoval(g)
    PROVE  RowsOK' /\ ClaimsStep
<1> DEFINE new == [row[g] EXCEPT !.removing = TRUE, !.next = now]
<1>1. new \in EditsOf(row[g])
  <2> row[g] \in AnyRow /\ now \in Int /\ "verifying" \in Statuses
    BY DEF IInv, RowsOK, Statuses
  <2> QED
    BY Edits
<1>2. row' = [row EXCEPT ![g] = new] /\ Exists(g) /\ RowsOK /\ AddsKept
  BY DEF RequestRemoval, IInv, AddsKept
<1> QED
  BY <1>1, <1>2, OneRow

-----------------------------------------------------------------------------
(* The thread. *)

LEMMA NextItems ==
    ASSUME WorkerOK, NEW rest \in SUBSET AnyItem, NextItem(rest)
    PROVE  WorkerOK'
<1>1. Idle \in [at : {"idle", "next"} \cup Out, t : Int, todo : SUBSET AnyItem, kind : {None, "remove", "check", "health"},
                host : Hosts \cup {None}, row : AnyRow, primary : BOOLEAN]
  BY RowValues DEF Idle
<1> QED
  BY <1>1 DEF WorkerOK, NextItem, Idle, Out

LEMMA Moves ==
    ASSUME WorkerOK, NEW place \in Out, worker.at \in Out, worker' = [worker EXCEPT !.at = place]
    PROVE  WorkerOK'
BY DEF WorkerOK, Out

LEMMA Rests ==
    ASSUME WorkerOK
    PROVE  (worker' = Idle => WorkerOK') /\ (ItemDone => WorkerOK')
<1>1. {} \in SUBSET AnyItem /\ worker.todo \in SUBSET AnyItem
  BY DEF WorkerOK
<1> QED
  BY <1>1, NextItems DEF NextItem, ItemDone

LEMMA WakeStep ==
    ASSUME IInv, Wake
    PROVE  WorkerOK'
<1>1. \A h \in Hosts, kind \in {"remove", "check", "health"} : Exists(h) => Item(kind, h) \in AnyItem
  BY DEF IInv, RowsOK, AnyRow, AnyItem, Item, Exists
<1>2. Due \in SUBSET AnyItem
  BY <1>1 DEF Due, ToRemove
<1> QED
  <2>1. worker' = [at |-> "next", t |-> now, todo |-> Due, kind |-> None, host |-> None, row |-> NoRow,
                   primary |-> FALSE]
    BY DEF Wake, Idle
  <2> QED
    BY <1>2, <2>1, RowValues DEF WorkerOK, Out, IInv

LEMMA BeginStep ==
    ASSUME IInv, Begin
    PROVE  RowsOK' /\ WorkerOK' /\ ClaimsStep
<1> AddsKept
  BY SamePage DEF Begin
<1> PICK item \in worker.todo :
      \/ /\ NextItem(worker.todo \ {item})
         /\ row' = row
      \/ /\ StillThere(item) /\ (Go(item, "release") \/ Go(item, "dns"))
         /\ row' = row
      \/ /\ StillThere(item)
         /\ row' = [row EXCEPT ![item.host] = [@ EXCEPT !.status = "failed", !.next = NotDue]]
         /\ NextItem(worker.todo \ {item})
      \/ /\ StillThere(item) /\ row[item.host].lastIssue # Never
         /\ row' = [row EXCEPT ![item.host] = [@ EXCEPT !.next = row[item.host].lastIssue + IssueEvery]]
         /\ NextItem(worker.todo \ {item})
      \/ /\ StillThere(item)
         /\ row' = [row EXCEPT ![item.host] = [@ EXCEPT !.lastIssue = worker.t]]
         /\ Go(item, "cert")
  BY DEF Begin
<1>1. item \in AnyItem /\ worker.todo \ {item} \in SUBSET AnyItem /\ item.host \in Hosts /\ item.id # 0
  BY DEF IInv, WorkerOK, AnyItem
<1>2. row[item.host] \in AnyRow /\ (StillThere(item) => Exists(item.host)) /\ RowsOK /\ WorkerOK
  BY <1>1 DEF IInv, RowsOK, StillThere, Exists
<1>3. NextItem(worker.todo \ {item}) => WorkerOK'
  BY <1>1, <1>2, NextItems
<1>4. ASSUME NEW place \in {"release", "dns", "cert"}, Go(item, place), StillThere(item)
      PROVE  WorkerOK'
  BY ZenonT(60), <1>1, <1>2, <1>4 DEF WorkerOK, Go, Out, AnyItem, Exists
<1>5. ASSUME NEW new \in EditsOf(row[item.host]), StillThere(item), row' = [row EXCEPT ![item.host] = new]
      PROVE  RowsOK' /\ ClaimsStep
  BY <1>1, <1>2, <1>5, OneRow
<1>6. /\ [row[item.host] EXCEPT !.status = "failed", !.next = NotDue] \in EditsOf(row[item.host])
      /\ [row[item.host] EXCEPT !.next = row[item.host].lastIssue + IssueEvery] \in EditsOf(row[item.host])
      /\ [row[item.host] EXCEPT !.lastIssue = worker.t] \in EditsOf(row[item.host])
  <2> row[item.host].lastIssue \in Int /\ worker.t \in Int
    BY <1>2 DEF AnyRow, WorkerOK
  <2> "failed" \in Statuses /\ row[item.host].lastIssue + IssueEvery \in Int /\ NotDue \in Int
    BY RowValues DEF Statuses
  <2> QED
    BY <1>2, Edits
<1>7. row' = row => RowsOK' /\ ClaimsStep
  BY <1>2, Stutters
<1> QED
  BY <1>3, <1>4, <1>5, <1>6, <1>7

\* What the thread knows while it is out.
LEMMA OutFacts ==
    ASSUME IInv, worker.at \in Out
    PROVE  /\ RowsOK /\ WorkerOK
           /\ worker.host \in Hosts /\ worker.row.id # 0 /\ worker.t \in Int
           /\ row[worker.host] \in AnyRow
BY DEF IInv, RowsOK, WorkerOK

LEMMA Numbers == \A x \in Int : x + CheckEvery \in Int /\ x + IssueEvery \in Int /\ x + RetryEvery \in Int
BY NumbersAssumption

LEMMA CheckDnsStep ==
    ASSUME IInv, CheckDns
    PROVE  RowsOK' /\ WorkerOK' /\ ClaimsStep
<1> AddsKept
  BY SamePage DEF CheckDns
<1> DEFINE g == worker.host
           t == worker.t
           good == [row[g] EXCEPT !.checked = t, !.status = "issuing_certificate", !.next = t, !.lastIssue = t]
           bad == [row[g] EXCEPT !.checked = t, !.status = "pending_dns", !.next = t + CheckEvery]
<1>1. worker.at \in Out
  BY DEF CheckDns, Out
<1>2. good \in EditsOf(row[g]) /\ bad \in EditsOf(row[g])
  <2> t \in Int /\ t + CheckEvery \in Int /\ row[g] \in AnyRow
    BY <1>1, OutFacts, Numbers
  <2> "issuing_certificate" \in Statuses /\ "pending_dns" \in Statuses
    BY DEF Statuses
  <2> QED
    BY Edits
<1>3. CASE Update(g, worker.row, good) /\ worker' = [worker EXCEPT !.at = "cert"]
  <2> "cert" \in Out
    BY DEF Out
  <2> HIDE DEF good, g
  <2> QED
    BY <1>1, <1>2, <1>3, OutFacts, Updates, Moves DEF g
<1>4. CASE Update(g, worker.row, bad) /\ ItemDone
  <2> HIDE DEF bad, g
  <2> QED
    BY <1>1, <1>2, <1>4, OutFacts, Updates, Rests DEF g
<1> QED
  BY <1>3, <1>4 DEF CheckDns

LEMMA IssueFailedStep ==
    ASSUME IInv, worker.at \in Out, IssueFailed, AddsKept
    PROVE  RowsOK' /\ WorkerOK' /\ ClaimsStep
<1> DEFINE g == worker.host
           n == row[g].failures + 1
           new == [row[g] EXCEPT !.failures = n,
                                 !.status = IF n >= MaxIssueFailures THEN "failed" ELSE "issuing_certificate",
                                 !.next = IF n >= MaxIssueFailures THEN NotDue ELSE worker.t + IssueEvery]
<1>1. CASE row[g].id # worker.row.id
  BY <1>1, OutFacts, Rests, Stutters DEF IssueFailed
<1>2. CASE row[g].id = worker.row.id
  <2>1. row' = [row EXCEPT ![g] = new] /\ ItemDone
    BY <1>2 DEF IssueFailed
  <2>2. new \in EditsOf(row[g])
    <3>1. /\ row[g] \in AnyRow /\ n \in Int
          /\ (IF n >= MaxIssueFailures THEN "failed" ELSE "issuing_certificate") \in Statuses
      BY OutFacts DEF AnyRow, Statuses
    <3>2. (IF n >= MaxIssueFailures THEN NotDue ELSE worker.t + IssueEvery) \in Int
      BY OutFacts, Numbers, RowValues
    <3> QED
      BY <3>1, <3>2, Edits
  <2>3. Exists(g)
    BY <1>2, OutFacts DEF Exists
  <2> HIDE DEF new
  <2> QED
    BY <2>1, <2>2, <2>3, OutFacts, OneRow, Rests
<1> QED
  BY <1>1, <1>2

LEMMA IssueCertStep ==
    ASSUME IInv, IssueCert
    PROVE  RowsOK' /\ WorkerOK' /\ ClaimsStep
<1> AddsKept
  BY SamePage DEF IssueCert
<1>1. worker.at \in Out /\ "vhost" \in Out
  BY DEF IssueCert, Out
<1>2. CASE row' = row /\ worker' = [worker EXCEPT !.at = "vhost"]
  BY <1>1, <1>2, OutFacts, Stutters, Moves
<1> QED
  BY <1>1, <1>2, IssueFailedStep DEF IssueCert

LEMMA WriteVhostStep ==
    ASSUME IInv, WriteVhost
    PROVE  RowsOK' /\ WorkerOK' /\ ClaimsStep
<1> AddsKept
  BY SamePage DEF WriteVhost
<1>1. worker.at \in Out /\ "reload" \in Out
  BY DEF WriteVhost, Out
<1>2. CASE row' = row /\ worker' = [worker EXCEPT !.at = "reload"]
  BY <1>1, <1>2, OutFacts, Stutters, Moves
<1> QED
  BY <1>1, <1>2, IssueFailedStep DEF WriteVhost

LEMMA ReloadStep ==
    ASSUME IInv, Reload
    PROVE  RowsOK' /\ WorkerOK' /\ ClaimsStep
<1> AddsKept
  BY SamePage DEF Reload
<1> DEFINE g == worker.host
           new == [row[g] EXCEPT !.status = "active", !.verified = TRUE, !.failures = 0, !.next = NotDue, !.broken = Never]
<1>1. worker.at \in Out
  BY DEF Reload, Out
<1>2. new \in EditsOf(row[g])
  <2> row[g] \in AnyRow /\ "active" \in Statuses /\ 0 \in Int /\ NotDue \in Int /\ Never \in Int
    BY <1>1, OutFacts, RowValues DEF Statuses
  <2> QED
    BY Edits
<1>3. ASSUME Activate(g), ItemDone
      PROVE  RowsOK' /\ WorkerOK' /\ ClaimsStep
  <2>1. row' = IF row[g].id = worker.row.id THEN [row EXCEPT ![g] = new] ELSE row
    BY <1>3 DEF Activate, Activated
  <2>2. Update(g, worker.row, new)
    BY <2>1 DEF Update
  <2> HIDE DEF new, g
  <2> QED
    BY <1>1, <1>2, <1>3, <2>2, OutFacts, Updates, Rests DEF g
<1> QED
  BY <1>1, <1>3, IssueFailedStep DEF Reload

LEMMA HealthDnsStep ==
    ASSUME IInv, HealthDns
    PROVE  RowsOK' /\ WorkerOK' /\ ClaimsStep
<1> AddsKept
  BY SamePage DEF HealthDns
<1> DEFINE g == worker.host
           t == worker.t
           seen == [row[g] EXCEPT !.checked = t, !.next = NotDue]
           restored == [seen EXCEPT !.status = "active", !.broken = Never]
           broken == [seen EXCEPT !.status = "dns_broken", !.broken = t]
<1>1. worker.at \in Out /\ "release" \in Out
  BY DEF HealthDns, Out
<1>2. /\ row[g] \in AnyRow /\ t \in Int /\ NotDue \in Int /\ Never \in Int
      /\ "active" \in Statuses /\ "dns_broken" \in Statuses
  BY <1>1, OutFacts, RowValues DEF Statuses
<1>3. seen \in EditsOf(row[g])
  BY <1>2, Edits
<1>4. restored \in EditsOf(seen) /\ broken \in EditsOf(seen)
  <2> HIDE DEF seen
  <2> seen \in AnyRow
    BY <1>3 DEF EditsOf
  <2> QED
    BY <1>2, Edits
<1>5. restored \in EditsOf(row[g]) /\ broken \in EditsOf(row[g])
  <2> HIDE DEF seen, restored, broken
  <2> QED
    BY <1>3, <1>4 DEF EditsOf
<1>6. /\ \/ Update(g, worker.row, restored)
         \/ Update(g, worker.row, seen)
         \/ Update(g, worker.row, broken)
      /\ ItemDone \/ worker' = [worker EXCEPT !.at = "release"]
  BY DEF HealthDns
<1> HIDE DEF seen, restored, broken
<1> QED
  BY <1>1, <1>3, <1>5, <1>6, OutFacts, Updates, Rests, Moves

LEMMA ReleaseBrokenStep ==
    ASSUME IInv, ReleaseBroken
    PROVE  RowsOK' /\ WorkerOK' /\ ClaimsStep
<1> AddsKept
  BY SamePage DEF ReleaseBroken
<1> DEFINE g == worker.host
           failed == [row[g] EXCEPT !.status = "failed"]
           later == [row[g] EXCEPT !.next = worker.t + RetryEvery]
<1>1. worker.at \in Out
  BY DEF ReleaseBroken, Out
<1>2. failed \in EditsOf(row[g]) /\ later \in EditsOf(row[g])
  <2> row[g] \in AnyRow /\ "failed" \in Statuses /\ worker.t + RetryEvery \in Int
    BY <1>1, OutFacts, Numbers DEF Statuses
  <2> QED
    BY Edits
<1>3. /\ Update(g, worker.row, failed) \/ Update(g, worker.row, later)
      /\ ItemDone
  BY DEF ReleaseBroken
<1> HIDE DEF failed, later
<1> QED
  BY <1>1, <1>2, <1>3, OutFacts, Updates, Rests

LEMMA RemoveStep ==
    ASSUME IInv, Remove
    PROVE  RowsOK' /\ WorkerOK' /\ ClaimsStep
<1> AddsKept
  BY SamePage DEF Remove
<1> DEFINE g == worker.host
           t == row[g].tenant
<1>1. worker.at \in Out
  BY DEF Remove, Out
<1>2. ItemDone /\ (Update(g, worker.row, NoRow) \/ row' = row)
  BY DEF Remove
<1>3. WorkerOK'
  BY <1>1, <1>2, OutFacts, Rests
<1>4. CASE row' = row
  BY <1>1, <1>3, <1>4, OutFacts, Stutters
<1>5. CASE row[g].id = worker.row.id /\ row' = [row EXCEPT ![g] = NoRow]
  <2>1. t \in Tenants /\ {g} \in SUBSET Hosts /\ \A h \in {g} : row[h].tenant = t
    BY <1>1, <1>5, OutFacts DEF RowsOK, Exists
  <2>2. row' = [h \in Hosts |-> IF h \in {g} THEN NoRow ELSE row[h]]
    BY <1>1, <1>5, OutFacts DEF RowsOK
  <2> HIDE DEF t, g
  <2> QED
    BY <1>1, <1>3, <2>1, <2>2, OutFacts, LetGoStep
<1> QED
  BY <1>2, <1>4, <1>5 DEF Update

LEMMA PurgeRowsStep ==
    ASSUME IInv, PurgeRows
    PROVE  RowsOK' /\ ClaimsStep
<1> AddsKept
  BY SamePage DEF PurgeRows
<1>1. purge.tenant \in Tenants /\ RowsOK
  BY DEF PurgeRows, IInv
<1>2. /\ OwnedBy(purge.tenant) \in SUBSET Hosts
      /\ \A h \in OwnedBy(purge.tenant) : row[h].tenant = purge.tenant
  BY DEF OwnedBy
<1>3. row' = [h \in Hosts |-> IF h \in OwnedBy(purge.tenant) THEN NoRow ELSE row[h]]
  BY DEF PurgeRows
<1> QED
  BY <1>1, <1>2, <1>3, LetGoStep

-----------------------------------------------------------------------------
(* All of it. *)

LEMMA InitOK == Init => IInv /\ Claims!ClaimsInit
<1> SUFFICES ASSUME Init PROVE IInv /\ Claims!ClaimsInit
  OBVIOUS
<1>1. /\ row = [h \in Hosts |-> NoRow] /\ worker = Idle /\ now = 0 /\ lastId = 0 /\ purge = NoPurge
      /\ page = [t \in Tenants |-> NoRequest]
  BY DEF Init
<1>2. RowsOK
  BY <1>1, RowValues, NamesAssumption DEF RowsOK, Exists, Served, None
<1>3. WorkerOK
  BY <1>1, RowValues DEF WorkerOK, Idle, Out
<1>4. [h \in Hosts |-> row[h].tenant] = [h \in Hosts |-> None] /\ {h \in Hosts : Served(row[h])} = {}
  BY <1>1, RowValues DEF Served
<1>5. Claims!ClaimsInit
  <2>1. Eyed = {}
    BY <1>1 DEF Eyed, NoRequest
  <2> QED
    BY <1>4, <2>1 DEF Claims!ClaimsInit, Served
<1>6. PagesOK
  BY <1>1, RowValues DEF PagesOK, RequestOK, Requests, NoRequest
<1> QED
  BY <1>1, <1>2, <1>3, <1>5, <1>6 DEF IInv, NoPurge

\* The clock, the last id and the tenant being purged.
LEMMA RestKept ==
    ASSUME IInv, [Next]_vars
    PROVE  now' \in Nat /\ lastId' \in Nat /\ purge' \in [tenant : Tenants \cup {None}, hosts : SUBSET Hosts]
<1>1. now' \in Nat
  <2>1. now' = now \/ now' = now + 1
    BY DEF Next, vars, web, Asks, AskAdd, AskCheck, AskPrimary, Add, ProviderRemoves, ChangeDns, TenantActs,
           OpenOrClose, PurgeBegin, PurgeRelease, PurgeRows,
           Worker, Wake, Begin, CheckDns, IssueCert, WriteVhost, Reload, HealthDns, ReleaseBroken, Remove, Restart, Tick,
           CheckNow, MakePrimary, RequestRemoval
  <2> QED
    BY <2>1 DEF IInv
<1>2. lastId' \in Nat
  <2>1. lastId' = lastId \/ lastId' = lastId + 1
    BY DEF Next, vars, web, Asks, AskAdd, AskCheck, AskPrimary, Add, ProviderRemoves, ChangeDns, TenantActs,
           OpenOrClose, PurgeBegin, PurgeRelease, PurgeRows,
           Worker, Wake, Begin, CheckDns, IssueCert, WriteVhost, Reload, HealthDns, ReleaseBroken, Remove, Restart, Tick,
           CheckNow, MakePrimary, RequestRemoval
  <2> QED
    BY <2>1 DEF IInv
<1>3. purge' \in [tenant : Tenants \cup {None}, hosts : SUBSET Hosts]
  <2>1. CASE \E t \in Tenants : PurgeBegin(t)
    BY <2>1 DEF PurgeBegin, OwnedBy
  <2>2. CASE PurgeRelease
    <3>1. purge' = NoPurge \/ \E h \in purge.hosts : purge' = [purge EXCEPT !.hosts = @ \ {h}]
      BY <2>2 DEF PurgeRelease
    <3> QED
      BY <3>1 DEF IInv, NoPurge
  <2>3. CASE PurgeRows \/ Restart
    BY <2>3 DEF PurgeRows, Restart, NoPurge
  <2>4. CASE purge' = purge
    BY <2>4 DEF IInv
  <2>5. \/ \E t \in Tenants : PurgeBegin(t)
        \/ PurgeRelease \/ PurgeRows \/ Restart
        \/ purge' = purge
    BY DEF Next, vars, web, Asks, AskAdd, AskCheck, AskPrimary, Add, ProviderRemoves, ChangeDns, TenantActs,
           OpenOrClose, Worker, Wake, Begin, CheckDns, IssueCert, WriteVhost, Reload, HealthDns, ReleaseBroken, Remove, Tick,
           CheckNow, MakePrimary, RequestRemoval
  <2> QED
    BY <2>1, <2>2, <2>3, <2>4, <2>5
<1> QED
  BY <1>1, <1>2, <1>3

\* What requests have read stays true of the claims they read.
LEMMA PagesKept ==
    ASSUME IInv, RowsOK', ClaimsGoOn, lastId' \in {lastId, lastId + 1},
           NEW x, page' = [page EXCEPT ![x] = NoRequest] \/ page' = page \/ page' = [t \in Tenants |-> NoRequest]
    PROVE  PagesOK'
<1>1. \A h \in Hosts : row[h].id \in Nat /\ row'[h].id \in Nat /\ row[h].id <= lastId
  BY DEF IInv, RowsOK, PagesOK, AnyRow
<1>2. lastId \in Nat /\ lastId' \in Nat /\ lastId' >= lastId
  BY DEF IInv
<1>3. \A h \in Hosts : row'[h].id <= lastId'
  BY <1>1, <1>2 DEF ClaimsGoOn
<1>4. NoRequest \in Requests /\ NoRequest.act = "none" /\ NoRequest.id = 0
  BY DEF NoRequest, Requests
<1>5. /\ page' \in [Tenants -> Requests]
      /\ \A t \in Tenants : page'[t] = page[t] \/ page'[t] = NoRequest
  BY <1>4 DEF IInv, PagesOK
<1>6. ASSUME NEW t \in Tenants
      PROVE  RequestOK(t)'
  <2>1. CASE page'[t] = NoRequest
    BY <1>2, <1>4, <2>1 DEF RequestOK
  <2>2. CASE page'[t] = page[t]
    <3> DEFINE q == page[t]
    <3>1. q \in Requests /\ q.id \in Nat /\ q.id <= lastId
      BY DEF IInv, PagesOK, RequestOK, Requests
    <3>2. \A h \in Hosts : Exists(h)' /\ row'[h].id = q.id => Exists(h) /\ row[h].id = q.id /\ row'[h].tenant = row[h].tenant
      BY <1>1, <1>2, <3>1 DEF ClaimsGoOn, Exists
    <3>3. RequestOK(t)
      BY DEF IInv, PagesOK
    <3> QED
      BY <1>2, <2>2, <3>1, <3>2, <3>3 DEF RequestOK, Exists
  <2> QED
    BY <1>5, <2>1, <2>2
<1> QED
  BY <1>3, <1>5, <1>6 DEF PagesOK

\* A request has read what is so.
LEMMA AskedPages ==
    ASSUME IInv, NEW t \in Tenants,
           \/ \E h \in Hosts : AskAdd(t, h)
           \/ \E h \in OwnedBy(t) : AskCheck(t, h)
           \/ \E h \in OwnedBy(t) \cup {Home} : AskPrimary(t, h)
    PROVE  PagesOK'
<1>1. PICK act \in {"add", "check", "primary"}, k \in Hosts \cup {Home}, was \in BOOLEAN :
        /\ Asks(t, act, k, was)
        /\ act = "add" => k \in Hosts /\ (Exists(k) => row[k].tenant # t)
        /\ act # "add" => k \in OwnedBy(t) \/ k = Home
        /\ act = "check" => k \in OwnedBy(t)
  <2>1. ASSUME NEW h \in Hosts, AskAdd(t, h)
        PROVE  Asks(t, "add", h, FALSE) /\ (Exists(h) => row[h].tenant # t)
    BY <2>1 DEF AskAdd
  <2>2. ASSUME NEW h \in OwnedBy(t), AskCheck(t, h)
        PROVE  Asks(t, "check", h, Served(row[h])) /\ h \in Hosts /\ Served(row[h]) \in BOOLEAN
    BY <2>2 DEF AskCheck, OwnedBy, Served
  <2>3. ASSUME NEW h \in OwnedBy(t) \cup {Home}, AskPrimary(t, h)
        PROVE  Asks(t, "primary", h, FALSE) /\ h \in Hosts \cup {Home}
    BY <2>3 DEF AskPrimary, OwnedBy
  <2>4. CASE \E h \in Hosts : AskAdd(t, h)
    BY <2>1, <2>4
  <2>5. CASE \E h \in OwnedBy(t) : AskCheck(t, h)
    BY <2>2, <2>5
  <2>6. CASE \E h \in OwnedBy(t) \cup {Home} : AskPrimary(t, h)
    BY <2>3, <2>6
  <2> QED
    BY <2>4, <2>5, <2>6
<1> DEFINE q == [act |-> act, host |-> k, id |-> IF k = Home THEN 0 ELSE row[k].id, was |-> was]
<1>2. page' = [page EXCEPT ![t] = q] /\ row' = row /\ lastId' = lastId /\ PagesOK /\ lastId \in Nat
  BY <1>1 DEF Asks, IInv
<1>3. k \in Hosts => row[k].id \in Nat /\ row[k].id <= lastId /\ k # Home
  BY NotHosts DEF IInv, RowsOK, PagesOK, AnyRow
<1>4. q.id \in Nat /\ q.id <= lastId
  BY <1>2, <1>3
<1>5. q \in Requests
  BY <1>4 DEF Requests
<1>6. page' \in [Tenants -> Requests] /\ page'[t] = q /\ \A u \in Tenants \ {t} : page'[u] = page[u]
  <2> HIDE DEF q
  <2> QED
    BY <1>2, <1>5 DEF PagesOK
<1>7. RequestOK(t)'
  <2>1. act \in {"check", "primary"} /\ k # Home => k \in Hosts /\ row[k].id # 0 /\ row[k].tenant = t
    BY <1>1 DEF OwnedBy, Exists
  <2>2. act = "check" => k # Home
    BY <1>1, NotHosts DEF OwnedBy
  <2> QED
    BY <1>1, <1>2, <1>4, <1>6, <2>1, <2>2 DEF RequestOK, Exists
<1>8. \A u \in Tenants \ {t} : RequestOK(u)'
  BY <1>2, <1>6 DEF PagesOK, RequestOK, Exists
<1> QED
  BY <1>2, <1>6, <1>7, <1>8 DEF PagesOK

LEMMA LastIdStep ==
    ASSUME [Next]_vars
    PROVE  lastId' \in {lastId, lastId + 1}
BY DEF Next, vars, web, Asks, AskAdd, AskCheck, AskPrimary, Add, ProviderRemoves, ChangeDns, TenantActs,
       OpenOrClose, PurgeBegin, PurgeRelease, PurgeRows, Worker, Wake, Begin, CheckDns, IssueCert, WriteVhost, Reload,
       HealthDns, ReleaseBroken, Remove, Restart, Tick, CheckNow, MakePrimary, RequestRemoval

\* Requests begin, or one ends, or a restart ends all of them.
LEMMA PageSteps ==
    ASSUME [Next]_vars
    PROVE  \/ \E t \in Tenants :
                 \/ \E h \in Hosts : AskAdd(t, h)
                 \/ \E h \in OwnedBy(t) : AskCheck(t, h)
                 \/ \E h \in OwnedBy(t) \cup {Home} : AskPrimary(t, h)
           \/ \E t \in Tenants : page' = [page EXCEPT ![t] = NoRequest]
           \/ page' = page
           \/ page' = [t \in Tenants |-> NoRequest]
<1>1. ASSUME NEW t \in Tenants, Add(t) \/ CheckNow(t) \/ MakePrimary(t)
      PROVE  page' = [page EXCEPT ![t] = NoRequest]
  BY <1>1 DEF Add, CheckNow, MakePrimary, Asked
<1>2. CASE Worker
  BY <1>2 DEF Worker, Wake, Begin, CheckDns, IssueCert, WriteVhost, Reload, HealthDns, ReleaseBroken, Remove
<1>3. ASSUME \/ \E h \in Hosts : RequestRemoval(h) \/ ChangeDns(h)
             \/ \E t \in Tenants : OpenOrClose(t) \/ PurgeBegin(t)
             \/ PurgeRelease \/ PurgeRows \/ Tick \/ UNCHANGED vars
      PROVE  page' = page
  BY <1>3 DEF RequestRemoval, ChangeDns, OpenOrClose, PurgeBegin, PurgeRelease, PurgeRows, Tick, vars
<1>4. CASE Restart
  BY <1>4 DEF Restart
<1>5. ASSUME NEW t \in Tenants, TenantActs(t)
      PROVE  \/ \E h \in Hosts : AskAdd(t, h)
             \/ \E h \in OwnedBy(t) : AskCheck(t, h)
             \/ \E h \in OwnedBy(t) \cup {Home} : AskPrimary(t, h)
             \/ \E h \in Hosts : RequestRemoval(h)
             \/ Add(t) \/ CheckNow(t) \/ MakePrimary(t)
  <2> OwnedBy(t) \subseteq Hosts
    BY DEF OwnedBy
  <2> QED
    BY <1>5 DEF TenantActs
<1>6. CASE \E t \in Tenants : TenantActs(t)
  BY <1>1, <1>3, <1>5, <1>6
<1> QED
  BY <1>2, <1>3, <1>4, <1>6 DEF Next, ProviderRemoves

LEMMA NextOK ==
    ASSUME IInv, [Next]_vars
    PROVE  IInv' /\ ClaimsStep
<1> RowsOK /\ WorkerOK
  BY DEF IInv
<1>1. ASSUME worker' = worker
      PROVE  WorkerOK'
  BY <1>1 DEF WorkerOK
<1>2. ASSUME NEW t \in Tenants, NEW h, (h \in Hosts /\ AskAdd(t, h)) \/ AskCheck(t, h) \/ AskPrimary(t, h)
      PROVE  RowsOK' /\ WorkerOK' /\ ClaimsStep
  <2>1. worker' = worker
    BY <1>2 DEF AskAdd, AskCheck, AskPrimary, Asks
  <2> QED
    BY <1>1, <1>2, <2>1, AskAddStep, AskStep
<1>3. ASSUME NEW t \in Tenants, Add(t) \/ CheckNow(t)
      PROVE  RowsOK' /\ WorkerOK' /\ ClaimsStep
  <2>1. worker' = worker
    BY <1>3 DEF Add, CheckNow
  <2> QED
    BY <1>1, <1>3, <2>1, AddStep, CheckNowStep
<1>4. ASSUME NEW t \in Tenants, MakePrimary(t)
      PROVE  RowsOK' /\ WorkerOK' /\ ClaimsStep
  <2>1. worker' = worker /\ row' = row /\ AddsKept
    BY <1>4, Answered DEF MakePrimary
  <2> QED
    BY <1>1, <2>1, Stutters
<1>5. ASSUME NEW h \in Hosts, RequestRemoval(h)
      PROVE  RowsOK' /\ WorkerOK' /\ ClaimsStep
  <2>1. worker' = worker
    BY <1>5 DEF RequestRemoval
  <2> QED
    BY <1>1, <1>5, <2>1, RequestRemovalStep
<1>6. ASSUME (\E t \in Tenants : OpenOrClose(t) \/ PurgeBegin(t)) \/ (\E h \in Hosts : ChangeDns(h))
                \/ PurgeRelease \/ Tick \/ UNCHANGED vars
      PROVE  RowsOK' /\ WorkerOK' /\ ClaimsStep
  <2>1. row' = row /\ worker' = worker /\ page' = page
    BY <1>6 DEF OpenOrClose, PurgeBegin, ChangeDns, PurgeRelease, Tick, vars
  <2> QED
    BY <2>1, <1>1, SamePage, Stutters
<1>7. ASSUME PurgeRows
      PROVE  RowsOK' /\ WorkerOK' /\ ClaimsStep
  BY <1>7, <1>1, PurgeRowsStep DEF PurgeRows
<1>8. ASSUME Restart
      PROVE  RowsOK' /\ WorkerOK' /\ ClaimsStep
  <2>1. row' = row /\ page' = [t \in Tenants |-> NoRequest] /\ worker' = Idle
    BY <1>8 DEF Restart
  <2>2. Eyed' = {}
    BY <2>1 DEF Eyed, NoRequest
  <2>3. Claims!ForgetAll /\ ClaimsGoOn /\ RowsOK'
    BY <2>1, <2>2 DEF Claims!ForgetAll, ClaimsGoOn, RowsOK, Exists, Served
  <2> QED
    BY <2>1, <2>3, Rests DEF ClaimsStep, Claims!ClaimsNext
<1>9. ASSUME Worker
      PROVE  RowsOK' /\ WorkerOK' /\ ClaimsStep
  <2>1. CASE Wake
    BY <2>1, WakeStep, SamePage, Stutters DEF Wake
  <2> QED
    BY <1>9, <2>1, BeginStep, CheckDnsStep, IssueCertStep, WriteVhostStep, ReloadStep, HealthDnsStep,
       ReleaseBrokenStep, RemoveStep DEF Worker
<1>10. RowsOK' /\ WorkerOK' /\ ClaimsStep
  <2>1. ASSUME NEW t \in Tenants, TenantActs(t)
        PROVE  RowsOK' /\ WorkerOK' /\ ClaimsStep
    <3> OwnedBy(t) \subseteq Hosts
      BY DEF OwnedBy
    <3>1. CASE \E h \in Hosts : AskAdd(t, h)
      BY <3>1, <1>2
    <3>2. CASE \E h \in OwnedBy(t) : AskCheck(t, h)
      BY <3>2, <1>2
    <3>3. CASE \E h \in OwnedBy(t) \cup {Home} : AskPrimary(t, h)
      BY <3>3, <1>2
    <3>4. CASE \E h \in OwnedBy(t) : RequestRemoval(h)
      BY <3>4, <1>5
    <3> QED
      BY <2>1, <3>1, <3>2, <3>3, <3>4, <1>3, <1>4 DEF TenantActs
  <2> QED
    BY <2>1, <1>5, <1>6, <1>7, <1>8, <1>9 DEF Next, ProviderRemoves
<1>11. PagesOK'
  BY <1>10, PageSteps, AskedPages, PagesKept, LastIdStep DEF ClaimsStep
<1> QED
  BY <1>10, <1>11, RestKept DEF IInv

\* CustomDomains implements DomainClaims: a host in service passes to another
\* tenant only after its holder gave it up or let go of it, or to one who had read
\* this very claim while it was out of service, whatever the pages, the thread, a
\* purge and restarts do in between.
THEOREM ClaimsAlwaysHold == Spec => ClaimsHold
<1>1. Init => IInv /\ Claims!ClaimsInit
  BY InitOK
<1>2. IInv /\ [Next]_vars => IInv' /\ [Claims!ClaimsNext]_(Claims!claims)
  BY NextOK DEF ClaimsStep
<1> QED
  BY <1>1, <1>2, PTL DEF Spec, ClaimsHold, Claims!ClaimsSpec

-----------------------------------------------------------------------------
(***************************************************************************)
(* VerifiedOwner and PrimaryWorks.  The thread writes by the id it has read,  *)
(* so what it knows of that claim must still hold when the id is still there:  *)
(* ids are never given out again (IdsOK), what is served or about to be, was    *)
(* seen to point at its tenant (ProvedOK), and the primary host is its tenant's,  *)
(* and isn't being removed unless by a late request (PrimaryOK).                *)
(***************************************************************************)

IdsOK ==
    /\ \A h \in Hosts : row[h].id <= lastId
    /\ \A i \in worker.todo : i.id <= lastId
    /\ worker.at \in Out =>
          /\ worker.row.id <= lastId
          /\ row[worker.host].id = worker.row.id => row[worker.host].tenant = worker.row.tenant

ProvedOK ==
    /\ VerifiedOwner
    /\ \A i \in worker.todo : i.kind = "health" => i.id \in proved
    /\ worker.at \in Out /\ worker.kind = "health" => worker.row.id \in proved
    /\ worker.at = "reload" /\ row[worker.host].id = worker.row.id => worker.row.id \in proved

PrimaryOK ==
    /\ primary \in [Tenants -> Hosts \cup {None, Home}]
    /\ \A t \in Tenants, h \in Hosts :
          primary[t] = h => row[h].tenant = t /\ (row[h].removing => <<"primary", row[h].id>> \in late)

OwnersInv == IInv /\ IdsOK /\ ProvedOK /\ PrimaryOK

\* What a step does to a host's row: the same claim goes on, and gets into service only if it was seen to point
\* at its tenant; or a new claim begins; or there is none any more.
SameClaim(h) ==
    /\ row'[h].id = row[h].id /\ row'[h].tenant = row[h].tenant /\ row'[h].removing = row[h].removing
    /\ Served(row'[h]) => Served(row[h]) \/ row[h].id \in proved
RemovalAsked(h) ==
    /\ row'[h].id = row[h].id /\ row'[h].tenant = row[h].tenant
    /\ Served(row'[h]) => Served(row[h])
NewClaim(h) == row'[h].id = lastId' /\ lastId' = lastId + 1 /\ ~Served(row'[h])
Gone(h) == row'[h] = NoRow

SameClaims == \A h \in Hosts : SameClaim(h)
RowStep == \A h \in Hosts : SameClaim(h) \/ RemovalAsked(h) \/ NewClaim(h) \/ Gone(h)

\* Edits that leave the mark for removal alone, by the status they leave.
KeptOf(r, s) == {e \in EditsOf(r) : e.removing = r.removing /\ e.status = s}

LEMMA KeptEdits ==
    ASSUME NEW r \in AnyRow, NEW x \in Int, NEW y \in Int, NEW z \in Int, NEW s \in Statuses
    PROVE  /\ [r EXCEPT !.next = x] \in KeptOf(r, r.status)
           /\ [r EXCEPT !.lastIssue = x] \in KeptOf(r, r.status)
           /\ [r EXCEPT !.status = s] \in KeptOf(r, s)
           /\ [r EXCEPT !.status = s, !.next = x] \in KeptOf(r, s)
           /\ [r EXCEPT !.status = s, !.next = x, !.until = y, !.failures = z] \in KeptOf(r, s)
           /\ [r EXCEPT !.checked = x, !.status = s, !.next = y] \in KeptOf(r, s)
           /\ [r EXCEPT !.checked = x, !.status = s, !.next = y, !.lastIssue = z] \in KeptOf(r, s)
           /\ [r EXCEPT !.failures = x, !.status = s, !.next = y] \in KeptOf(r, s)
           /\ [r EXCEPT !.status = s, !.verified = TRUE, !.failures = x, !.next = y, !.broken = z] \in KeptOf(r, s)
           /\ [r EXCEPT !.checked = x, !.next = y] \in KeptOf(r, r.status)
           /\ [r EXCEPT !.status = s, !.broken = x] \in KeptOf(r, s)
<1>1. [r EXCEPT !.next = x] \in KeptOf(r, r.status)
  BY Edits DEF AnyRow, KeptOf
<1>2. [r EXCEPT !.lastIssue = x] \in KeptOf(r, r.status)
  BY Edits DEF AnyRow, KeptOf
<1>3. [r EXCEPT !.status = s] \in KeptOf(r, s)
  BY Edits DEF AnyRow, KeptOf
<1>4. [r EXCEPT !.status = s, !.next = x] \in KeptOf(r, s)
  BY Edits DEF AnyRow, KeptOf
<1>5. [r EXCEPT !.status = s, !.next = x, !.until = y, !.failures = z] \in KeptOf(r, s)
  BY Edits DEF AnyRow, KeptOf
<1>6. [r EXCEPT !.checked = x, !.status = s, !.next = y] \in KeptOf(r, s)
  BY Edits DEF AnyRow, KeptOf
<1>7. [r EXCEPT !.checked = x, !.status = s, !.next = y, !.lastIssue = z] \in KeptOf(r, s)
  BY Edits DEF AnyRow, KeptOf
<1>8. [r EXCEPT !.failures = x, !.status = s, !.next = y] \in KeptOf(r, s)
  BY Edits DEF AnyRow, KeptOf
<1>9. [r EXCEPT !.status = s, !.verified = TRUE, !.failures = x, !.next = y, !.broken = z] \in KeptOf(r, s)
  BY Edits DEF AnyRow, KeptOf
<1>10. [r EXCEPT !.checked = x, !.next = y] \in KeptOf(r, r.status)
  BY Edits DEF AnyRow, KeptOf
<1>11. [r EXCEPT !.status = s, !.broken = x] \in KeptOf(r, s)
  BY Edits DEF AnyRow, KeptOf
<1> QED
  BY <1>1, <1>2, <1>3, <1>4, <1>5, <1>6, <1>7, <1>8, <1>9, <1>10, <1>11

\* A kept edit of one row.
LEMMA KeptRow ==
    ASSUME RowsOK, NEW g \in Hosts, NEW s, NEW new \in KeptOf(row[g], s),
           row' = [row EXCEPT ![g] = new],
           s \in {"active", "dns_broken"} => Served(row[g]) \/ row[g].id \in proved
    PROVE  SameClaims
<1>1. /\ row'[g] = new /\ \A h \in Hosts \ {g} : row'[h] = row[h]
      /\ new.id = row[g].id /\ new.tenant = row[g].tenant /\ new.removing = row[g].removing /\ new.status = s
  BY DEF RowsOK, KeptOf, EditsOf
<1> QED
  BY <1>1 DEF SameClaims, SameClaim, Served

LEMMA SameRows == row' = row => SameClaims
BY DEF SameClaims, SameClaim, Served

\* UPDATE ... WHERE id = r.id by a kept edit.
LEMMA KeptUpdate ==
    ASSUME RowsOK, NEW g \in Hosts, NEW r, NEW s, NEW new \in KeptOf(row[g], s), Update(g, r, new),
           s \in {"active", "dns_broken"} /\ row[g].id = r.id => Served(row[g]) \/ row[g].id \in proved
    PROVE  SameClaims
<1>1. CASE row[g].id = r.id
  BY <1>1, KeptRow DEF Update
<1>2. CASE row[g].id # r.id
  BY <1>2, SameRows DEF Update
<1> QED
  BY <1>1, <1>2

-----------------------------------------------------------------------------
(* The claims, action by action. *)

LEMMA CheckNowKeeps ==
    ASSUME IInv, NEW t \in Tenants, CheckNow(t)
    PROVE  SameClaims
<1> DEFINE g == page[t].host
           due == [row[g] EXCEPT !.next = now]
           anew == [row[g] EXCEPT !.status = "verifying", !.next = now, !.until = now + PendingDays, !.failures = 0]
<1>0. g \in Hosts
  BY Answered DEF CheckNow, IInv, PagesOK, RequestOK
<1>1. row[g] \in AnyRow /\ now \in Int /\ now + PendingDays \in Int /\ RowsOK
  BY <1>0, RowValues DEF IInv, RowsOK
<1>2. due \in KeptOf(row[g], row[g].status) /\ anew \in KeptOf(row[g], "verifying")
  <2> "verifying" \in Statuses /\ 0 \in Int
    BY DEF Statuses
  <2> QED
    BY <1>1, KeptEdits
<1>3. row[g].status \in {"active", "dns_broken"} => Served(row[g])
  BY DEF Served
<1>4. Update(g, page[t], due) \/ Update(g, page[t], anew)
  BY DEF CheckNow
<1> HIDE DEF due, anew, g
<1> QED
  BY <1>0, <1>1, <1>2, <1>3, <1>4, KeptUpdate

LEMMA BeginKeeps ==
    ASSUME IInv, Begin
    PROVE  SameClaims
<1> PICK item \in worker.todo :
      \/ row' = row
      \/ row' = [row EXCEPT ![item.host] = [@ EXCEPT !.status = "failed", !.next = NotDue]]
      \/ row' = [row EXCEPT ![item.host] = [@ EXCEPT !.next = row[item.host].lastIssue + IssueEvery]]
      \/ row' = [row EXCEPT ![item.host] = [@ EXCEPT !.lastIssue = worker.t]]
  BY DEF Begin
<1> DEFINE g == item.host
<1>1. g \in Hosts /\ RowsOK /\ row[g] \in AnyRow /\ worker.t \in Int
  BY DEF IInv, WorkerOK, AnyItem, RowsOK
<1>2. /\ [row[g] EXCEPT !.status = "failed", !.next = NotDue] \in KeptOf(row[g], "failed")
      /\ [row[g] EXCEPT !.next = row[g].lastIssue + IssueEvery] \in KeptOf(row[g], row[g].status)
      /\ [row[g] EXCEPT !.lastIssue = worker.t] \in KeptOf(row[g], row[g].status)
  <2> row[g].lastIssue \in Int /\ worker.t \in Int
    BY <1>1 DEF AnyRow
  <2> "failed" \in Statuses /\ row[g].lastIssue + IssueEvery \in Int /\ NotDue \in Int
    BY RowValues DEF Statuses
  <2> QED
    BY <1>1, KeptEdits
<1>3. row[g].status \in {"active", "dns_broken"} => Served(row[g])
  BY DEF Served
<1>4. ASSUME NEW s, NEW new \in KeptOf(row[g], s), row' = [row EXCEPT ![g] = new], s \in {row[g].status, "failed"}
      PROVE  SameClaims
  BY <1>1, <1>3, <1>4, KeptRow
<1> QED
  BY <1>2, <1>4, SameRows

LEMMA IssueFailedKeeps ==
    ASSUME IInv, worker.at \in Out, IssueFailed
    PROVE  SameClaims
<1> DEFINE g == worker.host
           n == row[g].failures + 1
           s == IF n >= MaxIssueFailures THEN "failed" ELSE "issuing_certificate"
           new == [row[g] EXCEPT !.failures = n, !.status = s,
                                 !.next = IF n >= MaxIssueFailures THEN NotDue ELSE worker.t + IssueEvery]
<1>1. CASE row[g].id # worker.row.id
  BY <1>1, SameRows DEF IssueFailed
<1>2. CASE row[g].id = worker.row.id
  <2>1. row' = [row EXCEPT ![g] = new]
    BY <1>2 DEF IssueFailed
  <2>2. new \in KeptOf(row[g], s)
    <3>1. row[g] \in AnyRow /\ n \in Int /\ s \in Statuses
      BY OutFacts DEF AnyRow, Statuses
    <3>2. (IF n >= MaxIssueFailures THEN NotDue ELSE worker.t + IssueEvery) \in Int
      BY OutFacts, Numbers, RowValues
    <3> HIDE DEF s, n
    <3> QED
      BY <3>1, <3>2, KeptEdits
  <2>3. s \notin {"active", "dns_broken"} /\ g \in Hosts /\ RowsOK
    BY OutFacts
  <2> HIDE DEF new, s, g
  <2> QED
    BY <2>1, <2>2, <2>3, KeptRow
<1> QED
  BY <1>1, <1>2

LEMMA CheckDnsKeeps ==
    ASSUME IInv, CheckDns
    PROVE  SameClaims
<1> DEFINE g == worker.host
           t == worker.t
           good == [row[g] EXCEPT !.checked = t, !.status = "issuing_certificate", !.next = t, !.lastIssue = t]
           bad == [row[g] EXCEPT !.checked = t, !.status = "pending_dns", !.next = t + CheckEvery]
<1>1. worker.at \in Out
  BY DEF CheckDns, Out
<1>2. good \in KeptOf(row[g], "issuing_certificate") /\ bad \in KeptOf(row[g], "pending_dns")
  <2> t \in Int /\ t + CheckEvery \in Int /\ row[g] \in AnyRow
    BY <1>1, OutFacts, Numbers
  <2> "issuing_certificate" \in Statuses /\ "pending_dns" \in Statuses
    BY DEF Statuses
  <2> QED
    BY KeptEdits
<1>3. Update(g, worker.row, good) \/ Update(g, worker.row, bad)
  BY DEF CheckDns
<1>4. g \in Hosts /\ RowsOK
  BY <1>1, OutFacts
<1> HIDE DEF good, bad, g
<1> QED
  BY <1>2, <1>3, <1>4, KeptUpdate

LEMMA ReloadKeeps ==
    ASSUME IInv, ProvedOK, Reload
    PROVE  SameClaims
<1> DEFINE g == worker.host
           new == [row[g] EXCEPT !.status = "active", !.verified = TRUE, !.failures = 0, !.next = NotDue, !.broken = Never]
<1>1. worker.at \in Out /\ worker.at = "reload"
  BY DEF Reload, Out
<1>2. new \in KeptOf(row[g], "active")
  <2> row[g] \in AnyRow /\ "active" \in Statuses /\ 0 \in Int /\ NotDue \in Int /\ Never \in Int
    BY <1>1, OutFacts, RowValues DEF Statuses
  <2> QED
    BY KeptEdits
<1>3. CASE Activate(g)
  <2>1. Update(g, worker.row, new)
    BY <1>3 DEF Activate, Activated, Update
  <2>2. row[g].id = worker.row.id => row[g].id \in proved
    BY <1>1 DEF ProvedOK
  <2>3. g \in Hosts /\ RowsOK
    BY <1>1, OutFacts
  <2> HIDE DEF new, g
  <2> QED
    BY <1>2, <2>1, <2>2, <2>3, KeptUpdate
<1> QED
  BY <1>1, <1>3, IssueFailedKeeps DEF Reload

LEMMA HealthDnsKeeps ==
    ASSUME IInv, ProvedOK, HealthDns
    PROVE  SameClaims
<1> DEFINE g == worker.host
           t == worker.t
           seen == [row[g] EXCEPT !.checked = t, !.next = NotDue]
           restored == [seen EXCEPT !.status = "active", !.broken = Never]
           broken == [seen EXCEPT !.status = "dns_broken", !.broken = t]
<1>1. worker.at \in Out /\ worker.kind = "health"
  BY DEF HealthDns, Out
<1>2. /\ row[g] \in AnyRow /\ t \in Int /\ NotDue \in Int /\ Never \in Int
      /\ "active" \in Statuses /\ "dns_broken" \in Statuses
  BY <1>1, OutFacts, RowValues DEF Statuses
<1>3. seen \in KeptOf(row[g], row[g].status)
  BY <1>2, KeptEdits
<1>4. restored \in KeptOf(seen, "active") /\ broken \in KeptOf(seen, "dns_broken")
  <2> HIDE DEF seen
  <2> seen \in AnyRow
    BY <1>3 DEF KeptOf, EditsOf
  <2> QED
    BY <1>2, KeptEdits
<1>5. restored \in KeptOf(row[g], "active") /\ broken \in KeptOf(row[g], "dns_broken")
  <2> HIDE DEF seen, restored, broken
  <2> QED
    BY <1>3, <1>4 DEF KeptOf, EditsOf
<1>6. \/ Update(g, worker.row, restored)
      \/ Update(g, worker.row, seen)
      \/ Update(g, worker.row, broken)
  BY DEF HealthDns
<1>7. /\ row[g].id = worker.row.id => row[g].id \in proved
      /\ row[g].status \in {"active", "dns_broken"} => Served(row[g])
      /\ g \in Hosts /\ RowsOK
  BY <1>1, OutFacts DEF ProvedOK, Served
<1> HIDE DEF seen, restored, broken, g
<1> QED
  BY <1>3, <1>5, <1>6, <1>7, KeptUpdate

LEMMA ReleaseBrokenKeeps ==
    ASSUME IInv, ReleaseBroken
    PROVE  SameClaims
<1> DEFINE g == worker.host
           failed == [row[g] EXCEPT !.status = "failed"]
           later == [row[g] EXCEPT !.next = worker.t + RetryEvery]
<1>1. worker.at \in Out
  BY DEF ReleaseBroken, Out
<1>2. failed \in KeptOf(row[g], "failed") /\ later \in KeptOf(row[g], row[g].status)
  <2> row[g] \in AnyRow /\ "failed" \in Statuses /\ worker.t + RetryEvery \in Int
    BY <1>1, OutFacts, Numbers DEF Statuses
  <2> QED
    BY KeptEdits
<1>3. Update(g, worker.row, failed) \/ Update(g, worker.row, later)
  BY DEF ReleaseBroken
<1>4. g \in Hosts /\ RowsOK /\ (row[g].status \in {"active", "dns_broken"} => Served(row[g]))
  BY <1>1, OutFacts DEF Served
<1> HIDE DEF failed, later, g
<1> QED
  BY <1>2, <1>3, <1>4, KeptUpdate

-----------------------------------------------------------------------------
(* What the thread knows, step by step. *)

\* What the thread takes up it has just read from the rows; what it goes on with it knew before.
WorkerStep ==
    /\ \A i \in worker'.todo :
          \/ i \in worker.todo
          \/ \E h \in Hosts : i.id = row[h].id /\ (i.kind = "health" => Served(row[h]))
    /\ worker'.at \in Out =>
          \/ /\ worker.at \in Out
             /\ worker'.host = worker.host /\ worker'.row = worker.row /\ worker'.kind = worker.kind
             /\ worker'.at = "reload" => worker.at = "reload" \/ row[worker.host].id \in proved'
          \/ /\ worker'.at # "reload"
             /\ \E i \in worker.todo : /\ worker'.host = i.host /\ worker'.kind = i.kind
                                       /\ worker'.row = row[i.host] /\ row[i.host].id = i.id

LEMMA Resting ==
    ASSUME WorkerOK, NEW rest \in SUBSET worker.todo, NextItem(rest) \/ ItemDone \/ worker' = Idle
    PROVE  WorkerStep
<1>1. worker'.at \notin Out /\ worker'.todo \subseteq worker.todo
  <2>1. Idle.at = "idle" /\ Idle.todo = {}
    BY DEF Idle
  <2>2. \A r \in SUBSET worker.todo : NextItem(r) => worker'.at \notin Out /\ worker'.todo \subseteq worker.todo
    BY <2>1 DEF NextItem, Idle, Out
  <2> QED
    BY <2>1, <2>2 DEF ItemDone, Out
<1> QED
  BY <1>1 DEF WorkerStep

LEMMA Staying == worker' = worker => WorkerStep
BY DEF WorkerStep

LEMMA Moving ==
    ASSUME WorkerOK, worker.at \in Out, NEW place \in Out, worker' = [worker EXCEPT !.at = place],
           place = "reload" => row[worker.host].id \in proved'
    PROVE  WorkerStep
<1>1. /\ worker'.at = place /\ worker'.host = worker.host /\ worker'.row = worker.row /\ worker'.kind = worker.kind
      /\ worker'.todo = worker.todo
  BY DEF WorkerOK
<1> QED
  BY <1>1 DEF WorkerStep

LEMMA WakeKnows ==
    ASSUME IInv, Wake
    PROVE  WorkerStep
<1>1. worker'.at = "next" /\ worker'.todo = Due
  BY DEF Wake, Idle
<1>2. \A i \in Due : \E h \in Hosts : i.id = row[h].id /\ (i.kind = "health" => Served(row[h]))
  BY DEF Due, ToRemove, Item
<1> QED
  BY <1>1, <1>2 DEF WorkerStep, Out

LEMMA BeginKnows ==
    ASSUME IInv, Begin
    PROVE  WorkerStep
<1> PICK item \in worker.todo :
      \/ NextItem(worker.todo \ {item})
      \/ StillThere(item) /\ \E place \in {"release", "dns", "cert"} : Go(item, place)
  BY DEF Begin
<1>1. CASE NextItem(worker.todo \ {item})
  BY <1>1, Resting DEF IInv
<1>2. ASSUME StillThere(item), NEW place \in {"release", "dns", "cert"}, Go(item, place)
      PROVE  WorkerStep
  <2>1. /\ worker'.at = place /\ worker'.todo = worker.todo \ {item}
        /\ worker'.host = item.host /\ worker'.kind = item.kind /\ worker'.row = row[item.host]
    BY <1>2 DEF Go, IInv, WorkerOK
  <2> QED
    BY <1>2, <2>1 DEF WorkerStep, StillThere
<1> QED
  BY <1>1, <1>2

LEMMA IssueFailedKnows ==
    ASSUME IInv, IssueFailed
    PROVE  WorkerStep
<1>1. worker' = Idle \/ ItemDone
  BY DEF IssueFailed
<1> QED
  BY <1>1, Resting DEF IInv

LEMMA WriteVhostKnows ==
    ASSUME IInv, WriteVhost
    PROVE  WorkerStep
<1>1. CASE PointsNow(worker.host) /\ worker' = [worker EXCEPT !.at = "reload"]
            /\ proved' = IF Points(worker.host, row[worker.host]) THEN proved \cup {row[worker.host].id} ELSE proved
  <2>1. row[worker.host].id \in proved'
    BY <1>1 DEF PointsNow
  <2>2. worker.at \in Out /\ "reload" \in Out
    BY DEF WriteVhost, Out
  <2> QED
    BY <1>1, <2>1, <2>2, Moving DEF IInv
<1> QED
  BY <1>1, IssueFailedKnows DEF WriteVhost

LEMMA WorkerKnows ==
    ASSUME IInv, Worker
    PROVE  WorkerStep
<1> WorkerOK /\ worker.todo \in SUBSET worker.todo
  BY DEF IInv
<1>1. CASE CheckDns
  <2>1. worker.at \in Out /\ "cert" \in Out /\ (worker' = [worker EXCEPT !.at = "cert"] \/ ItemDone)
    BY <1>1 DEF CheckDns, Out
  <2> QED
    BY <2>1, Moving, Resting
<1>2. CASE IssueCert
  <2>1. worker.at \in Out /\ "vhost" \in Out /\ (worker' = [worker EXCEPT !.at = "vhost"] \/ IssueFailed)
    BY <1>2 DEF IssueCert, Out
  <2> QED
    BY <2>1, Moving, IssueFailedKnows
<1>3. CASE Reload
  BY <1>3, Resting, IssueFailedKnows DEF Reload
<1>4. CASE HealthDns
  <2>1. worker.at \in Out /\ "release" \in Out /\ (worker' = [worker EXCEPT !.at = "release"] \/ ItemDone)
    BY <1>4 DEF HealthDns, Out
  <2> QED
    BY <2>1, Moving, Resting
<1>5. CASE ReleaseBroken \/ Remove
  BY <1>5, Resting DEF ReleaseBroken, Remove
<1> QED
  BY <1>1, <1>2, <1>3, <1>4, <1>5, WakeKnows, BeginKnows, WriteVhostKnows DEF Worker

\* Every step leaves the thread knowing what it writes by.
LEMMA KnowledgeKept ==
    ASSUME OwnersInv, IInv', RowStep, WorkerStep, lastId' \in {lastId, lastId + 1}, proved \subseteq proved'
    PROVE  IdsOK' /\ ProvedOK'
<1>1. lastId \in Nat /\ lastId' >= lastId
  BY DEF OwnersInv, IInv
<1>2. \A h \in Hosts : /\ row[h].id \in Nat /\ row'[h].id \in Nat
                       /\ row[h].id <= lastId
  BY DEF OwnersInv, IInv, RowsOK, AnyRow, IdsOK
<1>3. \A h \in Hosts : row'[h].id <= lastId'
  BY <1>1, <1>2, RowValues DEF RowStep, SameClaim, RemovalAsked, NewClaim, Gone
<1>4. \A h \in Hosts, i \in Nat \ {0} :
         row'[h].id = i /\ i <= lastId => row[h].id = i /\ row'[h].tenant = row[h].tenant
  BY <1>1, <1>2, RowValues DEF RowStep, SameClaim, RemovalAsked, NewClaim, Gone
<1>5. \A h \in Hosts : Served(row'[h]) => row'[h].id \in proved'
  <2> SUFFICES ASSUME NEW h \in Hosts, Served(row'[h]) PROVE row'[h].id \in proved'
    OBVIOUS
  <2>1. ~Served(NoRow)
    BY RowValues DEF Served
  <2>2. Served(row[h]) => row[h].id \in proved
    BY DEF OwnersInv, ProvedOK, VerifiedOwner
  <2> QED
    BY <2>1, <2>2 DEF RowStep, SameClaim, RemovalAsked, NewClaim, Gone
<1>6. \A i \in worker'.todo : i.id \in Nat /\ i.id <= lastId /\ (i.kind = "health" => i.id \in proved)
  <2> SUFFICES ASSUME NEW i \in worker'.todo
               PROVE  i.id \in Nat /\ i.id <= lastId /\ (i.kind = "health" => i.id \in proved)
    OBVIOUS
  <2>1. CASE i \in worker.todo
    BY <2>1 DEF OwnersInv, IInv, WorkerOK, AnyItem, IdsOK, ProvedOK
  <2>2. ASSUME NEW h \in Hosts, i.id = row[h].id, i.kind = "health" => Served(row[h])
        PROVE  i.id \in Nat /\ i.id <= lastId /\ (i.kind = "health" => i.id \in proved)
    BY <1>2, <2>2 DEF OwnersInv, ProvedOK, VerifiedOwner
  <2> QED
    BY <2>1, <2>2 DEF WorkerStep
<1>7. ASSUME worker'.at \in Out
      PROVE  /\ worker'.row.id \in Nat \ {0} /\ worker'.row.id <= lastId /\ worker'.host \in Hosts
             /\ row[worker'.host].id = worker'.row.id => row[worker'.host].tenant = worker'.row.tenant
             /\ worker'.kind = "health" => worker'.row.id \in proved
             /\ worker'.at = "reload" /\ row[worker'.host].id = worker'.row.id => worker'.row.id \in proved'
  <2>0. worker'.row.id \in Nat \ {0} /\ worker'.host \in Hosts
    BY <1>7 DEF IInv, WorkerOK, AnyRow
  <2>1. CASE /\ worker.at \in Out
             /\ worker'.host = worker.host /\ worker'.row = worker.row /\ worker'.kind = worker.kind
             /\ worker'.at = "reload" => worker.at = "reload" \/ row[worker.host].id \in proved'
    BY <2>0, <2>1 DEF OwnersInv, IdsOK, ProvedOK
  <2>2. ASSUME worker'.at # "reload",
               NEW i \in worker.todo, worker'.host = i.host, worker'.kind = i.kind,
               worker'.row = row[i.host], row[i.host].id = i.id
        PROVE  /\ worker'.row.id <= lastId
               /\ row[worker'.host].tenant = worker'.row.tenant
               /\ worker'.kind = "health" => worker'.row.id \in proved
    BY <2>2 DEF OwnersInv, IdsOK, ProvedOK
  <2> QED
    BY <1>7, <2>0, <2>1, <2>2 DEF WorkerStep
<1>8. IdsOK'
  <2>1. \A i \in worker'.todo : i.id <= lastId'
    BY <1>1, <1>6
  <2>2. worker'.at \in Out =>
          /\ worker'.row.id <= lastId'
          /\ row'[worker'.host].id = worker'.row.id => row'[worker'.host].tenant = worker'.row.tenant
    BY <1>1, <1>4, <1>7
  <2> QED
    BY <1>3, <2>1, <2>2 DEF IdsOK
<1>9. ProvedOK'
  <2>1. VerifiedOwner'
    BY <1>5 DEF VerifiedOwner, Served
  <2>2. \A i \in worker'.todo : i.kind = "health" => i.id \in proved'
    BY <1>6
  <2>3. worker'.at \in Out /\ worker'.kind = "health" => worker'.row.id \in proved'
    BY <1>7
  <2>4. worker'.at = "reload" /\ row'[worker'.host].id = worker'.row.id => worker'.row.id \in proved'
    BY <1>4, <1>7 DEF Out
  <2> QED
    BY <2>1, <2>2, <2>3, <2>4 DEF ProvedOK
<1> QED
  BY <1>8, <1>9

-----------------------------------------------------------------------------
(* The primary hosts. *)

\* A step that gives no tenant a new primary host, on rows whose claims go on.
LEMMA PrimaryKept ==
    ASSUME PrimaryOK, primary' \in [Tenants -> Hosts \cup {None, Home}], late \subseteq late',
           \A t \in Tenants, h \in Hosts :
              primary'[t] = h => /\ primary[t] = h
                                 /\ row'[h].tenant = row[h].tenant /\ row'[h].removing = row[h].removing
                                 /\ row'[h].id = row[h].id
    PROVE  PrimaryOK'
BY DEF PrimaryOK

LEMMA PrimarySame ==
    ASSUME PrimaryOK, SameClaims, primary' = primary, late \subseteq late'
    PROVE  PrimaryOK'
BY PrimaryKept DEF PrimaryOK, SameClaims, SameClaim

LEMMA AddKeeps ==
    ASSUME OwnersInv, NEW t \in Tenants, Add(t)
    PROVE  RowStep /\ PrimaryOK'
<1> DEFINE g == page[t].host
           new == [NoRow EXCEPT !.id = lastId', !.tenant = t, !.status = "verifying", !.created = now,
                                !.until = now + PendingDays, !.next = now]
<1>0. g \in Hosts /\ RowsOK /\ PrimaryOK /\ late' = late
  BY Answered DEF Add, OwnersInv, IInv, PagesOK, RequestOK
<1>a. CASE ~Claimable(t)
  BY <1>0, <1>a, SameRows, PrimarySame DEF Add, SameClaims, RowStep
<1>b. CASE Claimable(t)
  <2>1. row' = [row EXCEPT ![g] = new] /\ lastId' = lastId + 1
    BY <1>b DEF Add
  <2>2. new.id = lastId' /\ ~Served(new)
    BY DEF NoRow, Served
  <2>3. row'[g] = new /\ \A h \in Hosts \ {g} : row'[h] = row[h]
    BY <1>0, <2>1 DEF RowsOK
  <2>4. NewClaim(g) /\ \A h \in Hosts \ {g} : SameClaim(h)
    BY <2>1, <2>2, <2>3 DEF NewClaim, SameClaim, Served
  <2>5. primary' = [s \in Tenants |-> IF primary[s] = g THEN None ELSE primary[s]]
    BY <1>b DEF Add
  <2>6. primary' \in [Tenants -> Hosts \cup {None, Home}]
    BY <1>0, <2>5 DEF PrimaryOK
  <2>7. \A s \in Tenants, h \in Hosts : primary'[s] = h => primary[s] = h /\ h # g
    BY <2>5, NotHosts
  <2>8. PrimaryOK'
    BY <1>0, <2>3, <2>6, <2>7, PrimaryKept
  <2> QED
    BY <2>4, <2>8 DEF RowStep
<1> QED
  BY <1>a, <1>b

\* h is its tenant's primary no more; nobody else's changes.
LEMMA FallsBack ==
    ASSUME PrimaryOK, NEW g \in Hosts, NEW r, NEW was, FallBack(r, g, was)
    PROVE  /\ primary' \in [Tenants -> Hosts \cup {None, Home}]
           /\ \A t \in Tenants, h \in Hosts : primary'[t] = h => primary[t] = h
           /\ r \in Tenants => primary'[r] # g
<1> DEFINE new == CASE was /\ status[r] # "purged" -> Home
                    [] primary[r] = g -> None
                    [] OTHER -> primary[r]
<1>1. primary' = [primary EXCEPT ![r] = new]
  BY DEF FallBack
<1>2. new \in {Home, None} \/ (new = primary[r] /\ primary[r] # g)
  OBVIOUS
<1>3. CASE r \in Tenants
  <2>1. primary'[r] = new /\ \A t \in Tenants \ {r} : primary'[t] = primary[t]
    BY <1>1, <1>3 DEF PrimaryOK
  <2>2. primary' \in [Tenants -> Hosts \cup {None, Home}]
    <3>1. primary[r] \in Hosts \cup {None, Home}
      BY <1>3 DEF PrimaryOK
    <3>2. new \in Hosts \cup {None, Home}
      BY <1>2, <3>1
    <3> HIDE DEF new
    <3> QED
      BY <1>1, <3>2 DEF PrimaryOK
  <2> HIDE DEF new
  <2> QED
    BY <1>2, <1>3, <2>1, <2>2, NotHosts
<1>4. CASE r \notin Tenants
  <2>1. primary' = primary
    <3> HIDE DEF new
    <3> QED
      BY <1>1, <1>4 DEF PrimaryOK
  <2> QED
    BY <1>4, <2>1 DEF PrimaryOK
<1> QED
  BY <1>3, <1>4

LEMMA RequestRemovalKeeps ==
    ASSUME OwnersInv, NEW g \in Hosts, RequestRemoval(g)
    PROVE  RowStep /\ PrimaryOK'
<1> DEFINE new == [row[g] EXCEPT !.removing = TRUE, !.next = now]
           owner == row[g].tenant
<1>1. row' = [row EXCEPT ![g] = new] /\ Exists(g) /\ RowsOK /\ PrimaryOK /\ late' = late
  BY DEF RequestRemoval, OwnersInv, IInv
<1>2. new.id = row[g].id /\ new.tenant = row[g].tenant /\ new.status = row[g].status
  BY <1>1 DEF RowsOK, AnyRow
<1>3. row'[g] = new /\ \A h \in Hosts \ {g} : row'[h] = row[h]
  BY <1>1 DEF RowsOK
<1>4. RemovalAsked(g) /\ \A h \in Hosts \ {g} : SameClaim(h)
  BY <1>2, <1>3 DEF RemovalAsked, SameClaim, Served
<1>5. PrimaryOK'
  <2>1. owner \in Tenants /\ FallBack(owner, g, primary[owner] = g)
    BY <1>1 DEF RequestRemoval, RowsOK
  <2>2. /\ primary' \in [Tenants -> Hosts \cup {None, Home}]
        /\ \A t \in Tenants, h \in Hosts : primary'[t] = h => primary[t] = h
        /\ primary'[owner] # g
    <3> HIDE DEF owner
    <3> QED
      BY <1>1, <2>1, FallsBack
  <2>4. \A t \in Tenants, h \in Hosts : primary'[t] = h => h # g
    <3> SUFFICES ASSUME NEW t \in Tenants, primary'[t] = g
                 PROVE  FALSE
      OBVIOUS
    <3>1. row[g].tenant = t
      BY <1>1, <2>2 DEF PrimaryOK
    <3> QED
      BY <2>2, <3>1
  <2>3. \A t \in Tenants, h \in Hosts : primary'[t] = h => primary[t] = h /\ row'[h] = row[h]
    BY <1>3, <2>2, <2>4
  <2> HIDE DEF owner, new
  <2> QED
    BY <1>1, <2>2, <2>3, PrimaryKept
<1> QED
  BY <1>4, <1>5 DEF RowStep

LEMMA MakePrimaryKeeps ==
    ASSUME OwnersInv, NEW t \in Tenants, MakePrimary(t)
    PROVE  PrimaryOK'
<1> DEFINE g == page[t].host
           there == g # Home /\ row[g].id = page[t].id
           new == IF g = Home \/ there THEN g ELSE None
<1>1. /\ primary' = [primary EXCEPT ![t] = new] /\ row' = row /\ PrimaryOK /\ late \subseteq late'
      /\ there /\ row[g].removing => <<"primary", row[g].id>> \in late'
  BY DEF MakePrimary, OwnersInv, Late
<1>2. g # Home => g \in Hosts /\ (there => row[g].tenant = t)
  BY Answered DEF MakePrimary, OwnersInv, IInv, PagesOK, RequestOK
<1>3. new \in Hosts => new = g /\ there
  BY <1>2, NotHosts
<1>4. new \in Hosts \cup {Home, None}
  BY <1>2
<1>5. new \in Hosts => row[new].tenant = t /\ (row[new].removing => <<"primary", row[new].id>> \in late')
  BY <1>1, <1>2, <1>3
<1> HIDE DEF new, there, g
<1> QED
  BY <1>1, <1>4, <1>5, NotHosts DEF PrimaryOK

LEMMA ReleaseBrokenPrimary ==
    ASSUME OwnersInv, ReleaseBroken
    PROVE  PrimaryOK'
<1>1. SameClaims /\ PrimaryOK /\ worker.host \in Hosts /\ late' = late
  BY ReleaseBrokenKeeps, OutFacts DEF OwnersInv, ReleaseBroken, Out
<1>2. CASE primary' = primary
  BY <1>1, <1>2, PrimarySame
<1>3. CASE FallBack(worker.row.tenant, worker.host, worker.primary)
  BY <1>1, <1>3, FallsBack, PrimaryKept DEF SameClaims, SameClaim
<1> QED
  BY <1>2, <1>3 DEF ReleaseBroken

LEMMA RemoveKeeps ==
    ASSUME OwnersInv, Remove
    PROVE  RowStep /\ PrimaryOK'
<1> DEFINE g == worker.host
<1>1. g \in Hosts /\ RowsOK /\ PrimaryOK /\ worker.row.id # 0 /\ worker.at \in Out /\ late' = late
  BY OutFacts DEF OwnersInv, Remove, Out
<1>2. CASE row' = row /\ primary' = primary
  BY <1>1, <1>2, SameRows, PrimarySame DEF SameClaims, RowStep
<1>3. CASE row[g].id # worker.row.id /\ row' = row /\ FallBack(worker.row.tenant, g, worker.primary)
  BY <1>1, <1>3, SameRows, FallsBack, PrimaryKept DEF SameClaims, RowStep
<1>4. CASE row[g].id = worker.row.id /\ row' = [row EXCEPT ![g] = NoRow] /\ FallBack(worker.row.tenant, g, worker.primary)
  <2>1. row'[g] = NoRow /\ \A h \in Hosts \ {g} : row'[h] = row[h]
    BY <1>1, <1>4 DEF RowsOK
  <2>2. RowStep
    BY <2>1 DEF RowStep, SameClaim, Gone, Served
  <2>3. row[g].tenant = worker.row.tenant /\ row[g].tenant \in Tenants
    BY <1>1, <1>4 DEF OwnersInv, IdsOK, RowsOK, Exists
  <2>4. \A t \in Tenants : primary'[t] # g
    <3> SUFFICES ASSUME NEW t \in Tenants, primary'[t] = g
                 PROVE  FALSE
      OBVIOUS
    <3>1. primary[t] = g /\ primary'[worker.row.tenant] # g
      BY <1>1, <1>4, <2>3, FallsBack
    <3>2. row[g].tenant = t
      BY <1>1, <3>1 DEF PrimaryOK
    <3> QED
      BY <2>3, <3>1, <3>2
  <2>5. PrimaryOK'
    BY <1>1, <1>4, <2>1, <2>4, FallsBack, PrimaryKept
  <2> QED
    BY <2>2, <2>5
<1> QED
  BY <1>2, <1>3, <1>4 DEF Remove, Update

LEMMA PurgeRowsKeeps ==
    ASSUME OwnersInv, PurgeRows
    PROVE  RowStep /\ PrimaryOK'
<1> DEFINE t == purge.tenant
<1>1. /\ t \in Tenants /\ RowsOK /\ PrimaryOK /\ late' = late
      /\ row' = [h \in Hosts |-> IF h \in OwnedBy(t) THEN NoRow ELSE row[h]]
      /\ primary' = [primary EXCEPT ![t] = None]
  BY DEF PurgeRows, OwnersInv, IInv
<1>2. \A h \in Hosts : \/ row'[h] = NoRow /\ row[h].tenant = t
                      \/ row'[h] = row[h]
  BY <1>1 DEF OwnedBy
<1>3. RowStep
  BY <1>2 DEF RowStep, Gone, SameClaim, Served
<1>4. \A s \in Tenants, h \in Hosts : primary'[s] = h => s # t /\ primary[s] = h
  BY <1>1, NotHosts DEF PrimaryOK
<1>5. primary' \in [Tenants -> Hosts \cup {None, Home}]
  BY <1>1 DEF PrimaryOK
<1>6. \A s \in Tenants, h \in Hosts : primary'[s] = h => row'[h] = row[h]
  BY <1>1, <1>2, <1>4 DEF PrimaryOK
<1> QED
  BY <1>1, <1>3, <1>4, <1>5, <1>6, PrimaryKept

-----------------------------------------------------------------------------
(* All of it. *)

\* The thread's steps but Remove keep every claim.
LEMMA WorkerKeeps ==
    ASSUME OwnersInv, Worker
    PROVE  RowStep /\ PrimaryOK'
<1> IInv /\ ProvedOK /\ PrimaryOK
  BY DEF OwnersInv
<1> SameClaims => RowStep
  BY DEF SameClaims, RowStep
<1> late \subseteq late'
  BY DEF Worker, Wake, Begin, CheckDns, IssueCert, WriteVhost, Reload, HealthDns, ReleaseBroken, Remove
<1>1. CASE Wake
  BY <1>1, SameRows, PrimarySame DEF Wake
<1>2. CASE Begin
  BY <1>2, BeginKeeps, PrimarySame DEF Begin
<1>3. CASE CheckDns
  BY <1>3, CheckDnsKeeps, PrimarySame DEF CheckDns
<1>4. CASE IssueCert
  <2>1. worker.at \in Out /\ (row' = row \/ IssueFailed) /\ primary' = primary
    BY <1>4 DEF IssueCert, Out
  <2> QED
    BY <2>1, IssueFailedKeeps, SameRows, PrimarySame
<1>5. CASE WriteVhost
  <2>1. worker.at \in Out /\ (row' = row \/ IssueFailed) /\ primary' = primary
    BY <1>5 DEF WriteVhost, Out
  <2> QED
    BY <2>1, IssueFailedKeeps, SameRows, PrimarySame
<1>6. CASE Reload
  BY <1>6, ReloadKeeps, PrimarySame DEF Reload
<1>7. CASE HealthDns
  BY <1>7, HealthDnsKeeps, PrimarySame DEF HealthDns
<1>8. CASE ReleaseBroken
  BY <1>8, ReleaseBrokenKeeps, ReleaseBrokenPrimary
<1> QED
  BY <1>1, <1>2, <1>3, <1>4, <1>5, <1>6, <1>7, <1>8, RemoveKeeps DEF Worker

LEMMA OwnersInit == Init => OwnersInv
<1> SUFFICES ASSUME Init PROVE OwnersInv
  OBVIOUS
<1>1. IInv
  BY InitOK
<1>2. row = [h \in Hosts |-> NoRow] /\ worker = Idle /\ lastId = 0 /\ primary = [t \in Tenants |-> Home]
  BY DEF Init
<1>3. IdsOK /\ ProvedOK
  BY <1>2, RowValues DEF IdsOK, ProvedOK, VerifiedOwner, Served, Idle, Out
<1>4. PrimaryOK
  BY <1>2, NotHosts DEF PrimaryOK
<1> QED
  BY <1>1, <1>3, <1>4 DEF OwnersInv

LEMMA OwnersKept ==
    ASSUME OwnersInv, [Next]_vars
    PROVE  OwnersInv'
<1> IInv /\ PrimaryOK /\ WorkerOK
  BY DEF OwnersInv, IInv
<1>1. IInv'
  BY NextOK
<1>2. lastId' \in {lastId, lastId + 1} /\ proved \subseteq proved'
  <2>1. proved \subseteq proved'
    BY DEF Next, vars, web, Asks, AskAdd, AskCheck, AskPrimary, Add, ProviderRemoves, ChangeDns, TenantActs,
           OpenOrClose, PurgeBegin, PurgeRelease, PurgeRows, Worker, Wake, Begin, CheckDns, IssueCert, WriteVhost, Reload,
           HealthDns, ReleaseBroken, Remove, Restart, Tick, CheckNow, MakePrimary, RequestRemoval
  <2> QED
    BY <2>1, LastIdStep
<1> SameClaims => RowStep
  BY DEF SameClaims, RowStep
<1>3. ASSUME row' = row /\ primary' = primary /\ late' = late
      PROVE  RowStep /\ PrimaryOK'
  BY <1>3, SameRows, PrimarySame
<1>4. RowStep /\ PrimaryOK' /\ WorkerStep
  <2>1. CASE \E t \in Tenants : Add(t)
    BY <2>1, AddKeeps, Staying DEF Add
  <2>2. CASE \E h \in Hosts : RequestRemoval(h)
    BY <2>2, RequestRemovalKeeps, Staying DEF RequestRemoval
  <2>3. CASE \E t \in Tenants : CheckNow(t)
    <3>1. worker' = worker /\ primary' = primary /\ late \subseteq late'
      BY <2>3 DEF CheckNow, Late
    <3> QED
      BY <2>3, <3>1, CheckNowKeeps, PrimarySame, Staying
  <2>4. CASE \E t \in Tenants : MakePrimary(t)
    BY <2>4, MakePrimaryKeeps, SameRows, Staying DEF MakePrimary
  <2>5. CASE Worker
    BY <2>5, WorkerKeeps, WorkerKnows
  <2>6. CASE PurgeRows
    BY <2>6, PurgeRowsKeeps, Staying DEF PurgeRows
  <2>7. CASE Restart
    <3> {} \in SUBSET worker.todo
      OBVIOUS
    <3> QED
      BY <2>7, <1>3, Resting DEF Restart
  <2>8. CASE \/ \E h \in Hosts : ChangeDns(h)
             \/ \E t \in Tenants : OpenOrClose(t) \/ PurgeBegin(t)
             \/ PurgeRelease \/ Tick \/ UNCHANGED vars
    <3>1. row' = row /\ primary' = primary /\ worker' = worker /\ late' = late
      BY <2>8 DEF ChangeDns, OpenOrClose, PurgeBegin, PurgeRelease, Tick, vars
    <3> QED
      BY <3>1, <1>3, Staying
  <2>9. CASE \E t \in Tenants : \/ \E h \in Hosts : AskAdd(t, h)
                                \/ \E h \in OwnedBy(t) : AskCheck(t, h)
                                \/ \E h \in OwnedBy(t) \cup {Home} : AskPrimary(t, h)
    <3>1. row' = row /\ primary' = primary /\ worker' = worker /\ late' = late
      BY <2>9 DEF AskAdd, AskCheck, AskPrimary, Asks
    <3> QED
      BY <3>1, <1>3, Staying
  <2> QED
    BY <2>1, <2>2, <2>3, <2>4, <2>5, <2>6, <2>7, <2>8, <2>9 DEF Next, ProviderRemoves, TenantActs, OwnedBy
<1> QED
  BY <1>1, <1>2, <1>4, KnowledgeKept DEF OwnersInv

LEMMA OwnersAlways == Spec => []OwnersInv
BY OwnersInit, OwnersKept, PTL DEF Spec

\* A domain is in service for a tenant only if rdf-helper itself saw it point
\* at that tenant for this very claim of the domain (check_domain before
\* write-vhost), whoever claimed the domain while the thread was out for it.
THEOREM ServedIsVerified == Spec => []VerifiedOwner
<1>1. OwnersInv => VerifiedOwner
  BY DEF OwnersInv, ProvedOK
<1> QED
  BY <1>1, OwnersAlways, PTL

\* The links, mails and guides of a tenant (primary_host) never name a domain
\* of somebody else, nor one on its way out unless a request that had read it
\* before made it primary after its removal was asked for (make_primary), whatever
\* the thread, a purge and the pages do to the rows in between.
THEOREM PrimaryAlwaysWorks == Spec => []PrimaryWorks
<1>1. OwnersInv => PrimaryWorks
  BY DEF OwnersInv, PrimaryOK, PrimaryWorks
<1> QED
  BY <1>1, OwnersAlways, PTL
=============================================================================
