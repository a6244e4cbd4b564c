---------------------------- MODULE SchemaMigration ---------------------------
(***************************************************************************)
(* The start-up migrations of the fleet database (deps.py run_migrations,    *)
(* tenant_migration.py migrate): the users table is rebuilt without its old   *)
(* CHECK, columns are added one by one, and one transaction makes the         *)
(* deployment tenant #1 and gives every tenant-owned table its tenant_id.     *)
(* The dashboard and provider_admin.py run them, each may be killed at any    *)
(* step and starts over; sqlite lets one connection write at a time.          *)
(*                                                                          *)
(* Outside migrate's transaction a CREATE TABLE or ALTER TABLE is committed    *)
(* at once: Python opens a transaction for INSERT, UPDATE and DELETE only.     *)
(* Left out: the tables made with CREATE ... IF NOT EXISTS, most of the        *)
(* columns, foreign keys, and waiting for the lock in vain.                    *)
(***************************************************************************)
EXTENDS Naturals, Sequences, FiniteSetsExt

CONSTANTS
    Starters,      \* processes that migrate; the dashboard is one of them
    TenantTables,  \* tenant-owned tables
    MaxUserId      \* bound on user ids

ASSUME SchemaAssumption == MaxUserId \in Nat /\ "none" \notin Starters /\ "users" \in TenantTables

VARIABLES
    db,            \* the database, as committed
    work,          \* the database as the writer's transaction sees it
    writer,        \* the process in a transaction, or "none"
    left,          \* tables that migrate's transaction has still to look at
    starter,       \* by process: its step, batch and column
    handedOut,     \* history: the highest user id ever handed out
    abroad,        \* history: the users that were last created in another tenant than #1
    usersRebuilt   \* history: what the users table was when it was rebuilt for its CHECK

schemaVars == <<db, work, writer, left, starter, handedOut, abroad, usersRebuilt>>
histories == <<handedOut, abroad, usersRebuilt>>

\* Columns added together: looked for by the first one.
Batches == <<<<"label">>, <<"auto_update", "auto_update_ts">>, <<"remote_config", "policy_ts">>>>
Columns == {"label", "auto_update", "auto_update_ts", "remote_config", "policy_ts"}

Ready == [at |-> "users", batch |-> 1, next |-> 1]

SchemaInit ==
    /\ \E old \in BOOLEAN, ids \in SUBSET (1 .. MaxUserId), n \in 0 .. MaxUserId :
          /\ \A u \in ids : u <= n
          /\ db = [check |-> old, spare |-> FALSE, columns |-> {}, tenancy |-> {}, tenantOne |-> FALSE,
                   users |-> ids, others |-> {}, sequence |-> n]
          /\ handedOut = n
    /\ work = db /\ writer = "none" /\ left = {}
    /\ starter = [p \in Starters |-> Ready]
    /\ abroad = {} /\ usersRebuilt = {}

Database == [check : BOOLEAN, spare : BOOLEAN, columns : SUBSET Columns, tenancy : SUBSET TenantTables,
             tenantOne : BOOLEAN, users : SUBSET (1 .. MaxUserId), others : SUBSET (1 .. MaxUserId), sequence : 0 .. MaxUserId]

SchemaTypeOK ==
    /\ db \in Database /\ work \in Database /\ writer \in Starters \cup {"none"} /\ left \subseteq TenantTables
    /\ starter \in [Starters -> [at : {"users", "create", "copy", "copied", "columns", "alter", "fill", "tenancy",
                                       "begin", "tables", "done", "failed"},
                                 batch : 1 .. Len(Batches) + 1, next : 1 .. 2]]
    /\ handedOut \in 0 .. MaxUserId /\ abroad \subseteq 1 .. MaxUserId
    /\ usersRebuilt \subseteq {"bare", "tenanted"}

-----------------------------------------------------------------------------
(* One connection's statements. *)

Goto(p, step) == starter' = [starter EXCEPT ![p].at = step]

\* A statement outside a transaction: committed at once.
AutoCommit(d) == writer = "none" /\ db' = d /\ work' = d /\ UNCHANGED writer

\* BEGIN, or the first INSERT.
BeginWith(p, d) == writer = "none" /\ writer' = p /\ work' = d /\ UNCHANGED db

\* Mutant: no transaction around migrate's statements.
WithinNone(p, d) == writer = p /\ db' = d /\ work' = d /\ UNCHANGED writer

\* A statement of the writer's transaction.
Within(p, d) == writer = p /\ work' = d /\ UNCHANGED <<db, writer>>

Commit(p) == writer = p /\ writer' = "none" /\ db' = work /\ UNCHANGED work

Unchanged == UNCHANGED <<db, work, writer>>

-----------------------------------------------------------------------------
(* The users table without its old CHECK. *)

\* Is the CHECK still there?
LookAtUsers(p) ==
    /\ starter[p].at = "users"
    /\ Goto(p, IF db.check THEN "create" ELSE "columns")
    /\ Unchanged /\ UNCHANGED <<left, histories>>

\* CREATE TABLE users_rebuild, which fails if it is there.
CreateSpare(p) ==
    /\ starter[p].at = "create" /\ writer = "none"
    /\ IF db.spare THEN Goto(p, "failed") /\ Unchanged
       ELSE Goto(p, "copy") /\ AutoCommit([db EXCEPT !.spare = TRUE])
    /\ UNCHANGED <<left, histories>>

MaxOf(S) == IF S = {} THEN 0 ELSE Max(S)

\* The rows are copied, the old table dropped with its counter, the new one renamed.  The new one has no tenant_id,
\* whatever the old one had got since it was looked at.
CopyUsers(p) ==
    /\ starter[p].at = "copy" /\ writer = "none"
    /\ IF ~db.spare THEN Goto(p, "failed") /\ Unchanged
       ELSE /\ Goto(p, "copied")
            /\ BeginWith(p, [db EXCEPT !.check = FALSE, !.spare = FALSE, !.sequence = MaxOf(db.users),
                                       !.tenancy = @ \ {"users"}, !.others = {}])
    /\ UNCHANGED <<left, histories>>

CommitUsers(p) ==
    /\ starter[p].at = "copied"
    /\ Commit(p)
    /\ usersRebuilt' = usersRebuilt \cup {IF "users" \in db.tenancy THEN "tenanted" ELSE "bare"}
    /\ Goto(p, "columns")
    /\ UNCHANGED <<left, handedOut, abroad>>

-----------------------------------------------------------------------------
(* Columns. *)

Batch(p) == Batches[starter[p].batch]

\* The next batch: skipped when its first column is there.
LookAtColumns(p) ==
    /\ starter[p].at = "columns"
    /\ starter' = [starter EXCEPT ![p] =
          IF @.batch > Len(Batches) THEN [@ EXCEPT !.at = "tenancy"]
          ELSE IF Batch(p)[1] \in db.columns THEN [@ EXCEPT !.batch = starter[p].batch + 1]
          ELSE [@ EXCEPT !.at = "alter", !.next = 1]]
    /\ Unchanged /\ UNCHANGED <<left, histories>>

\* ALTER TABLE ... ADD COLUMN, which fails if the column is there.
AddColumn(p) ==
    LET column == Batch(p)[starter[p].next]
    IN  /\ starter[p].at = "alter" /\ writer = "none"
        /\ IF column \in db.columns THEN Goto(p, "failed") /\ Unchanged
           ELSE /\ AutoCommit([db EXCEPT !.columns = @ \cup {column}])
                /\ starter' = [starter EXCEPT ![p] =
                      IF starter[p].next < Len(Batch(p)) THEN [@ EXCEPT !.next = starter[p].next + 1]
                      ELSE [@ EXCEPT !.at = "fill"]]
        /\ UNCHANGED <<left, histories>>

\* policy_ts takes over auto_update_ts, which has to be there; the other batches only commit.
FillColumns(p) ==
    /\ starter[p].at = "fill" /\ writer = "none"
    /\ IF starter[p].batch = 3 /\ "auto_update_ts" \notin db.columns THEN Goto(p, "failed")
       ELSE starter' = [starter EXCEPT ![p].at = "columns", ![p].batch = @ + 1]
    /\ Unchanged /\ UNCHANGED <<left, histories>>

-----------------------------------------------------------------------------
(* migrate. *)

\* needs_migration.
Needed(d) == ~d.tenantOne \/ d.tenancy # TenantTables

\* A no-op once done.
LookAtTenancy(p) ==
    /\ starter[p].at = "tenancy"
    /\ Goto(p, IF Needed(db) THEN "begin" ELSE "done")
    /\ Unchanged /\ UNCHANGED <<left, histories>>

\* BEGIN IMMEDIATE and tenant #1's rows, whoever has migrated meanwhile.
BeginTenancy(p) ==
    /\ starter[p].at = "begin"
    /\ BeginWith(p, [db EXCEPT !.tenantOne = TRUE]) /\ Goto(p, "tables")
    /\ left' = TenantTables
    /\ UNCHANGED histories

\* _rebuild leaves a table alone that has its tenant_id.
HasTenantId(d, t) == t \in d.tenancy

\* Mutant: the counter is what the copied rows leave.
CounterOfRows(counter, copied) == copied

\* The old table goes with its counter; what the copied rows left is raised to it.
CarriedOver(counter, copied) == IF copied < counter THEN counter ELSE copied

\* _rebuild: every row with tenant_id = 1; the final users table has no CHECK of the role.
Rebuilt(d, t) ==
    IF t = "users"
    THEN [d EXCEPT !.tenancy = @ \cup {t}, !.check = FALSE, !.others = {},
                   !.sequence = CarriedOver(d.sequence, MaxOf(d.users))]
    ELSE [d EXCEPT !.tenancy = @ \cup {t}]

RebuildTable(p, t) ==
    /\ starter[p].at = "tables" /\ t \in left
    /\ Within(p, IF HasTenantId(work, t) THEN work ELSE Rebuilt(work, t))
    /\ left' = left \ {t}
    /\ UNCHANGED <<starter, histories>>

CommitTenancy(p) ==
    /\ starter[p].at = "tables" /\ left = {}
    /\ Commit(p) /\ Goto(p, "done")
    /\ UNCHANGED <<left, histories>>

-----------------------------------------------------------------------------

\* The process is killed, or exits with the error; what it hadn't committed is gone, and it starts again.
Restarted(p) ==
    /\ starter[p] # Ready
    /\ starter' = [starter EXCEPT ![p] = Ready]
    /\ IF writer = p THEN writer' = "none" /\ work' = db /\ left' = {} ELSE UNCHANGED <<work, writer, left>>
    /\ UNCHANGED <<db, histories>>

\* The running dashboard creates users, of tenant #1 or of another, and deletes them.
AddUserRow(other) ==
    LET u == db.sequence + 1
    IN  /\ starter["dashboard"].at = "done" /\ writer = "none" /\ "users" \in db.tenancy /\ u <= MaxUserId
        /\ AutoCommit([db EXCEPT !.sequence = u, !.users = @ \cup {u}, !.others = IF other THEN @ \cup {u} ELSE @ \ {u}])
        /\ handedOut' = MaxOf({handedOut, u})
        /\ abroad' = IF other THEN abroad \cup {u} ELSE abroad \ {u}
        /\ UNCHANGED <<left, starter, usersRebuilt>>

DropUserRow(u) ==
    /\ starter["dashboard"].at = "done" /\ u \in db.users
    /\ AutoCommit([db EXCEPT !.users = @ \ {u}, !.others = @ \ {u}])
    /\ UNCHANGED <<left, starter, histories>>

SchemaNext ==
    \/ \E p \in Starters :
          \/ LookAtUsers(p) \/ CreateSpare(p) \/ CopyUsers(p) \/ CommitUsers(p)
          \/ LookAtColumns(p) \/ AddColumn(p) \/ FillColumns(p)
          \/ LookAtTenancy(p) \/ BeginTenancy(p) \/ CommitTenancy(p) \/ \E t \in TenantTables : RebuildTable(p, t)
          \/ Restarted(p)
    \/ \E other \in BOOLEAN : AddUserRow(other)
    \/ \E u \in 1 .. MaxUserId : DropUserRow(u)

SchemaSpec == SchemaInit /\ [][SchemaNext]_schemaVars

-----------------------------------------------------------------------------
(* Properties. *)

\* The tables get their tenant_id all at once and with tenant #1, wherever a start-up is killed and however many
\* processes have found the migration needed; a user created in another tenant meanwhile stays in it; and no user id
\* is handed out twice (migrate, _rebuild).  The exception is the users table rebuilt for its CHECK: that loses the
\* counter, and the tenants of the users when another process had migrated since the CHECK was looked at.
TenancyWhole ==
    /\ "tenanted" \notin usersRebuilt => db.tenancy \in {{}, TenantTables} /\ db.others = abroad \cap db.users
    /\ db.tenancy # {} => db.tenantOne
    /\ usersRebuilt = {} => db.sequence = handedOut

\* The claim of deps.py:225-226, every step is idempotent, safe on every startup: no start-up fails.
StartsAlways == \A p \in Starters : starter[p].at # "failed"
=============================================================================
