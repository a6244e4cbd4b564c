------------------------------- MODULE MCComponents -------------------------------
(***************************************************************************)
(* The safety of the components around the tenants' lives, on small           *)
(* instances.  They share no state, except SupportAccess and ProviderAdmins,    *)
(* so a run takes one of them, chosen at the start, and leaves the others in     *)
(* their initial states: what holds of a component here is what holds of it      *)
(* alone.  Nothing reads a download link but its own actions, so the moves of the *)
(* pin are taken without links, and links with one release.  The values of the     *)
(* constants are in the .cfg file and below.                                     *)
(***************************************************************************)
EXTENDS Accounts, RelayHelper, SupportAccess, Backups, HostCache, DomainCheck, Installers, SchemaMigration

VARIABLE turn   \* the component of this run

\* Without support sessions there is room for enrolment: pit is invited.
Staff == INSTANCE ProviderAdmins WITH MaxLinks <- 1

\* A server with a passphrase, keeping one archive, and one without.
BackupSettings == {[remote |-> TRUE, secret |-> "p", keep |-> 1, offsiteKeep |-> 1],
                   [remote |-> TRUE, secret |-> "unset", keep |-> 2, offsiteKeep |-> 0]}

\* What a resolver may answer: each way a name can point here, and each way it can fail to.
Blank == [down |-> FALSE, cname |-> "none", a |-> {}, aaaa |-> {}, txt |-> {}, caa |-> "none", parentCaa |-> "none"]
Ours == [Blank EXCEPT !.a = {"ours"}]
Answerable == {
    Blank, [Blank EXCEPT !.down = TRUE],
    [Ours EXCEPT !.cname = "target"], [Ours EXCEPT !.cname = "target", !.caa = "denies"],
    [Ours EXCEPT !.cname = "account"], [Blank EXCEPT !.cname = "elsewhere", !.a = {"cdn"}],
    Ours, [Ours EXCEPT !.txt = {"token", "other"}], [Ours EXCEPT !.txt = {"other"}],
    [Blank EXCEPT !.a = {"ours", "other"}, !.txt = {"token"}],
    [Ours EXCEPT !.aaaa = {"other"}, !.txt = {"token"}],
    [Ours EXCEPT !.aaaa = {"ours"}, !.txt = {"token"}, !.parentCaa = "denies"],
    [Ours EXCEPT !.txt = {"token"}, !.caa = "allows", !.parentCaa = "denies"]}

allVars == <<turn, accountVars, adminVars, supportVars, backupVars, hostVars, checkVars, installerVars, helperVars,
             schemaVars>>

\* Of the idle components' initial states, one.
AllInit ==
    /\ turn \in {"accounts", "staff", "support", "backups", "names", "dns", "clients", "links", "helper", "schema"}
    /\ AccountsInit
    /\ SupportInit
    /\ BackupsInit /\ (turn # "backups" => backupCfg.keep = 1)
    /\ HostInit
    /\ CheckInit /\ (turn # "dns" => zone = [r \in 1 .. 2 |-> Blank])
    /\ InstallersInit
    /\ HelperInit /\ (turn # "helper" => relayRow = "r1")
    /\ SchemaInit /\ (turn # "schema" => db.users = {} /\ db.sequence = 0 /\ ~db.check)

AllNext ==
    \/ turn = "accounts" /\ AccountsNext
       /\ UNCHANGED <<turn, adminVars, supportVars, backupVars, hostVars, checkVars, installerVars, helperVars, schemaVars>>
    \/ turn = "staff" /\ Staff!AdminNext
       /\ UNCHANGED <<turn, supportVars, accountVars, backupVars, hostVars, checkVars, installerVars, helperVars, schemaVars>>
    \/ turn = "support" /\ SupportNext
       /\ UNCHANGED <<turn, accountVars, backupVars, hostVars, checkVars, installerVars, helperVars, schemaVars>>
    \/ turn = "backups" /\ BackupsNext
       /\ UNCHANGED <<turn, accountVars, adminVars, supportVars, hostVars, checkVars, installerVars, helperVars, schemaVars>>
    \/ turn = "names" /\ HostNext
       /\ UNCHANGED <<turn, accountVars, adminVars, supportVars, backupVars, checkVars, installerVars, helperVars, schemaVars>>
    \/ turn = "dns" /\ CheckNext
       /\ UNCHANGED <<turn, accountVars, adminVars, supportVars, backupVars, hostVars, installerVars, helperVars, schemaVars>>
    \/ turn = "clients" /\ ClientNext
       /\ UNCHANGED <<turn, accountVars, adminVars, supportVars, backupVars, hostVars, checkVars, helperVars, schemaVars>>
    \/ turn = "links" /\ InstallersNext /\ released' = 1
       /\ UNCHANGED <<turn, accountVars, adminVars, supportVars, backupVars, hostVars, checkVars, helperVars, schemaVars>>
    \/ turn = "helper" /\ HelperNext
       /\ UNCHANGED <<turn, accountVars, adminVars, supportVars, backupVars, hostVars, checkVars, installerVars, schemaVars>>
    \/ turn = "schema" /\ SchemaNext
       /\ UNCHANGED <<turn, accountVars, adminVars, supportVars, backupVars, hostVars, checkVars, installerVars, helperVars>>

AllSpec == AllInit /\ [][AllNext]_allVars

=============================================================================
