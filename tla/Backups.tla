------------------------------- MODULE Backups -------------------------------
(***************************************************************************)
(* Backups of the whole server (single-tenant/backup.py, backup_remote.py,  *)
(* console/server.py): the nightly timer's process and the console's        *)
(* threads make archives, copy them off-site, keep the newest, and restore  *)
(* one after a safety backup.  Nothing locks one run against another: every *)
(* step of a run is an action, any step may fail, a process may die between *)
(* two of them.                                                             *)
(*                                                                          *)
(* What the server holds is two version numbers, one for the relays' files  *)
(* and one for the control database.  An archive's name is the moment its   *)
(* run began: a number that grows.  Left out: which files can't be read and *)
(* are skipped, archives of the single-relay layout, rclone destinations.   *)
(***************************************************************************)
EXTENDS Integers, FiniteSets

CONSTANTS
    Workers,    \* processes and threads that make backups
    Restorers,  \* those of the console, which also restore
    Settings,   \* rows backup_config may hold: remote, secret, keep, offsiteKeep
    Unset,      \* the secret of a server without one
    MaxNames,   \* bound on archives begun
    MaxLive     \* bound on changes to what the server holds

\* The form keeps at least one archive.
ASSUME BackupsAssumption ==
    /\ MaxNames \in Nat /\ MaxLive \in Nat
    /\ Settings # {}
    /\ \A c \in Settings : c.keep \in Nat \ {0}

VARIABLES
    live,       \* what the server holds: relays, control
    serving,    \* the version the running relays have read
    backupCfg,  \* backup_config
    archives,   \* files in BACKUP_DIR: name, sealed (.gpg), whole, secret, relays, control
    offsite,    \* archives at the S3 destination
    names,      \* the last name given
    job,        \* by worker, what it is doing
    byHand      \* names of archives a provider deleted here

backupVars == <<live, serving, backupCfg, archives, offsite, names, job, byHand>>

NoArchive == [name |-> 0, sealed |-> FALSE, whole |-> FALSE, secret |-> Unset, relays |-> 0, control |-> 0]
NoJob == [at |-> "idle", cfg |-> CHOOSE c \in Settings : TRUE, own |-> NoArchive, local |-> FALSE,
         chosen |-> NoArchive, secret |-> Unset, staged |-> NoArchive, safe |-> 0]

BackupsInit ==
    /\ live = [relays |-> 0, control |-> 0]
    /\ serving = 0
    /\ backupCfg \in Settings
    /\ archives = {}
    /\ offsite = {}
    /\ names = 0
    /\ job = [w \in Workers |-> NoJob]
    /\ byHand = {}

Files == [name : 0 .. MaxNames, sealed : BOOLEAN, whole : BOOLEAN,
          secret : {c.secret : c \in Settings} \cup {Unset}, relays : 0 .. MaxLive, control : 0 .. MaxLive]

BackupsTypeOK ==
    /\ live \in [relays : 0 .. MaxLive, control : 0 .. MaxLive]
    /\ serving \in 0 .. MaxLive
    /\ backupCfg \in Settings
    /\ archives \subseteq Files
    /\ offsite \subseteq Files
    /\ names \in 0 .. MaxNames
    /\ job \in [Workers -> [
           at : {"idle", "stage", "relays", "tar", "gpg", "ship", "prune", "rotate", "extract", "put_relays",
                 "put_control", "restart"},
           cfg : Settings, own : Files, local : BOOLEAN, chosen : Files,
           secret : {c.secret : c \in Settings} \cup {Unset}, staged : Files, safe : 0 .. MaxNames]]
    /\ byHand \subseteq 1 .. MaxNames

-----------------------------------------------------------------------------
(* run: one archive. *)

At(w, pc) == job[w].at = pc
Goes(w, pc) == job' = [job EXCEPT ![w].at = pc]
SameFile(g, f) == g.name = f.name /\ g.sealed = f.sealed
OnDisk(f) == \E g \in archives : SameFile(g, f)
Without(f) == {g \in archives : ~SameFile(g, f)}

\* A name of its own for every run: the microseconds make it unique.
Fresh == names + 1

\* The settings are read, the archive is named, the control database is copied.
Begun(w, j) ==
    LET n == Fresh IN
        /\ n <= MaxNames
        /\ names' = n
        /\ job' = [job EXCEPT ![w] = [j EXCEPT !.at = "relays", !.cfg = backupCfg,
                                               !.own = [NoArchive EXCEPT !.name = n, !.control = live.control]]]

\* The timer, or Back up now.
StartRun(w) ==
    /\ At(w, "idle")
    /\ Begun(w, NoJob)
    /\ UNCHANGED <<live, serving, backupCfg, archives, offsite, byHand>>

\* After a run: idle, or on with the restore whatever the safety run gave.
Ended(j, ok) ==
    IF j.local THEN [j EXCEPT !.at = "extract", !.own = NoArchive, !.safe = IF ok THEN j.own.name ELSE 0]
    ELSE NoJob

\* An exception before the archive was shipped: its file under the current name goes.  Once it is closed only its
\* absence is one, when another run has rotated it away before its size was taken.
Fails(w) ==
    /\ job[w].at \in {"relays", "tar", "gpg"} \/ (At(w, "ship") /\ ~OnDisk(job[w].own))
    /\ archives' = Without(job[w].own)
    /\ job' = [job EXCEPT ![w] = Ended(@, FALSE)]
    /\ UNCHANGED <<live, serving, backupCfg, offsite, names, byHand>>

\* Every relay's files are copied, its keypair too or the run fails; tar opens the file.
CopyRelays(w) ==
    /\ At(w, "relays")
    /\ LET f == [job[w].own EXCEPT !.relays = live.relays]
       IN  archives' = Without(f) \cup {f} /\ job' = [job EXCEPT ![w].at = "tar", ![w].own = f]
    /\ UNCHANGED <<live, serving, backupCfg, offsite, names, byHand>>

\* tar closes the file; gpg opens its own when there is a passphrase.
CloseTar(w) ==
    LET f == [job[w].own EXCEPT !.whole = TRUE]
        g == [job[w].own EXCEPT !.sealed = TRUE, !.secret = job[w].cfg.secret]
    IN  /\ At(w, "tar") /\ OnDisk(f)
        /\ IF g.secret = Unset
           THEN archives' = Without(f) \cup {f} /\ job' = [job EXCEPT ![w].at = "ship", ![w].own = f]
           ELSE archives' = (Without(f) \cup {f, g}) /\ job' = [job EXCEPT ![w].at = "gpg", ![w].own = f]
        /\ UNCHANGED <<live, serving, backupCfg, offsite, names, byHand>>

\* _encrypt ends: the plain file goes.
CloseGpg(w) ==
    LET f == job[w].own
        g == [f EXCEPT !.sealed = TRUE, !.secret = job[w].cfg.secret]
    IN  /\ At(w, "gpg") /\ OnDisk(g)
        /\ archives' = {h \in archives : h.name # f.name} \cup {g}
        /\ job' = [job EXCEPT ![w].at = "ship", ![w].own = g]
        /\ UNCHANGED <<live, serving, backupCfg, offsite, names, byHand>>

\* ship: uploaded, or the destination refused; none is tried by a safety run or when it is off.
Ship(w) ==
    /\ At(w, "ship") /\ OnDisk(job[w].own)
    /\ \/ /\ job[w].cfg.remote /\ ~job[w].local
          /\ offsite' = {f \in offsite : f.name # job[w].own.name} \cup {job[w].own}
          /\ Goes(w, "prune")
       \/ Goes(w, "rotate") /\ UNCHANGED offsite
    /\ UNCHANGED <<live, serving, backupCfg, archives, names, byHand>>

\* list_remote, _rotate: the newest first, by name; a sealed file's name is the longer one.
Newer(g, f) == g.name > f.name \/ (g.name = f.name /\ g.sealed /\ ~f.sealed)

\* The files of S that aren't among the k newest.
Beyond(S, k) == {f \in S : Cardinality({g \in S : Newer(g, f)}) >= k}

\* prune: only after an upload; 0 keeps all, and an error leaves them.
Prune(w) ==
    /\ At(w, "prune")
    /\ \/ job[w].cfg.offsiteKeep > 0 /\ offsite' = offsite \ Beyond(offsite, job[w].cfg.offsiteKeep)
       \/ UNCHANGED offsite
    /\ Goes(w, "rotate")
    /\ UNCHANGED <<live, serving, backupCfg, archives, names, byHand>>

\* Mutant: the order by name isn't reversed.
OldestStay(k) == {f \in archives : Cardinality({g \in archives : g.name < f.name}) >= k}

\* What _rotate deletes: all but the newest k of whatever carries the name of an archive.
Surplus(k) == Beyond(archives, k)

\* _rotate, and the run reports success.
Rotate(w) ==
    /\ At(w, "rotate")
    /\ archives' = archives \ Surplus(job[w].cfg.keep)
    /\ job' = [job EXCEPT ![w] = Ended(@, TRUE)]
    /\ UNCHANGED <<live, serving, backupCfg, offsite, names, byHand>>

-----------------------------------------------------------------------------
(* restore. *)

\* What restore has when it has looked for the archive and read the passphrase.
Restoring(f) == [NoJob EXCEPT !.at = "stage", !.local = TRUE, !.chosen = f, !.secret = backupCfg.secret]

\* admin_backup_restore: one that is listed here and is there.
RestoreLocal(w) ==
    /\ w \in Restorers /\ At(w, "idle")
    /\ \E f \in archives : job' = [job EXCEPT ![w] = Restoring(f)]
    /\ UNCHANGED <<live, serving, backupCfg, archives, offsite, names, byHand>>

\* The private copy, of the file as it is now; then the safety run begins.
Stage(w) ==
    /\ At(w, "stage")
    /\ \E f \in archives : SameFile(f, job[w].chosen) /\ Begun(w, [job[w] EXCEPT !.staged = f])
    /\ UNCHANGED <<live, serving, backupCfg, archives, offsite, byHand>>

\* It is gone before it is copied: an exception.
StageFails(w) ==
    /\ At(w, "stage") /\ ~OnDisk(job[w].chosen)
    /\ job' = [job EXCEPT ![w] = NoJob]
    /\ UNCHANGED <<live, serving, backupCfg, archives, offsite, names, byHand>>

\* admin_backup_offsite_restore: one the destination lists, fetched to a place of its own.
RestoreOffsite(w) ==
    /\ w \in Restorers /\ At(w, "idle")
    /\ \E f \in offsite : Begun(w, [Restoring(f) EXCEPT !.staged = f])
    /\ UNCHANGED <<live, serving, backupCfg, archives, offsite, byHand>>

\* Mutant: without the private copy, the archive is read where it lies after the safety run.
StillThere(w) == IF job[w].staged \in archives THEN job[w].staged ELSE NoArchive

\* The private copy made before the safety run.
StagedCopy(w) == job[w].staged

\* The passphrase that the restore read opens f.
Opens(w, f) == f.sealed => f.secret = job[w].secret

\* It unpacks: complete, and sealed with that passphrase.
Unpacks(w) == StagedCopy(w).whole /\ Opens(w, StagedCopy(w))

Extract(w) ==
    /\ At(w, "extract")
    /\ IF Unpacks(w) THEN Goes(w, "put_relays") ELSE job' = [job EXCEPT ![w] = NoJob]
    /\ UNCHANGED <<live, serving, backupCfg, archives, offsite, names, byHand>>

\* _restore_relay for each relay of the archive's own database.
PutRelays(w) ==
    /\ At(w, "put_relays")
    /\ live' = [live EXCEPT !.relays = job[w].staged.relays]
    /\ Goes(w, "put_control")
    /\ UNCHANGED <<serving, backupCfg, archives, offsite, names, byHand>>

\* The control database, in place.
PutControl(w) ==
    /\ At(w, "put_control")
    /\ live' = [live EXCEPT !.control = job[w].staged.control]
    /\ Goes(w, "restart")
    /\ UNCHANGED <<serving, backupCfg, archives, offsite, names, byHand>>

\* An exception while files are put back: what was replaced stays so, and no relay is restarted.
RestoreFails(w) ==
    /\ job[w].at \in {"put_relays", "put_control"}
    /\ job' = [job EXCEPT ![w] = NoJob]
    /\ live' \in {live, [live EXCEPT !.relays = job[w].staged.relays]}
    /\ UNCHANGED <<serving, backupCfg, archives, offsite, names, byHand>>

\* restart_all_relays: a relay reads its files; one that doesn't restart keeps what it had read.
Reread == {live.relays, serving}

\* _finish_restore: every relay restarts.
RestartRelays(w) ==
    /\ At(w, "restart")
    /\ serving' \in Reread
    /\ job' = [job EXCEPT ![w] = NoJob]
    /\ UNCHANGED <<live, backupCfg, archives, offsite, names, byHand>>

-----------------------------------------------------------------------------
(* Everything else. *)

\* The console's process or the timer's dies: what it left in BACKUP_DIR stays.
Crash(w) ==
    /\ ~At(w, "idle")
    /\ job' = [job EXCEPT ![w] = NoJob]
    /\ UNCHANGED <<live, serving, backupCfg, archives, offsite, names, byHand>>

\* admin_backup_delete, of whatever is listed.
DeleteLocal(f) ==
    /\ f \in archives
    /\ archives' = archives \ {f}
    /\ byHand' = byHand \cup {f.name}
    /\ UNCHANGED <<live, serving, backupCfg, offsite, names, job>>

\* admin_backup_offsite_delete.
DeleteRemote(f) ==
    /\ f \in offsite
    /\ offsite' = offsite \ {f}
    /\ UNCHANGED <<live, serving, backupCfg, archives, names, job, byHand>>

\* _save_backup_form: a blank passphrase keeps the stored one.
SaveSettings(c) ==
    /\ c \in Settings /\ c # backupCfg
    /\ c.secret = Unset => backupCfg.secret = Unset
    /\ backupCfg' = c
    /\ UNCHANGED <<live, serving, archives, offsite, names, job, byHand>>

\* The fleet goes on: the relays or the control database change.
Works(part) ==
    /\ live[part] < MaxLive
    /\ live' = [live EXCEPT ![part] = @ + 1]
    /\ serving' = IF part = "relays" /\ serving = live.relays THEN serving + 1 ELSE serving
    /\ UNCHANGED <<backupCfg, archives, offsite, names, job, byHand>>

BackupsNext ==
    \/ \E w \in Workers :
        \/ StartRun(w) \/ Fails(w) \/ CopyRelays(w) \/ CloseTar(w) \/ CloseGpg(w) \/ Ship(w) \/ Prune(w) \/ Rotate(w)
        \/ RestoreLocal(w) \/ Stage(w) \/ StageFails(w) \/ RestoreOffsite(w)
        \/ Extract(w) \/ PutRelays(w) \/ PutControl(w) \/ RestoreFails(w) \/ RestartRelays(w) \/ Crash(w)
    \/ \E f \in archives : DeleteLocal(f)
    \/ \E f \in offsite : DeleteRemote(f)
    \/ \E c \in Settings : SaveSettings(c)
    \/ \E part \in {"relays", "control"} : Works(part)

BackupsSpec == BackupsInit /\ [][BackupsNext]_backupVars

-----------------------------------------------------------------------------
(* Properties. *)

\* An archive that was complete when the provider chose it, with the passphrase of that moment, doesn't fail to
\* unpack after the safety run, and what goes back is what it held, though that run's rotation, another run or a
\* provider deleted its file, or the passphrase changed (restore's private copy).  The restore may still end without
\* it: the file is gone before it is copied, putting the files back fails half-way, or the process dies.
ChosenIsRestored ==
    [][\A w \in Workers :
        job[w].chosen.whole /\ Opens(w, job[w].chosen) =>
            /\ Extract(w) => At(w, "put_relays")'
            /\ PutRelays(w) => live'.relays = job[w].chosen.relays
            /\ PutControl(w) => live'.control = job[w].chosen.control]_backupVars

\* While a restore overwrites, the archive its safety run reported is there to go back to, whatever other runs
\* rotate: until a later run began, or a provider deleted it (_rotate, the names of run).
SafetyStays ==
    \A w \in Workers :
        job[w].at \in {"put_relays", "put_control", "restart"} /\ job[w].safe = names /\ names > 0 /\ names \notin byHand
        => \E f \in archives : f.name = names /\ f.whole
=============================================================================
