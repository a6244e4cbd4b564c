---------------------------- MODULE Backups_proofs ----------------------------
(***************************************************************************)
(* Backups, for any number of workers and restores at once, each of which    *)
(* may fail or die at any step: the types, that what a restore puts back is    *)
(* the archive that was chosen, whatever became of its file, and that the      *)
(* safety archive of a restore is the newest here as long as no later run     *)
(* began.                                                                    *)
(***************************************************************************)
EXTENDS Backups, FiniteSetTheorems, TLAPS

Secrets == {c.secret : c \in Settings} \cup {Unset}

Job == [at : {"idle", "stage", "relays", "tar", "gpg", "ship", "prune", "rotate", "extract", "put_relays",
              "put_control", "restart"},
        cfg : Settings, own : Files, local : BOOLEAN, chosen : Files, secret : Secrets, staged : Files,
        safe : 0 .. MaxNames]

LEMMA Typed ==
    BackupsTypeOK <=>
        /\ live \in [relays : 0 .. MaxLive, control : 0 .. MaxLive]
        /\ serving \in 0 .. MaxLive
        /\ backupCfg \in Settings
        /\ archives \subseteq Files
        /\ offsite \subseteq Files
        /\ names \in 0 .. MaxNames
        /\ job \in [Workers -> Job]
        /\ byHand \subseteq 1 .. MaxNames
  BY DEF BackupsTypeOK, Job, Secrets

-----------------------------------------------------------------------------
(* Files and jobs. *)

LEMMA FileFields ==
    ASSUME NEW f \in Files
    PROVE  /\ f.name \in 0 .. MaxNames /\ f.sealed \in BOOLEAN /\ f.whole \in BOOLEAN /\ f.secret \in Secrets
           /\ f.relays \in 0 .. MaxLive /\ f.control \in 0 .. MaxLive
  BY DEF Files, Secrets

LEMMA NoArchiveFile == NoArchive \in Files /\ NoArchive.name = 0 /\ ~NoArchive.sealed /\ ~NoArchive.whole
  BY BackupsAssumption DEF BackupsAssumption, NoArchive, Files

\* The record with fields of its own for what a run writes: relays, then whole, then sealed.
LEMMA FileSteps ==
    ASSUME NEW f \in Files, NEW relays \in 0 .. MaxLive, NEW secret \in Secrets
    PROVE  /\ [f EXCEPT !.relays = relays] \in Files
           /\ [f EXCEPT !.relays = relays].whole = f.whole
           /\ [f EXCEPT !.relays = relays].name = f.name /\ [f EXCEPT !.relays = relays].sealed = f.sealed
           /\ [f EXCEPT !.whole = TRUE] \in Files
           /\ [f EXCEPT !.whole = TRUE].name = f.name /\ [f EXCEPT !.whole = TRUE].sealed = f.sealed
           /\ [f EXCEPT !.whole = TRUE].whole
           /\ [f EXCEPT !.sealed = TRUE, !.secret = secret] \in Files
           /\ [f EXCEPT !.sealed = TRUE, !.secret = secret].name = f.name
           /\ [f EXCEPT !.sealed = TRUE, !.secret = secret].sealed
           /\ [f EXCEPT !.sealed = TRUE, !.secret = secret].whole = f.whole
  BY DEF Files, Secrets

\* What a new archive's record is.
LEMMA FileBegun ==
    ASSUME NEW n \in 0 .. MaxNames, NEW control \in 0 .. MaxLive
    PROVE  LET f == [NoArchive EXCEPT !.name = n, !.control = control]
           IN  f \in Files /\ f.name = n /\ ~f.sealed /\ ~f.whole
  BY NoArchiveFile DEF Files

LEMMA NoJobJob == /\ NoJob \in Job /\ NoJob.at = "idle" /\ NoJob.own = NoArchive /\ NoJob.safe = 0
                  /\ NoJob.chosen = NoArchive /\ NoJob.staged = NoArchive /\ ~NoJob.local
  <1>1. (CHOOSE c \in Settings : TRUE) \in Settings
    BY BackupsAssumption DEF BackupsAssumption
  <1>2. 0 \in 0 .. MaxNames
    BY BackupsAssumption DEF BackupsAssumption
  <1> QED BY <1>1, <1>2, NoArchiveFile DEF NoJob, Job, Secrets

LEMMA JobFields ==
    ASSUME NEW j \in Job
    PROVE  /\ j.cfg \in Settings /\ j.own \in Files /\ j.local \in BOOLEAN /\ j.chosen \in Files
           /\ j.secret \in Secrets /\ j.staged \in Files /\ j.safe \in 0 .. MaxNames
  BY DEF Job

\* A restore of f that has read the passphrase.
LEMMA RestoringJob ==
    ASSUME NEW f \in Files, backupCfg \in Settings
    PROVE  /\ Restoring(f) \in Job /\ Restoring(f).at = "stage" /\ Restoring(f).local
           /\ Restoring(f).own.name = 0 /\ Restoring(f).safe = 0 /\ Restoring(f).chosen = f
           /\ Restoring(f).secret = backupCfg.secret
  <1>1. backupCfg.secret \in Secrets
    BY DEF Secrets
  <1> QED BY <1>1, NoJobJob, NoArchiveFile DEF Restoring, Job

\* The private copy of one.
LEMMA StagedJob ==
    ASSUME NEW j \in Job, NEW f \in Files
    PROVE  \E k \in Job : /\ k = [j EXCEPT !.staged = f]
                          /\ k.staged = f /\ k.safe = j.safe /\ k.chosen = j.chosen
  <1> DEFINE k == [j EXCEPT !.staged = f]
  <1>1. k \in Job /\ k.staged = f /\ k.safe = j.safe /\ k.chosen = j.chosen
    BY DEF Job
  <1> QED BY <1>1

\* A worker's job changes, the others' don't.
LEMMA JobSet ==
    ASSUME job \in [Workers -> Job], NEW w \in Workers, NEW r \in Job, job' = [job EXCEPT ![w] = r]
    PROVE  /\ job' \in [Workers -> Job]
           /\ job'[w] = r
           /\ \A v \in Workers : v # w => job'[v] = job[v]
  OBVIOUS

\* Only the step changes.
LEMMA GoesJob ==
    ASSUME job \in [Workers -> Job], NEW w \in Workers,
           NEW pc \in {"prune", "rotate", "put_relays", "put_control", "restart"}, Goes(w, pc)
    PROVE  \E r \in Job : /\ job' = [job EXCEPT ![w] = r]
                          /\ r.at = pc /\ r.own = job[w].own /\ r.safe = job[w].safe
                          /\ r.chosen = job[w].chosen /\ r.staged = job[w].staged /\ r.local = job[w].local
  <1> DEFINE r == [job[w] EXCEPT !.at = pc]
  <1>1. job[w] \in Job
    OBVIOUS
  <1>2. /\ r \in Job /\ r.at = pc /\ r.own = job[w].own /\ r.safe = job[w].safe
        /\ r.chosen = job[w].chosen /\ r.staged = job[w].staged /\ r.local = job[w].local
    BY <1>1 DEF Job
  <1>3. job' = [job EXCEPT ![w] = r]
    BY DEF Goes
  <1> QED BY <1>2, <1>3

\* A run ends: no job, or on with the restore.
LEMMA EndedJob ==
    ASSUME NEW j \in Job, NEW ok \in BOOLEAN
    PROVE  /\ Ended(j, ok) \in Job
           /\ Ended(j, ok).at \in {"idle", "extract"}
           /\ Ended(j, ok).own.name = 0
           /\ Ended(j, ok).safe \in {0, j.own.name}
           /\ ~ok => Ended(j, ok).safe = 0
  <1>1. j.own.name \in 0 .. MaxNames /\ 0 \in 0 .. MaxNames
    BY JobFields, FileFields, BackupsAssumption DEF BackupsAssumption
  <1>2. CASE j.local
    <2> DEFINE n == IF ok THEN j.own.name ELSE 0
               r == [j EXCEPT !.at = "extract", !.own = NoArchive, !.safe = n]
    <2>1. n \in 0 .. MaxNames
      BY <1>1
    <2>2. r \in Job /\ r.at = "extract" /\ r.own = NoArchive /\ r.safe = n
      BY <2>1, NoArchiveFile DEF Job
    <2>3. Ended(j, ok) = r
      BY <1>2 DEF Ended
    <2> QED BY <2>2, <2>3, NoArchiveFile
  <1>3. CASE ~j.local
    BY <1>3, NoJobJob, NoArchiveFile DEF Ended
  <1> QED BY <1>2, <1>3

\* A run begins.
LEMMA BegunJob ==
    ASSUME NEW j \in Job, BackupsTypeOK, NEW n \in 0 .. MaxNames
    PROVE  LET r == [j EXCEPT !.at = "relays", !.cfg = backupCfg,
                              !.own = [NoArchive EXCEPT !.name = n, !.control = live.control]]
           IN  /\ r \in Job /\ r.at = "relays" /\ r.safe = j.safe
               /\ r.own.name = n /\ ~r.own.sealed /\ ~r.own.whole
  <1> DEFINE f == [NoArchive EXCEPT !.name = n, !.control = live.control]
  <1>1. live.control \in 0 .. MaxLive /\ backupCfg \in Settings
    BY DEF BackupsTypeOK
  <1>2. f \in Files /\ f.name = n /\ ~f.sealed /\ ~f.whole
    BY <1>1, FileBegun
  <1> HIDE DEF f
  <1>3. [j EXCEPT !.at = "relays", !.cfg = backupCfg, !.own = f] \in Job
    BY <1>1, <1>2 DEF Job
  <1>4. /\ [j EXCEPT !.at = "relays", !.cfg = backupCfg, !.own = f].at = "relays"
        /\ [j EXCEPT !.at = "relays", !.cfg = backupCfg, !.own = f].safe = j.safe
        /\ [j EXCEPT !.at = "relays", !.cfg = backupCfg, !.own = f].own = f
    BY DEF Job
  <1> QED BY <1>2, <1>3, <1>4 DEF f

-----------------------------------------------------------------------------
(* The invariant.  Names tell runs apart, also from the safety archives that    *)
(* restores go by; a run's file isn't sealed before gpg, and whole after tar.   *)
(* Whoever has the last name, as his finished archive or as his safety archive, *)
(* finds it here, and nothing newer, unless a provider deleted it.              *)

Runs == {"relays", "tar", "gpg", "ship", "prune", "rotate"}

\* The file of a run, as far as it has got.
FileOK(j, A) ==
    /\ j.at = "stage" => j.safe = 0
    /\ j.at \in {"relays", "tar", "gpg"} => ~j.own.sealed
    /\ j.at \in {"relays", "tar"} => ~j.own.whole
    /\ j.at = "relays" => \A f \in A : f.name # j.own.name
    /\ j.at = "tar" => \A f \in A : f.name = j.own.name => ~f.sealed
    /\ j.at = "gpg" => j.own.whole
    /\ j.at \in Runs => j.own.name > 0

\* The job says that archive n is complete.
Claims(j, n) == (j.at \in {"ship", "prune", "rotate"} /\ j.own.name = n) \/ j.safe = n

\* Of name n there is one file, and it is complete.
Lasting(A, n) == \E f \in A : f.name = n /\ f.whole /\ \A g \in A : g.name = n => g = f

NamesInv ==
    /\ \A f \in archives : f.name \in 1 .. names
    /\ \A w \in Workers : /\ job[w].own.name <= names /\ job[w].safe <= names
                          /\ FileOK(job[w], archives)
    /\ \A w, v \in Workers : w # v /\ job[w].own.name = job[v].own.name => job[w].own.name = 0
    /\ \A w, v \in Workers : job[w].safe = job[v].own.name => job[w].safe = 0

LastInv ==
    names > 0 /\ names \notin byHand /\ (\E w \in Workers : Claims(job[w], names)) => Lasting(archives, names)

BInv == BackupsTypeOK /\ NamesInv /\ LastInv

LEMMA InitBackups == BackupsInit => BInv
  <1> SUFFICES ASSUME BackupsInit PROVE BInv
    OBVIOUS
  <1>1. /\ live = [relays |-> 0, control |-> 0] /\ serving = 0 /\ backupCfg \in Settings /\ archives = {}
        /\ offsite = {} /\ names = 0 /\ job = [w \in Workers |-> NoJob] /\ byHand = {}
    BY DEF BackupsInit
  <1>2. BackupsTypeOK
    BY <1>1, Typed, NoJobJob, BackupsAssumption DEF BackupsAssumption
  <1>3. NamesInv
    BY <1>1, NoJobJob, NoArchiveFile DEF NamesInv, FileOK, Runs
  <1>4. LastInv
    BY <1>1 DEF LastInv
  <1> QED BY <1>2, <1>3, <1>4 DEF BInv

\* A step of worker w that names no archive: his job becomes r, only files of his own name are new.
LEMMA WorkerKeeps ==
    ASSUME BInv, NEW w \in Workers, NEW r \in Job, job' = [job EXCEPT ![w] = r],
           names' = names, byHand' = byHand,
           r.own.name \in {0, job[w].own.name},
           r.safe \in {0, job[w].safe} \/ (r.safe = job[w].own.name /\ r.own.name = 0),
           \A f \in archives' : f \in archives \/ (f.name = job[w].own.name /\ job[w].at \in Runs),
           FileOK(r, archives'),
           names > 0 /\ Claims(r, names) => Claims(job[w], names) \/ Lasting(archives', names),
           (\E v \in Workers : Claims(job[v], names)) /\ names > 0 /\ Lasting(archives, names)
           => Lasting(archives', names)
    PROVE  NamesInv' /\ LastInv'
  <1>1. /\ job \in [Workers -> Job] /\ names \in 0 .. MaxNames
        /\ job'[w] = r /\ \A v \in Workers : v # w => job'[v] = job[v]
    BY JobSet, Typed DEF BInv
  <1>2. names \in Nat /\ \A v \in Workers : job[v].own.name \in Nat /\ job[v].safe \in Nat
    BY <1>1, JobFields, FileFields, BackupsAssumption DEF BackupsAssumption
  <1>3. \A v \in Workers : job[v].at \in Runs => job[v].own.name > 0
    BY DEF BInv, NamesInv, FileOK
  <1>4. \A f \in archives' : f.name \in 1 .. names'
    BY <1>2, <1>3 DEF BInv, NamesInv
  <1>5. \A v \in Workers : job'[v].own.name <= names' /\ job'[v].safe <= names'
    BY <1>1, <1>2 DEF BInv, NamesInv
  <1>6. ASSUME NEW v \in Workers PROVE FileOK(job'[v], archives')
    <2>1. CASE v = w
      BY <1>1, <2>1
    <2>2. CASE v # w
      <3>1. job'[v] = job[v] /\ FileOK(job[v], archives)
        BY <1>1, <2>2 DEF BInv, NamesInv
      <3>2. job[v].at \in Runs => job[v].own.name # job[w].own.name
        BY <1>2, <1>3, <2>2 DEF BInv, NamesInv
      <3> QED BY <3>1, <3>2 DEF FileOK, Runs
    <2> QED BY <2>1, <2>2
  <1>7. \A u, v \in Workers : u # v /\ job'[u].own.name = job'[v].own.name => job'[u].own.name = 0
    BY <1>1 DEF BInv, NamesInv
  <1>8. \A u, v \in Workers : job'[u].safe = job'[v].own.name => job'[u].safe = 0
    BY <1>1 DEF BInv, NamesInv
  <1>9. NamesInv'
    BY <1>4, <1>5, <1>6, <1>7, <1>8 DEF NamesInv
  <1>10. LastInv'
    BY <1>1 DEF BInv, LastInv
  <1> QED BY <1>9, <1>10

-----------------------------------------------------------------------------
(* The steps. *)

LEMMA TypedNext ==
    ASSUME live' \in [relays : 0 .. MaxLive, control : 0 .. MaxLive], serving' \in 0 .. MaxLive,
           backupCfg' \in Settings, archives' \subseteq Files, offsite' \subseteq Files,
           names' \in 0 .. MaxNames, job' \in [Workers -> Job], byHand' \subseteq 1 .. MaxNames
    PROVE  BackupsTypeOK'
  BY DEF BackupsTypeOK, Job, Secrets

\* No archive and no name changes; worker w ends, or goes on to a step that claims no more than the last one.
LEMMA FilesRest ==
    ASSUME BInv, NEW w \in Workers, NEW r \in Job, job' = [job EXCEPT ![w] = r],
           names' = names, byHand' = byHand, archives' = archives, backupCfg' = backupCfg,
           live' \in [relays : 0 .. MaxLive, control : 0 .. MaxLive], serving' \in 0 .. MaxLive,
           offsite' \subseteq Files,
           \/ r = NoJob
           \/ r.at = "stage" /\ r.own.name = 0 /\ r.safe = 0
           \/ /\ r.own = job[w].own /\ r.safe = job[w].safe
              /\ \/ r.at \notin Runs \cup {"stage"}
                 \/ {r.at, job[w].at} \subseteq {"ship", "prune", "rotate"}
    PROVE  BInv'
  <1>1. BackupsTypeOK'
    <2>1. job \in [Workers -> Job] /\ names \in 0 .. MaxNames /\ byHand \subseteq 1 .. MaxNames
          /\ archives \subseteq Files /\ backupCfg \in Settings
      BY Typed DEF BInv
    <2>2. job' \in [Workers -> Job]
      BY <2>1, JobSet
    <2> QED BY <2>1, <2>2, TypedNext
  <1>2. FileOK(r, archives')
    <2>1. FileOK(job[w], archives)
      BY DEF BInv, NamesInv
    <2> QED BY <2>1, NoJobJob DEF FileOK, Runs
  <1>3. names > 0 /\ Claims(r, names) => Claims(job[w], names)
    BY NoJobJob DEF Claims, Runs
  <1>4. r.own.name \in {0, job[w].own.name} /\ r.safe \in {0, job[w].safe}
    BY NoJobJob, NoArchiveFile
  <1>5. NamesInv' /\ LastInv'
    BY <1>2, <1>3, <1>4, WorkerKeeps
  <1> QED BY <1>1, <1>5 DEF BInv

\* What the types say, for the steps.
LEMMA Types ==
    ASSUME BInv
    PROVE  /\ live \in [relays : 0 .. MaxLive, control : 0 .. MaxLive] /\ serving \in 0 .. MaxLive
           /\ backupCfg \in Settings /\ archives \subseteq Files /\ offsite \subseteq Files
           /\ names \in 0 .. MaxNames /\ job \in [Workers -> Job] /\ byHand \subseteq 1 .. MaxNames
           /\ \A w \in Workers : job[w] \in Job
  BY Typed DEF BInv

\* Steps that change no archive: a destination, a restore's unpacking and putting back, and a death.
LEMMA QuietStep ==
    ASSUME BInv, NEW w \in Workers,
           Ship(w) \/ Prune(w) \/ Extract(w) \/ PutRelays(w) \/ PutControl(w) \/ RestoreFails(w) \/ RestartRelays(w)
           \/ Crash(w) \/ RestoreLocal(w) \/ StageFails(w)
    PROVE  BInv'
  <1>1. job[w] \in Job /\ job[w].own \in Files /\ job[w].staged \in Files
    BY Types, JobFields
  <1>2. job[w].staged.relays \in 0 .. MaxLive /\ job[w].staged.control \in 0 .. MaxLive
    BY <1>1, FileFields
  <1>3. ASSUME NEW pc \in {"prune", "rotate", "put_relays", "put_control", "restart"}, Goes(w, pc),
               pc \in {"prune", "rotate"} => job[w].at \in {"ship", "prune", "rotate"}
        PROVE  \E r \in Job : /\ job' = [job EXCEPT ![w] = r]
                              /\ r.own = job[w].own /\ r.safe = job[w].safe
                              /\ \/ r.at \notin Runs \cup {"stage"}
                                 \/ {r.at, job[w].at} \subseteq {"ship", "prune", "rotate"}
    <2>1. PICK r \in Job : /\ job' = [job EXCEPT ![w] = r]
                           /\ r.at = pc /\ r.own = job[w].own /\ r.safe = job[w].safe
      BY <1>3, GoesJob, Types
    <2>2. \/ r.at \notin Runs \cup {"stage"}
          \/ {r.at, job[w].at} \subseteq {"ship", "prune", "rotate"}
      BY <1>3, <2>1 DEF Runs
    <2> QED BY <2>1, <2>2
  <1>4. NoJob \in Job
    BY NoJobJob
  <1>5. CASE Ship(w)
    <2>1. /\ names' = names /\ byHand' = byHand /\ archives' = archives /\ backupCfg' = backupCfg
          /\ live' = live /\ serving' = serving /\ job[w].at = "ship"
          /\ Goes(w, "prune") \/ Goes(w, "rotate")
      BY <1>5 DEF Ship, At
    <2>2. offsite' \subseteq Files
      BY <1>1, <1>5, Types DEF Ship
    <2>3. PICK r \in Job : /\ job' = [job EXCEPT ![w] = r]
                           /\ r.own = job[w].own /\ r.safe = job[w].safe
                           /\ \/ r.at \notin Runs \cup {"stage"}
                              \/ {r.at, job[w].at} \subseteq {"ship", "prune", "rotate"}
      BY <1>3, <2>1
    <2> QED BY <2>1, <2>2, <2>3, FilesRest, Types
  <1>6. CASE Prune(w)
    <2>1. /\ names' = names /\ byHand' = byHand /\ archives' = archives /\ backupCfg' = backupCfg
          /\ live' = live /\ serving' = serving /\ job[w].at = "prune" /\ Goes(w, "rotate")
      BY <1>6 DEF Prune, At
    <2>2. offsite' \subseteq Files
      BY <1>6, Types DEF Prune
    <2>3. PICK r \in Job : /\ job' = [job EXCEPT ![w] = r]
                           /\ r.own = job[w].own /\ r.safe = job[w].safe
                           /\ \/ r.at \notin Runs \cup {"stage"}
                              \/ {r.at, job[w].at} \subseteq {"ship", "prune", "rotate"}
      BY <1>3, <2>1
    <2> QED BY <2>1, <2>2, <2>3, FilesRest, Types
  <1>7. CASE Extract(w) \/ PutRelays(w) \/ PutControl(w) \/ RestoreFails(w) \/ RestartRelays(w) \/ Crash(w)
             \/ StageFails(w)
    <2>1. /\ names' = names /\ byHand' = byHand /\ archives' = archives /\ backupCfg' = backupCfg
          /\ offsite' = offsite
      BY <1>7 DEF Extract, PutRelays, PutControl, RestoreFails, RestartRelays, Crash, StageFails
    <2>2. \/ job' = [job EXCEPT ![w] = NoJob]
          \/ \E pc \in {"put_relays", "put_control", "restart"} : Goes(w, pc)
      BY <1>7 DEF Extract, PutRelays, PutControl, RestoreFails, RestartRelays, Crash, StageFails
    <2>3. live' \in [relays : 0 .. MaxLive, control : 0 .. MaxLive]
      BY <1>2, <1>7, Types DEF Extract, PutRelays, PutControl, RestoreFails, RestartRelays, Crash, StageFails
    <2>4. serving' \in 0 .. MaxLive
      <3>1. live.relays \in 0 .. MaxLive
        BY Types
      <3> QED BY <1>7, <3>1, Types DEF Extract, PutRelays, PutControl, RestoreFails, RestartRelays, Reread, Crash,
                                     StageFails
    <2>5. CASE job' = [job EXCEPT ![w] = NoJob]
      BY <1>4, <2>1, <2>3, <2>4, <2>5, FilesRest, Types
    <2>6. CASE \E pc \in {"put_relays", "put_control", "restart"} : Goes(w, pc)
      <3>1. PICK r \in Job : /\ job' = [job EXCEPT ![w] = r]
                             /\ r.own = job[w].own /\ r.safe = job[w].safe
                             /\ \/ r.at \notin Runs \cup {"stage"}
                                \/ {r.at, job[w].at} \subseteq {"ship", "prune", "rotate"}
        BY <1>3, <2>6
      <3> QED BY <2>1, <2>3, <2>4, <3>1, FilesRest, Types
    <2> QED BY <2>2, <2>5, <2>6
  <1>8. CASE RestoreLocal(w)
    <2>1. /\ names' = names /\ byHand' = byHand /\ archives' = archives /\ backupCfg' = backupCfg
          /\ live' = live /\ serving' = serving /\ offsite' = offsite
      BY <1>8 DEF RestoreLocal
    <2>2. PICK f \in archives : job' = [job EXCEPT ![w] = Restoring(f)]
      BY <1>8 DEF RestoreLocal
    <2>3. PICK r \in Job : r = Restoring(f) /\ r.at = "stage" /\ r.own.name = 0 /\ r.safe = 0
      BY <2>2, RestoringJob, Types
    <2> QED BY <2>1, <2>2, <2>3, FilesRest, Types
  <1> QED BY <1>5, <1>6, <1>7, <1>8

\* A run begins: its name is newer than every name known, so nobody has claimed it.
LEMMA BeginStep ==
    ASSUME BInv, NEW w \in Workers, NEW j \in Job, j.safe = 0, Begun(w, j),
           live' = live, serving' = serving, backupCfg' = backupCfg, archives' = archives, offsite' = offsite,
           byHand' = byHand
    PROVE  BInv'
  <1>1. names' = names + 1 /\ names' \in 0 .. MaxNames /\ names \in Nat
    <2>1. names \in 0 .. MaxNames /\ MaxNames \in Nat
      BY Types, BackupsAssumption DEF BackupsAssumption
    <2> QED BY <2>1 DEF Begun, Fresh
  <1>2. PICK r \in Job : /\ job' = [job EXCEPT ![w] = r]
                         /\ r.at = "relays" /\ r.safe = 0 /\ r.own.name = names' /\ ~r.own.sealed
                         /\ ~r.own.whole
    <2> DEFINE r == [j EXCEPT !.at = "relays", !.cfg = backupCfg,
                              !.own = [NoArchive EXCEPT !.name = names', !.control = live.control]]
    <2>1. job' = [job EXCEPT ![w] = r]
      BY DEF Begun, Fresh
    <2>2. r \in Job /\ r.at = "relays" /\ r.safe = j.safe /\ r.own.name = names' /\ ~r.own.sealed
          /\ ~r.own.whole
      BY ZenonT(60), <1>1, BegunJob DEF BInv
    <2> QED BY <2>1, <2>2
  <1>3. job' \in [Workers -> Job] /\ job'[w] = r /\ \A v \in Workers : v # w => job'[v] = job[v]
    BY <1>2, Types, JobSet
  <1>4. BackupsTypeOK'
    BY <1>1, <1>3, Types, TypedNext
  <1>5. \A v \in Workers : job[v].own.name \in 0 .. names /\ job[v].safe \in 0 .. names
    <2>1. ASSUME NEW v \in Workers PROVE job[v].own.name \in 0 .. MaxNames /\ job[v].safe \in 0 .. MaxNames
      BY Types, JobFields, FileFields
    <2> QED BY <1>1, <2>1, BackupsAssumption DEF BackupsAssumption, BInv, NamesInv
  <1>6. FileOK(r, archives')
    BY <1>1, <1>2 DEF FileOK, Runs, BInv, NamesInv
  <1>7. NamesInv'
    <2>1. \A f \in archives' : f.name \in 1 .. names'
      BY <1>1 DEF BInv, NamesInv
    <2>2. \A v \in Workers : /\ job'[v].own.name <= names' /\ job'[v].safe <= names'
                             /\ FileOK(job'[v], archives')
      BY <1>1, <1>2, <1>3, <1>5, <1>6 DEF BInv, NamesInv
    <2>3. \A u, v \in Workers : u # v /\ job'[u].own.name = job'[v].own.name => job'[u].own.name = 0
      BY <1>1, <1>2, <1>3, <1>5 DEF BInv, NamesInv
    <2>4. \A u, v \in Workers : job'[u].safe = job'[v].own.name => job'[u].safe = 0
      BY <1>1, <1>2, <1>3, <1>5 DEF BInv, NamesInv
    <2> QED BY <2>1, <2>2, <2>3, <2>4 DEF NamesInv
  <1>8. LastInv'
    <2>1. \A v \in Workers : ~Claims(job'[v], names')
      BY <1>1, <1>2, <1>3, <1>5 DEF Claims
    <2> QED BY <2>1 DEF LastInv
  <1> QED BY <1>4, <1>7, <1>8 DEF BInv

\* While a run makes its file, nobody counts on that name yet: what lasts isn't touched.
LEMMA OthersLast ==
    ASSUME BInv, NEW w \in Workers, job[w].at \in {"relays", "tar", "gpg"},
           \A f : f.name # job[w].own.name => (f \in archives' <=> f \in archives)
    PROVE  (\E v \in Workers : Claims(job[v], names)) /\ names > 0 /\ Lasting(archives, names)
           => Lasting(archives', names)
  <1>1. CASE job[w].own.name = names /\ names > 0
    <2>1. ASSUME NEW v \in Workers PROVE ~Claims(job[v], names)
      <3>1. names \in Nat /\ job[v].own.name \in Nat /\ job[v].safe \in Nat
        BY Types, JobFields, FileFields, BackupsAssumption DEF BackupsAssumption
      <3>2. job[v].safe # names
        BY <1>1, <3>1 DEF BInv, NamesInv
      <3>3. job[v].own.name = names => v = w
        BY <1>1, <3>1 DEF BInv, NamesInv
      <3> QED BY <3>2, <3>3 DEF Claims
    <2> QED BY <2>1
  <1>2. CASE job[w].own.name # names
    BY <1>2 DEF Lasting
  <1> QED BY <1>1, <1>2

\* The run fails before its archive was shipped.
LEMMA FailsStep ==
    ASSUME BInv, NEW w \in Workers, Fails(w)
    PROVE  BInv'
  <1>1. /\ job[w].at \in {"relays", "tar", "gpg"} \/ archives' = archives
        /\ archives' = Without(job[w].own)
        /\ job' = [job EXCEPT ![w] = Ended(job[w], FALSE)]
        /\ live' = live /\ serving' = serving /\ backupCfg' = backupCfg /\ offsite' = offsite
        /\ names' = names /\ byHand' = byHand
    BY DEF Fails, Without, OnDisk
  <1> DEFINE r == Ended(job[w], FALSE)
  <1>2. r \in Job /\ r.at \in {"idle", "extract"} /\ r.own.name = 0 /\ r.safe = 0
    BY Types, EndedJob
  <1> HIDE DEF r
  <1>3. archives' \subseteq archives /\ \A f : f.name # job[w].own.name => (f \in archives' <=> f \in archives)
    BY <1>1 DEF Without, SameFile
  <1>4. BackupsTypeOK'
    <2>1. job' \in [Workers -> Job] /\ archives' \subseteq Files
      BY <1>1, <1>2, <1>3, Types, JobSet DEF r
    <2> QED BY <1>1, <2>1, Types, TypedNext
  <1>5. FileOK(r, archives') /\ (names > 0 => ~Claims(r, names))
    BY <1>2 DEF FileOK, Claims, Runs
  <1>6. NamesInv' /\ LastInv'
    BY <1>1, <1>2, <1>3, <1>5, OthersLast, WorkerKeeps DEF r
  <1> QED BY <1>4, <1>6 DEF BInv

\* The relays' files are copied, tar opens its file.
LEMMA CopyStep ==
    ASSUME BInv, NEW w \in Workers, CopyRelays(w)
    PROVE  BInv'
  <1> DEFINE f == [job[w].own EXCEPT !.relays = live.relays]
  <1>1. /\ job[w].at = "relays"
        /\ archives' = Without(f) \cup {f}
        /\ job' = [job EXCEPT ![w].at = "tar", ![w].own = f]
        /\ live' = live /\ serving' = serving /\ backupCfg' = backupCfg /\ offsite' = offsite
        /\ names' = names /\ byHand' = byHand
    BY DEF CopyRelays, At
  <1>2. job[w].own \in Files /\ live.relays \in 0 .. MaxLive /\ Unset \in Secrets
    BY Types, JobFields DEF Secrets
  <1>3. f \in Files /\ f.name = job[w].own.name /\ f.sealed = job[w].own.sealed /\ f.whole = job[w].own.whole
    BY <1>2, FileSteps
  <1> HIDE DEF f
  <1>4. PICK r \in Job : job' = [job EXCEPT ![w] = r] /\ r.at = "tar" /\ r.own = f /\ r.safe = job[w].safe
    <2> DEFINE r == [job[w] EXCEPT !.at = "tar", !.own = f]
    <2>1. job' = [job EXCEPT ![w] = r]
      BY <1>1, Types
    <2>2. r \in Job /\ r.at = "tar" /\ r.own = f /\ r.safe = job[w].safe
      BY <1>3, Types DEF Job
    <2> QED BY <2>1, <2>2
  <1>5. /\ \A g : g.name # job[w].own.name => (g \in archives' <=> g \in archives)
        /\ \A g \in archives' : g \in archives \/ g = f
    BY <1>1, <1>3 DEF Without, SameFile
  <1>6. FileOK(job[w], archives)
    BY DEF BInv, NamesInv
  <1>7. FileOK(r, archives') /\ (Claims(r, names) => Claims(job[w], names))
    BY <1>1, <1>3, <1>4, <1>5, <1>6 DEF FileOK, Claims, Runs
  <1>8. BackupsTypeOK'
    <2>1. job' \in [Workers -> Job] /\ archives' \subseteq Files
      BY <1>3, <1>4, <1>5, Types, JobSet
    <2> QED BY <1>1, <2>1, Types, TypedNext
  <1>9. NamesInv' /\ LastInv'
    BY <1>1, <1>3, <1>4, <1>5, <1>7, OthersLast, WorkerKeeps DEF Runs
  <1> QED BY <1>8, <1>9 DEF BInv

\* tar closes the file, which is the archive when there is no passphrase; else gpg opens its own.
LEMMA TarStep ==
    ASSUME BInv, NEW w \in Workers, CloseTar(w)
    PROVE  BInv'
  <1> DEFINE f == [job[w].own EXCEPT !.whole = TRUE]
             g == [job[w].own EXCEPT !.sealed = TRUE, !.secret = job[w].cfg.secret]
  <1>1. /\ job[w].at = "tar"
        /\ \/ archives' = Without(f) \cup {f} /\ job' = [job EXCEPT ![w].at = "ship", ![w].own = f]
           \/ archives' = (Without(f) \cup {f, g}) /\ job' = [job EXCEPT ![w].at = "gpg", ![w].own = f]
        /\ live' = live /\ serving' = serving /\ backupCfg' = backupCfg /\ offsite' = offsite
        /\ names' = names /\ byHand' = byHand
    BY DEF CloseTar, At
  <1>2. job[w].own \in Files /\ 0 \in 0 .. MaxLive /\ job[w].cfg.secret \in Secrets
    BY Types, JobFields, BackupsAssumption DEF Secrets, BackupsAssumption
  <1>3. /\ f \in Files /\ f.name = job[w].own.name /\ f.sealed = job[w].own.sealed /\ f.whole
        /\ g \in Files /\ g.name = job[w].own.name
    BY <1>2, FileSteps
  <1> HIDE DEF f, g
  <1>4. /\ \A h : h.name # job[w].own.name => (h \in archives' <=> h \in archives)
        /\ \A h \in archives' : h \in archives \/ h \in {f, g}
    BY <1>1, <1>3 DEF Without, SameFile
  <1>5. FileOK(job[w], archives)
    BY DEF BInv, NamesInv
  <1>6. PICK r \in Job : job' = [job EXCEPT ![w] = r] /\ r.own = f /\ r.safe = job[w].safe
                         /\ \/ r.at = "gpg"
                            \/ r.at = "ship" /\ archives' = Without(f) \cup {f}
    <2>2. CASE archives' = Without(f) \cup {f} /\ job' = [job EXCEPT ![w].at = "ship", ![w].own = f]
      <3> DEFINE r == [job[w] EXCEPT !.at = "ship", !.own = f]
      <3>1. job' = [job EXCEPT ![w] = r]
        BY <2>2, Types
      <3>2. r \in Job /\ r.at = "ship" /\ r.own = f /\ r.safe = job[w].safe
        BY <1>3, Types DEF Job
      <3> QED BY <2>2, <3>1, <3>2
    <2>3. CASE job' = [job EXCEPT ![w].at = "gpg", ![w].own = f]
      <3> DEFINE r == [job[w] EXCEPT !.at = "gpg", !.own = f]
      <3>1. job' = [job EXCEPT ![w] = r]
        BY <2>3, Types
      <3>2. r \in Job /\ r.at = "gpg" /\ r.own = f /\ r.safe = job[w].safe
        BY <1>3, Types DEF Job
      <3> QED BY <2>3, <3>1, <3>2
    <2> QED BY <1>1, <2>2, <2>3
  <1>7. FileOK(r, archives')
    BY <1>1, <1>3, <1>5, <1>6 DEF FileOK, Runs
  <1>8. Claims(r, names) => Claims(job[w], names) \/ Lasting(archives', names)
    <2>1. CASE r.at = "gpg"
      BY <1>6, <2>1 DEF Claims
    <2>2. CASE archives' = Without(f) \cup {f}
      <3>1. \A h \in archives' : h.name = f.name => h = f
        BY <1>1, <1>3, <1>5, <2>2, FileFields, Types DEF FileOK, Without, SameFile
      <3>2. f \in archives'
        BY <2>2
      <3>3. r.own.name = names => Lasting(archives', names)
        BY <1>3, <1>6, <3>1, <3>2 DEF Lasting
      <3> QED BY <1>6, <3>3 DEF Claims
    <2> QED BY <1>6, <2>1, <2>2
  <1>9. BackupsTypeOK'
    <2>1. job' \in [Workers -> Job] /\ archives' \subseteq Files
      BY <1>3, <1>4, <1>6, Types, JobSet
    <2> QED BY <1>1, <2>1, Types, TypedNext
  <1>10. NamesInv' /\ LastInv'
    <2>1. (\E v \in Workers : Claims(job[v], names)) /\ names > 0 /\ Lasting(archives, names)
          => Lasting(archives', names)
      BY <1>1, <1>4, OthersLast
    <2>2. \A h \in archives' : h \in archives \/ (h.name = job[w].own.name /\ job[w].at \in Runs)
      BY <1>1, <1>3, <1>4 DEF Runs
    <2> QED BY <1>1, <1>3, <1>6, <1>7, <1>8, <2>1, <2>2, WorkerKeeps
  <1> QED BY <1>9, <1>10 DEF BInv

\* gpg closes the sealed file, which is the archive; the plain one goes.
LEMMA GpgStep ==
    ASSUME BInv, NEW w \in Workers, CloseGpg(w)
    PROVE  BInv'
  <1> DEFINE g == [job[w].own EXCEPT !.sealed = TRUE, !.secret = job[w].cfg.secret]
  <1>1. /\ job[w].at = "gpg"
        /\ archives' = {h \in archives : h.name # job[w].own.name} \cup {g}
        /\ job' = [job EXCEPT ![w].at = "ship", ![w].own = g]
        /\ live' = live /\ serving' = serving /\ backupCfg' = backupCfg /\ offsite' = offsite
        /\ names' = names /\ byHand' = byHand
    BY DEF CloseGpg, At
  <1>2. job[w].own \in Files /\ 0 \in 0 .. MaxLive /\ job[w].cfg.secret \in Secrets
    BY Types, JobFields, BackupsAssumption DEF Secrets, BackupsAssumption
  <1>3. g \in Files /\ g.name = job[w].own.name /\ g.whole = job[w].own.whole
    BY <1>2, FileSteps
  <1> HIDE DEF g
  <1>4. /\ \A h : h.name # job[w].own.name => (h \in archives' <=> h \in archives)
        /\ \A h \in archives' : h \in archives \/ h = g
        /\ \A h \in archives' : h.name = g.name => h = g
        /\ g \in archives'
    BY <1>1, <1>3
  <1>5. FileOK(job[w], archives)
    BY DEF BInv, NamesInv
  <1>6. PICK r \in Job : job' = [job EXCEPT ![w] = r] /\ r.at = "ship" /\ r.own = g /\ r.safe = job[w].safe
    <2> DEFINE r == [job[w] EXCEPT !.at = "ship", !.own = g]
    <2>1. job' = [job EXCEPT ![w] = r]
      BY <1>1, Types
    <2>2. r \in Job /\ r.at = "ship" /\ r.own = g /\ r.safe = job[w].safe
      BY <1>3, Types DEF Job
    <2> QED BY <2>1, <2>2
  <1>7. FileOK(r, archives') /\ g.whole
    BY <1>1, <1>3, <1>5, <1>6 DEF FileOK, Runs
  <1>8. Claims(r, names) => Claims(job[w], names) \/ Lasting(archives', names)
    BY <1>4, <1>6, <1>7 DEF Claims, Lasting
  <1>9. BackupsTypeOK'
    <2>1. job' \in [Workers -> Job] /\ archives' \subseteq Files
      BY <1>3, <1>4, <1>6, Types, JobSet
    <2> QED BY <1>1, <2>1, Types, TypedNext
  <1>10. NamesInv' /\ LastInv'
    <2>1. (\E v \in Workers : Claims(job[v], names)) /\ names > 0 /\ Lasting(archives, names)
          => Lasting(archives', names)
      BY <1>1, <1>4, OthersLast
    <2>2. \A h \in archives' : h \in archives \/ (h.name = job[w].own.name /\ job[w].at \in Runs)
      BY <1>1, <1>3, <1>4 DEF Runs
    <2> QED BY <1>1, <1>3, <1>6, <1>7, <1>8, <2>1, <2>2, WorkerKeeps
  <1> QED BY <1>9, <1>10 DEF BInv

\* Whatever number of archives is kept, it is at least one: a file than which none is newer stays.
LEMMA NewestStays ==
    ASSUME NEW A, NEW f \in A, NEW k \in Nat \ {0}, \A g \in A : ~Newer(g, f)
    PROVE  f \notin Beyond(A, k)
  <1>1. {g \in A : Newer(g, f)} = {}
    OBVIOUS
  <1>2. Cardinality({g \in A : Newer(g, f)}) = 0
    BY <1>1, FS_EmptySet
  <1> QED BY <1>2 DEF Beyond

\* The surplus goes; what lasts is the newest.
LEMMA RotateStep ==
    ASSUME BInv, NEW w \in Workers, Rotate(w)
    PROVE  BInv'
  <1> DEFINE r == Ended(job[w], TRUE)
  <1>1. /\ job[w].at = "rotate"
        /\ archives' = archives \ Surplus(job[w].cfg.keep)
        /\ job' = [job EXCEPT ![w] = r]
        /\ live' = live /\ serving' = serving /\ backupCfg' = backupCfg /\ offsite' = offsite
        /\ names' = names /\ byHand' = byHand
    BY DEF Rotate, At
  <1>2. r \in Job /\ r.at \in {"idle", "extract"} /\ r.own.name = 0 /\ r.safe \in {0, job[w].own.name}
    BY Types, EndedJob
  <1> HIDE DEF r
  <1>3. job[w].cfg.keep \in Nat \ {0}
    BY Types, JobFields, BackupsAssumption DEF BackupsAssumption
  <1>4. Lasting(archives, names) => Lasting(archives', names)
    <2> SUFFICES ASSUME NEW f \in archives, f.name = names, f.whole, \A g \in archives : g.name = names => g = f
                 PROVE  Lasting(archives', names)
      BY DEF Lasting
    <2>1. ASSUME NEW g \in archives PROVE ~Newer(g, f)
      <3>1. g.name \in 1 .. names /\ names \in Nat
        BY Types, BackupsAssumption DEF BInv, NamesInv, BackupsAssumption
      <3>2. g.name = f.name => g = f
        OBVIOUS
      <3> QED BY <3>1, <3>2 DEF Newer
    <2>2. f \in archives'
      BY <1>1, <1>3, <2>1, NewestStays DEF Surplus
    <2> QED BY <1>1, <2>2 DEF Lasting
  <1>5. FileOK(r, archives')
    BY <1>2 DEF FileOK, Runs
  <1>6. names > 0 /\ Claims(r, names) => Claims(job[w], names)
    BY <1>1, <1>2 DEF Claims
  <1>7. BackupsTypeOK'
    <2>1. job' \in [Workers -> Job] /\ archives' \subseteq Files
      BY <1>1, <1>2, Types, JobSet
    <2> QED BY <1>1, <2>1, Types, TypedNext
  <1>8. NamesInv' /\ LastInv'
    BY <1>1, <1>2, <1>4, <1>5, <1>6, WorkerKeeps
  <1> QED BY <1>7, <1>8 DEF BInv

\* A provider deletes an archive; what else happens changes neither archives nor jobs.
LEMMA OtherStep ==
    ASSUME BInv, job' = job, names' = names,
           \/ \E f \in archives : DeleteLocal(f)
           \/ \E f \in offsite : DeleteRemote(f)
           \/ \E c \in Settings : SaveSettings(c)
           \/ \E part \in {"relays", "control"} : Works(part)
    PROVE  BInv'
  <1>1. archives' \subseteq archives /\ byHand \subseteq byHand'
        /\ \A f \in archives \ archives' : f.name \in byHand'
    BY DEF DeleteLocal, DeleteRemote, SaveSettings, Works
  <1>2. NamesInv'
    BY <1>1 DEF BInv, NamesInv, FileOK
  <1>3. LastInv'
    BY <1>1 DEF BInv, LastInv, Lasting
  <1>4. byHand' \subseteq 1 .. MaxNames
    <2>1. ASSUME NEW f \in archives PROVE f.name \in 1 .. MaxNames
      BY Types, FileFields, BackupsAssumption DEF BackupsAssumption, BInv, NamesInv
    <2> QED BY <2>1, Types DEF DeleteLocal, DeleteRemote, SaveSettings, Works
  <1>5. live' \in [relays : 0 .. MaxLive, control : 0 .. MaxLive] /\ serving' \in 0 .. MaxLive
    <2>1. CASE live' = live /\ serving' = serving
      BY <2>1, Types
    <2>2. ASSUME NEW part \in {"relays", "control"}, Works(part)
          PROVE  live' \in [relays : 0 .. MaxLive, control : 0 .. MaxLive] /\ serving' \in 0 .. MaxLive
      <3>1. live.relays \in 0 .. MaxLive /\ live.control \in 0 .. MaxLive /\ MaxLive \in Nat
        BY Types, BackupsAssumption DEF BackupsAssumption
      <3>2. live[part] + 1 \in 0 .. MaxLive
        BY <2>2, <3>1, Types DEF Works
      <3>3. live' \in [relays : 0 .. MaxLive, control : 0 .. MaxLive]
        BY <2>2, <3>2, Types DEF Works
      <3>4. serving' \in 0 .. MaxLive
        BY <2>2, <3>1, <3>2, Types DEF Works
      <3> QED BY <3>3, <3>4
    <2> QED BY <2>1, <2>2 DEF DeleteLocal, DeleteRemote, SaveSettings
  <1>6. backupCfg' \in Settings /\ offsite' \subseteq Files
    BY Types DEF DeleteLocal, DeleteRemote, SaveSettings, Works
  <1>7. BackupsTypeOK'
    BY <1>1, <1>4, <1>5, <1>6, Types, TypedNext
  <1> QED BY <1>2, <1>3, <1>7 DEF BInv

LEMMA BackupsStep ==
    ASSUME BInv, [BackupsNext]_backupVars
    PROVE  BInv'
  <1>1. CASE UNCHANGED backupVars
    BY <1>1 DEF backupVars, BInv, BackupsTypeOK, NamesInv, LastInv, FileOK
  <1>2. ASSUME NEW w \in Workers, StartRun(w) \/ Stage(w) \/ RestoreOffsite(w) PROVE BInv'
    <2>1. CASE StartRun(w)
      BY <2>1, NoJobJob, BeginStep DEF StartRun
    <2>2. CASE Stage(w)
      <3>1. PICK f \in archives : Begun(w, [job[w] EXCEPT !.staged = f])
        BY <2>2 DEF Stage
      <3>2. job[w].safe = 0
        BY <2>2 DEF Stage, At, BInv, NamesInv, FileOK
      <3>3. PICK j \in Job : j = [job[w] EXCEPT !.staged = f] /\ j.safe = 0
        BY <3>2, StagedJob, Types
      <3> QED BY <2>2, <3>1, <3>3, BeginStep DEF Stage
    <2>3. CASE RestoreOffsite(w)
      <3>1. PICK f \in offsite : Begun(w, [Restoring(f) EXCEPT !.staged = f])
        BY <2>3 DEF RestoreOffsite
      <3>2. Restoring(f) \in Job /\ Restoring(f).safe = 0
        BY RestoringJob, Types
      <3>3. PICK j \in Job : j = [Restoring(f) EXCEPT !.staged = f] /\ j.safe = 0
        BY <3>2, StagedJob, Types
      <3> QED BY <2>3, <3>1, <3>3, BeginStep DEF RestoreOffsite
    <2> QED BY <1>2, <2>1, <2>2, <2>3
  <1>3. ASSUME NEW w \in Workers, Fails(w) \/ CopyRelays(w) \/ CloseTar(w) \/ CloseGpg(w) \/ Rotate(w) PROVE BInv'
    BY <1>3, FailsStep, CopyStep, TarStep, GpgStep, RotateStep
  <1>4. ASSUME NEW w \in Workers, Ship(w) \/ Prune(w) \/ Extract(w) \/ PutRelays(w) \/ PutControl(w)
                                  \/ RestoreFails(w) \/ RestartRelays(w) \/ Crash(w) \/ RestoreLocal(w)
                                  \/ StageFails(w)
        PROVE  BInv'
    BY <1>4, QuietStep
  <1>5. CASE \/ \E f \in archives : DeleteLocal(f)
             \/ \E f \in offsite : DeleteRemote(f)
             \/ \E c \in Settings : SaveSettings(c)
             \/ \E part \in {"relays", "control"} : Works(part)
    <2>1. job' = job /\ names' = names
      BY <1>5 DEF DeleteLocal, DeleteRemote, SaveSettings, Works
    <2> QED BY <1>5, <2>1, OtherStep
  <1> QED BY <1>1, <1>2, <1>3, <1>4, <1>5 DEF BackupsNext

-----------------------------------------------------------------------------
(* The archive a restore has chosen.  A complete file is never written again:  *)
(* the only run that could has gone past it, and a later run has another name. *)

\* The run may still write the file that f is.
Writes(j, f) == j.own.name = f.name /\ (j.at \in {"relays", "tar"} \/ (j.at = "gpg" /\ f.sealed))

Settled(f) ==
    /\ f.name \in 1 .. names
    /\ \A g \in archives : SameFile(g, f) => g = f
    /\ \A v \in Workers : ~Writes(job[v], f)

\* What a restore goes on with is what was chosen.
Faithful(j) ==
    /\ j.local /\ j.at # "stage" /\ j.chosen.whole => j.staged = j.chosen
    /\ j.at \in {"extract", "put_relays", "put_control"} => j.local

ChoiceInv ==
    /\ \A f \in archives : f.whole => Settled(f)
    /\ \A w \in Workers : /\ job[w].at = "stage" /\ job[w].chosen.whole => Settled(job[w].chosen)
                          /\ Faithful(job[w])

CInv == BInv /\ ChoiceInv

LEMMA InitChoice == BackupsInit => CInv
  <1> SUFFICES ASSUME BackupsInit PROVE CInv
    OBVIOUS
  <1>1. archives = {} /\ job = [w \in Workers |-> NoJob]
    BY DEF BackupsInit
  <1>2. ChoiceInv
    BY <1>1, NoJobJob DEF ChoiceInv, Faithful
  <1> QED BY <1>2, InitBackups DEF CInv

\* A step of worker w after which his job is r: it writes only files he was writing, and has done with a file that
\* is complete.
LEMMA ChoiceKeeps ==
    ASSUME CInv, BInv', NEW w \in Workers, NEW r \in Job, job' = [job EXCEPT ![w] = r], names <= names',
           \A f : Writes(r, f) => Writes(job[w], f) \/ f.name > names,
           \A g \in archives' : g \in archives \/ Writes(job[w], g),
           \A g \in archives' : g.whole =>
               g \in archives \/ ((\A h \in archives' : SameFile(h, g) => h = g) /\ ~Writes(r, g)),
           r.at = "stage" => r.chosen \in archives',
           Faithful(r)
    PROVE  CInv'
  <1>1. /\ job'[w] = r /\ \A v \in Workers : v # w => job'[v] = job[v]
        /\ names \in Nat /\ names' \in Nat
    BY JobSet, Types, BackupsAssumption DEF CInv, BInv, BackupsTypeOK, BackupsAssumption
  <1>2. ASSUME NEW f \in Files, Settled(f) PROVE Settled(f)'
    <2>1. f.name \in 1 .. names'
      BY <1>1, <1>2 DEF Settled
    <2>2. ASSUME NEW g \in archives', SameFile(g, f) PROVE g = f
      BY <1>2, <2>2 DEF Settled, Writes, SameFile
    <2>3. ASSUME NEW v \in Workers PROVE ~Writes(job'[v], f)
      <3>1. ~Writes(job[v], f) /\ ~(f.name > names)
        BY <1>1, <1>2 DEF Settled
      <3> QED BY <1>1, <3>1
    <2> QED BY <2>1, <2>2, <2>3 DEF Settled, Writes, SameFile
  <1>3. ASSUME NEW g \in archives', g.whole PROVE Settled(g)'
    <2>1. CASE g \in archives
      BY <1>2, <1>3, <2>1, Types DEF CInv, ChoiceInv
    <2>2. CASE g \notin archives
      <3>1. /\ Writes(job[w], g) /\ ~Writes(r, g) /\ \A h \in archives' : SameFile(h, g) => h = g
        BY <1>3, <2>2
      <3>2. g.name \in 1 .. names'
        BY DEF BInv, NamesInv
      <3>3. ASSUME NEW v \in Workers PROVE ~Writes(job'[v], g)
        <4>1. CASE v = w
          BY <1>1, <3>1, <4>1
        <4>2. CASE v # w
          BY <1>1, <3>1, <3>2, <4>2 DEF CInv, BInv, NamesInv, Writes
        <4> QED BY <4>1, <4>2
      <3> QED BY <3>1, <3>2, <3>3 DEF Settled, Writes, SameFile
    <2> QED BY <2>1, <2>2
  <1>4. ASSUME NEW v \in Workers
        PROVE  (job[v].at = "stage" /\ job[v].chosen.whole => Settled(job[v].chosen))' /\ Faithful(job'[v])
    <2>1. CASE v = w
      <3>1. PICK c \in Files : c = r.chosen
        BY JobFields
      <3>2. r.at = "stage" /\ c.whole => Settled(c)'
        BY <1>3, <3>1
      <3>3. job'[v] = r
        BY <1>1, <2>1
      <3> QED BY <3>1, <3>2, <3>3 DEF Settled, Writes, SameFile
    <2>2. CASE v # w
      <3>1. PICK c \in Files : c = job[v].chosen
        BY Types, JobFields DEF CInv
      <3>2. c.whole /\ job[v].at = "stage" => Settled(c)'
        BY <1>2, <3>1 DEF CInv, ChoiceInv
      <3>3. job'[v] = job[v] /\ Faithful(job[v])
        BY <1>1, <2>2 DEF CInv, ChoiceInv
      <3> QED BY <3>1, <3>2, <3>3 DEF Settled, Writes, SameFile
    <2> QED BY <2>1, <2>2
  <1>5. ChoiceInv'
    BY <1>3, <1>4 DEF ChoiceInv, Faithful
  <1> QED BY <1>5 DEF CInv

\* The same when no file is new and the worker begins no archive.
LEMMA ChoiceRests ==
    ASSUME CInv, BInv', NEW w \in Workers, NEW r \in Job, job' = [job EXCEPT ![w] = r], names' = names,
           archives' \subseteq archives,
           \/ r = NoJob
           \/ r.at \notin {"stage", "relays", "tar", "gpg"} /\ Faithful(r)
           \/ r.at = "stage" /\ r.chosen \in archives'
    PROVE  CInv'
  <1>1. Faithful(r) /\ r.at \notin {"relays", "tar", "gpg"} /\ (r.at = "stage" => r.chosen \in archives')
    BY NoJobJob DEF Faithful
  <1>2. \A f : ~Writes(r, f)
    BY <1>1 DEF Writes
  <1>3. names \in Nat /\ names <= names'
    BY Types, BackupsAssumption DEF CInv, BackupsAssumption
  <1> QED BY <1>1, <1>2, <1>3, ChoiceKeeps

\* A run ends, well or not: a restore keeps what it chose.
LEMMA EndedFaithful ==
    ASSUME NEW j \in Job, NEW ok \in BOOLEAN, Faithful(j), j.at \in Runs
    PROVE  /\ Ended(j, ok) \in Job
           /\ Ended(j, ok) = NoJob \/ (Ended(j, ok).at = "extract" /\ Faithful(Ended(j, ok)))
  <1>1. Ended(j, ok) \in Job
    BY EndedJob
  <1>2. CASE j.local
    <2> DEFINE r == Ended(j, ok)
    <2>1. r = [j EXCEPT !.at = "extract", !.own = NoArchive, !.safe = IF ok THEN j.own.name ELSE 0]
      BY <1>2 DEF Ended
    <2>2. r.at = "extract" /\ r.local = j.local /\ r.chosen = j.chosen /\ r.staged = j.staged
      BY <2>1 DEF Job
    <2> HIDE DEF r
    <2>3. r.at = "extract" /\ Faithful(r)
      BY <1>2, <2>2 DEF Faithful, Runs
    <2> QED BY <1>1, <2>3 DEF r
  <1>3. CASE ~j.local
    BY <1>1, <1>3 DEF Ended
  <1> QED BY <1>2, <1>3

LEMMA EndsChoice ==
    ASSUME CInv, BInv', NEW w \in Workers, Fails(w) \/ Rotate(w)
    PROVE  CInv'
  <1>1. job[w] \in Job /\ Faithful(job[w]) /\ names' = names
    BY Types DEF CInv, ChoiceInv, Fails, Rotate
  <1>2. archives' \subseteq archives /\ job[w].at \in Runs
    BY DEF Fails, Rotate, Without, At, Runs
  <1>3. PICK ok \in BOOLEAN : job' = [job EXCEPT ![w] = Ended(job[w], ok)]
    BY DEF Fails, Rotate
  <1>4. PICK r \in Job : r = Ended(job[w], ok) /\ (r = NoJob \/ (r.at = "extract" /\ Faithful(r)))
    BY <1>1, <1>2, EndedFaithful
  <1> QED BY <1>1, <1>2, <1>3, <1>4, ChoiceRests

\* Steps that change no archive.
LEMMA QuietChoice ==
    ASSUME CInv, BInv', NEW w \in Workers,
           Ship(w) \/ Prune(w) \/ Extract(w) \/ PutRelays(w) \/ PutControl(w) \/ RestoreFails(w) \/ RestartRelays(w)
           \/ Crash(w) \/ RestoreLocal(w) \/ StageFails(w)
    PROVE  CInv'
  <1>1. names' = names /\ archives' \subseteq archives
    BY DEF Ship, Prune, Extract, PutRelays, PutControl, RestoreFails, RestartRelays, Crash, RestoreLocal, StageFails
  <1>2. job \in [Workers -> Job] /\ Faithful(job[w]) /\ backupCfg \in Settings /\ archives \subseteq Files
    BY Types DEF CInv, ChoiceInv
  <1>3. CASE job' = [job EXCEPT ![w] = NoJob]
    BY <1>1, <1>3, NoJobJob, ChoiceRests
  <1>4. ASSUME NEW pc \in {"prune", "rotate", "put_relays", "put_control", "restart"}, Goes(w, pc),
               job[w].at \in {"ship", "prune", "extract", "put_relays", "put_control"},
               pc \in {"put_relays", "put_control"} => job[w].at \in {"extract", "put_relays"}
        PROVE  CInv'
    <2>1. PICK r \in Job : /\ job' = [job EXCEPT ![w] = r]
                           /\ r.at = pc
                           /\ r.chosen = job[w].chosen /\ r.staged = job[w].staged /\ r.local = job[w].local
      BY <1>2, <1>4, GoesJob
    <2>2. r.at \notin {"stage", "relays", "tar", "gpg"} /\ Faithful(r)
      BY <1>2, <1>4, <2>1 DEF Faithful
    <2> QED BY <1>1, <2>1, <2>2, ChoiceRests
  <1>5. CASE Ship(w) \/ Prune(w)
    BY <1>4, <1>5 DEF Ship, Prune, At
  <1>6. CASE Extract(w) \/ PutRelays(w) \/ PutControl(w)
    BY <1>3, <1>4, <1>6 DEF Extract, PutRelays, PutControl, At
  <1>7. CASE RestoreFails(w) \/ RestartRelays(w) \/ Crash(w) \/ StageFails(w)
    BY <1>3, <1>7 DEF RestoreFails, RestartRelays, Crash, StageFails
  <1>8. CASE RestoreLocal(w)
    <2>1. PICK f \in archives : job' = [job EXCEPT ![w] = Restoring(f)]
      BY <1>8 DEF RestoreLocal
    <2>2. PICK r \in Job : r = Restoring(f) /\ r.at = "stage" /\ r.chosen = f
      BY <1>2, <2>1, RestoringJob
    <2>3. r.chosen \in archives'
      BY <1>8, <2>2 DEF RestoreLocal
    <2> QED BY <1>1, <2>1, <2>2, <2>3, ChoiceRests
  <1> QED BY <1>5, <1>6, <1>7, <1>8

\* A run begins: its name is a new one.
LEMMA BeginsChoice ==
    ASSUME CInv, BInv', NEW w \in Workers, NEW j \in Job, Begun(w, j), archives' = archives,
           j.local /\ j.chosen.whole => j.staged = j.chosen
    PROVE  CInv'
  <1>1. names' = names + 1 /\ names \in Nat /\ names' \in 0 .. MaxNames
    BY Types, BackupsAssumption DEF Begun, Fresh, CInv, BackupsAssumption
  <1>2. PICK r \in Job : /\ job' = [job EXCEPT ![w] = r] /\ r.at = "relays" /\ r.own.name = names'
                         /\ r.chosen = j.chosen /\ r.staged = j.staged /\ r.local = j.local
    <2> DEFINE r == [j EXCEPT !.at = "relays", !.cfg = backupCfg,
                              !.own = [NoArchive EXCEPT !.name = names', !.control = live.control]]
    <2>1. job' = [job EXCEPT ![w] = r]
      BY DEF Begun, Fresh
    <2>2. r \in Job /\ r.at = "relays" /\ r.own.name = names'
      BY ZenonT(60), <1>1, BegunJob DEF CInv, BInv
    <2>3. r.chosen = j.chosen /\ r.staged = j.staged /\ r.local = j.local
      BY DEF Job
    <2> QED BY <2>1, <2>2, <2>3
  <1>3. Faithful(r)
    BY <1>2 DEF Faithful
  <1>4. \A f : Writes(r, f) => f.name > names
    BY <1>1, <1>2 DEF Writes
  <1>5. names <= names' /\ r.at # "stage"
    BY <1>1, <1>2
  <1> QED BY <1>2, <1>3, <1>4, <1>5, ChoiceKeeps

\* A run goes on to its next file: what a restore chose isn't touched.
LEMMA CopyChoice ==
    ASSUME CInv, BInv', NEW w \in Workers, CopyRelays(w)
    PROVE  CInv'
  <1> DEFINE f == [job[w].own EXCEPT !.relays = live.relays]
  <1>1. /\ job[w].at = "relays" /\ names' = names
        /\ archives' = Without(f) \cup {f}
        /\ job' = [job EXCEPT ![w].at = "tar", ![w].own = f]
    BY DEF CopyRelays, At
  <1>2. /\ job[w] \in Job /\ Faithful(job[w]) /\ job[w].own \in Files /\ live.relays \in 0 .. MaxLive
        /\ Unset \in Secrets
    BY Types, JobFields DEF Secrets, CInv, ChoiceInv
  <1>3. f \in Files /\ f.name = job[w].own.name /\ f.whole = job[w].own.whole
    BY <1>2, FileSteps
  <1> HIDE DEF f
  <1>4. job' = [job EXCEPT ![w] = [job[w] EXCEPT !.at = "tar", !.own = f]]
    BY <1>1, Types DEF CInv
  <1>5. PICK r \in Job : r = [job[w] EXCEPT !.at = "tar", !.own = f] /\ r.at = "tar" /\ r.own = f /\ Faithful(r)
    <2>1. job[w] \in Job /\ Faithful(job[w]) /\ job[w].at \in {"relays", "tar", "gpg"}
      BY <1>1, <1>2
    <2>2. f \in Files
      BY <1>3
    <2> DEFINE r == [job[w] EXCEPT !.at = "tar", !.own = f]
    <2>3. /\ r \in Job /\ r.at = "tar" /\ r.own = f
          /\ r.chosen = job[w].chosen /\ r.staged = job[w].staged /\ r.local = job[w].local
      BY <2>1, <2>2 DEF Job
    <2>4. r = [job[w] EXCEPT !.at = "tar", !.own = f]
      OBVIOUS
    <2> HIDE DEF r
    <2>5. Faithful(r)
      BY <2>1, <2>3 DEF Faithful
    <2> QED BY <2>3, <2>4, <2>5
  <1>6. ~f.whole /\ \A g : Writes(r, g) => Writes(job[w], g)
    <2>1. ~job[w].own.whole
      BY <1>1 DEF FileOK, CInv, BInv, NamesInv
    <2> QED BY <1>1, <1>3, <1>5, <2>1 DEF Writes
  <1>7. \A g \in archives' : (g \in archives \/ Writes(job[w], g)) /\ (g.whole => g \in archives)
    BY <1>1, <1>3, <1>6 DEF Without, Writes
  <1>8. names \in Nat /\ names <= names'
    BY <1>1, Types, BackupsAssumption DEF CInv, BackupsAssumption
  <1> QED BY <1>4, <1>5, <1>6, <1>7, <1>8, ChoiceKeeps

LEMMA TarChoice ==
    ASSUME CInv, BInv', NEW w \in Workers, CloseTar(w)
    PROVE  CInv'
  <1> DEFINE f == [job[w].own EXCEPT !.whole = TRUE]
             g == [job[w].own EXCEPT !.sealed = TRUE, !.secret = job[w].cfg.secret]
  <1>1. /\ job[w].at = "tar" /\ names' = names
        /\ \/ archives' = Without(f) \cup {f} /\ job' = [job EXCEPT ![w].at = "ship", ![w].own = f]
           \/ archives' = (Without(f) \cup {f, g}) /\ job' = [job EXCEPT ![w].at = "gpg", ![w].own = f]
    BY DEF CloseTar, At
  <1>2. /\ job[w] \in Job /\ Faithful(job[w]) /\ job[w].own \in Files /\ job[w].cfg.secret \in Secrets
        /\ 0 \in 0 .. MaxLive
    BY Types, JobFields, BackupsAssumption DEF Secrets, CInv, ChoiceInv, BackupsAssumption
  <1>3. /\ f \in Files /\ f.name = job[w].own.name /\ f.sealed = job[w].own.sealed
        /\ g.name = job[w].own.name /\ g.sealed /\ g.whole = job[w].own.whole
    BY <1>2, FileSteps
  <1> HIDE DEF f, g
  <1>4. PICK pc \in {"ship", "gpg"} : job' = [job EXCEPT ![w] = [job[w] EXCEPT !.at = pc, !.own = f]]
    BY <1>1, Types DEF CInv
  <1>5. PICK r \in Job : r = [job[w] EXCEPT !.at = pc, !.own = f] /\ r.at = pc /\ r.own = f /\ Faithful(r)
    <2>1. job[w] \in Job /\ Faithful(job[w]) /\ job[w].at \in {"relays", "tar", "gpg"}
      BY <1>1, <1>2
    <2>2. f \in Files
      BY <1>3
    <2> DEFINE r == [job[w] EXCEPT !.at = pc, !.own = f]
    <2>3. /\ r \in Job /\ r.at = pc /\ r.own = f
          /\ r.chosen = job[w].chosen /\ r.staged = job[w].staged /\ r.local = job[w].local
      BY <2>1, <2>2 DEF Job
    <2>4. r = [job[w] EXCEPT !.at = pc, !.own = f]
      OBVIOUS
    <2> HIDE DEF r
    <2>5. Faithful(r)
      BY <2>1, <2>3 DEF Faithful
    <2> QED BY <2>3, <2>4, <2>5
  <1>6. ~f.sealed /\ ~g.whole /\ \A h : Writes(r, h) => Writes(job[w], h)
    <2>1. ~job[w].own.whole /\ ~job[w].own.sealed
      BY <1>1 DEF FileOK, CInv, BInv, NamesInv
    <2> QED BY <1>1, <1>3, <1>5, <2>1 DEF Writes
  <1>7. ASSUME NEW h \in archives'
        PROVE  /\ h \in archives \/ Writes(job[w], h)
               /\ h.whole => h \in archives \/ ((\A k \in archives' : SameFile(k, h) => k = h) /\ ~Writes(r, h))
    <2>1. CASE h \in archives
      BY <2>1
    <2>2. CASE h = f
      <3>1. \A k \in archives' : SameFile(k, f) => k = f
        BY <1>1, <1>3, <1>6 DEF Without, SameFile
      <3>2. ~Writes(r, f)
        BY <1>3, <1>5, <1>6 DEF Writes
      <3> QED BY <1>1, <1>3, <2>2, <3>1, <3>2 DEF Writes
    <2>3. CASE h = g
      BY <1>1, <1>3, <1>6, <2>3 DEF Writes
    <2> QED BY <1>1, <2>1, <2>2, <2>3 DEF Without
  <1>8. names \in Nat /\ names <= names' /\ r.at # "stage"
    BY <1>1, <1>5, Types, BackupsAssumption DEF CInv, BackupsAssumption
  <1> QED BY <1>4, <1>5, <1>6, <1>7, <1>8, ChoiceKeeps

LEMMA GpgChoice ==
    ASSUME CInv, BInv', NEW w \in Workers, CloseGpg(w)
    PROVE  CInv'
  <1> DEFINE g == [job[w].own EXCEPT !.sealed = TRUE, !.secret = job[w].cfg.secret]
  <1>1. /\ job[w].at = "gpg" /\ names' = names
        /\ archives' = {h \in archives : h.name # job[w].own.name} \cup {g}
        /\ job' = [job EXCEPT ![w].at = "ship", ![w].own = g]
    BY DEF CloseGpg, At
  <1>2. /\ job[w] \in Job /\ Faithful(job[w]) /\ job[w].own \in Files /\ job[w].cfg.secret \in Secrets
        /\ 0 \in 0 .. MaxLive
    BY Types, JobFields, BackupsAssumption DEF Secrets, CInv, ChoiceInv, BackupsAssumption
  <1>3. g \in Files /\ g.name = job[w].own.name /\ g.sealed
    BY <1>2, FileSteps
  <1> HIDE DEF g
  <1>4. job' = [job EXCEPT ![w] = [job[w] EXCEPT !.at = "ship", !.own = g]]
    BY <1>1, Types DEF CInv
  <1>5. PICK r \in Job : r = [job[w] EXCEPT !.at = "ship", !.own = g] /\ r.at = "ship" /\ r.own = g /\ Faithful(r)
    <2> DEFINE r == [job[w] EXCEPT !.at = "ship", !.own = g]
    <2>1. /\ r \in Job /\ r.at = "ship" /\ r.own = g
          /\ r.chosen = job[w].chosen /\ r.staged = job[w].staged /\ r.local = job[w].local
      BY <1>2, <1>3 DEF Job
    <2>2. r = [job[w] EXCEPT !.at = "ship", !.own = g]
      OBVIOUS
    <2> HIDE DEF r
    <2>3. Faithful(r)
      BY <1>1, <1>2, <2>1 DEF Faithful
    <2> QED BY <2>1, <2>2, <2>3
  <1>6. \A h : ~Writes(r, h)
    BY <1>5 DEF Writes
  <1>7. ASSUME NEW h \in archives'
        PROVE  /\ h \in archives \/ Writes(job[w], h)
               /\ h.whole => h \in archives \/ ((\A k \in archives' : SameFile(k, h) => k = h) /\ ~Writes(r, h))
    <2>1. CASE h \in archives
      BY <2>1
    <2>2. CASE h = g
      BY <1>1, <1>3, <1>6, <2>2 DEF Writes, SameFile
    <2> QED BY <1>1, <2>1, <2>2
  <1>8. names \in Nat /\ names <= names' /\ r.at # "stage"
    BY <1>1, <1>5, Types, BackupsAssumption DEF CInv, BackupsAssumption
  <1> QED BY <1>4, <1>5, <1>6, <1>7, <1>8, ChoiceKeeps

\* What the console and the fleet do otherwise: files may go, no job changes.
LEMMA OtherChoice ==
    ASSUME CInv, BInv', job' = job, names' = names, archives' \subseteq archives
    PROVE  CInv'
  <1>1. ASSUME NEW f \in Files, Settled(f) PROVE Settled(f)'
    BY <1>1 DEF Settled, Writes, SameFile
  <1>2. \A f \in archives' : f.whole => Settled(f)'
    BY <1>1, Types DEF CInv, ChoiceInv
  <1>3. ASSUME NEW w \in Workers
        PROVE  (job[w].at = "stage" /\ job[w].chosen.whole => Settled(job[w].chosen))' /\ Faithful(job'[w])
    <2>1. PICK c \in Files : c = job[w].chosen
      BY Types, JobFields DEF CInv
    <2>2. c.whole /\ job[w].at = "stage" => Settled(c)'
      BY <1>1, <2>1 DEF CInv, ChoiceInv
    <2>3. Faithful(job[w])
      BY DEF CInv, ChoiceInv
    <2> QED BY <2>1, <2>2, <2>3 DEF Settled, Writes, SameFile
  <1>4. ChoiceInv'
    BY <1>2, <1>3 DEF ChoiceInv, Faithful
  <1> QED BY <1>4 DEF CInv

LEMMA ChoiceStep ==
    ASSUME CInv, [BackupsNext]_backupVars
    PROVE  CInv'
  <1>1. BInv'
    BY BackupsStep DEF CInv
  <1>2. CASE UNCHANGED backupVars
    BY <1>1, <1>2, OtherChoice DEF backupVars
  <1>3. ASSUME NEW w \in Workers, StartRun(w) PROVE CInv'
    BY <1>1, <1>3, NoJobJob, BeginsChoice DEF StartRun
  <1>4. ASSUME NEW w \in Workers, Stage(w) PROVE CInv'
    <2>1. PICK f \in archives : SameFile(f, job[w].chosen) /\ Begun(w, [job[w] EXCEPT !.staged = f])
      BY <1>4 DEF Stage
    <2>2. job[w].chosen.whole => f = job[w].chosen
      BY <1>4, <2>1 DEF Stage, At, CInv, ChoiceInv, Settled
    <2>3. PICK j \in Job : j = [job[w] EXCEPT !.staged = f] /\ j.staged = f /\ j.chosen = job[w].chosen
      BY StagedJob, Types DEF CInv
    <2> QED BY <1>1, <1>4, <2>1, <2>2, <2>3, BeginsChoice DEF Stage
  <1>5. ASSUME NEW w \in Workers, RestoreOffsite(w) PROVE CInv'
    <2>1. PICK f \in offsite : Begun(w, [Restoring(f) EXCEPT !.staged = f])
      BY <1>5 DEF RestoreOffsite
    <2>2. Restoring(f) \in Job /\ Restoring(f).chosen = f
      BY RestoringJob, Types DEF CInv
    <2>3. PICK j \in Job : j = [Restoring(f) EXCEPT !.staged = f] /\ j.staged = f /\ j.chosen = f
      BY <2>2, StagedJob, Types DEF CInv
    <2> QED BY <1>1, <1>5, <2>1, <2>3, BeginsChoice DEF RestoreOffsite
  <1>6. ASSUME NEW w \in Workers, Fails(w) \/ CopyRelays(w) \/ CloseTar(w) \/ CloseGpg(w) \/ Rotate(w) PROVE CInv'
    BY <1>1, <1>6, EndsChoice, CopyChoice, TarChoice, GpgChoice
  <1>7. ASSUME NEW w \in Workers, Ship(w) \/ Prune(w) \/ Extract(w) \/ PutRelays(w) \/ PutControl(w)
                                  \/ RestoreFails(w) \/ RestartRelays(w) \/ Crash(w) \/ RestoreLocal(w)
                                  \/ StageFails(w)
        PROVE  CInv'
    BY <1>1, <1>7, QuietChoice
  <1>8. CASE \/ \E f \in archives : DeleteLocal(f)
             \/ \E f \in offsite : DeleteRemote(f)
             \/ \E c \in Settings : SaveSettings(c)
             \/ \E part \in {"relays", "control"} : Works(part)
    <2>1. job' = job /\ names' = names /\ archives' \subseteq archives
      BY <1>8 DEF DeleteLocal, DeleteRemote, SaveSettings, Works
    <2> QED BY <1>1, <2>1, OtherChoice
  <1> QED BY <1>2, <1>3, <1>4, <1>5, <1>6, <1>7, <1>8 DEF BackupsNext

-----------------------------------------------------------------------------
(* The theorems. *)

\* Whatever runs, fails, dies or is deleted, the records of jobs and archives keep their types (BackupsTypeOK).
THEOREM BackupsTypeCorrect == BackupsSpec => []BackupsTypeOK
  <1>1. BInv => BackupsTypeOK
    BY DEF BInv
  <1> QED BY InitBackups, BackupsStep, <1>1, PTL DEF BackupsSpec

\* While a restore overwrites, its safety archive is here and complete, unless a later run began or a provider
\* deleted it: for any number of runs at once and any number of archives kept (backup.py, _rotate, restore).
THEOREM SafetyAlwaysStays == BackupsSpec => []SafetyStays
  <1>1. BInv => SafetyStays
    BY DEF BInv, LastInv, SafetyStays, Claims, Lasting
  <1> QED BY InitBackups, BackupsStep, <1>1, PTL DEF BackupsSpec

\* A complete archive that could be opened when it was chosen is unpacked after the safety run and is what goes back,
\* for any number of runs that rotate, fail or die meanwhile: no run writes a complete file again, so the private
\* copy, made of whatever has the name, is of the chosen one (backup.py, restore and _make).
THEOREM ChosenAlwaysRestored == BackupsSpec => ChosenIsRestored
  <1>1. CInv /\ [BackupsNext]_backupVars =>
            [\A w \in Workers :
                job[w].chosen.whole /\ Opens(w, job[w].chosen) =>
                    /\ Extract(w) => At(w, "put_relays")'
                    /\ PutRelays(w) => live'.relays = job[w].chosen.relays
                    /\ PutControl(w) => live'.control = job[w].chosen.control]_backupVars
    <2> SUFFICES ASSUME CInv, NEW w \in Workers, job[w].chosen.whole, Opens(w, job[w].chosen)
                 PROVE  /\ Extract(w) => At(w, "put_relays")'
                        /\ PutRelays(w) => live'.relays = job[w].chosen.relays
                        /\ PutControl(w) => live'.control = job[w].chosen.control
      OBVIOUS
    <2>1. job \in [Workers -> Job] /\ job[w] \in Job /\ Faithful(job[w])
          /\ live \in [relays : 0 .. MaxLive, control : 0 .. MaxLive]
      BY Types DEF CInv, ChoiceInv
    <2>2. job[w].at \in {"extract", "put_relays", "put_control"} => job[w].staged = job[w].chosen
      BY <2>1 DEF Faithful
    <2>3. ASSUME Extract(w) PROVE At(w, "put_relays")'
      <3>1. Unpacks(w)
        BY <2>2, <2>3 DEF Extract, At, Unpacks, StagedCopy
      <3>2. job'[w].at = "put_relays"
        BY <2>1, <2>3, <3>1 DEF Extract, Goes, Job
      <3> QED BY <3>2 DEF At
    <2>4. ASSUME PutRelays(w) PROVE live'.relays = job[w].chosen.relays
      BY <2>1, <2>2, <2>4 DEF PutRelays, At
    <2>5. ASSUME PutControl(w) PROVE live'.control = job[w].chosen.control
      BY <2>1, <2>2, <2>5 DEF PutControl, At
    <2> QED BY <2>3, <2>4, <2>5
  <1> QED BY InitChoice, ChoiceStep, <1>1, PTL DEF BackupsSpec, ChosenIsRestored
=============================================================================
