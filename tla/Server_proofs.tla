----------------------------- MODULE Server_proofs -----------------------------
(***************************************************************************)
(* What the server does for all tenants, each component by itself: the root  *)
(* helper's docker commands (RelayHelper), the client version and its binaries *)
(* (Installers), the check of a custom domain (DomainCheck), the cache that     *)
(* says which tenant a request is for (HostCache), the start-up migrations       *)
(* (SchemaMigration).  The components share no state; each section has its own   *)
(* inductive invariant.                                                        *)
(***************************************************************************)
EXTENDS RelayHelper, Installers, SchemaMigration, DomainCheck, HostCache, FiniteSetTheorems, SequenceTheorems, TLAPS

-----------------------------------------------------------------------------
(* RelayHelper, for any number of commands at once, whatever rows, versions and *)
(* files there are: docker only gets renderings.  The invariant says where a     *)
(* command's row and text come from; nothing need be known of the files.         *)

CommandRecords ==
    [do : Actions \cup {"none", "write"}, at : {"idle", "load", "check", "run", "open", "write", "replace"},
     row : GoodRows \cup {"none"}, text : Texts, inode : Nat]

\* A command's row was accepted before it compares, its text is a rendering before docker gets it.
CommandsInv ==
    /\ command \in [Commands -> CommandRecords]
    /\ \A c \in Commands : /\ command[c].at = "check" => command[c].row \in GoodRows
                           /\ command[c].at = "run" => command[c].text \in Renderings

HelperInv ==
    /\ inodesUsed \in Nat
    /\ CommandsInv
    /\ project \in [text : Renderings \cup {Nothing}, running : BOOLEAN]

LEMMA TextsThere == /\ Nothing \in Texts /\ Renderings \subseteq Texts
                    /\ \A r \in GoodRows, v \in Images : Text(r, v) \in Renderings
  BY DEF Texts, Renderings

LEMMA IdleRecord == Idle \in CommandRecords /\ Idle.at = "idle"
  BY TextsThere DEF Idle, CommandRecords

\* A command that becomes another good record keeps the invariant.
LEMMA CommandSet ==
    ASSUME CommandsInv, NEW c \in Commands, NEW r \in CommandRecords,
           r.at = "check" => r.row \in GoodRows, r.at = "run" => r.text \in Renderings,
           command' = [command EXCEPT ![c] = r]
    PROVE  CommandsInv'
  BY DEF CommandsInv

\* So does one that ends.
LEMMA CommandEnds ==
    ASSUME CommandsInv, NEW c \in Commands, command' = [command EXCEPT ![c] = Idle]
    PROVE  CommandsInv'
  BY IdleRecord, CommandSet

\* The initial states.
LEMMA InitHelper == HelperInit => HelperInv
  BY TextsThere, IdleRecord DEF HelperInit, HelperInv, CommandsInv, NoProject

\* Every step of a command.
LEMMA CommandSteps ==
    ASSUME HelperInv, NEW c \in Commands,
           \/ Start(c) \/ Load(c) \/ Stops(c) \/ Check(c)
           \/ OpenTemporary(c) \/ WriteTemporary(c) \/ Replace(c)
    PROVE  HelperInv'
  <1> USE DEF HelperInv
  <1>1. command[c] \in CommandRecords
    BY DEF CommandsInv
  <1>2. CASE Start(c)
    <2>1. PICK do \in Actions \cup {"write"} : command' = [command EXCEPT ![c] = [Idle EXCEPT !.do = do, !.at = "load"]]
      BY <1>2 DEF Start
    <2>2. [Idle EXCEPT !.do = do, !.at = "load"] \in CommandRecords
      BY IdleRecord DEF CommandRecords
    <2>3. [Idle EXCEPT !.do = do, !.at = "load"].at = "load"
      BY DEF Idle
    <2>4. CommandsInv'
      BY <2>1, <2>2, <2>3, CommandSet
    <2> QED BY <1>2, <2>4 DEF Start
  <1>3. CASE Load(c)
    <2> DEFINE step == IF command[c].do = "write" THEN "open" ELSE "check"
               r == [command[c] EXCEPT !.row = relayRow, !.at = step]
    <2>1. CASE relayRow \in GoodRows
      <3>1. command' = [command EXCEPT ![c] = r]
        BY <1>3, <2>1 DEF Load
      <3>2. r \in CommandRecords /\ r.row \in GoodRows /\ r.at # "run"
        BY <1>1, <2>1 DEF CommandRecords
      <3>3. CommandsInv'
        BY <3>1, <3>2, CommandSet
      <3> QED BY <1>3, <3>3 DEF Load
    <2>2. CASE relayRow \notin GoodRows
      <3>1. CommandsInv'
        BY <1>3, <2>2, CommandEnds DEF Load
      <3> QED BY <1>3, <3>1 DEF Load
    <2> QED BY <2>1, <2>2
  <1>4. CASE Stops(c)
    BY <1>4, CommandEnds DEF Stops
  <1>5. CASE Check(c)
    <2> DEFINE text == IF compose = 0 THEN Nothing ELSE content[compose]
               r == [command[c] EXCEPT !.at = "run", !.text = text]
    <2>1. CASE text \in {Text(command[c].row, v) : v \in Images}
      <3>1. command[c].row \in GoodRows
        BY <1>5 DEF Check, CommandsInv
      <3>2. text \in Renderings
        BY <2>1, <3>1, TextsThere
      <3>3. command' = [command EXCEPT ![c] = r]
        BY <1>5, <2>1 DEF Check
      <3>4. r \in CommandRecords /\ r.text \in Renderings /\ r.at # "check"
        BY <1>1, <3>2, TextsThere DEF CommandRecords
      <3>5. CommandsInv'
        BY <3>3, <3>4, CommandSet
      <3> QED BY <1>5, <3>5 DEF Check
    <2>2. CASE text \notin {Text(command[c].row, v) : v \in Images}
      <3>1. CommandsInv'
        BY <1>5, <2>2, CommandEnds DEF Check
      <3> QED BY <1>5, <3>1 DEF Check
    <2> QED BY <2>1, <2>2
  <1>6. CASE OpenTemporary(c)
    <2> DEFINE r == [command[c] EXCEPT !.at = "write", !.inode = inodesUsed + 1]
    <2>1. command' = [command EXCEPT ![c] = r]
      BY <1>6 DEF OpenTemporary, CommandsInv
    <2>2. r \in CommandRecords /\ r.at = "write"
      <3>1. inodesUsed + 1 \in Nat
        OBVIOUS
      <3> QED BY <1>1, <3>1 DEF CommandRecords
    <2>3. CommandsInv'
      BY <2>1, <2>2, CommandSet
    <2> QED BY <1>6, <2>3 DEF OpenTemporary
  <1>7. CASE WriteTemporary(c)
    <2> DEFINE r == [command[c] EXCEPT !.at = "replace"]
    <2>1. command' = [command EXCEPT ![c] = r]
      BY <1>7 DEF WriteTemporary, CommandsInv
    <2>2. r \in CommandRecords /\ r.at = "replace"
      BY <1>1 DEF CommandRecords
    <2>3. CommandsInv'
      BY <2>1, <2>2, CommandSet
    <2> QED BY <1>7, <2>3 DEF WriteTemporary
  <1>8. CASE Replace(c)
    BY <1>8, CommandEnds DEF Replace
  <1> QED BY <1>2, <1>3, <1>4, <1>5, <1>6, <1>7, <1>8

\* What docker has: what it had, or the text the command compared.
LEMMA RunStep ==
    ASSUME HelperInv, NEW c \in Commands, Run(c)
    PROVE  HelperInv'
  <1>1. command[c].text \in Renderings
    BY DEF Run, HelperInv, CommandsInv
  <1>2. Done(c) \in [text : Renderings \cup {Nothing}, running : BOOLEAN]
    BY <1>1 DEF Done, PipedText, NoProject, HelperInv
  <1>3. CommandsInv'
    BY CommandEnds DEF Run, HelperInv
  <1> QED BY <1>2, <1>3 DEF Run, HelperInv

\* Docker's containers were always created from one of the helper's renderings, whatever happens to the compose
\* file between the comparison and the run, and however many commands run at once.
THEOREM AlwaysRunsRendering == HelperSpec => []RunsRendering
  <1>1. HelperInv /\ [HelperNext]_helperVars => HelperInv'
    <2> SUFFICES ASSUME HelperInv, [HelperNext]_helperVars PROVE HelperInv'
      OBVIOUS
    <2>1. CASE RowChanges \/ Edit \/ PurgeData \/ UNCHANGED helperVars
      BY <2>1 DEF RowChanges, Edit, PurgeData, helperVars, HelperInv, CommandsInv
    <2> QED BY <2>1, CommandSteps, RunStep DEF HelperNext
  <1>2. HelperInv => RunsRendering
    BY DEF HelperInv, RunsRendering
  <1> QED BY InitHelper, <1>1, <1>2, PTL DEF HelperSpec

-----------------------------------------------------------------------------
(* Installers: the pin moves when every binary has its final name.  Between the *)
(* first binary that is put in place and the pin, what was fetched is what the   *)
(* update listed: PinInv.  A reader of the emptied file may write it any time,    *)
(* with nothing found.                                                           *)

UpdateRecords == [at : {"idle", "fetch", "place", "pin", "write"}, version : Versions \cup {0}, archs : SUBSET Archs,
                  fetched : SUBSET Archs, placed : SUBSET Archs]

\* What holds of an update, given the binaries there are.
UpdateOK(u, there) ==
    /\ u \in UpdateRecords
    /\ u.at # "idle" => u.version \in Versions
    /\ u.at \in {"place", "pin", "write"} => u.fetched = u.archs
    /\ u.at \in {"pin", "write"} => u.placed = u.fetched
    /\ \A a \in u.placed : <<u.version, a>> \in there

PinInv ==
    /\ released \in Versions
    /\ PinHasBinaries
    /\ UpdateOK(updating, assets)

LEMMA StillOK == ASSUME NEW there PROVE UpdateOK(Still, there)
  BY DEF Still, UpdateRecords, UpdateOK

LEMMA InitPin == InstallersInit => PinInv
  BY StillOK, VersionsAssumption DEF InstallersInit, PinInv, PinHasBinaries

\* The pin unchanged, emptied, or the default; no binary lost; the update unchanged or given up.
LEMMA PinRests ==
    ASSUME PinInv, assets \subseteq assets', released' \in Versions, updating' \in {updating, Still},
           \/ pin' = pin /\ found' = found
           \/ pin' = NoPin
           \/ found' = {}
    PROVE  PinInv'
  <1>1. UpdateOK(updating', assets')
    BY StillOK DEF PinInv, UpdateOK
  <1>2. PinHasBinaries'
    BY DEF PinInv, PinHasBinaries
  <1> QED BY <1>1, <1>2 DEF PinInv

\* An update that goes on, without the pin.
LEMMA UpdateGoesOn ==
    ASSUME PinInv, released' = released, pin' = pin, found' = found, assets \subseteq assets',
           UpdateOK(updating', assets')
    PROVE  PinInv'
  BY DEF PinInv, PinHasBinaries

LEMMA UpdateStep ==
    ASSUME PinInv, Update
    PROVE  PinInv'
  <1>1. /\ released' = released /\ pin' = pin /\ found' = found /\ assets' = assets
        /\ updating' = [at |-> "fetch", version |-> released, archs |-> StagedArchs, fetched |-> {}, placed |-> {}]
    BY DEF Update, Still, pinVars
  <1>2. UpdateOK(updating', assets')
    <2>1. released \in Versions /\ StagedArchs \subseteq Archs
      BY DEF PinInv, StagedArchs
    <2> QED BY <1>1, <2>1 DEF UpdateOK, UpdateRecords
  <1> QED BY <1>1, <1>2, UpdateGoesOn

LEMMA FetchStep ==
    ASSUME PinInv, NEW a \in Archs, Fetch(a)
    PROVE  PinInv'
  <1>1. /\ updating'.version = updating.version /\ updating'.archs = updating.archs
        /\ updating'.fetched = updating.fetched \cup {a} /\ updating'.placed = updating.placed
        /\ updating'.at = IF updating.fetched \cup {a} = updating.archs THEN "place" ELSE "fetch"
        /\ updating' \in UpdateRecords
    BY DEF Fetch, PinInv, UpdateOK, UpdateRecords
  <1>2. released' = released /\ pin' = pin /\ found' = found /\ assets' = assets /\ updating.at = "fetch"
    BY DEF Fetch, pinVars
  <1>3. UpdateOK(updating', assets')
    <2>1. updating.version \in Versions /\ \A b \in updating.placed : <<updating.version, b>> \in assets
      BY <1>2 DEF PinInv, UpdateOK
    <2> QED BY <1>1, <1>2, <2>1 DEF UpdateOK
  <1> QED BY <1>2, <1>3, UpdateGoesOn

LEMMA PlaceStep ==
    ASSUME PinInv, NEW a \in Archs, Place(a)
    PROVE  PinInv'
  <1>1. /\ updating'.version = updating.version /\ updating'.archs = updating.archs
        /\ updating'.fetched = updating.fetched /\ updating'.placed = updating.placed \cup {a}
        /\ updating'.at = IF updating.placed \cup {a} = updating.fetched THEN "pin" ELSE "place"
        /\ updating' \in UpdateRecords
    BY DEF Place, PinInv, UpdateOK, UpdateRecords
  <1>2. /\ released' = released /\ pin' = pin /\ found' = found /\ updating.at = "place"
        /\ assets' = assets \cup {<<updating.version, a>>}
    BY DEF Place
  <1>3. UpdateOK(updating', assets')
    <2>1. /\ updating.version \in Versions /\ updating.fetched = updating.archs
          /\ \A b \in updating.placed : <<updating.version, b>> \in assets
      BY <1>2 DEF PinInv, UpdateOK
    <2> QED BY <1>1, <1>2, <2>1 DEF UpdateOK
  <1> QED BY <1>2, <1>3, UpdateGoesOn

\* The file is emptied, the update goes on to write it.
LEMMA TruncateStep ==
    ASSUME PinInv, TruncatePin
    PROVE  PinInv'
  <1>1. /\ updating'.version = updating.version /\ updating'.archs = updating.archs
        /\ updating'.fetched = updating.fetched /\ updating'.placed = updating.placed
        /\ updating'.at = "write" /\ updating' \in UpdateRecords
    BY DEF TruncatePin, PinInv, UpdateOK, UpdateRecords
  <1>2. released' = released /\ pin' = NoPin /\ assets' = assets /\ updating.at = "pin"
    BY DEF TruncatePin, PlacedAll
  <1>3. UpdateOK(updating', assets')
    <2>1. /\ updating.version \in Versions /\ updating.fetched = updating.archs /\ updating.placed = updating.fetched
          /\ \A b \in updating.placed : <<updating.version, b>> \in assets
      BY <1>2 DEF PinInv, UpdateOK
    <2> QED BY <1>1, <1>2, <2>1 DEF UpdateOK
  <1> QED BY <1>2, <1>3 DEF PinInv, PinHasBinaries

\* What the update listed has its binaries when the pin is written.
LEMMA WritePinStep ==
    ASSUME PinInv, WritePin
    PROVE  PinInv'
  <1>1. /\ updating' = Still /\ pin' = updating.version /\ found' = updating.archs
        /\ assets' = assets /\ released' = released /\ updating.at = "write"
    BY DEF WritePin
  <1>2. \A a \in updating.archs : <<updating.version, a>> \in assets
    BY <1>1 DEF PinInv, UpdateOK
  <1>3. PinHasBinaries'
    BY <1>1, <1>2 DEF PinHasBinaries
  <1>4. UpdateOK(updating', assets')
    BY <1>1, StillOK
  <1> QED BY <1>1, <1>3, <1>4 DEF PinInv

LEMMA PinStep ==
    ASSUME PinInv, [InstallersNext]_installerVars
    PROVE  PinInv'
  <1> DEFINE Rests == /\ assets \subseteq assets' /\ released' \in Versions /\ updating' \in {updating, Still}
                      /\ \/ pin' = pin /\ found' = found
                         \/ pin' = NoPin
                         \/ found' = {}
  <1>0. released \in Versions
    BY DEF PinInv
  <1>1. CASE \/ Releases \/ FetchFails \/ Restart \/ EmptyPin \/ SeedPin \/ (\E r \in Readers : ReadEmpty(r))
             \/ \E a \in Archs, v \in Versions : StageBinary(v, a)
    <2>1. Rests
      BY <1>0, <1>1 DEF Releases, FetchFails, Restart, EmptyPin, SeedPin, WriteDefault, ReadEmpty, StageBinary, pinVars
    <2> QED BY <2>1, PinRests
  <1>2. CASE \E b \in Builders : InsertRow(b) \/ MakeFails(b) \/ Made(b) \/ Signs(b) \/ SignFails(b) \/ \E a \in Archs : Make(b, a)
    <2>1. Rests
      BY <1>0, <1>2 DEF InsertRow, WriteDefault, MakeFails, Made, Signs, SignFails, Make, pinVars
    <2> QED BY <2>1, PinRests
  <1>3. CASE \/ Build \/ Rebuild \/ LinkNext
             \/ (\E i \in Rows : SignExisting(i) \/ DeleteInstaller(i)) \/ UNCHANGED installerVars
    <2>1. Rests
      BY <1>0, <1>3 DEF Build, Rebuild, LinkNext, CreateLink, RevokeLink, DownloadExpires, Download, SignExisting,
                        DeleteInstaller, installerVars, pinVars
    <2> QED BY <2>1, PinRests
  <1> HIDE DEF Rests
  <1> QED BY <1>1, <1>2, <1>3, UpdateStep, FetchStep, PlaceStep, TruncateStep, WritePinStep DEF InstallersNext, ClientNext

\* A client version that an update pinned has its binary for every architecture staged when that update began,
\* whatever fails, is staged by hand meanwhile or is interrupted, and though a reader of the file that the update has
\* just emptied may write the default into it (update_version, get_pinned_version).
THEOREM PinAlwaysHasBinaries == InstallersSpec => []PinHasBinaries
  <1>1. PinInv => PinHasBinaries
    BY DEF PinInv
  <1> QED BY InitPin, PinStep, <1>1, PTL DEF InstallersSpec

-----------------------------------------------------------------------------
(* SchemaMigration, for any number of processes that migrate and any tables.      *)
(* sqlite's one writer: only the process in a transaction sees anything else than *)
(* what is committed, and what it sees has tenant #1 as soon as a table has a      *)
(* tenant_id.  The counter of user ids covers every row (Sound), so that a rebuild  *)
(* carries it over unchanged; a second migrator finds the tables as the first left  *)
(* them and changes nothing (WriterOK).  The rebuild of the users for their CHECK   *)
(* is the exception.                                                             *)

StarterRow == [at : {"users", "create", "copy", "copied", "columns", "alter", "fill", "tenancy", "begin", "tables",
                     "done", "failed"},
               batch : 1 .. 4, next : 1 .. 2]

LEMMA BatchFacts ==
    /\ Len(Batches) = 3
    /\ \A b \in 1 .. 3 : Len(Batches[b]) \in 1 .. 2 /\ \A n \in 1 .. Len(Batches[b]) : Batches[b][n] \in Columns
  <1>1. Batches[1] = <<"label">> /\ Batches[2] = <<"auto_update", "auto_update_ts">>
        /\ Batches[3] = <<"remote_config", "policy_ts">> /\ Len(Batches) = 3
    BY DEF Batches
  <1>2. /\ Len(Batches[1]) = 1 /\ Len(Batches[2]) = 2 /\ Len(Batches[3]) = 2
        /\ Batches[1][1] = "label" /\ Batches[2][1] = "auto_update" /\ Batches[2][2] = "auto_update_ts"
        /\ Batches[3][1] = "remote_config" /\ Batches[3][2] = "policy_ts"
    BY <1>1
  <1>3. ASSUME NEW b \in 1 .. 3
        PROVE  Len(Batches[b]) \in 1 .. 2 /\ \A n \in 1 .. Len(Batches[b]) : Batches[b][n] \in Columns
    <2>1. b = 1 \/ b = 2 \/ b = 3
      OBVIOUS
    <2>2. IF b = 1 THEN Len(Batches[b]) = 1 ELSE Len(Batches[b]) = 2
      BY <1>2, <2>1
    <2>3. ASSUME NEW n \in 1 .. Len(Batches[b]) PROVE Batches[b][n] \in Columns
      <3>1. CASE b = 1
        <4>1. n = 1
          BY <1>2, <3>1
        <4> QED BY <1>2, <3>1, <4>1 DEF Columns
      <3>2. CASE b = 2
        <4>1. Len(Batches[b]) = 2
          BY <1>2, <3>2
        <4>2. n = 1 \/ n = 2
          BY <4>1
        <4> QED BY <1>2, <3>2, <4>2 DEF Columns
      <3>3. CASE b = 3
        <4>1. Len(Batches[b]) = 2
          BY <1>2, <3>3
        <4>2. n = 1 \/ n = 2
          BY <4>1
        <4> QED BY <1>2, <3>3, <4>2 DEF Columns
      <3> QED BY <2>1, <3>1, <3>2, <3>3
    <2> QED BY <2>2, <2>3
  <1> QED BY <1>1, <1>3

\* Where a process is among the columns.
StarterOK(r) ==
    /\ r.at \in {"alter", "fill"} => r.batch \in 1 .. 3
    /\ r.at = "alter" => r.next \in 1 .. Len(Batches[r.batch])

\* The counter is beyond every row, and only a table with tenant_id holds other tenants' users.
Sound(d) ==
    /\ \A u \in d.users : u <= d.sequence
    /\ d.others # {} => "users" \in d.tenancy

\* What the writer sees: the users rebuilt, or tenant #1 and at least the tables it has looked at.
WriterOK(p) ==
    /\ starter[p].at = "copied" =>
          /\ writer = p
          /\ work.tenancy = db.tenancy \ {"users"} /\ work.tenantOne = db.tenantOne
          /\ work.users = db.users /\ work.others = {}
    /\ starter[p].at = "tables" =>
          /\ writer = p
          /\ work.tenantOne /\ work.sequence = db.sequence
          /\ work.users = db.users /\ work.others = db.others
          /\ \A t \in TenantTables : t \in left \/ t \in work.tenancy
          /\ db.tenancy \subseteq work.tenancy

SchemaInv ==
    /\ db \in Database /\ work \in Database
    /\ Sound(db) /\ Sound(work)
    /\ starter \in [Starters -> StarterRow]
    /\ handedOut \in 0 .. MaxUserId
    /\ writer \in Starters \cup {"none"}
    /\ writer = "none" => work = db
    /\ \A p \in Starters : StarterOK(starter[p]) /\ WriterOK(p)
    /\ TenancyWhole

LEMMA InitSchema == SchemaInit => SchemaInv
  <1> SUFFICES ASSUME SchemaInit PROVE SchemaInv
    OBVIOUS
  <1>1. PICK old \in BOOLEAN, ids \in SUBSET (1 .. MaxUserId), n \in 0 .. MaxUserId :
          /\ \A u \in ids : u <= n
          /\ db = [check |-> old, spare |-> FALSE, columns |-> {}, tenancy |-> {}, tenantOne |-> FALSE,
                   users |-> ids, others |-> {}, sequence |-> n]
          /\ handedOut = n
    BY DEF SchemaInit
  <1>2. work = db /\ writer = "none" /\ starter = [p \in Starters |-> Ready] /\ usersRebuilt = {} /\ abroad = {}
    BY DEF SchemaInit
  <1>3. db \in Database /\ db.tenancy = {} /\ db.sequence = n /\ db.others = {} /\ db.users = ids
    BY <1>1 DEF Database
  <1>4. Ready \in StarterRow /\ Ready.at = "users"
    BY DEF Ready, StarterRow
  <1>5. \A p \in Starters : StarterOK(starter[p]) /\ WriterOK(p)
    BY <1>2, <1>4 DEF StarterOK, WriterOK
  <1>6. Sound(db)
    BY <1>1, <1>3 DEF Sound
  <1> QED BY <1>1, <1>2, <1>3, <1>4, <1>5, <1>6 DEF SchemaInv, TenancyWhole

\* The largest of some numbers up to n.
LEMMA LargestOf ==
    ASSUME NEW n \in Nat, NEW S \in SUBSET (0 .. n), S # {}
    PROVE  \E x \in S : \A y \in S : y <= x
  <1> DEFINE R == StrictSubsetOrdering(0 .. n)
             T == {x .. n : x \in S}
  <1>1. IsWellFoundedOn(R, FiniteSubsetsOf(0 .. n))
    BY FS_StrictSubsetOrderingWellFounded
  <1>2. T \subseteq FiniteSubsetsOf(0 .. n)
    <2>1. ASSUME NEW x \in S PROVE x .. n \subseteq 0 .. n /\ IsFiniteSet(x .. n)
      BY <2>1, FS_Interval
    <2> QED BY <2>1 DEF FiniteSubsetsOf
  <1>3. T # {}
    OBVIOUS
  <1> HIDE DEF R
  <1>4. PICK t \in T : \A u \in T : ~ (<<u, t>> \in R)
    BY <1>1, <1>2, <1>3, WFMin
  <1>5. PICK x \in S : t = x .. n
    OBVIOUS
  <1>6. ASSUME NEW y \in S, ~(y <= x) PROVE FALSE
    <2>1. y .. n \subseteq x .. n /\ x \in x .. n /\ x \notin y .. n
      BY <1>6
    <2>2. y .. n \in SUBSET (0 .. n) /\ x .. n \in SUBSET (0 .. n) /\ y .. n # x .. n
      BY <2>1
    <2>3. <<y .. n, x .. n>> \in R
      BY <2>1, <2>2 DEF R, StrictSubsetOrdering
    <2> QED BY <2>3, <1>4, <1>5
  <1> QED BY <1>6

LEMMA MaxOfUsers ==
    ASSUME NEW S \in SUBSET (0 .. MaxUserId)
    PROVE  MaxOf(S) \in 0 .. MaxUserId /\ \A x \in S : x <= MaxOf(S)
  <1>1. CASE S = {}
    BY <1>1, SchemaAssumption DEF SchemaAssumption, MaxOf
  <1>2. CASE S # {}
    <2>1. \E x \in S : \A y \in S : y <= x
      BY <1>2, LargestOf, SchemaAssumption DEF SchemaAssumption
    <2>2. \E x \in S : \A y \in S : x >= y
      BY <2>1, SchemaAssumption DEF SchemaAssumption
    <2>3. Max(S) \in S /\ \A y \in S : Max(S) >= y
      BY <2>2 DEF Max
    <2>4. \A y \in S : y <= Max(S)
      BY <2>3, SchemaAssumption DEF SchemaAssumption
    <2> QED BY <1>2, <2>3, <2>4 DEF MaxOf
  <1> QED BY <1>1, <1>2

\* A counter beyond every row is carried over unchanged.
LEMMA CounterKept ==
    ASSUME NEW d \in Database, Sound(d)
    PROVE  CarriedOver(d.sequence, MaxOf(d.users)) = d.sequence
  <1>1. d.users \in SUBSET (0 .. MaxUserId) /\ d.sequence \in 0 .. MaxUserId
    BY DEF Database
  <1>2. CASE d.users = {}
    <2>1. MaxOf(d.users) = 0
      BY <1>2 DEF MaxOf
    <2> QED BY <1>1, <2>1, SchemaAssumption DEF CarriedOver, SchemaAssumption
  <1>3. CASE d.users # {}
    <2>1. \E x \in d.users : \A y \in d.users : y <= x
      BY <1>1, <1>3, LargestOf, SchemaAssumption DEF SchemaAssumption
    <2>2. \E x \in d.users : \A y \in d.users : x >= y
      BY <1>1, <2>1, SchemaAssumption DEF SchemaAssumption
    <2>3. MaxOf(d.users) \in d.users
      BY <1>3, <2>2 DEF Max, MaxOf
    <2>4. MaxOf(d.users) <= d.sequence
      BY <2>3 DEF Sound
    <2>5. \A n, k \in 0 .. MaxUserId : n <= k => (IF n < k THEN k ELSE n) = k
      BY SchemaAssumption DEF SchemaAssumption
    <2>6. MaxOf(d.users) \in 0 .. MaxUserId
      BY <1>1, <2>3
    <2> QED BY <1>1, <2>4, <2>5, <2>6 DEF CarriedOver
  <1> QED BY <1>2, <1>3

\* The counter goes up by one.
LEMMA MaxOfNext ==
    ASSUME NEW n \in 0 .. MaxUserId
    PROVE  MaxOf({n, n + 1}) = n + 1
  <1>1. n \in Nat
    BY SchemaAssumption DEF SchemaAssumption
  <1>2. \A x \in {n, n + 1} : (\A y \in {n, n + 1} : x >= y) <=> x = n + 1
    BY <1>1
  <1>3. Max({n, n + 1}) = n + 1
    BY <1>2 DEF Max
  <1> QED BY <1>3 DEF MaxOf

\* A step to another place in the program.
LEMMA GotoRow ==
    ASSUME SchemaInv, NEW p \in Starters, NEW step, Goto(p, step),
           step \in {"create", "copy", "copied", "columns", "fill", "tenancy", "begin", "tables", "done",
                    "failed"}
    PROVE  \E r \in StarterRow : /\ starter' = [starter EXCEPT ![p] = r]
                                 /\ r.at = step /\ r.batch = starter[p].batch
  <1> DEFINE r == [starter[p] EXCEPT !.at = step]
  <1>1. starter[p] \in StarterRow
    BY DEF SchemaInv
  <1>2. r \in StarterRow /\ r.at = step /\ r.batch = starter[p].batch
    BY <1>1 DEF StarterRow
  <1>3. starter' = [starter EXCEPT ![p] = r]
    BY DEF Goto
  <1> QED BY <1>2, <1>3

\* What tenants and users depend on.
SameTenants(d, e) ==
    /\ d.tenancy = e.tenancy /\ d.tenantOne = e.tenantOne /\ d.sequence = e.sequence
    /\ d.users = e.users /\ d.others = e.others

\* A process that moves outside a transaction, without one of its own; the database may gain what the tenants
\* don't depend on.
LEMMA OutsideStep ==
    ASSUME SchemaInv, NEW p \in Starters, NEW r \in StarterRow, starter' = [starter EXCEPT ![p] = r],
           StarterOK(r), r.at \notin {"copied", "tables"},
           UNCHANGED <<left, histories>>, writer' = writer,
           \/ db' = db /\ work' = work
           \/ writer = "none" /\ db' \in Database /\ work' = db' /\ SameTenants(db', db)
    PROVE  SchemaInv'
  <1>0. handedOut' = handedOut /\ usersRebuilt' = usersRebuilt /\ abroad' = abroad /\ left' = left
    BY DEF histories
  <1>1. starter' \in [Starters -> StarterRow] /\ starter'[p] = r
        /\ \A q \in Starters : q # p => starter'[q] = starter[q]
    BY DEF SchemaInv
  <1>2. TenancyWhole' /\ Sound(db') /\ Sound(work')
    BY <1>0 DEF SchemaInv, TenancyWhole, SameTenants, Sound
  <1>3. \A q \in Starters : StarterOK(starter'[q])
    BY <1>1 DEF SchemaInv
  <1>4. ASSUME NEW q \in Starters PROVE WriterOK(q)'
    <2>1. CASE q = p
      BY <1>1, <2>1 DEF WriterOK
    <2>2. CASE q # p
      <3>1. WriterOK(q) /\ starter'[q] = starter[q] /\ writer' = writer
        BY <1>1, <2>2 DEF SchemaInv
      <3>2. writer = "none" => starter[q].at \notin {"copied", "tables"}
        BY <3>1, SchemaAssumption DEF WriterOK, SchemaAssumption
      <3> QED BY <1>0, <3>1, <3>2 DEF WriterOK
    <2> QED BY <2>1, <2>2
  <1> QED BY <1>0, <1>1, <1>2, <1>3, <1>4 DEF SchemaInv

\* A transaction begins.
LEMMA BeginsStep ==
    ASSUME SchemaInv, NEW p \in Starters, NEW r \in StarterRow, starter' = [starter EXCEPT ![p] = r],
           writer = "none", writer' = p, db' = db, work' \in Database, Sound(work'),
           UNCHANGED histories, r.at \in {"copied", "tables"}, StarterOK(r), WriterOK(p)'
    PROVE  SchemaInv'
  <1>0. handedOut' = handedOut /\ usersRebuilt' = usersRebuilt /\ abroad' = abroad
    BY DEF histories
  <1>1. starter' \in [Starters -> StarterRow] /\ starter'[p] = r
        /\ \A q \in Starters : q # p => starter'[q] = starter[q]
    BY DEF SchemaInv
  <1>2. TenancyWhole' /\ Sound(db')
    BY <1>0 DEF SchemaInv, TenancyWhole
  <1>3. \A q \in Starters : StarterOK(starter'[q])
    BY <1>1 DEF SchemaInv
  <1>4. ASSUME NEW q \in Starters PROVE WriterOK(q)'
    <2>2. CASE q # p
      <3>1. WriterOK(q) /\ starter'[q] = starter[q]
        BY <1>1, <2>2 DEF SchemaInv
      <3>2. starter[q].at \notin {"copied", "tables"}
        BY <3>1, SchemaAssumption DEF WriterOK, SchemaAssumption
      <3> QED BY <3>1, <3>2 DEF WriterOK
    <2> QED BY <2>2
  <1>5. p # "none"
    BY SchemaAssumption DEF SchemaAssumption
  <1> QED BY <1>0, <1>1, <1>2, <1>3, <1>4, <1>5 DEF SchemaInv

\* The transaction is over, committed or given up, and nobody else was in one.
LEMMA EndsStep ==
    ASSUME SchemaInv, NEW p \in Starters, NEW r \in StarterRow, starter' = [starter EXCEPT ![p] = r],
           StarterOK(r), r.at \notin {"copied", "tables"},
           writer = p, writer' = "none", db' \in {db, work}, work' = db',
           handedOut' = handedOut, TenancyWhole'
    PROVE  SchemaInv'
  <1>1. starter' \in [Starters -> StarterRow] /\ starter'[p] = r
        /\ \A q \in Starters : q # p => starter'[q] = starter[q]
    BY DEF SchemaInv
  <1>2. \A q \in Starters : StarterOK(starter'[q])
    BY <1>1 DEF SchemaInv
  <1>3. ASSUME NEW q \in Starters PROVE starter'[q].at \notin {"copied", "tables"}
    BY <1>1 DEF SchemaInv, WriterOK
  <1>4. \A q \in Starters : WriterOK(q)'
    BY <1>3 DEF WriterOK
  <1>5. Sound(db') /\ Sound(work')
    BY DEF SchemaInv
  <1> QED BY <1>1, <1>2, <1>4, <1>5 DEF SchemaInv

LEMMA UsersSteps ==
    ASSUME SchemaInv, NEW p \in Starters,
           LookAtUsers(p) \/ CreateSpare(p) \/ CopyUsers(p) \/ CommitUsers(p)
    PROVE  SchemaInv'
  <1>0. db \in Database /\ work \in Database /\ starter[p] \in StarterRow /\ starter[p].batch \in 1 .. 4
    BY DEF SchemaInv, StarterRow
  <1>1. CASE LookAtUsers(p)
    <2>1. PICK r \in StarterRow : /\ starter' = [starter EXCEPT ![p] = r] /\ r.at \in {"create", "columns"}
      BY <1>1, GotoRow DEF LookAtUsers
    <2> QED BY <1>1, <2>1, OutsideStep DEF LookAtUsers, Unchanged, StarterOK
  <1>2. CASE CreateSpare(p)
    <2>1. PICK r \in StarterRow : /\ starter' = [starter EXCEPT ![p] = r] /\ r.at \in {"copy", "failed"}
      BY <1>2, GotoRow DEF CreateSpare
    <2>2. [db EXCEPT !.spare = TRUE] \in Database /\ SameTenants([db EXCEPT !.spare = TRUE], db)
      BY <1>0 DEF Database, SameTenants
    <2> QED BY <1>2, <2>1, <2>2, OutsideStep DEF CreateSpare, Unchanged, AutoCommit, StarterOK
  <1>3. CASE CopyUsers(p)
    <2>1. CASE ~db.spare
      <3>1. PICK r \in StarterRow : /\ starter' = [starter EXCEPT ![p] = r] /\ r.at = "failed"
        BY <1>3, <2>1, GotoRow DEF CopyUsers
      <3> QED BY <1>3, <2>1, <3>1, OutsideStep DEF CopyUsers, Unchanged, StarterOK
    <2>2. CASE db.spare
      <3>1. PICK r \in StarterRow : /\ starter' = [starter EXCEPT ![p] = r] /\ r.at = "copied"
        BY <1>3, <2>2, GotoRow DEF CopyUsers
      <3> DEFINE n == MaxOf(db.users)
                 d == [db EXCEPT !.check = FALSE, !.spare = FALSE, !.sequence = n,
                                 !.tenancy = @ \ {"users"}, !.others = {}]
      <3>2. n \in 0 .. MaxUserId /\ \A u \in db.users : u <= n
        <4>1. db.users \in SUBSET (0 .. MaxUserId)
          BY <1>0 DEF Database
        <4> QED BY <4>1, MaxOfUsers
      <3>3. writer = "none" /\ writer' = p /\ work' = d /\ db' = db /\ UNCHANGED histories
        BY <1>3, <2>2 DEF CopyUsers, BeginWith
      <3> HIDE DEF n
      <3>4. /\ d \in Database /\ d.tenancy = db.tenancy \ {"users"} /\ d.tenantOne = db.tenantOne
            /\ d.users = db.users /\ d.others = {} /\ d.sequence = n
        BY <1>0, <3>2 DEF Database
      <3> HIDE DEF d
      <3>5. Sound(work')
        BY <3>2, <3>3, <3>4 DEF Sound
      <3>6. starter'[p] = r
        BY <3>1 DEF SchemaInv
      <3>7. WriterOK(p)'
        BY <3>1, <3>3, <3>4, <3>6 DEF WriterOK
      <3>8. work' \in Database /\ StarterOK(r)
        BY <3>1, <3>3, <3>4 DEF StarterOK
      <3> QED BY <3>1, <3>3, <3>5, <3>7, <3>8, BeginsStep
    <2> QED BY <2>1, <2>2
  <1>4. CASE CommitUsers(p)
    <2>1. PICK r \in StarterRow : /\ starter' = [starter EXCEPT ![p] = r] /\ r.at = "columns"
      BY <1>4, GotoRow DEF CommitUsers
    <2>2. /\ starter[p].at = "copied" /\ handedOut' = handedOut /\ abroad' = abroad
          /\ usersRebuilt' = usersRebuilt \cup {IF "users" \in db.tenancy THEN "tenanted" ELSE "bare"}
          /\ writer = p /\ writer' = "none" /\ db' = work /\ work' = work
      BY <1>4 DEF CommitUsers, Commit
    <2>3. /\ work.tenancy = db.tenancy \ {"users"} /\ work.tenantOne = db.tenantOne
          /\ work.users = db.users /\ work.others = {}
      BY <2>2 DEF SchemaInv, WriterOK
    <2>4. usersRebuilt' # {} /\ (db'.tenancy # {} => db'.tenantOne)
      BY <2>2, <2>3 DEF SchemaInv, TenancyWhole
    <2>5. ASSUME "tenanted" \notin usersRebuilt'
          PROVE  db'.tenancy \in {{}, TenantTables} /\ db'.others = abroad' \cap db'.users
      <3>1. "users" \notin db.tenancy /\ "tenanted" \notin usersRebuilt
        BY <2>2, <2>5
      <3>2. db.tenancy \in {{}, TenantTables} /\ db.others = abroad \cap db.users
        BY <3>1 DEF SchemaInv, TenancyWhole
      <3>3. db.others = {}
        BY <3>1 DEF SchemaInv, Sound
      <3> QED BY <2>2, <2>3, <3>1, <3>2, <3>3
    <2>6. TenancyWhole'
      BY <2>4, <2>5 DEF TenancyWhole
    <2> QED BY <2>1, <2>2, <2>6, EndsStep DEF StarterOK
  <1> QED BY <1>1, <1>2, <1>3, <1>4

LEMMA ColumnsSteps ==
    ASSUME SchemaInv, NEW p \in Starters, LookAtColumns(p) \/ AddColumn(p) \/ FillColumns(p)
    PROVE  SchemaInv'
  <1>0. db \in Database /\ starter[p] \in StarterRow /\ starter[p].batch \in 1 .. 4 /\ StarterOK(starter[p])
    BY DEF SchemaInv, StarterRow
  <1>1. CASE LookAtColumns(p)
    <2>1. PICK r \in StarterRow : starter' = [starter EXCEPT ![p] = r] /\ StarterOK(r)
                                 /\ r.at \in {"tenancy", "columns", "alter"}
      <3> DEFINE skip == [starter[p] EXCEPT !.batch = starter[p].batch + 1]
                 enter == [starter[p] EXCEPT !.at = "alter", !.next = 1]
                 end == [starter[p] EXCEPT !.at = "tenancy"]
      <3>1. /\ starter[p].at = "columns"
            /\ \/ starter' = [starter EXCEPT ![p] = end]
               \/ starter[p].batch <= 3 /\ starter' = [starter EXCEPT ![p] = skip]
               \/ starter[p].batch <= 3 /\ starter' = [starter EXCEPT ![p] = enter]
        <4>1. starter[p].at = "columns"
              /\ starter' = [starter EXCEPT ![p] = IF starter[p].batch > Len(Batches) THEN end
                                                   ELSE IF Batch(p)[1] \in db.columns THEN skip ELSE enter]
          BY <1>1 DEF LookAtColumns
        <4>2. starter[p].batch <= 3 <=> ~(starter[p].batch > Len(Batches))
          BY <1>0, BatchFacts
        <4> HIDE DEF skip, enter, end
        <4> QED BY <4>1, <4>2
      <3>2. end \in StarterRow /\ StarterOK(end) /\ end.at = "tenancy"
        BY <1>0 DEF StarterRow, StarterOK
      <3>3. starter[p].batch <= 3 => skip \in StarterRow /\ StarterOK(skip) /\ skip.at = "columns"
        BY <1>0, <3>1 DEF StarterRow, StarterOK
      <3>4. starter[p].batch <= 3 => enter \in StarterRow /\ StarterOK(enter) /\ enter.at = "alter"
        <4>0. 1 \in 1 .. 2
          OBVIOUS
        <4>1. enter \in StarterRow /\ enter.at = "alter" /\ enter.next = 1 /\ enter.batch = starter[p].batch
          BY <1>0, <4>0 DEF StarterRow
        <4>2. ASSUME NEW b \in 1 .. 3 PROVE 1 \in 1 .. Len(Batches[b])
          <5>1. Len(Batches[b]) \in 1 .. 2
            BY BatchFacts
          <5>2. \A k \in 1 .. 2 : 1 \in 1 .. k
            OBVIOUS
          <5> QED BY <5>1, <5>2
        <4>3. starter[p].batch <= 3 => starter[p].batch \in 1 .. 3
          BY <1>0
        <4> QED BY <4>1, <4>2, <4>3 DEF StarterOK
      <3> HIDE DEF skip, enter, end
      <3> QED BY <3>1, <3>2, <3>3, <3>4, BatchFacts
    <2> QED BY <1>1, <2>1, OutsideStep DEF LookAtColumns, Unchanged
  <1>2. CASE AddColumn(p)
    <2> DEFINE column == Batch(p)[starter[p].next]
    <2>1. starter[p].at = "alter" /\ writer = "none" /\ UNCHANGED <<left, histories>>
      BY <1>2 DEF AddColumn
    <2>2. column \in Columns
      BY <1>0, <2>1, BatchFacts DEF Batch, StarterOK
    <2>3. CASE column \in db.columns
      <3>1. PICK r \in StarterRow : starter' = [starter EXCEPT ![p] = r] /\ r.at = "failed"
        BY <1>2, <2>3, GotoRow DEF AddColumn
      <3>2. db' = db /\ work' = work /\ writer' = writer
        BY <1>2, <2>3 DEF AddColumn, Unchanged
      <3> QED BY <2>1, <3>1, <3>2, OutsideStep DEF StarterOK
    <2>4. CASE column \notin db.columns
      <3> DEFINE more == [starter[p] EXCEPT !.next = starter[p].next + 1]
                 full == [starter[p] EXCEPT !.at = "fill"]
                 d == [db EXCEPT !.columns = @ \cup {column}]
      <3>1. /\ db' = d /\ work' = d /\ writer' = writer
            /\ \/ starter' = [starter EXCEPT ![p] = full]
               \/ starter[p].next < Len(Batch(p)) /\ starter' = [starter EXCEPT ![p] = more]
        BY <1>2, <2>4 DEF AddColumn, AutoCommit
      <3> HIDE DEF column
      <3>2. d \in Database /\ SameTenants(d, db)
        BY <1>0, <2>2 DEF Database, SameTenants
      <3>3. full \in StarterRow /\ StarterOK(full) /\ full.at = "fill"
        BY <1>0, <2>1 DEF StarterRow, StarterOK
      <3>4. starter[p].next < Len(Batch(p)) => more \in StarterRow /\ StarterOK(more) /\ more.at = "alter"
        <4> SUFFICES ASSUME starter[p].next < Len(Batches[starter[p].batch])
                     PROVE  more \in StarterRow /\ StarterOK(more) /\ more.at = "alter"
          BY DEF Batch
        <4>1. starter[p].next \in 1 .. 2 /\ starter[p].batch \in 1 .. 3
          BY <1>0, <2>1 DEF StarterRow, StarterOK
        <4>2. Len(Batches[starter[p].batch]) \in 1 .. 2
          BY <4>1, BatchFacts
        <4>3. /\ starter[p].next + 1 \in 1 .. 2
              /\ starter[p].next + 1 \in 1 .. Len(Batches[starter[p].batch])
          <5> DEFINE n == starter[p].next
                     k == Len(Batches[starter[p].batch])
          <5>1. n \in 1 .. 2 /\ k \in 1 .. 2 /\ n < k
            BY <4>1, <4>2
          <5> HIDE DEF n, k
          <5>2. n + 1 \in 1 .. 2 /\ n + 1 \in 1 .. k
            BY <5>1
          <5> QED BY <5>2 DEF n, k
        <4>4. /\ more \in StarterRow /\ more.at = "alter" /\ more.batch = starter[p].batch
              /\ more.next = starter[p].next + 1
          BY <1>0, <2>1, <4>3 DEF StarterRow
        <4> QED BY <4>1, <4>3, <4>4 DEF StarterOK
      <3> HIDE DEF more, full, d
      <3> QED BY <2>1, <3>1, <3>2, <3>3, <3>4, OutsideStep
    <2> QED BY <2>3, <2>4
  <1>3. CASE FillColumns(p)
    <2>1. PICK r \in StarterRow : starter' = [starter EXCEPT ![p] = r] /\ r.at \in {"failed", "columns"}
      <3>1. CASE Goto(p, "failed")
        BY <3>1, GotoRow
      <3>2. CASE starter' = [starter EXCEPT ![p].at = "columns", ![p].batch = @ + 1]
        <4> DEFINE r == [starter[p] EXCEPT !.at = "columns", !.batch = @ + 1]
        <4>1. starter[p].batch \in 1 .. 3
          BY <1>0, <1>3 DEF FillColumns, StarterOK
        <4>2. starter[p].batch + 1 \in 1 .. 4
          BY <4>1
        <4>3. r \in StarterRow /\ r.at = "columns"
          BY <1>0, <4>2 DEF StarterRow
        <4>4. starter' = [starter EXCEPT ![p] = r]
          BY <3>2 DEF SchemaInv
        <4> QED BY <4>3, <4>4
      <3> QED BY <1>3, <3>1, <3>2 DEF FillColumns
    <2> QED BY <1>3, <2>1, OutsideStep DEF FillColumns, Unchanged, StarterOK
  <1> QED BY <1>1, <1>2, <1>3

\* A table is rebuilt in the transaction: the counter and the users stay.
LEMMA RebuildStep ==
    ASSUME SchemaInv, NEW p \in Starters, NEW t \in TenantTables, RebuildTable(p, t)
    PROVE  SchemaInv'
  <1>0. db \in Database /\ work \in Database /\ WriterOK(p) /\ Sound(db) /\ Sound(work)
    BY DEF SchemaInv
  <1>1. /\ starter[p].at = "tables" /\ writer = p /\ writer' = writer /\ db' = db /\ starter' = starter
        /\ handedOut' = handedOut /\ usersRebuilt' = usersRebuilt /\ abroad' = abroad
        /\ left' = left \ {t} /\ work' = IF HasTenantId(work, t) THEN work ELSE Rebuilt(work, t)
    BY DEF RebuildTable, Within, histories
  <1>2. /\ work' \in Database /\ work'.tenancy = work.tenancy \cup {t} /\ work'.tenantOne = work.tenantOne
        /\ work'.users = work.users /\ work'.others = work.others /\ work'.sequence = work.sequence
    <2>1. CASE t \in work.tenancy
      BY <1>0, <1>1, <2>1 DEF HasTenantId
    <2>2. CASE t \notin work.tenancy /\ t # "users"
      <3>1. work' = [work EXCEPT !.tenancy = @ \cup {t}]
        BY <1>1, <2>2 DEF HasTenantId, Rebuilt
      <3> QED BY <1>0, <3>1 DEF Database
    <2>3. CASE t \notin work.tenancy /\ t = "users"
      <3>1. CarriedOver(work.sequence, MaxOf(work.users)) = work.sequence
        BY <1>0, CounterKept
      <3>2. work' = [work EXCEPT !.tenancy = @ \cup {t}, !.check = FALSE, !.others = {}, !.sequence = work.sequence]
        BY <1>1, <2>3, <3>1 DEF HasTenantId, Rebuilt
      <3>3. work.others = {}
        BY <1>0, <2>3 DEF Sound
      <3> QED BY <1>0, <3>2, <3>3 DEF Database
    <2> QED BY <2>1, <2>2, <2>3
  <1>3. Sound(work')
    BY <1>0, <1>2 DEF Sound
  <1>4. ASSUME NEW q \in Starters PROVE WriterOK(q)'
    <2>1. CASE q = p
      <3>1. \A x \in TenantTables : x \in left' \/ x \in work'.tenancy
        BY <1>0, <1>1, <1>2 DEF WriterOK
      <3> QED BY <1>0, <1>1, <1>2, <2>1, <3>1 DEF WriterOK
    <2>2. CASE q # p
      BY <1>1, <2>2 DEF WriterOK, SchemaInv
    <2> QED BY <2>1, <2>2
  <1>5. p # "none"
    BY SchemaAssumption DEF SchemaAssumption
  <1>6. TenancyWhole'
    BY <1>1 DEF SchemaInv, TenancyWhole
  <1> QED BY <1>0, <1>1, <1>2, <1>3, <1>4, <1>5, <1>6 DEF SchemaInv

LEMMA TenancySteps ==
    ASSUME SchemaInv, NEW p \in Starters, LookAtTenancy(p) \/ BeginTenancy(p) \/ CommitTenancy(p)
    PROVE  SchemaInv'
  <1>0. db \in Database /\ work \in Database /\ WriterOK(p) /\ Sound(db)
    BY DEF SchemaInv
  <1>1. CASE LookAtTenancy(p)
    <2>1. PICK r \in StarterRow : starter' = [starter EXCEPT ![p] = r] /\ r.at \in {"begin", "done"}
      BY <1>1, GotoRow DEF LookAtTenancy
    <2> QED BY <1>1, <2>1, OutsideStep DEF LookAtTenancy, Unchanged, StarterOK
  <1>2. CASE BeginTenancy(p)
    <2>1. PICK r \in StarterRow : starter' = [starter EXCEPT ![p] = r] /\ r.at = "tables"
      BY <1>2, GotoRow DEF BeginTenancy
    <2>2. /\ writer = "none" /\ writer' = p /\ work' = [db EXCEPT !.tenantOne = TRUE] /\ db' = db
          /\ left' = TenantTables /\ UNCHANGED histories
      BY <1>2 DEF BeginTenancy, BeginWith
    <2>3. /\ work' \in Database /\ work'.tenantOne /\ work'.sequence = db.sequence
          /\ work'.users = db.users /\ work'.others = db.others /\ work'.tenancy = db.tenancy
      BY <1>0, <2>2 DEF Database
    <2>4. Sound(work')
      BY <1>0, <2>3 DEF Sound
    <2>5. starter'[p] = r
      BY <2>1 DEF SchemaInv
    <2>6. WriterOK(p)'
      BY <2>1, <2>2, <2>3, <2>5 DEF WriterOK
    <2>7. StarterOK(r)
      BY <2>1 DEF StarterOK
    <2> QED BY <2>1, <2>2, <2>3, <2>4, <2>6, <2>7, BeginsStep
  <1>3. CASE CommitTenancy(p)
    <2>1. PICK r \in StarterRow : starter' = [starter EXCEPT ![p] = r] /\ r.at = "done"
      BY <1>3, GotoRow DEF CommitTenancy
    <2>2. /\ starter[p].at = "tables" /\ left = {} /\ writer = p /\ writer' = "none" /\ db' = work /\ work' = work
          /\ usersRebuilt' = usersRebuilt /\ handedOut' = handedOut /\ abroad' = abroad
      BY <1>3 DEF CommitTenancy, Commit, histories
    <2>3. /\ work.tenantOne /\ work.sequence = db.sequence /\ work.users = db.users /\ work.others = db.others
          /\ \A t \in TenantTables : t \in work.tenancy
      BY <1>0, <2>2 DEF WriterOK
    <2>4. work.tenancy = TenantTables
      BY <1>0, <2>3 DEF Database
    <2>5. TenancyWhole'
      BY <2>2, <2>3, <2>4 DEF SchemaInv, TenancyWhole
    <2> QED BY <2>1, <2>2, <2>5, EndsStep DEF StarterOK
  <1> QED BY <1>1, <1>2, <1>3

\* Killed, in a transaction or out of one.
LEMMA RestartStep ==
    ASSUME SchemaInv, NEW p \in Starters, Restarted(p)
    PROVE  SchemaInv'
  <1>1. Ready \in StarterRow /\ Ready.at = "users" /\ StarterOK(Ready)
    BY DEF Ready, StarterRow, StarterOK
  <1>2. starter' = [starter EXCEPT ![p] = Ready] /\ db' = db /\ UNCHANGED histories
    BY DEF Restarted
  <1>3. CASE writer = p
    <2>1. writer' = "none" /\ work' = db
      BY <1>3 DEF Restarted
    <2>2. TenancyWhole' /\ handedOut' = handedOut
      BY <1>2 DEF SchemaInv, TenancyWhole, histories
    <2> QED BY <1>1, <1>2, <1>3, <2>1, <2>2, EndsStep
  <1>4. CASE writer # p
    <2>1. writer' = writer /\ work' = work /\ left' = left
      BY <1>4 DEF Restarted
    <2> QED BY <1>1, <1>2, <2>1, OutsideStep
  <1> QED BY <1>3, <1>4

\* What the dashboard's users leave untouched.
LEMMA UsersRest ==
    ASSUME SchemaInv, writer = "none", writer' = "none", UNCHANGED <<left, starter, usersRebuilt>>, work' = db',
           db' \in Database, Sound(db'), db'.tenancy = db.tenancy, db'.tenantOne = db.tenantOne,
           handedOut' \in 0 .. MaxUserId, db.sequence = handedOut => db'.sequence = handedOut',
           db.others = abroad \cap db.users => db'.others = abroad' \cap db'.users
    PROVE  SchemaInv'
  <1>1. \A p \in Starters : starter[p].at \notin {"copied", "tables"}
    BY SchemaAssumption DEF SchemaInv, WriterOK, SchemaAssumption
  <1>2. \A p \in Starters : StarterOK(starter'[p]) /\ WriterOK(p)'
    BY <1>1 DEF SchemaInv, WriterOK
  <1>3. TenancyWhole'
    BY DEF SchemaInv, TenancyWhole
  <1> QED BY <1>2, <1>3 DEF SchemaInv

\* A user is created by the dashboard, outside a transaction of a migration.
LEMMA AddUserStep ==
    ASSUME SchemaInv, NEW other \in BOOLEAN, AddUserRow(other)
    PROVE  SchemaInv'
  <1> DEFINE n == db.sequence + 1
             more == IF other THEN db.others \cup {n} ELSE db.others \ {n}
  <1>1. /\ writer = "none" /\ writer' = "none" /\ UNCHANGED <<left, starter, usersRebuilt>> /\ work' = db'
        /\ n <= MaxUserId /\ "users" \in db.tenancy /\ handedOut' = MaxOf({handedOut, n})
        /\ abroad' = IF other THEN abroad \cup {n} ELSE abroad \ {n}
        /\ db' = [db EXCEPT !.sequence = n, !.users = @ \cup {n}, !.others = more]
    BY DEF AddUserRow, AutoCommit
  <1>2. db \in Database /\ db.sequence \in 0 .. MaxUserId /\ handedOut \in 0 .. MaxUserId /\ MaxUserId \in Nat
    BY SchemaAssumption DEF SchemaInv, Database, SchemaAssumption
  <1>3. n \in 1 .. MaxUserId /\ n \in 0 .. MaxUserId
    BY <1>1, <1>2
  <1>4. db.sequence = handedOut => handedOut' = n
    BY <1>1, <1>2, MaxOfNext
  <1>5. handedOut' \in 0 .. MaxUserId
    <2>1. {handedOut, n} \in SUBSET (0 .. MaxUserId)
      BY <1>2, <1>3
    <2> QED BY <1>1, <2>1, MaxOfUsers
  <1>6. \A u \in db.users : u <= n
    <2>1. \A u \in db.users : u <= db.sequence /\ u \in 0 .. MaxUserId
      BY <1>2 DEF SchemaInv, Sound, Database
    <2> QED BY <1>2, <2>1
  <1>7. n <= n
    BY <1>2
  <1> HIDE DEF n
  <1>8. more \in SUBSET (1 .. MaxUserId)
    BY <1>2, <1>3 DEF Database
  <1>9. db.others = abroad \cap db.users => more = abroad' \cap (db.users \cup {n})
    BY <1>1
  <1> HIDE DEF more
  <1>10. /\ db' \in Database /\ db'.tenancy = db.tenancy /\ db'.tenantOne = db.tenantOne /\ db'.sequence = n
         /\ db'.users = db.users \cup {n} /\ db'.others = more
    BY <1>1, <1>2, <1>3, <1>8 DEF Database
  <1>11. Sound(db')
    BY <1>1, <1>6, <1>7, <1>10 DEF Sound
  <1> QED BY <1>1, <1>4, <1>5, <1>9, <1>10, <1>11, UsersRest

\* ... or deleted.
LEMMA DropUserStep ==
    ASSUME SchemaInv, NEW u \in 1 .. MaxUserId, DropUserRow(u)
    PROVE  SchemaInv'
  <1>1. /\ writer = "none" /\ writer' = "none" /\ UNCHANGED <<left, starter, histories>> /\ work' = db'
        /\ db' = [db EXCEPT !.users = @ \ {u}, !.others = @ \ {u}]
    BY DEF DropUserRow, AutoCommit
  <1>2. handedOut' = handedOut /\ abroad' = abroad /\ usersRebuilt' = usersRebuilt /\ handedOut \in 0 .. MaxUserId
    BY <1>1 DEF histories, SchemaInv
  <1>3. /\ db' \in Database /\ db'.tenancy = db.tenancy /\ db'.tenantOne = db.tenantOne
        /\ db'.sequence = db.sequence /\ db'.users = db.users \ {u} /\ db'.others = db.others \ {u}
    BY <1>1 DEF SchemaInv, Database
  <1>4. Sound(db')
    BY <1>3 DEF SchemaInv, Sound
  <1>5. db.others = abroad \cap db.users => db'.others = abroad' \cap db'.users
    BY <1>2, <1>3
  <1> QED BY <1>1, <1>2, <1>3, <1>4, <1>5, UsersRest

\* The tables get their tenant_id all at once and with tenant #1; a user created in another tenant while a process
\* still migrates stays in it, and no user id is handed out twice: however many processes have found the migration
\* needed, and wherever each of them is killed (tenant_migration.py, migrate; deps.py, run_migrations).  What the
\* rebuild of the users table for its CHECK loses is excepted.
THEOREM TenancyAlwaysWhole == SchemaSpec => []TenancyWhole
  <1>1. SchemaInv /\ [SchemaNext]_schemaVars => SchemaInv'
    <2> SUFFICES ASSUME SchemaInv, [SchemaNext]_schemaVars PROVE SchemaInv'
      OBVIOUS
    <2>1. CASE UNCHANGED schemaVars
      BY <2>1 DEF schemaVars, SchemaInv, TenancyWhole, WriterOK
    <2> QED BY <2>1, UsersSteps, ColumnsSteps, TenancySteps, RebuildStep, RestartStep, AddUserStep, DropUserStep
            DEF SchemaNext
  <1>2. SchemaInv => TenancyWhole
    BY DEF SchemaInv
  <1> QED BY InitSchema, <1>1, <1>2, PTL DEF SchemaSpec

-----------------------------------------------------------------------------
(* DomainCheck, for any number of resolvers, whatever they answer and whenever it  *)
(* changes.  Each result says what has been true of that resolver's answers since  *)
(* the check began (Grounded), and while nothing changes what is true of them      *)
(* (Exact).                                                                      *)

ResultRow == [code : Codes, method : WaysToPoint]
FirstAnswers == {NoRecord} \cup {Looked(v) : v \in Views}
CheckRow == [at : {"A", "AAAA", "TXT", "CAA", "done"}, on : Asked, climb : BOOLEAN, rec4 : FirstAnswers,
             results : Seq(ResultRow), result : ResultRow]

TxtParts == {"a", "aaaa", "txt"}

Grounded(r, i) ==
    r.code = "ok" => \/ r.method = "cname" /\ "cname" \in held[i]
                     \/ r.method = "txt" /\ TxtParts \subseteq held[i]

Exact(r, i) ==
    changes = 0 =>
        /\ r.code = "ok" /\ r.method = "cname" => zone[i].cname # "none"
        /\ r.code = "ok" /\ r.method = "txt" => "cname" \notin PartsOf(zone[i])
        /\ r.code # "ok" => /\ "cname" \notin PartsOf(zone[i])
                            /\ TxtParts \subseteq PartsOf(zone[i]) => zone[i].cname # "none"

\* What the lookups of the resolver being asked have given so far.
SoFar ==
    /\ check.at \in {"A", "AAAA", "TXT"} => check.on = Len(check.results) + 1 /\ ~check.climb
    /\ check.at = "AAAA" =>
          /\ check.rec4.cname = "target" => "cname" \in held[check.on]
          /\ check.rec4.found = {"ours"} => "a" \in held[check.on]
          /\ changes = 0 => check.rec4 = Looked(zone[check.on])
    /\ check.at = "TXT" =>
          /\ {"a", "aaaa"} \subseteq held[check.on]
          /\ changes = 0 => zone[check.on].cname = "none"
    /\ check.at = "CAA" => check.result.code = "ok"
    /\ check.at = "CAA" /\ check.climb /\ changes = 0 => zone[check.on].caa = "none"

Refused ==
    \/ \E r \in Asked : "caa" \notin held[r]
    \/ \A m \in Shown : m = "txt" /\ \E r \in Asked : zone[r].cname # "none"

CheckInv ==
    /\ zone \in [Asked -> Views] /\ held \in [Asked -> SUBSET Parts] /\ changes \in Nat
    /\ check \in CheckRow
    /\ \A r \in Asked : /\ PartsOf(zone[r]) \subseteq held[r]
                        /\ changes = 0 => held[r] = PartsOf(zone[r])
    /\ Len(check.results) <= Resolvers
    /\ \A i \in 1 .. Len(check.results) : Grounded(check.results[i], i) /\ Exact(check.results[i], i)
    /\ SoFar
    /\ check.at \in {"CAA", "done"} /\ check.result.code = "ok" => check.result.method \in Shown
    /\ check.at = "done" /\ changes = 0 /\ check.result.code # "ok" => Refused

\* A view's parts, one by one.
LEMMA PartsFacts ==
    ASSUME NEW v \in Views
    PROVE  /\ PartsOf(v) \subseteq Parts
           /\ "cname" \in PartsOf(v) <=> ~v.down /\ v.cname = "target"
           /\ "a" \in PartsOf(v) <=> ~v.down /\ v.a = {"ours"}
           /\ "aaaa" \in PartsOf(v) <=> ~v.down /\ v.aaaa \subseteq {"ours"}
           /\ "txt" \in PartsOf(v) <=> ~v.down /\ "token" \in v.txt
           /\ "caa" \in PartsOf(v) <=> ~v.down /\ (v.caa = "allows" \/ (v.caa = "none" /\ v.parentCaa # "denies"))
  <1>1. v.down \in BOOLEAN
    BY CheckAssumption DEF CheckAssumption
  <1>2. CASE v.down
    BY <1>2 DEF PartsOf
  <1>3. CASE ~v.down
    BY <1>3 DEF PartsOf, Parts
  <1> QED BY <1>1, <1>2, <1>3

LEMMA InitCheck == CheckInit => CheckInv
  <1> SUFFICES ASSUME CheckInit PROVE CheckInv
    OBVIOUS
  <1> DEFINE start == [at |-> "A", on |-> 1, climb |-> FALSE, rec4 |-> NoRecord, results |-> <<>>,
                       result |-> Result("no_record", "none")]
  <1>1. zone \in [Asked -> Views] /\ check = start /\ held = [r \in Asked |-> PartsOf(zone[r])] /\ changes = 0
    BY DEF CheckInit
  <1>2. held \in [Asked -> SUBSET Parts] /\ \A r \in Asked : held[r] = PartsOf(zone[r])
    BY <1>1, PartsFacts
  <1>3. 1 \in Asked /\ Resolvers \in Nat
    BY CheckAssumption DEF CheckAssumption, Asked
  <1>4. Result("no_record", "none") \in ResultRow /\ NoRecord \in FirstAnswers /\ <<>> \in Seq(ResultRow)
    BY DEF Result, ResultRow, Codes, WaysToPoint, FirstAnswers
  <1>5. check \in CheckRow
    BY <1>1, <1>3, <1>4 DEF CheckRow
  <1>6. check.at = "A" /\ check.on = 1 /\ ~check.climb /\ check.results = <<>> /\ Len(<<>>) = 0
    BY <1>1
  <1>7. SoFar
    BY <1>6 DEF SoFar
  <1>8. 1 .. 0 = {}
    OBVIOUS
  <1> QED BY <1>1, <1>2, <1>3, <1>5, <1>6, <1>7, <1>8 DEF CheckInv

\* What all resolvers' results make together.
LEMMA CombinedFacts ==
    ASSUME NEW s \in Seq(ResultRow), Len(s) >= 1,
           \A i \in 1 .. Len(s) : s[i].code = "ok" => s[i].method # "none"
    PROVE  /\ Combined(s) \in ResultRow
           /\ Combined(s).code = "ok" => \A i \in 1 .. Len(s) : s[i].code = "ok" /\ s[i].method = Combined(s).method
           /\ Combined(s).code # "ok" => \/ \E i \in 1 .. Len(s) : s[i].code # "ok"
                                        \/ \E i, j \in 1 .. Len(s) : s[i].method # s[j].method
  <1>1. Len(s) \in Nat /\ DOMAIN s = 1 .. Len(s) /\ \A i \in 1 .. Len(s) : s[i] \in ResultRow
    BY LenProperties, ElementOfSeq
  <1>2. 1 \in 1 .. Len(s)
    BY <1>1
  <1> DEFINE codes == {s[i].code : i \in DOMAIN s}
             methods == {s[i].method : i \in DOMAIN s} \ {"none"}
             good == CHOOSE m \in methods : TRUE
  <1>3. Result("disagree", "none") \in ResultRow /\ Result("disagree", "none").code # "ok"
    BY DEF Result, ResultRow, Codes, WaysToPoint
  <1>4. CASE AllAgree(s)
    <2>1. \A i \in 1 .. Len(s) : s[i].code = "ok" /\ s[i].method # "none"
      BY <1>1, <1>4 DEF AllAgree
    <2>2. s[1].method \in methods /\ \A i \in 1 .. Len(s) : s[i].method \in methods
      BY <1>1, <1>2, <2>1
    <2>3. good \in methods
      BY <2>2
    <2>4. methods \subseteq WaysToPoint
      BY <1>1 DEF ResultRow
    <2>5. CASE \A m, n \in methods : m = n
      <3>1. Combined(s) = Result("ok", good)
        BY <1>4, <2>5 DEF Combined
      <3>2. Result("ok", good) \in ResultRow /\ Result("ok", good).code = "ok" /\ Result("ok", good).method = good
        BY <2>3, <2>4 DEF Result, ResultRow, Codes
      <3>3. \A i \in 1 .. Len(s) : s[i].method = good
        BY <2>2, <2>3, <2>5
      <3> QED BY <2>1, <3>1, <3>2, <3>3
    <2>6. CASE ~(\A m, n \in methods : m = n)
      <3>1. Combined(s) = Result("disagree", "none")
        BY <1>4, <2>6 DEF Combined
      <3>2. \E i, j \in 1 .. Len(s) : s[i].method # s[j].method
        BY <1>1, <2>6
      <3> QED BY <1>3, <3>1, <3>2
    <2> QED BY <2>5, <2>6
  <1>5. CASE ~AllAgree(s)
    <2>1. PICK i \in 1 .. Len(s) : s[i].code # "ok"
      BY <1>1, <1>5 DEF AllAgree
    <2>2. CASE \A c, d \in codes : c = d
      <3>1. Combined(s) = s[1]
        BY <1>5, <2>2 DEF Combined
      <3>2. s[1].code = s[i].code
        BY <1>1, <1>2, <2>2
      <3> QED BY <1>1, <1>2, <2>1, <3>1, <3>2
    <2>3. CASE ~(\A c, d \in codes : c = d)
      <3>1. Combined(s) = Result("disagree", "none")
        BY <1>5, <2>3 DEF Combined
      <3> QED BY <1>3, <2>1, <3>1
    <2> QED BY <2>2, <2>3
  <1> QED BY <1>4, <1>5

\* Every resolver has been asked, and each gave a grounded result: together they are shown.
LEMMA AllShown ==
    ASSUME CheckInv, NEW s \in Seq(ResultRow), Len(s) = Resolvers,
           \A i \in 1 .. Len(s) : Grounded(s[i], i) /\ Exact(s[i], i)
    PROVE  /\ Combined(s) \in ResultRow
           /\ Combined(s).code = "ok" => Combined(s).method \in Shown
           /\ changes = 0 /\ Combined(s).code # "ok" => Refused
  <1>1. Len(s) >= 1 /\ Asked = 1 .. Len(s) /\ 1 \in Asked
    BY CheckAssumption DEF CheckAssumption, Asked
  <1>2. \A i \in 1 .. Len(s) : s[i].code = "ok" => s[i].method \in {"cname", "txt"}
    BY DEF Grounded
  <1>3. /\ Combined(s) \in ResultRow
        /\ Combined(s).code = "ok" => \A i \in 1 .. Len(s) : s[i].code = "ok" /\ s[i].method = Combined(s).method
        /\ Combined(s).code # "ok" => \/ \E i \in 1 .. Len(s) : s[i].code # "ok"
                                     \/ \E i, j \in 1 .. Len(s) : s[i].method # s[j].method
    BY <1>1, <1>2, CombinedFacts
  <1>4. Combined(s).code = "ok" => Combined(s).method \in Shown
    BY <1>1, <1>2, <1>3 DEF Grounded, Shown, TxtParts
  <1>5. ASSUME changes = 0, Combined(s).code # "ok" PROVE Refused
    <2>1. \A r \in Asked : held[r] = PartsOf(zone[r])
      BY <1>5 DEF CheckInv
    <2>2. CASE \E i \in 1 .. Len(s) : s[i].code # "ok"
      <3>1. PICK i \in Asked : s[i].code # "ok"
        BY <1>1, <2>2
      <3>2. "cname" \notin held[i] /\ (TxtParts \subseteq held[i] => zone[i].cname # "none")
        BY <1>1, <1>5, <2>1, <3>1 DEF Exact
      <3>3. \A m \in Shown : m = "txt" /\ zone[i].cname # "none"
        BY <3>2 DEF Shown, TxtParts
      <3> QED BY <3>3 DEF Refused
    <2>3. CASE /\ \A i \in 1 .. Len(s) : s[i].code = "ok"
               /\ \E i, j \in 1 .. Len(s) : s[i].method # s[j].method
      <3>1. PICK i, j \in Asked : s[i].method = "cname" /\ s[j].method = "txt"
        BY <1>1, <1>2, <2>3
      <3>2. zone[i].cname # "none" /\ "cname" \notin held[j]
        BY <1>1, <1>5, <2>1, <2>3, <3>1 DEF Exact
      <3>3. \A m \in Shown : m = "txt"
        BY <3>2 DEF Shown
      <3> QED BY <3>2, <3>3 DEF Refused
    <2> QED BY <1>3, <1>5, <2>2, <2>3
  <1> QED BY <1>3, <1>4, <1>5

LEMMA GivesStep ==
    ASSUME CheckInv, check.at \in {"A", "AAAA", "TXT"}, NEW r \in ResultRow, Gives(r),
           Grounded(r, check.on), Exact(r, check.on),
           zone' = zone, held' = held, changes' = changes
    PROVE  CheckInv'
  <1>1. /\ check \in CheckRow /\ check.results \in Seq(ResultRow) /\ check.on \in Asked
        /\ check.on = Len(check.results) + 1 /\ ~check.climb /\ check.result \in ResultRow
    BY DEF CheckInv, SoFar, CheckRow
  <1>0. PICK s : s = Append(check.results, r)
    OBVIOUS
  <1> DEFINE more == Len(s) < Resolvers
             all == Combined(s)
  <1>2. s \in Seq(ResultRow) /\ Len(s) = check.on /\ Len(s) \in Nat
        /\ \A i \in 1 .. Len(s) : s[i] = IF i = check.on THEN r ELSE check.results[i]
    BY <1>0, <1>1, AppendProperties, LenProperties
  <1>3. \A i \in 1 .. Len(s) : Grounded(s[i], i) /\ Exact(s[i], i)
    <2>1. ASSUME NEW i \in 1 .. Len(s) PROVE Grounded(s[i], i) /\ Exact(s[i], i)
      <3>1. CASE i = check.on
        BY <1>2, <3>1
      <3>2. CASE i # check.on
        <4>1. i \in 1 .. Len(check.results)
          BY <1>1, <1>2, <3>2, LenProperties
        <4> QED BY <1>2, <3>2, <4>1 DEF CheckInv
      <3> QED BY <3>1, <3>2
    <2> QED BY <2>1
  <1>4. check' = [check EXCEPT !.results = s, !.rec4 = NoRecord,
                    !.at = IF more THEN "A" ELSE IF all.code = "ok" THEN "CAA" ELSE "done",
                    !.on = IF more THEN check.on + 1 ELSE 1,
                    !.result = IF more THEN check.result ELSE all]
    BY <1>0 DEF Gives
  <1>5. Resolvers \in Nat /\ Resolvers # 0 /\ check.on \in 1 .. Resolvers
    BY <1>1, CheckAssumption DEF CheckAssumption, Asked
  <1>6. NoRecord \in FirstAnswers
    BY DEF FirstAnswers
  <1>7. \A x, i : (Grounded(x, i) => Grounded(x, i)') /\ (Exact(x, i) => Exact(x, i)')
    BY DEF Grounded, Exact
  <1>8. CASE more
    <2>1. check.on + 1 \in Asked
      BY <1>2, <1>5, <1>8 DEF Asked
    <2>2. /\ check' \in CheckRow /\ check'.at = "A" /\ check'.on = check.on + 1 /\ ~check'.climb
          /\ check'.results = s
      BY <1>1, <1>2, <1>4, <1>6, <1>8, <2>1 DEF CheckRow
    <2>3. SoFar'
      BY <1>2, <2>2 DEF SoFar
    <2>4. (\A i \in 1 .. Len(check.results) : Grounded(check.results[i], i) /\ Exact(check.results[i], i))'
      BY <1>3, <1>7, <2>2
    <2>5. Len(check'.results) <= Resolvers
      BY <1>2, <1>5, <1>8, <2>2
    <2> QED BY <2>2, <2>3, <2>4, <2>5 DEF CheckInv
  <1>9. CASE ~more
    <2>1. Len(s) = Resolvers
      BY <1>2, <1>5, <1>9
    <2>2. /\ all \in ResultRow
          /\ all.code = "ok" => all.method \in Shown
          /\ changes = 0 /\ all.code # "ok" => Refused
      BY <1>2, <1>3, <2>1, AllShown
    <2> HIDE DEF all
    <2>3. 1 \in Asked
      BY <1>5 DEF Asked
    <2>4. /\ check' \in CheckRow /\ check'.at = IF all.code = "ok" THEN "CAA" ELSE "done"
          /\ check'.on = 1 /\ ~check'.climb /\ check'.results = s /\ check'.result = all
      BY <1>1, <1>2, <1>4, <1>6, <1>9, <2>2, <2>3 DEF CheckRow
    <2>5. SoFar'
      BY <2>4 DEF SoFar
    <2>6. Shown' = Shown /\ Refused' = Refused
      BY DEF Shown, Refused
    <2>7. (\A i \in 1 .. Len(check.results) : Grounded(check.results[i], i) /\ Exact(check.results[i], i))'
      BY <1>3, <1>7, <2>4
    <2>8. Len(check'.results) <= Resolvers
      BY <1>5, <2>1, <2>4
    <2> QED BY <2>2, <2>4, <2>5, <2>6, <2>7, <2>8 DEF CheckInv
  <1> QED BY <1>8, <1>9

LEMMA Results ==
    ASSUME NEW c \in Codes, NEW m \in WaysToPoint
    PROVE  Result(c, m) \in ResultRow /\ Result(c, m).code = c /\ Result(c, m).method = m
  BY DEF Result, ResultRow

\* A result that isn't ok is grounded, and exact when that resolver doesn't show what either method needs.
LEMMA BadResult ==
    ASSUME CheckInv, check.at \in {"A", "AAAA", "TXT"}, NEW c \in Codes \ {"ok"}, Gives(Result(c, "none")),
           changes = 0 => /\ "cname" \notin PartsOf(zone[check.on])
                          /\ TxtParts \subseteq PartsOf(zone[check.on]) => zone[check.on].cname # "none",
           zone' = zone, held' = held, changes' = changes
    PROVE  CheckInv'
  <1>1. "none" \in WaysToPoint
    BY DEF WaysToPoint
  <1>2. Result(c, "none") \in ResultRow /\ Result(c, "none").code = c
    BY <1>1, Results
  <1>3. Grounded(Result(c, "none"), check.on) /\ Exact(Result(c, "none"), check.on)
    BY <1>2 DEF Grounded, Exact
  <1> QED BY <1>2, <1>3, GivesStep

\* The resolver being asked, and what it answers.
LEMMA AskedView ==
    ASSUME CheckInv
    PROVE  /\ check.on \in Asked /\ zone[check.on] \in Views /\ PartsOf(zone[check.on]) \subseteq held[check.on]
           /\ zone[check.on].down \in BOOLEAN
           /\ zone[check.on].cname \in {"none", "target", "account", "elsewhere"}
           /\ check.rec4 \in FirstAnswers
  BY CheckAssumption DEF CheckAssumption, CheckInv, CheckRow

LEMMA QueryAStep ==
    ASSUME CheckInv, QueryA
    PROVE  CheckInv'
  <1> DEFINE v == zone[check.on]
  <1>1. check' = [check EXCEPT !.at = "AAAA", !.rec4 = Looked(v)] /\ zone' = zone /\ held' = held /\ changes' = changes
        /\ check.at = "A"
    BY DEF QueryA
  <1>2. v \in Views /\ v.down \in BOOLEAN /\ PartsOf(v) \subseteq held[check.on]
    BY AskedView
  <1>3. Looked(v) \in FirstAnswers
    BY <1>2 DEF FirstAnswers
  <1>4. /\ check' \in CheckRow /\ check'.at = "AAAA" /\ check'.rec4 = Looked(v) /\ check'.on = check.on
        /\ check'.results = check.results /\ check'.climb = check.climb
    BY <1>1, <1>3 DEF CheckInv, CheckRow
  <1>5. /\ Looked(v).cname = "target" => "cname" \in PartsOf(v)
        /\ Looked(v).found = {"ours"} => "a" \in PartsOf(v)
    BY <1>2, PartsFacts DEF Looked
  <1>6. SoFar'
    BY <1>1, <1>2, <1>4, <1>5 DEF CheckInv, SoFar
  <1>7. \A x, i : (Grounded(x, i) => Grounded(x, i)') /\ (Exact(x, i) => Exact(x, i)')
    BY <1>1 DEF Grounded, Exact
  <1>8. (\A i \in 1 .. Len(check.results) : Grounded(check.results[i], i) /\ Exact(check.results[i], i))'
    BY <1>4, <1>7 DEF CheckInv
  <1> QED BY <1>1, <1>4, <1>6, <1>8 DEF CheckInv

\* What is wrong with the addresses, and when nothing is.
LEMMA Addresses ==
    ASSUME NEW v
    PROVE  /\ AddressProblem(v) \in Codes
           /\ AddressProblem(v) = "ok" <=> check.rec4.found = {"ours"} /\ v.aaaa \subseteq {"ours"}
  <1> DEFINE a4 == check.rec4.found
  <1>1. CASE a4 \cup v.aaaa = {}
    BY <1>1 DEF AddressProblem, Codes
  <1>2. CASE a4 \cup v.aaaa # {} /\ "cdn" \in a4 \cup v.aaaa
    <2>1. AddressProblem(v) = "cdn"
      BY <1>2 DEF AddressProblem
    <2>2. ~(a4 = {"ours"} /\ v.aaaa \subseteq {"ours"})
      BY <1>2
    <2> QED BY <2>1, <2>2 DEF Codes
  <1>3. CASE a4 \cup v.aaaa # {} /\ "cdn" \notin a4 \cup v.aaaa /\ a4 # {"ours"}
    <2>1. AddressProblem(v) = "a_mismatch"
      BY <1>3 DEF AddressProblem
    <2> QED BY <1>3, <2>1 DEF Codes
  <1>4. CASE a4 = {"ours"} /\ "cdn" \notin v.aaaa /\ ~(v.aaaa \subseteq {"ours"})
    <2>1. "cdn" \notin a4
      BY <1>4
    <2>2. AddressProblem(v) = "aaaa_mismatch"
      BY <1>4, <2>1 DEF AddressProblem
    <2> QED BY <1>4, <2>2 DEF Codes
  <1>5. CASE a4 = {"ours"} /\ v.aaaa \subseteq {"ours"}
    <2>1. "cdn" \notin a4 \cup v.aaaa /\ a4 \cup v.aaaa # {}
      BY <1>5
    <2>2. AddressProblem(v) = "ok"
      BY <1>5, <2>1 DEF AddressProblem
    <2> QED BY <1>5, <2>2 DEF Codes
  <1> QED BY <1>1, <1>2, <1>3, <1>4, <1>5

LEMMA QueryAAAAStep ==
    ASSUME CheckInv, QueryAAAA
    PROVE  CheckInv'
  <1> DEFINE v == zone[check.on]
             on == check.on
  <1>1. /\ check.at = "AAAA" /\ zone' = zone /\ held' = held /\ changes' = changes
    BY DEF QueryAAAA
  <1>2. /\ v \in Views /\ v.down \in BOOLEAN /\ PartsOf(v) \subseteq held[on]
        /\ v.cname \in {"none", "target", "account", "elsewhere"}
    BY AskedView
  <1>3. /\ check.rec4.cname = "target" => "cname" \in held[on]
        /\ check.rec4.found = {"ours"} => "a" \in held[on]
        /\ changes = 0 => check.rec4.cname = (IF v.down THEN "down" ELSE v.cname)
                         /\ check.rec4.found = (IF v.down THEN {} ELSE v.a)
    <2>1. /\ check.rec4.cname = "target" => "cname" \in held[on]
          /\ check.rec4.found = {"ours"} => "a" \in held[on]
          /\ changes = 0 => check.rec4 = Looked(v)
      BY <1>1 DEF CheckInv, SoFar
    <2>2. /\ Looked(v).cname = IF v.down THEN "down" ELSE v.cname
          /\ Looked(v).found = IF v.down THEN {} ELSE v.a
      BY DEF Looked
    <2> QED BY <2>1, <2>2
  <1>4. CASE v.down \/ check.rec4.cname = "down"
    <2>1. Gives(Result("lookup_failed", "none")) /\ "lookup_failed" \in Codes \ {"ok"}
      BY <1>4 DEF QueryAAAA, Codes
    <2>2. changes = 0 => "cname" \notin PartsOf(v) /\ "a" \notin PartsOf(v)
      BY <1>2, <1>3, <1>4, PartsFacts
    <2> QED BY <1>1, <2>1, <2>2, BadResult DEF TxtParts
  <1>5. CASE ~(v.down \/ check.rec4.cname = "down") /\ Chain(v) = "target"
    <2>1. Gives(Result("ok", "cname"))
      BY <1>5 DEF QueryAAAA
    <2>2. "cname" \in held[on]
      BY <1>2, <1>3, <1>5, PartsFacts DEF Chain
    <2>3. changes = 0 => v.cname # "none"
      BY <1>3, <1>5 DEF Chain
    <2>4. "ok" \in Codes /\ "cname" \in WaysToPoint
      BY DEF Codes, WaysToPoint
    <2>5. /\ Result("ok", "cname") \in ResultRow /\ Result("ok", "cname").code = "ok"
          /\ Result("ok", "cname").method = "cname"
      BY <2>4, Results
    <2>6. Grounded(Result("ok", "cname"), on) /\ Exact(Result("ok", "cname"), on)
      BY <2>2, <2>3, <2>5 DEF Grounded, Exact
    <2> QED BY <1>1, <2>1, <2>5, <2>6, GivesStep
  <1>6. CASE ~(v.down \/ check.rec4.cname = "down") /\ Chain(v) # "target" /\ Chain(v) # "none"
    <2>1. Gives(Result(ChainProblem(v), "none"))
      BY <1>6 DEF QueryAAAA
    <2>2. ChainProblem(v) \in Codes \ {"ok"}
      BY DEF ChainProblem, Codes
    <2>3. changes = 0 => v.cname # "none" /\ v.cname # "target"
      BY <1>3, <1>6 DEF Chain
    <2> QED BY <1>1, <1>2, <2>1, <2>2, <2>3, BadResult, PartsFacts
  <1>7. CASE ~(v.down \/ check.rec4.cname = "down") /\ Chain(v) = "none" /\ AddressProblem(v) # "ok"
    <2>1. Gives(Result(AddressProblem(v), "none"))
      BY <1>7 DEF QueryAAAA
    <2>2. AddressProblem(v) \in Codes \ {"ok"}
      BY <1>7, Addresses
    <2>3. v.cname = "none"
      BY <1>7 DEF Chain
    <2>4. changes = 0 => ~(v.a = {"ours"} /\ v.aaaa \subseteq {"ours"})
      BY <1>3, <1>7, Addresses
    <2>5. changes = 0 => "cname" \notin PartsOf(v) /\ ~(TxtParts \subseteq PartsOf(v))
      BY <1>2, <2>3, <2>4, PartsFacts DEF TxtParts
    <2> QED BY <1>1, <2>1, <2>2, <2>5, BadResult
  <1>8. CASE ~(v.down \/ check.rec4.cname = "down") /\ Chain(v) = "none" /\ AddressProblem(v) = "ok"
    <2>1. check' = [check EXCEPT !.at = "TXT"]
      BY <1>8 DEF QueryAAAA
    <2>2. check.rec4.found = {"ours"} /\ v.aaaa \subseteq {"ours"} /\ v.cname = "none"
      BY <1>8, Addresses DEF Chain
    <2>3. {"a", "aaaa"} \subseteq held[on]
      BY <1>2, <1>3, <1>8, <2>2, PartsFacts
    <2>4. /\ check' \in CheckRow /\ check'.at = "TXT" /\ check'.on = check.on
          /\ check'.results = check.results /\ check'.climb = check.climb
      BY <2>1 DEF CheckInv, CheckRow
    <2>5. SoFar'
      BY <1>1, <2>2, <2>3, <2>4 DEF CheckInv, SoFar
    <2>6. \A x, i : (Grounded(x, i) => Grounded(x, i)') /\ (Exact(x, i) => Exact(x, i)')
      BY <1>1 DEF Grounded, Exact
    <2>7. (\A i \in 1 .. Len(check.results) : Grounded(check.results[i], i) /\ Exact(check.results[i], i))'
      BY <2>4, <2>6 DEF CheckInv
    <2> QED BY <1>1, <2>4, <2>5, <2>7 DEF CheckInv
  <1> QED BY <1>4, <1>5, <1>6, <1>7, <1>8

LEMMA QueryTXTStep ==
    ASSUME CheckInv, QueryTXT
    PROVE  CheckInv'
  <1> DEFINE v == zone[check.on]
             on == check.on
  <1>1. /\ check.at = "TXT" /\ zone' = zone /\ held' = held /\ changes' = changes
    BY DEF QueryTXT
  <1>2. v \in Views /\ v.down \in BOOLEAN /\ PartsOf(v) \subseteq held[on]
    BY AskedView
  <1>3. {"a", "aaaa"} \subseteq held[on] /\ (changes = 0 => v.cname = "none")
    BY <1>1 DEF CheckInv, SoFar
  <1>4. CASE v.down \/ "token" \notin v.txt
    <2>1. \E c \in {"lookup_failed", "txt_missing", "txt_wrong"} : Gives(Result(c, "none"))
      BY <1>4 DEF QueryTXT
    <2>2. "txt" \notin PartsOf(v) /\ (changes = 0 => "cname" \notin PartsOf(v))
      BY <1>2, <1>3, <1>4, PartsFacts
    <2>3. \A c \in {"lookup_failed", "txt_missing", "txt_wrong"} : c \in Codes \ {"ok"}
      BY DEF Codes
    <2> QED BY <1>1, <2>1, <2>2, <2>3, BadResult DEF TxtParts
  <1>5. CASE ~(v.down \/ "token" \notin v.txt)
    <2>1. Gives(Result("ok", "txt"))
      BY <1>5 DEF QueryTXT
    <2>2. "txt" \in held[on]
      BY <1>2, <1>5, PartsFacts
    <2>3. changes = 0 => "cname" \notin PartsOf(v)
      BY <1>2, <1>3, PartsFacts
    <2>4. "ok" \in Codes /\ "txt" \in WaysToPoint
      BY DEF Codes, WaysToPoint
    <2>5. /\ Result("ok", "txt") \in ResultRow /\ Result("ok", "txt").code = "ok"
          /\ Result("ok", "txt").method = "txt"
      BY <2>4, Results
    <2>6. Grounded(Result("ok", "txt"), on) /\ Exact(Result("ok", "txt"), on)
      BY <1>3, <2>2, <2>3, <2>5 DEF Grounded, Exact, TxtParts
    <2> QED BY <1>1, <2>1, <2>5, <2>6, GivesStep
  <1> QED BY <1>4, <1>5

LEMMA QueryCAAStep ==
    ASSUME CheckInv, QueryCAA
    PROVE  CheckInv'
  <1> DEFINE v == zone[check.on]
             caa == IF check.climb THEN v.parentCaa ELSE v.caa
  <1>1. /\ check.at = "CAA" /\ zone' = zone /\ held' = held /\ changes' = changes
    BY DEF QueryCAA
  <1>2. /\ v \in Views /\ v.down \in BOOLEAN /\ PartsOf(v) \subseteq held[check.on] /\ check.on \in Asked
    BY AskedView
  <1>3. /\ check \in CheckRow /\ check.result.code = "ok" /\ check.result.method \in Shown
        /\ check.climb /\ changes = 0 => v.caa = "none"
    BY <1>1 DEF CheckInv, SoFar
  <1>4. Shown' = Shown /\ (Refused' <=> Refused)
    BY <1>1 DEF Shown, Refused
  <1>5. ASSUME check'.results = check.results
        PROVE  (\A i \in 1 .. Len(check.results) : Grounded(check.results[i], i) /\ Exact(check.results[i], i))'
    <2>1. \A x, i : (Grounded(x, i) => Grounded(x, i)') /\ (Exact(x, i) => Exact(x, i)')
      BY <1>1 DEF Grounded, Exact
    <2> QED BY <1>5, <2>1 DEF CheckInv
  <1>6. ASSUME NEW c \in {"lookup_failed", "caa"},
               check' = [check EXCEPT !.at = "done", !.result = Result(c, "none")],
               changes = 0 => "caa" \notin PartsOf(v)
        PROVE  CheckInv'
    <2>1. c \in Codes /\ c # "ok" /\ "none" \in WaysToPoint
      BY DEF Codes, WaysToPoint
    <2>2. Result(c, "none") \in ResultRow /\ Result(c, "none").code # "ok"
      BY <2>1, Results
    <2>3. /\ check' \in CheckRow /\ check'.at = "done" /\ check'.results = check.results
          /\ check'.result = Result(c, "none")
      BY <1>3, <1>6, <2>2 DEF CheckRow
    <2>4. changes = 0 => Refused
      BY <1>2, <1>6 DEF CheckInv, Refused
    <2>5. SoFar'
      BY <2>3 DEF SoFar
    <2> QED BY <1>1, <1>4, <1>5, <2>2, <2>3, <2>4, <2>5 DEF CheckInv
  <1>7. CASE v.down
    <2>1. check' = [check EXCEPT !.at = "done", !.result = Result("lookup_failed", "none")]
      BY <1>7 DEF QueryCAA
    <2>2. "caa" \notin PartsOf(v)
      BY <1>2, <1>7, PartsFacts
    <2> QED BY <1>6, <2>1, <2>2
  <1>8. CASE ~v.down /\ caa = "denies"
    <2>1. check' = [check EXCEPT !.at = "done", !.result = Result("caa", "none")]
      BY <1>8 DEF QueryCAA
    <2>2. changes = 0 => "caa" \notin PartsOf(v)
      BY <1>2, <1>3, <1>8, PartsFacts
    <2> QED BY <1>6, <2>1, <2>2
  <1>9. CASE ~v.down /\ caa = "none" /\ ~check.climb
    <2>1. check' = [check EXCEPT !.climb = TRUE]
      BY <1>9 DEF QueryCAA
    <2>2. /\ check' \in CheckRow /\ check'.at = "CAA" /\ check'.results = check.results /\ check'.on = check.on
          /\ check'.result = check.result
      BY <1>1, <1>3, <2>1 DEF CheckRow
    <2>3. SoFar'
      BY <1>1, <1>3, <1>9, <2>2 DEF SoFar
    <2> QED BY <1>1, <1>3, <1>4, <1>5, <2>2, <2>3 DEF CheckInv
  <1>10. CASE ~v.down /\ caa # "denies" /\ ~(caa = "none" /\ ~check.climb)
    <2> DEFINE n == IF check.on < Resolvers THEN check.on + 1 ELSE 1
               at == IF check.on < Resolvers THEN "CAA" ELSE "done"
    <2>1. check' = [check EXCEPT !.climb = FALSE, !.at = at, !.on = n]
      BY <1>10 DEF QueryCAA
    <2>2. n \in Asked
      BY <1>2, CheckAssumption DEF CheckAssumption, Asked
    <2>3. at \in {"CAA", "done"}
      OBVIOUS
    <2> HIDE DEF n, at
    <2>4. /\ check' \in CheckRow /\ check'.at \in {"CAA", "done"} /\ check'.results = check.results /\ ~check'.climb
          /\ check'.result = check.result
      BY <1>3, <2>1, <2>2, <2>3 DEF CheckRow
    <2>5. SoFar'
      BY <1>3, <2>4 DEF SoFar
    <2> QED BY <1>1, <1>3, <1>4, <1>5, <2>4, <2>5 DEF CheckInv
  <1> QED BY <1>7, <1>8, <1>9, <1>10

\* An answer changes: what was shown stays shown.
LEMMA ChangeStep ==
    ASSUME CheckInv, NEW r \in Asked, NEW v \in Views, Change(r, v)
    PROVE  CheckInv'
  <1>1. /\ changes' = changes + 1 /\ zone' = [zone EXCEPT ![r] = v]
        /\ held' = [held EXCEPT ![r] = held[r] \cup PartsOf(v)] /\ check' = check /\ check.at # "done"
    BY DEF Change
  <1>2. changes' \in Nat /\ changes' # 0
    BY <1>1 DEF CheckInv
  <1>3. PartsOf(v) \subseteq Parts
    BY PartsFacts
  <1>4. /\ zone' \in [Asked -> Views] /\ held' \in [Asked -> SUBSET Parts]
        /\ \A q \in Asked : PartsOf(zone'[q]) \subseteq held'[q] /\ held[q] \subseteq held'[q]
    BY <1>1, <1>3 DEF CheckInv
  <1>5. Shown \subseteq Shown'
    BY <1>4 DEF Shown
  <1>6. \A x, i : i \in Asked /\ Grounded(x, i) => Grounded(x, i)' /\ Exact(x, i)'
    BY <1>2, <1>4 DEF Grounded, Exact
  <1>7. \A i \in 1 .. Len(check.results) : i \in Asked
    <2>1. Len(check.results) \in Nat
      BY LenProperties DEF CheckInv, CheckRow
    <2> QED BY <2>1, CheckAssumption DEF CheckAssumption, CheckInv, Asked
  <1>8. (\A i \in 1 .. Len(check.results) : Grounded(check.results[i], i) /\ Exact(check.results[i], i))'
    BY <1>1, <1>6, <1>7 DEF CheckInv
  <1>9. SoFar'
    <2>1. check.on \in Asked /\ held[check.on] \subseteq held'[check.on]
      BY <1>4, AskedView
    <2> QED BY <1>1, <1>2, <2>1 DEF CheckInv, SoFar
  <1> QED BY <1>1, <1>2, <1>4, <1>5, <1>8, <1>9 DEF CheckInv

\* A domain is accepted only when every resolver has shown, since the check began, all that one and the same method
\* needs; while nothing changes it is refused only for a reason: however many resolvers are asked, in whatever
\* order the answers change between the queries (rdf_helper.py, check_domain, _check_one, check_caa).
THEOREM AlwaysAcceptedIsPointed == CheckSpec => []AcceptedIsPointed
  <1>1. CheckInv /\ [CheckNext]_checkVars => CheckInv'
    <2> SUFFICES ASSUME CheckInv, [CheckNext]_checkVars PROVE CheckInv'
      OBVIOUS
    <2>1. CASE UNCHANGED checkVars
      <3>1. zone' = zone /\ check' = check /\ held' = held /\ changes' = changes
        BY <2>1 DEF checkVars
      <3>2. Shown' = Shown /\ (Refused' <=> Refused)
        BY <3>1 DEF Shown, Refused
      <3>3. \A x, i : (Grounded(x, i) => Grounded(x, i)') /\ (Exact(x, i) => Exact(x, i)')
        BY <3>1 DEF Grounded, Exact
      <3>4. SoFar'
        BY <3>1 DEF CheckInv, SoFar
      <3> QED BY <3>1, <3>2, <3>3, <3>4 DEF CheckInv
    <2> QED BY <2>1, QueryAStep, QueryAAAAStep, QueryTXTStep, QueryCAAStep, ChangeStep DEF CheckNext
  <1>2. CheckInv => AcceptedIsPointed
    BY DEF CheckInv, AcceptedIsPointed, Refused
  <1> QED BY InitCheck, <1>1, <1>2, PTL DEF CheckSpec

-----------------------------------------------------------------------------
(* HostCache, for any hosts and tenants and however long an entry is used.  An     *)
(* answer is never older than it says: Fresh, of the cache's entries by their age,  *)
(* of the request by the time since its read began, and of what it is about to      *)
(* serve by the cache's seconds and the time it has run.                          *)

RequestRow == [at : {"none", "look", "read", "load", "store", "answer"}, stage : Stages,
               host : Hosts \cup {RelayHost}, path : Paths, old : BOOLEAN, found : Tenants \cup {Nobody},
               answer : Answers, age : 0 .. Long, stamp : 0 .. Long]
Entry == [age : 0 .. TTL, answer : Answers]

\* Host h was tenant t's at most n ticks ago.
Was(h, t, n) == h \in Hosts /\ movedFor[h][t] <= n

\* What answer a says of its tenant, and of the host of a lookup at that stage, was true at most n ticks ago.
Fresh(a, stage, h, n) ==
    a.tenant # Nobody => /\ a.status \in Open => closedFor[a.tenant] <= n
                         /\ stage = "web" => Was(h, a.tenant, n)

HostTypes ==
    /\ owner \in [Hosts -> Tenants \cup {Nobody}]
    /\ status \in [Tenants -> Statuses]
    /\ stored \in [Keys -> Entry]
    /\ request \in RequestRow
    /\ changing \in BOOLEAN
    /\ closedFor \in [Tenants -> 0 .. Long]
    /\ movedFor \in [Hosts -> [Tenants -> 0 .. Long]]

\* What is open isn't closed, and what is owned hasn't moved.
Counted ==
    /\ \A t \in Tenants : status[t] \in Open => closedFor[t] = 0
    /\ \A h \in Hosts, t \in Tenants : owner[h] = t => movedFor[h][t] = 0

EntriesFresh == \A k \in Keys : stored[k].age < TTL => Fresh(stored[k].answer, k[1], k[2], stored[k].age)

RequestFresh ==
    /\ request.stamp <= request.age
    /\ request.at # "none" /\ request.path # "device" => request.stage = "web"
    /\ request.at = "load" /\ request.found # Nobody /\ request.stage = "web" =>
          Was(request.host, request.found, request.stamp)
    /\ request.at = "store" => Fresh(request.answer, request.stage, request.host, request.stamp)
    /\ request.at = "answer" /\ request.age < TTL =>
          Fresh(request.answer, request.stage, request.host, TTL + request.age - 1)

HostInv == HostTypes /\ Counted /\ EntriesFresh /\ RequestFresh

LEMMA Ages == Long \in Nat /\ TTL \in Nat /\ TTL >= 1 /\ Long = TTL + TTL /\ 0 \in 0 .. Long /\ TTL \in 0 .. TTL
  BY HostAssumption DEF HostAssumption, Long

LEMMA Records == /\ Unknown \in Answers /\ Unknown.tenant = Nobody
                 /\ Empty \in Entry /\ Empty.age = TTL
                 /\ NoRequest \in RequestRow /\ NoRequest.at = "none" /\ NoRequest.age = 0 /\ NoRequest.stamp = 0
                 /\ NoRequest.stage = "web" /\ NoRequest.answer = Unknown
  <1>1. Unknown \in Answers /\ Unknown.tenant = Nobody
    BY DEF Unknown, Answers, Statuses
  <1>2. Empty \in Entry /\ Empty.age = TTL
    BY <1>1, Ages DEF Empty, Entry
  <1>3. /\ NoRequest \in RequestRow /\ NoRequest.at = "none" /\ NoRequest.age = 0 /\ NoRequest.stamp = 0
        /\ NoRequest.stage = "web" /\ NoRequest.answer = Unknown
    BY <1>1, Ages DEF NoRequest, RequestRow, Stages, Paths
  <1> QED BY <1>1, <1>2, <1>3

LEMMA InitHost == HostInit => HostInv
  <1> SUFFICES ASSUME HostInit PROVE HostInv
    OBVIOUS
  <1>1. /\ owner = [h \in Hosts |-> First] /\ status = [t \in Tenants |-> "active"]
        /\ stored = [k \in Keys |-> Empty] /\ request = NoRequest /\ changing = FALSE
        /\ closedFor = [t \in Tenants |-> 0]
        /\ movedFor = [h \in Hosts |-> [t \in Tenants |-> IF t = First THEN 0 ELSE Long]]
    BY DEF HostInit
  <1>2. Long \in 0 .. Long /\ First \in Tenants /\ "active" \in Statuses
    BY Ages, HostAssumption DEF HostAssumption, Statuses, Open
  <1>3. HostTypes
    BY <1>1, <1>2, Records, Ages DEF HostTypes
  <1>4. Counted
    BY <1>1 DEF Counted
  <1>5. EntriesFresh
    BY <1>1, Records, Ages DEF EntriesFresh
  <1>6. RequestFresh
    BY <1>1, Records, Ages DEF RequestFresh
  <1> QED BY <1>3, <1>4, <1>5, <1>6 DEF HostInv

\* A tenant or a name changes hands: nobody has been closed or gone for longer than before.
LEMMA StaysFresh ==
    ASSUME HostTypes,
           \A t \in Tenants : closedFor'[t] <= closedFor[t],
           \A h \in Hosts, t \in Tenants : movedFor'[h][t] <= movedFor[h][t],
           closedFor' \in [Tenants -> 0 .. Long], movedFor' \in [Hosts -> [Tenants -> 0 .. Long]]
    PROVE  /\ \A a \in Answers : \A stage, h, n : n \in Int /\ Fresh(a, stage, h, n) => Fresh(a, stage, h, n)'
           /\ \A h, t, n : t \in Tenants /\ n \in Int /\ Was(h, t, n) => Was(h, t, n)'
  <1>1. ASSUME NEW h, NEW t \in Tenants, NEW n \in Int, Was(h, t, n) PROVE Was(h, t, n)'
    <2>1. h \in Hosts /\ movedFor[h][t] <= n /\ movedFor'[h][t] <= movedFor[h][t]
      BY <1>1 DEF Was
    <2>2. movedFor[h][t] \in 0 .. Long /\ movedFor'[h][t] \in 0 .. Long
      BY <2>1 DEF HostTypes
    <2>3. movedFor'[h][t] <= n
      BY <2>1, <2>2, Ages
    <2> QED BY <2>1, <2>3 DEF Was
  <1>2. ASSUME NEW a \in Answers, NEW stage, NEW h, NEW n \in Int, Fresh(a, stage, h, n)
        PROVE  Fresh(a, stage, h, n)'
    <2>1. CASE a.tenant # Nobody
      <3>1. a.tenant \in Tenants
        BY <2>1 DEF Answers
      <3>2. closedFor[a.tenant] <= n => closedFor'[a.tenant] <= n
        <4>1. closedFor[a.tenant] \in 0 .. Long /\ closedFor'[a.tenant] \in 0 .. Long
              /\ closedFor'[a.tenant] <= closedFor[a.tenant]
          BY <3>1 DEF HostTypes
        <4> QED BY <4>1, Ages
      <3> QED BY <1>1, <1>2, <2>1, <3>1, <3>2 DEF Fresh
    <2>2. CASE a.tenant = Nobody
      BY <2>2 DEF Fresh
    <2> QED BY <2>1, <2>2
  <1> QED BY <1>1, <1>2

\* The types of what a request holds.
LEMMA RequestTypes ==
    ASSUME HostTypes
    PROVE  /\ request \in RequestRow /\ request.age \in 0 .. Long /\ request.stamp \in 0 .. Long
           /\ request.age \in Int /\ request.stamp \in Int /\ TTL + request.age - 1 \in Int
           /\ request.answer \in Answers /\ request.found \in Tenants \cup {Nobody}
           /\ request.host \in Hosts \cup {RelayHost} /\ request.stage \in Stages /\ request.path \in Paths
           /\ Key \in Keys
  <1>1. /\ request \in RequestRow /\ request.age \in 0 .. Long /\ request.stamp \in 0 .. Long
        /\ request.answer \in Answers /\ request.found \in Tenants \cup {Nobody}
        /\ request.host \in Hosts \cup {RelayHost} /\ request.stage \in Stages /\ request.path \in Paths
    BY DEF HostTypes, RequestRow
  <1>2. request.age \in Int /\ request.stamp \in Int /\ TTL + request.age - 1 \in Int
    BY <1>1, Ages
  <1>3. Key \in Keys
    BY <1>1 DEF Key, Keys, Stages
  <1> QED BY <1>1, <1>2, <1>3

\* The change is committed: neither the cache nor the request knows.
LEMMA ChangesStep ==
    ASSUME HostInv, stored' = stored, request' = request, changing' \in BOOLEAN,
           owner' \in [Hosts -> Tenants \cup {Nobody}], status' \in [Tenants -> Statuses],
           closedFor' \in [Tenants -> 0 .. Long], movedFor' \in [Hosts -> [Tenants -> 0 .. Long]],
           \A t \in Tenants : closedFor'[t] <= closedFor[t],
           \A h \in Hosts, t \in Tenants : movedFor'[h][t] <= movedFor[h][t],
           Counted'
    PROVE  HostInv'
  <1>1. HostTypes'
    BY DEF HostInv, HostTypes
  <1>2. /\ \A a \in Answers : \A stage, h, n : n \in Int /\ Fresh(a, stage, h, n) => Fresh(a, stage, h, n)'
        /\ \A h, t, n : t \in Tenants /\ n \in Int /\ Was(h, t, n) => Was(h, t, n)'
    BY StaysFresh DEF HostInv
  <1>3. EntriesFresh'
    <2>1. ASSUME NEW k \in Keys, stored[k].age < TTL PROVE Fresh(stored[k].answer, k[1], k[2], stored[k].age)'
      <3>1. PICK a \in Answers, n \in Int : a = stored[k].answer /\ n = stored[k].age
        BY SMTT(30), Ages DEF HostInv, HostTypes, Entry
      <3>2. Fresh(a, k[1], k[2], n)
        BY <2>1, <3>1 DEF HostInv, EntriesFresh
      <3>3. Fresh(a, k[1], k[2], n)'
        BY <1>2, <3>2
      <3> QED BY <3>1, <3>3
    <2> QED BY <2>1 DEF EntriesFresh
  <1>4. RequestFresh'
    <2>1. PICK a \in Answers, t \in Tenants \cup {Nobody}, h \in Hosts \cup {RelayHost}, stage \in Stages,
               n \in Int, m \in Int :
              a = request.answer /\ t = request.found /\ h = request.host /\ stage = request.stage
              /\ n = request.stamp /\ m = TTL + request.age - 1
      BY RequestTypes DEF HostInv
    <2>2. request.at = "load" /\ request.found # Nobody /\ request.stage = "web" => Was(h, t, n)'
      BY <1>2, <2>1 DEF HostInv, RequestFresh
    <2>3. request.at = "store" => Fresh(a, stage, h, n)'
      BY <1>2, <2>1 DEF HostInv, RequestFresh
    <2>4. request.at = "answer" /\ request.age < TTL => Fresh(a, stage, h, m)'
      BY <1>2, <2>1 DEF HostInv, RequestFresh
    <2> QED BY <2>1, <2>2, <2>3, <2>4 DEF HostInv, RequestFresh
  <1> QED BY <1>1, <1>3, <1>4 DEF HostInv

\* Only the request goes on.
LEMMA RequestGoes ==
    ASSUME HostInv, NEW r \in RequestRow, request' = r,
           owner' = owner, status' = status, stored' = stored, changing' = changing, closedFor' = closedFor,
           movedFor' = movedFor,
           r.stamp <= r.age,
           r.at # "none" /\ r.path # "device" => r.stage = "web",
           r.at = "load" /\ r.found # Nobody /\ r.stage = "web" => Was(r.host, r.found, r.stamp),
           r.at = "store" => Fresh(r.answer, r.stage, r.host, r.stamp),
           r.at = "answer" /\ r.age < TTL => Fresh(r.answer, r.stage, r.host, TTL + r.age - 1)
    PROVE  HostInv'
  <1>1. HostTypes' /\ Counted'
    BY DEF HostInv, HostTypes, Counted
  <1>2. \A a, stage, h, n : Fresh(a, stage, h, n)' <=> Fresh(a, stage, h, n)
    BY DEF Fresh, Was
  <1>3. \A h, t, n : Was(h, t, n)' <=> Was(h, t, n)
    BY DEF Was
  <1>4. EntriesFresh'
    BY DEF HostInv, EntriesFresh, Fresh, Was
  <1>5. RequestFresh'
    BY <1>2, <1>3 DEF RequestFresh
  <1> QED BY <1>1, <1>4, <1>5 DEF HostInv

LEMMA SetStatusStep ==
    ASSUME HostInv, NEW t \in Tenants, NEW s \in Statuses, SetStatus(t, s)
    PROVE  HostInv'
  <1>1. /\ status' = [status EXCEPT ![t] = s] /\ closedFor' = [closedFor EXCEPT ![t] = IF s \in Open THEN 0 ELSE @]
        /\ changing' = TRUE /\ owner' = owner /\ stored' = stored /\ request' = request /\ movedFor' = movedFor
    BY DEF SetStatus
  <1>2. /\ owner \in [Hosts -> Tenants \cup {Nobody}] /\ status \in [Tenants -> Statuses]
        /\ closedFor \in [Tenants -> 0 .. Long] /\ movedFor \in [Hosts -> [Tenants -> 0 .. Long]]
    BY DEF HostInv, HostTypes
  <1>3. status' \in [Tenants -> Statuses] /\ closedFor' \in [Tenants -> 0 .. Long]
    BY <1>1, <1>2, Ages
  <1>4. \A x \in Tenants : closedFor'[x] <= closedFor[x]
    <2>1. \A x \in Tenants : closedFor'[x] = closedFor[x] \/ closedFor'[x] = 0
      BY <1>1, <1>2
    <2>2. \A x \in Tenants : closedFor[x] \in 0 .. Long
      BY <1>2
    <2> QED BY <2>1, <2>2, Ages
  <1>5. \A h \in Hosts, x \in Tenants : movedFor'[h][x] <= movedFor[h][x]
    <2>1. \A h \in Hosts, x \in Tenants : movedFor[h][x] \in 0 .. Long
      BY <1>2
    <2> QED BY <1>1, <2>1, Ages
  <1>6. Counted'
    BY <1>1, <1>2 DEF HostInv, Counted
  <1> QED BY <1>1, <1>2, <1>3, <1>4, <1>5, <1>6, ChangesStep

LEMMA MoveStep ==
    ASSUME HostInv, NEW h \in Hosts, NEW t \in Tenants \cup {Nobody}, Move(h, t)
    PROVE  HostInv'
  <1> DEFINE row == [x \in Tenants |-> IF x \in {t, owner[h]} THEN 0 ELSE movedFor[h][x]]
  <1>1. /\ owner' = [owner EXCEPT ![h] = t] /\ movedFor' = [movedFor EXCEPT ![h] = row]
        /\ changing' = TRUE /\ status' = status /\ stored' = stored /\ request' = request /\ closedFor' = closedFor
    BY DEF Move
  <1>2. /\ owner \in [Hosts -> Tenants \cup {Nobody}] /\ status \in [Tenants -> Statuses]
        /\ closedFor \in [Tenants -> 0 .. Long] /\ movedFor \in [Hosts -> [Tenants -> 0 .. Long]]
    BY DEF HostInv, HostTypes
  <1>3. /\ row \in [Tenants -> 0 .. Long]
        /\ \A x \in Tenants : row[x] = 0 \/ (row[x] = movedFor[h][x] /\ x # t)
    BY <1>2, Ages
  <1> HIDE DEF row
  <1>4. owner' \in [Hosts -> Tenants \cup {Nobody}] /\ movedFor' \in [Hosts -> [Tenants -> 0 .. Long]]
    BY <1>1, <1>2, <1>3
  <1>5. \A g \in Hosts, x \in Tenants : movedFor'[g][x] <= movedFor[g][x]
    <2>1. \A g \in Hosts, x \in Tenants : movedFor[g][x] \in 0 .. Long
      BY <1>2
    <2>2. \A g \in Hosts, x \in Tenants : movedFor'[g][x] = movedFor[g][x] \/ movedFor'[g][x] = 0
      BY <1>1, <1>2, <1>3
    <2> QED BY <2>1, <2>2, Ages
  <1>6. \A x \in Tenants : closedFor'[x] <= closedFor[x]
    <2>1. \A x \in Tenants : closedFor[x] \in 0 .. Long
      BY <1>2
    <2> QED BY <1>1, <2>1, Ages
  <1>7. Counted'
    <2>1. \A x \in Tenants : status'[x] \in Open => closedFor'[x] = 0
      BY <1>1 DEF HostInv, Counted
    <2>2. ASSUME NEW g \in Hosts, NEW x \in Tenants, owner'[g] = x PROVE movedFor'[g][x] = 0
      <3>1. CASE g = h
        BY <1>1, <1>2, <1>3, <2>2, <3>1
      <3>2. CASE g # h
        BY <1>1, <1>2, <2>2, <3>2 DEF HostInv, Counted
      <3> QED BY <3>1, <3>2
    <2> QED BY <2>1, <2>2 DEF Counted
  <1> QED BY <1>1, <1>2, <1>4, <1>5, <1>6, <1>7, ChangesStep

LEMMA InvalidateStep ==
    ASSUME HostInv, Invalidate
    PROVE  HostInv'
  <1>1. /\ changing' = FALSE /\ stored' = [k \in Keys |-> Empty] /\ owner' = owner /\ status' = status
        /\ request' = request /\ closedFor' = closedFor /\ movedFor' = movedFor
    BY DEF Invalidate
  <1>2. HostTypes' /\ Counted'
    BY <1>1, Records DEF HostInv, HostTypes, Counted
  <1>3. EntriesFresh'
    BY <1>1, Records, Ages DEF EntriesFresh
  <1>4. RequestFresh'
    BY <1>1 DEF HostInv, RequestFresh, Fresh, Was
  <1> QED BY <1>2, <1>3, <1>4 DEF HostInv

\* A request comes in, or leaves.
LEMMA ComesAndGoes ==
    ASSUME HostInv,
           \/ \E h \in Hosts \cup {RelayHost}, path \in Paths, old \in BOOLEAN : Request(h, path, old)
           \/ Leave
    PROVE  HostInv'
  <1>1. ASSUME NEW h \in Hosts \cup {RelayHost}, NEW path \in Paths, NEW old \in BOOLEAN, Request(h, path, old)
        PROVE  HostInv'
    <2> DEFINE r == [NoRequest EXCEPT !.at = "look", !.host = h, !.path = path, !.old = old]
    <2>1. /\ r \in RequestRow /\ r.at = "look" /\ r.stage = "web" /\ r.stamp = 0 /\ r.age = 0
      BY Records DEF RequestRow
    <2>2. /\ request' = r
          /\ owner' = owner /\ status' = status /\ stored' = stored /\ changing' = changing /\ closedFor' = closedFor
          /\ movedFor' = movedFor
      BY <1>1 DEF Request
    <2> HIDE DEF r
    <2> QED BY <2>1, <2>2, RequestGoes
  <1>2. ASSUME Leave PROVE HostInv'
    <2>1. /\ request' = NoRequest
          /\ owner' = owner /\ status' = status /\ stored' = stored /\ changing' = changing /\ closedFor' = closedFor
          /\ movedFor' = movedFor
      BY <1>2 DEF Leave
    <2>2. NoRequest.stamp <= NoRequest.age
      BY Records
    <2> QED BY <2>1, <2>2, Records, RequestGoes
  <1> QED BY <1>1, <1>2

\* An answer that is fresh enough for its entry is fresh for whom it serves.
LEMMA FreshLonger ==
    ASSUME HostTypes, NEW a \in Answers, NEW stage, NEW h, NEW n \in Int, NEW m \in Int, n <= m, Fresh(a, stage, h, n)
    PROVE  Fresh(a, stage, h, m)
  <1>1. CASE a.tenant # Nobody
    <2>1. a.tenant \in Tenants
      BY <1>1 DEF Answers
    <2>2. closedFor[a.tenant] \in Int
      BY <2>1, Ages DEF HostTypes
    <2>3. h \in Hosts => movedFor[h][a.tenant] \in Int
      BY <2>1, Ages DEF HostTypes
    <2> QED BY <1>1, <2>2, <2>3 DEF Fresh, Was
  <1>2. CASE a.tenant = Nobody
    BY <1>2 DEF Fresh
  <1> QED BY <1>1, <1>2

LEMMA HitStep ==
    ASSUME HostInv, Hit
    PROVE  HostInv'
  <1> DEFINE e == stored[Key]
             r == [request EXCEPT !.at = "answer", !.answer = e.answer]
  <1>1. /\ request.at = "look" /\ e.age < TTL /\ request' = r
        /\ owner' = owner /\ status' = status /\ stored' = stored /\ changing' = changing /\ closedFor' = closedFor
        /\ movedFor' = movedFor
    BY DEF Hit
  <1>2. /\ Key \in Keys /\ request \in RequestRow /\ request.age \in 0 .. Long /\ request.stage \in Stages
        /\ TTL + request.age - 1 \in Int
    BY RequestTypes DEF HostInv
  <1>3. e \in Entry /\ e.answer \in Answers /\ e.age \in 0 .. TTL /\ e.age \in Int
    BY <1>2, Ages DEF HostInv, HostTypes, Entry
  <1>4. Fresh(e.answer, Key[1], Key[2], e.age)
    BY <1>1, <1>2 DEF HostInv, EntriesFresh
  <1>5. Fresh(e.answer, request.stage, request.host, e.age)
    <2>1. request.stage # "legacy" => Key[1] = request.stage /\ Key[2] = request.host
      BY DEF Key
    <2>2. request.stage = "legacy" => Fresh(e.answer, request.stage, request.host, e.age)
      BY <1>4 DEF Fresh
    <2> QED BY <1>4, <2>1, <2>2
  <1>6. e.age <= TTL + request.age - 1
    BY <1>1, <1>2, <1>3, Ages
  <1>7. Fresh(e.answer, request.stage, request.host, TTL + request.age - 1)
    BY <1>2, <1>3, <1>5, <1>6, FreshLonger DEF HostInv
  <1> HIDE DEF e
  <1>8. /\ r \in RequestRow /\ r.at = "answer" /\ r.answer = e.answer /\ r.stage = request.stage
        /\ r.host = request.host /\ r.age = request.age /\ r.stamp = request.stamp /\ r.path = request.path
    BY <1>2, <1>3 DEF RequestRow
  <1> HIDE DEF r
  <1> QED BY <1>1, <1>7, <1>8, RequestGoes DEF HostInv, RequestFresh

LEMMA MissStep ==
    ASSUME HostInv, Miss
    PROVE  HostInv'
  <1> DEFINE r == [request EXCEPT !.at = "read", !.stamp = 0]
  <1>1. /\ request.at = "look" /\ request' = r
        /\ owner' = owner /\ status' = status /\ stored' = stored /\ changing' = changing /\ closedFor' = closedFor
        /\ movedFor' = movedFor
    BY DEF Miss
  <1>2. request \in RequestRow /\ request.age \in 0 .. Long
    BY RequestTypes DEF HostInv
  <1>3. /\ r \in RequestRow /\ r.at = "read" /\ r.stage = request.stage
        /\ r.age = request.age /\ r.stamp = 0 /\ r.path = request.path
    BY <1>2, Ages DEF RequestRow
  <1>4. r.stamp <= r.age
    BY <1>2, <1>3, Ages
  <1> HIDE DEF r
  <1> QED BY <1>1, <1>3, <1>4, RequestGoes DEF HostInv, RequestFresh

LEMMA ReadNameStep ==
    ASSUME HostInv, ReadName
    PROVE  HostInv'
  <1> DEFINE r == [request EXCEPT !.at = "load", !.found = Named]
  <1>1. /\ request.at = "read" /\ request' = r
        /\ owner' = owner /\ status' = status /\ stored' = stored /\ changing' = changing /\ closedFor' = closedFor
        /\ movedFor' = movedFor
    BY DEF ReadName
  <1>2. /\ request \in RequestRow /\ request.stamp \in 0 .. Long /\ request.stage \in Stages
        /\ request.host \in Hosts \cup {RelayHost} /\ owner \in [Hosts -> Tenants \cup {Nobody}]
    BY RequestTypes DEF HostInv, HostTypes
  <1>3. Named \in Tenants \cup {Nobody}
    BY <1>2, HostAssumption DEF HostAssumption, Named, Stages
  <1>4. Named # Nobody /\ request.stage = "web" => Was(request.host, Named, request.stamp)
    <2> SUFFICES ASSUME Named # Nobody, request.stage = "web" PROVE Was(request.host, Named, request.stamp)
      OBVIOUS
    <2>1. request.host \in Hosts /\ Named = owner[request.host]
      BY DEF Named
    <2>2. movedFor[request.host][Named] = 0
      BY <1>3, <2>1 DEF HostInv, Counted
    <2>3. 0 <= request.stamp
      BY <1>2, Ages
    <2> QED BY <2>1, <2>2, <2>3 DEF Was
  <1>5. /\ r \in RequestRow /\ r.at = "load" /\ r.found = Named /\ r.stage = request.stage /\ r.host = request.host
        /\ r.age = request.age /\ r.stamp = request.stamp /\ r.path = request.path
    BY <1>2, <1>3 DEF RequestRow
  <1> HIDE DEF r
  <1> QED BY <1>1, <1>4, <1>5, RequestGoes DEF HostInv, RequestFresh

LEMMA LoadTenantStep ==
    ASSUME HostInv, LoadTenant
    PROVE  HostInv'
  <1> DEFINE t == request.found
             a == IF t = Nobody THEN Unknown ELSE [tenant |-> t, status |-> status[t]]
             r == [request EXCEPT !.at = "store", !.found = Nobody, !.answer = a]
  <1>1. /\ request.at = "load" /\ request' = r
        /\ owner' = owner /\ status' = status /\ stored' = stored /\ changing' = changing /\ closedFor' = closedFor
        /\ movedFor' = movedFor
    BY DEF LoadTenant
  <1>2. /\ request \in RequestRow /\ request.stamp \in 0 .. Long /\ t \in Tenants \cup {Nobody}
        /\ status \in [Tenants -> Statuses]
    BY RequestTypes DEF HostInv, HostTypes
  <1>3. a \in Answers /\ a.tenant = t
    BY <1>2, Records DEF Answers
  <1>4. Fresh(a, request.stage, request.host, request.stamp)
    <2>1. CASE t = Nobody
      BY <1>3, <2>1 DEF Fresh
    <2>2. CASE t # Nobody
      <3>1. t \in Tenants /\ a.status = status[t]
        BY <1>2, <2>2
      <3>2. a.status \in Open => closedFor[t] = 0
        BY <3>1 DEF HostInv, Counted
      <3>3. request.stage = "web" => Was(request.host, t, request.stamp)
        BY <1>1, <2>2 DEF HostInv, RequestFresh
      <3>4. 0 <= request.stamp
        BY <1>2, Ages
      <3> HIDE DEF a
      <3> QED BY <1>3, <3>2, <3>3, <3>4 DEF Fresh
    <2> QED BY <2>1, <2>2
  <1> HIDE DEF a
  <1>5. /\ r \in RequestRow /\ r.at = "store" /\ r.answer = a /\ r.stage = request.stage /\ r.host = request.host
        /\ r.age = request.age /\ r.stamp = request.stamp /\ r.path = request.path
    BY <1>2, <1>3 DEF RequestRow
  <1> HIDE DEF r
  <1> QED BY <1>1, <1>4, <1>5, RequestGoes DEF HostInv, RequestFresh

\* What was read is stored with the age of its reading, or not at all.
LEMMA StoreStep ==
    ASSUME HostInv, Store
    PROVE  HostInv'
  <1> DEFINE n == request.stamp
             a == request.answer
             e == IF n < TTL THEN [age |-> n, answer |-> a] ELSE Empty
             r == [request EXCEPT !.at = "answer", !.stamp = 0]
  <1>1. /\ request.at = "store" /\ request' = r /\ stored' = [stored EXCEPT ![Key] = e]
        /\ owner' = owner /\ status' = status /\ changing' = changing /\ closedFor' = closedFor
        /\ movedFor' = movedFor
    BY DEF Store, Stamp
  <1>2. /\ request \in RequestRow /\ n \in 0 .. Long /\ n \in Int /\ request.age \in 0 .. Long /\ a \in Answers
        /\ TTL + request.age - 1 \in Int /\ Key \in Keys /\ request.stage \in Stages
    BY RequestTypes DEF HostInv
  <1>3. Fresh(a, request.stage, request.host, n) /\ n <= request.age
    BY <1>1 DEF HostInv, RequestFresh
  <1>4. e \in Entry
    <2>1. n < TTL => n \in 0 .. TTL
      BY <1>2, Ages
    <2> QED BY <1>2, <2>1, Records DEF Entry
  <1>5. e.age < TTL => Fresh(e.answer, Key[1], Key[2], e.age)
    <2> SUFFICES ASSUME e.age < TTL PROVE Fresh(a, Key[1], Key[2], n) /\ e = [age |-> n, answer |-> a]
      OBVIOUS
    <2>1. e = [age |-> n, answer |-> a]
      BY Records, Ages
    <2>2. request.stage # "legacy" => Key[1] = request.stage /\ Key[2] = request.host
      BY DEF Key
    <2>3. request.stage = "legacy" => Key[1] = "legacy"
      BY DEF Key
    <2>4. request.stage = "legacy" => Fresh(a, Key[1], Key[2], n)
      BY <1>3, <2>3 DEF Fresh
    <2> QED BY <1>3, <2>1, <2>2, <2>4
  <1> HIDE DEF e
  <1>6. stored' \in [Keys -> Entry] /\ stored'[Key] = e /\ \A k \in Keys : k # Key => stored'[k] = stored[k]
    BY <1>1, <1>2, <1>4 DEF HostInv, HostTypes
  <1>7. /\ r \in RequestRow /\ r.at = "answer" /\ r.answer = a /\ r.stage = request.stage /\ r.host = request.host
        /\ r.age = request.age /\ r.stamp = 0 /\ r.path = request.path
    BY <1>2, Ages DEF RequestRow
  <1> HIDE DEF r
  <1>8. \A b, stage, h, m : Fresh(b, stage, h, m)' <=> Fresh(b, stage, h, m)
    BY <1>1 DEF Fresh, Was
  <1>9. EntriesFresh'
    <2>1. ASSUME NEW k \in Keys, NEW f, f = stored'[k], f.age < TTL PROVE Fresh(f.answer, k[1], k[2], f.age)
      <3>1. CASE k = Key
        BY <1>5, <1>6, <2>1, <3>1
      <3>2. CASE k # Key
        BY <1>6, <2>1, <3>2 DEF HostInv, EntriesFresh
      <3> QED BY <3>1, <3>2
    <2> QED BY <1>8, <2>1 DEF EntriesFresh
  <1>10. RequestFresh'
    <2>1. n <= TTL + request.age - 1
      BY <1>2, <1>3, Ages
    <2>2. Fresh(a, request.stage, request.host, TTL + request.age - 1)
      BY <1>2, <1>3, <2>1, FreshLonger DEF HostInv
    <2>3. 0 <= request.age
      BY <1>2, Ages
    <2>4. r.at # "none" /\ r.path # "device" => r.stage = "web"
      BY <1>1, <1>7 DEF HostInv, RequestFresh
    <2>5. Fresh(r.answer, r.stage, r.host, TTL + r.age - 1)
      BY <1>7, <2>2
    <2> QED BY <1>1, <1>7, <1>8, <2>3, <2>4, <2>5 DEF RequestFresh
  <1>11. HostTypes' /\ Counted'
    BY <1>1, <1>6, <1>7 DEF HostInv, HostTypes, Counted
  <1> QED BY <1>9, <1>10, <1>11 DEF HostInv

LEMMA NextStageStep ==
    ASSUME HostInv, NextStage
    PROVE  HostInv'
  <1>1. /\ request.path = "device"
        /\ \E stage \in {"relay", "legacy"} : request' = [request EXCEPT !.at = "look", !.stage = stage]
        /\ owner' = owner /\ status' = status /\ stored' = stored /\ changing' = changing /\ closedFor' = closedFor
        /\ movedFor' = movedFor
    BY DEF NextStage
  <1>2. PICK stage \in {"relay", "legacy"} : request' = [request EXCEPT !.at = "look", !.stage = stage]
    BY <1>1
  <1> DEFINE r == [request EXCEPT !.at = "look", !.stage = stage]
  <1>3. request \in RequestRow /\ stage \in Stages
    BY RequestTypes DEF HostInv, Stages
  <1>4. r \in RequestRow /\ r.at = "look" /\ r.path = request.path /\ r.age = request.age /\ r.stamp = request.stamp
    BY <1>3 DEF RequestRow
  <1>5. request' = r
    BY <1>2
  <1> HIDE DEF r
  <1> QED BY <1>1, <1>4, <1>5, RequestGoes DEF HostInv, RequestFresh

LEMMA GrownFacts ==
    ASSUME NEW n \in 0 .. Long
    PROVE  /\ Grown(n, Long) \in 0 .. Long /\ n <= Grown(n, Long) /\ Grown(n, Long) <= n + 1
           /\ \A m \in 0 .. Long : n <= m => Grown(n, Long) <= Grown(m, Long)
           /\ \A m \in Int : n <= m => Grown(n, Long) <= m + 1
  BY Ages DEF Grown

\* A tick later, what was fresh is a tick older; ages are counted up to Long.
LEMMA TickFresh ==
    ASSUME HostInv, HostTick
    PROVE  /\ \A h : \A t \in Tenants : \A n \in Int :
                 Was(h, t, n) => Was(h, t, n + 1)' /\ (n \in 0 .. Long => Was(h, t, Grown(n, Long))')
           /\ \A stage, h : \A a \in Answers : \A n \in Int :
                 Fresh(a, stage, h, n)
                 => Fresh(a, stage, h, n + 1)' /\ (n \in 0 .. Long => Fresh(a, stage, h, Grown(n, Long))')
           /\ closedFor' \in [Tenants -> 0 .. Long] /\ movedFor' \in [Hosts -> [Tenants -> 0 .. Long]]
           /\ Counted'
  <1>1. /\ owner' = owner /\ status' = status
        /\ closedFor' = [t \in Tenants |-> IF status[t] \in Open THEN 0 ELSE Grown(closedFor[t], Long)]
        /\ movedFor' = [h \in Hosts |-> [t \in Tenants |-> IF owner[h] = t THEN 0 ELSE Grown(movedFor[h][t], Long)]]
    BY DEF HostTick
  <1>2. ASSUME NEW x \in 0 .. Long, NEW y \in {0, Grown(x, Long)}, NEW n \in Int, x <= n
        PROVE  y <= n + 1 /\ (n \in 0 .. Long => y <= Grown(n, Long))
    BY <1>2, GrownFacts, Ages
  <1>3. \A t \in Tenants : closedFor[t] \in 0 .. Long /\ closedFor'[t] \in {0, Grown(closedFor[t], Long)}
    BY <1>1 DEF HostInv, HostTypes
  <1>4. \A h \in Hosts, t \in Tenants :
            movedFor[h][t] \in 0 .. Long /\ movedFor'[h][t] \in {0, Grown(movedFor[h][t], Long)}
    BY <1>1 DEF HostInv, HostTypes
  <1>5. \A x \in 0 .. Long : 0 \in 0 .. Long /\ Grown(x, Long) \in 0 .. Long
    BY GrownFacts, Ages
  <1>6. closedFor' \in [Tenants -> 0 .. Long]
    BY <1>1, <1>3, <1>5
  <1>7. movedFor' \in [Hosts -> [Tenants -> 0 .. Long]]
    BY <1>1, <1>4, <1>5
  <1>8. Counted'
    BY <1>1 DEF HostInv, Counted
  <1>9. ASSUME NEW h, NEW t \in Tenants, NEW n \in Int, Was(h, t, n)
        PROVE  Was(h, t, n + 1)' /\ (n \in 0 .. Long => Was(h, t, Grown(n, Long))')
    <2>1. h \in Hosts /\ movedFor[h][t] <= n
      BY <1>9 DEF Was
    <2>2. movedFor'[h][t] <= n + 1 /\ (n \in 0 .. Long => movedFor'[h][t] <= Grown(n, Long))
      BY <1>2, <1>4, <2>1
    <2> QED BY <2>1, <2>2 DEF Was
  <1>10. ASSUME NEW stage, NEW h, NEW a \in Answers, NEW n \in Int, Fresh(a, stage, h, n)
         PROVE  Fresh(a, stage, h, n + 1)' /\ (n \in 0 .. Long => Fresh(a, stage, h, Grown(n, Long))')
    <2>1. CASE a.tenant = Nobody
      BY <2>1 DEF Fresh
    <2>2. CASE a.tenant # Nobody
      <3>1. a.tenant \in Tenants
        BY <2>2 DEF Answers
      <3>2. closedFor[a.tenant] <= n => /\ closedFor'[a.tenant] <= n + 1
                                        /\ n \in 0 .. Long => closedFor'[a.tenant] <= Grown(n, Long)
        BY <1>2, <1>3, <3>1
      <3> QED BY <1>9, <1>10, <2>2, <3>1, <3>2 DEF Fresh
    <2> QED BY <2>1, <2>2
  <1> QED BY <1>6, <1>7, <1>8, <1>9, <1>10

LEMMA TickStep ==
    ASSUME HostInv, HostTick
    PROVE  HostInv'
  <1>1. /\ stored' = [k \in Keys |-> IF stored[k].age < TTL - 1 THEN [stored[k] EXCEPT !.age = @ + 1] ELSE Empty]
        /\ owner' = owner /\ status' = status /\ changing' = changing
    BY DEF HostTick
  <1>2. ASSUME NEW k \in Keys
        PROVE  /\ stored'[k] \in Entry
               /\ stored'[k].age < TTL =>
                     stored'[k].answer = stored[k].answer /\ stored'[k].age = stored[k].age + 1 /\ stored[k].age < TTL
    <2>1. stored[k] \in Entry /\ stored[k].age \in 0 .. TTL
      BY DEF HostInv, HostTypes, Entry
    <2>2. CASE stored[k].age < TTL - 1
      <3>1. stored[k].age + 1 \in 0 .. TTL /\ stored[k].age < TTL
        BY <2>1, <2>2, Ages
      <3>2. stored'[k] = [stored[k] EXCEPT !.age = stored[k].age + 1]
        BY <1>1, <2>2
      <3> QED BY <2>1, <3>1, <3>2 DEF Entry
    <2>3. CASE ~(stored[k].age < TTL - 1)
      <3>1. stored'[k] = Empty
        BY <1>1, <2>3
      <3> QED BY <3>1, Records, Ages
    <2> QED BY <2>2, <2>3
  <1>3. EntriesFresh'
    <2>1. ASSUME NEW k \in Keys, stored'[k].age < TTL
          PROVE  \E a \in Answers, n \in Int : a = stored'[k].answer /\ n = stored'[k].age /\ Fresh(a, k[1], k[2], n)'
      <3>1. PICK a \in Answers, n \in Int : a = stored[k].answer /\ n = stored[k].age
        BY Ages DEF HostInv, HostTypes, Entry
      <3>2. stored'[k].answer = a /\ stored'[k].age = n + 1 /\ n < TTL
        BY <1>2, <2>1, <3>1
      <3>3. Fresh(a, k[1], k[2], n)
        BY <3>1, <3>2 DEF HostInv, EntriesFresh
      <3>4. Fresh(a, k[1], k[2], n + 1)'
        BY <3>3, TickFresh
      <3>5. n + 1 \in Int
        OBVIOUS
      <3> QED BY <3>2, <3>4, <3>5
    <2> QED BY <2>1 DEF EntriesFresh
  <1>4. stored' \in [Keys -> Entry]
    BY <1>1, <1>2
  <1> DEFINE r == [request EXCEPT !.age = Grown(@, Long),
                                  !.stamp = IF request.at \in {"read", "load", "store"} THEN Grown(@, Long) ELSE 0]
  <1>5. request' = IF request.at = "none" THEN request ELSE r
    BY DEF HostTick
  <1>6. /\ request \in RequestRow /\ request.age \in 0 .. Long /\ request.stamp \in 0 .. Long
        /\ request.answer \in Answers /\ request.found \in Tenants \cup {Nobody} /\ TTL + request.age - 1 \in Int
    BY RequestTypes DEF HostInv
  <1>7. /\ Grown(request.age, Long) \in 0 .. Long /\ Grown(request.stamp, Long) \in 0 .. Long
        /\ Grown(request.stamp, Long) <= Grown(request.age, Long) /\ 0 <= Grown(request.age, Long)
        /\ Grown(request.age, Long) < TTL => Grown(request.age, Long) = request.age + 1 /\ request.age < TTL
    <2>1. request.stamp <= request.age
      BY DEF HostInv, RequestFresh
    <2>2. Grown(request.age, Long) < TTL => Grown(request.age, Long) = request.age + 1 /\ request.age < TTL
      BY <1>6, Ages DEF Grown
    <2> QED BY <1>6, <2>1, <2>2, GrownFacts, Ages
  <1>8. /\ r \in RequestRow /\ r.at = request.at /\ r.path = request.path /\ r.stage = request.stage
        /\ r.host = request.host /\ r.found = request.found /\ r.answer = request.answer
        /\ r.age = Grown(request.age, Long)
        /\ r.stamp = IF request.at \in {"read", "load", "store"} THEN Grown(request.stamp, Long) ELSE 0
    <2> DEFINE age == Grown(request.age, Long)
               stamp == IF request.at \in {"read", "load", "store"} THEN Grown(request.stamp, Long) ELSE 0
    <2>1. age \in 0 .. Long /\ stamp \in 0 .. Long
      <3>1. 0 \in 0 .. Long
        BY Ages
      <3>2. CASE request.at \in {"read", "load", "store"}
        BY <1>7, <3>2
      <3>3. CASE request.at \notin {"read", "load", "store"}
        BY <1>7, <3>1, <3>3
      <3> QED BY <3>2, <3>3
    <2>2. r = [request EXCEPT !.age = age, !.stamp = stamp]
      OBVIOUS
    <2> HIDE DEF r, age, stamp
    <2>3. /\ r \in RequestRow /\ r.at = request.at /\ r.path = request.path /\ r.stage = request.stage
          /\ r.host = request.host /\ r.found = request.found /\ r.answer = request.answer
          /\ r.age = age /\ r.stamp = stamp
      BY <1>6, <2>1, <2>2 DEF RequestRow
    <2> QED BY <2>3 DEF age, stamp
  <1> HIDE DEF r
  <1>9. RequestFresh'
    <2>1. CASE request.at = "none"
      BY <1>5, <2>1 DEF HostInv, RequestFresh
    <2>2. CASE request.at # "none"
      <3>1. request' = r /\ r.stamp <= r.age
        <4>1. CASE request.at \in {"read", "load", "store"}
          BY <1>5, <1>7, <1>8, <2>2, <4>1
        <4>2. CASE request.at \notin {"read", "load", "store"}
          <5>1. r.stamp = 0 /\ 0 <= r.age
            BY <1>7, <1>8, <4>2
          <5> QED BY <1>5, <2>2, <5>1
        <4> QED BY <4>1, <4>2
      <3>2. PICK a \in Answers, t \in Tenants \cup {Nobody}, h \in Hosts \cup {RelayHost}, stage \in Stages,
                 n \in 0 .. Long, m \in Int :
                a = request.answer /\ t = request.found /\ h = request.host /\ stage = request.stage
                /\ n = request.stamp /\ m = TTL + request.age - 1
        BY <1>6, RequestTypes DEF HostInv
      <3>3. n \in Int /\ n \in 0 .. Long
        BY Ages
      <3>4. request.at = "load" /\ t # Nobody /\ stage = "web" => Was(h, t, Grown(n, Long))'
        BY <3>2, <3>3, TickFresh DEF HostInv, RequestFresh
      <3>5. request.at = "store" => Fresh(a, stage, h, Grown(n, Long))'
        BY <3>2, <3>3, TickFresh DEF HostInv, RequestFresh
      <3>6. request.at = "answer" /\ request.age < TTL => Fresh(a, stage, h, m + 1)'
        BY <3>2, TickFresh DEF HostInv, RequestFresh
      <3>7. r.age < TTL => m + 1 = TTL + r.age - 1 /\ request.age < TTL
        <4>1. \A x, y \in Int : y = x + 1 => (TTL + x - 1) + 1 = TTL + y - 1
          BY Ages
        <4>2. request.age \in Int /\ Grown(request.age, Long) \in Int
          BY <1>6, <1>7, Ages
        <4>3. r.age < TTL => r.age = request.age + 1 /\ request.age < TTL
          BY <1>7, <1>8
        <4> QED BY <1>8, <3>2, <4>1, <4>2, <4>3
      <3>8. request.at # "none" /\ request.path # "device" => request.stage = "web"
        BY DEF HostInv, RequestFresh
      <3> QED BY <1>8, <3>1, <3>2, <3>4, <3>5, <3>6, <3>7, <3>8 DEF RequestFresh
    <2> QED BY <2>1, <2>2
  <1>10. request' \in RequestRow
    BY <1>5, <1>6, <1>8
  <1>11. HostTypes' /\ Counted'
    BY <1>1, <1>4, <1>10, TickFresh DEF HostInv, HostTypes
  <1> QED BY <1>3, <1>9, <1>11 DEF HostInv

LEMMA HostStep ==
    ASSUME HostInv, [HostNext]_hostVars
    PROVE  HostInv'
  <1>1. CASE UNCHANGED hostVars
    BY <1>1 DEF hostVars, HostInv, HostTypes, Counted, EntriesFresh, RequestFresh, Fresh, Was
  <1>2. CASE NotFound \/ Inactive \/ Serve \/ Unmatched
    BY <1>2, ComesAndGoes DEF NotFound, Inactive, Serve, Unmatched
  <1> QED BY <1>1, <1>2, ComesAndGoes, SetStatusStep, MoveStep, InvalidateStep, HitStep, MissStep, ReadNameStep,
             LoadTenantStep, StoreStep, NextStageStep, TickStep DEF HostNext

\* At most the cache's seconds after a tenant was closed or lost a name, and the time the request itself has run, is
\* a page served for it, also when an old answer is stored after the cache was emptied: for any number of seconds an
\* entry is used (tenancy.py, resolve_host, invalidate_cache).
THEOREM AlwaysStaleAtMostTTL == HostSpec => StaleAtMostTTL
  <1>1. HostInv /\ [HostNext]_hostVars =>
            [Serve /\ request.age < TTL /\ request.path # "device" =>
                LET t == request.answer.tenant
                    limit == TTL + request.age
                IN  /\ closedFor[t] >= limit
                          => Allowed(status[t], request.path) \/ Allowed(request.answer.status, request.path)
                    /\ request.host \in Hosts /\ movedFor[request.host][t] < limit]_hostVars
    <2> SUFFICES ASSUME HostInv, Serve, request.age < TTL, request.path # "device"
                 PROVE  LET t == request.answer.tenant
                            limit == TTL + request.age
                        IN  /\ closedFor[t] >= limit
                                  => Allowed(status[t], request.path) \/ Allowed(request.answer.status, request.path)
                            /\ request.host \in Hosts /\ movedFor[request.host][t] < limit
      OBVIOUS
    <2> DEFINE t == request.answer.tenant
               limit == TTL + request.age
    <2>1. /\ request.at = "answer" /\ t # Nobody
          /\ request.answer.status \in Open \/ Allowed(request.answer.status, request.path)
      BY DEF Serve, Resolved
    <2>2. request.stage = "web" /\ Fresh(request.answer, "web", request.host, limit - 1)
      <3>1. request.stage = "web" /\ Fresh(request.answer, request.stage, request.host, TTL + request.age - 1)
        BY <2>1 DEF HostInv, RequestFresh
      <3>2. limit - 1 = TTL + request.age - 1
        <4>1. request.age \in Int
          BY RequestTypes, Ages DEF HostInv
        <4> QED BY <4>1, Ages
      <3> HIDE DEF limit
      <3> QED BY <3>1, <3>2
    <2>3. t \in Tenants /\ request.age \in 0 .. Long /\ limit \in Int
      BY <2>1, RequestTypes, Ages DEF HostInv, Answers
    <2>4. request.host \in Hosts /\ movedFor[request.host][t] <= limit - 1
          /\ (request.answer.status \in Open => closedFor[t] <= limit - 1)
      BY <2>1, <2>2 DEF Fresh, Was
    <2>5. closedFor[t] \in 0 .. Long /\ movedFor[request.host][t] \in 0 .. Long
      BY <2>3, <2>4 DEF HostInv, HostTypes
    <2>6. movedFor[request.host][t] < limit /\ (request.answer.status \in Open => ~(closedFor[t] >= limit))
      BY <2>3, <2>4, <2>5, Ages
    <2> QED BY <2>1, <2>4, <2>6
  <1> QED BY InitHost, HostStep, <1>1, PTL DEF HostSpec, StaleAtMostTTL
=============================================================================
