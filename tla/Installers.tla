----------------------------- MODULE Installers ------------------------------
(***************************************************************************)
(* The RustDesk client version, the installers of one client group on one   *)
(* platform, and a download link (single-tenant/generate_installer.py,      *)
(* routes/groups.py, links.py, home.py, console/server.py).  The pinned     *)
(* version moves forward in one thread, step by step; installers are built  *)
(* and signed by the group's page, which holds the event loop until it is   *)
(* done, and by the rebuild thread; the console may restart between steps.  *)
(*                                                                          *)
(* A built file is named after the version only: rows of one version share  *)
(* it.  The file of the pin is emptied before it is written, by an update and *)
(* by any reader that finds it empty or missing, which writes the version the  *)
(* code starts from; one reader at a time does.                                *)
(*                                                                          *)
(* Left out: two updates of the pin at once, which share the files they        *)
(* download to; what is put into an installer; the script installers of      *)
(* Linux and macOS, which need no binary; the e-mails with a link; guides.     *)
(***************************************************************************)
EXTENDS Integers, Sequences, TLC

CONSTANTS
    Versions,   \* 1 .. n, in the order of their release
    Archs,      \* architectures
    MaxRows,    \* bound on rows of installers
    MaxUses     \* max_uses of the link

ASSUME VersionsAssumption == 1 \in Versions /\ 0 \notin Versions

VARIABLES
    released,   \* the release GitHub calls the latest
    pin,        \* rustdesk_version.txt, NoPin if it is empty or missing
    reading,    \* a reader of the pin that found it empty, and perhaps has emptied it to write the default
    assets,     \* binaries under their final name: version, architecture
    found,      \* history: the architectures the update that wrote the pin had listed
    updating,   \* the update of the pin: what it lists, has fetched and put in place
    installers, \* rows: version, status, whether its binary was whole; a deleted one keeps its number
    output,     \* by version, the file: the row it was built for, whether it is finished
    building,   \* by builder: its step and its row
    link        \* the download link: none yet, active, or over (revoked or expired); its downloads

pinVars == <<pin, reading, assets, found>>
installerVars == <<released, pin, reading, assets, found, updating, installers, output, building, link>>

Builders == {"page", "rebuild"}
Free == [at |-> "idle", row |-> 0]
Readers == Builders \cup {"status"}
NoReader == [by |-> "status", at |-> "no"]
NoPin == 0
Default == 1
Still == [at |-> "idle", version |-> 0, archs |-> {}, fetched |-> {}, placed |-> {}]
NoFile == [row |-> 0, whole |-> FALSE]

InstallersInit ==
    /\ released = 1
    /\ pin = NoPin
    /\ reading = NoReader
    /\ assets = {} /\ found = {}
    /\ updating = Still
    /\ installers = <<>>
    /\ output = [v \in Versions |-> NoFile]
    /\ building = [b \in Builders |-> Free]
    /\ link = [state |-> "none", uses |-> 0]

Rows == 1 .. Len(installers)

InstallersTypeOK ==
    /\ released \in Versions /\ pin \in Versions \cup {NoPin}
    /\ reading \in [by : Readers, at : {"no", "empty", "open"}]
    /\ assets \subseteq Versions \X Archs /\ found \subseteq Archs
    /\ updating \in [at : {"idle", "fetch", "place", "pin", "write"}, version : Versions \cup {0}, archs : SUBSET Archs,
                    fetched : SUBSET Archs, placed : SUBSET Archs]
    /\ installers \in Seq([version : Versions, whole : BOOLEAN,
                           status : {"pending", "built", "signing", "signed", "failed", "deleted"}])
    /\ output \in [Versions -> [row : 0 .. MaxRows, whole : BOOLEAN]]
    /\ building \in [Builders -> [at : {"idle", "insert", "make", "making", "sign"}, row : 0 .. MaxRows]]
    /\ link \in [state : {"none", "active", "over"}, uses : 0 .. MaxUses]

-----------------------------------------------------------------------------
(* get_pinned_version, where the file is empty or missing.  Pages, reports and the *)
(* home page read the pin, and builders do.                                      *)

\* Only a builder that is about to insert its row reads.
MayRead(r) == r \in Builders => building[r].at = "insert"

ReadEmpty(r) ==
    /\ pin = NoPin /\ reading.at = "no" /\ MayRead(r)
    /\ reading' = [by |-> r, at |-> "empty"]
    /\ UNCHANGED <<released, pin, assets, found, updating, installers, output, building, link>>

\* write_text empties the file, whatever it has by now ...
EmptyPin ==
    /\ reading.at = "empty"
    /\ reading' = [reading EXCEPT !.at = "open"]
    /\ pin' = NoPin
    /\ UNCHANGED <<released, assets, found, updating, installers, output, building, link>>

\* ... and writes the default.
WriteDefault(r) == reading = [by |-> r, at |-> "open"] /\ reading' = NoReader /\ pin' = Default /\ found' = {}

SeedPin ==
    /\ WriteDefault("status")
    /\ UNCHANGED <<released, assets, updating, installers, output, building, link>>

-----------------------------------------------------------------------------
(* update_version. *)

Releases ==
    /\ released + 1 \in Versions /\ released' = released + 1
    /\ UNCHANGED <<pinVars, updating, installers, output, building, link>>

\* Every architecture ever staged.
StagedArchs == {a \in Archs : \E v \in Versions : <<v, a>> \in assets}

\* The first binary of an architecture is put there by hand, of any version, whenever; others come with updates.
StageBinary(v, a) ==
    /\ v \in Versions /\ v <= released /\ a \notin StagedArchs
    /\ assets' = assets \cup {<<v, a>>}
    /\ UNCHANGED <<released, pin, reading, found, updating, installers, output, building, link>>

\* update_version: the latest release isn't the pinned one.
Outdated == released # pin

\* client_version_update: refused without a binary of any version.  Finding the pin empty, it writes the default
\* first, like any reader.
Update ==
    /\ updating.at = "idle" /\ pin # NoPin /\ Outdated /\ StagedArchs # {}
    /\ updating' = [Still EXCEPT !.at = "fetch", !.version = released, !.archs = StagedArchs]
    /\ UNCHANGED <<released, pinVars, installers, output, building, link>>

\* download_asset, to a name of its own beside the final one.
Fetch(a) ==
    /\ updating.at = "fetch" /\ a \in updating.archs \ updating.fetched
    /\ updating' = [updating EXCEPT !.fetched = @ \cup {a},
                                    !.at = IF updating.fetched \cup {a} = updating.archs THEN "place" ELSE "fetch"]
    /\ UNCHANGED <<released, pinVars, installers, output, building, link>>

\* A download fails: the parts go, the pin stays.
FetchFails ==
    /\ updating.at = "fetch"
    /\ updating' = Still
    /\ UNCHANGED <<released, pinVars, installers, output, building, link>>

Place(a) ==
    /\ updating.at = "place" /\ a \in updating.fetched \ updating.placed
    /\ assets' = assets \cup {<<updating.version, a>>}
    /\ updating' = [updating EXCEPT !.placed = @ \cup {a},
                                    !.at = IF updating.placed \cup {a} = updating.fetched THEN "pin" ELSE "place"]
    /\ UNCHANGED <<released, pin, reading, found, installers, output, building, link>>

\* Mutant: the pin may move once everything is fetched.
FetchedAll == updating.at \in {"place", "pin"}

\* The pin moves when every binary has its final name.
PlacedAll == updating.at = "pin"

\* write_text empties the file ...
TruncatePin ==
    /\ PlacedAll
    /\ pin' = NoPin
    /\ updating' = [updating EXCEPT !.at = "write"]
    /\ UNCHANGED <<released, reading, assets, found, installers, output, building, link>>

\* ... and writes it.
WritePin ==
    /\ updating.at = "write"
    /\ pin' = updating.version /\ found' = updating.archs
    /\ updating' = Still
    /\ UNCHANGED <<released, reading, assets, installers, output, building, link>>

-----------------------------------------------------------------------------
(* build_installer, by the group's page or by the rebuild thread. *)

Served == {"built", "signed"}
Good == {i \in Rows : installers[i].status \in Served}
Newest(S) == CHOOSE i \in S : \A j \in S : j <= i

\* latest_installers: the newest row that was built, if its file is there.
Offered == IF Good = {} \/ output[installers[Newest(Good)].version].row = 0 THEN 0 ELSE Newest(Good)

\* A handler of the event loop runs when no build or signature of the page holds it.
LoopFree == building["page"].at = "idle"

\* group_build.
Build ==
    /\ LoopFree
    /\ building' = [building EXCEPT !["page"] = [Free EXCEPT !.at = "insert"]]
    /\ UNCHANGED <<released, pinVars, updating, installers, output, link>>

\* _rebuild_all, _rebuild_outdated_installers: the current installer, if it is of another version than the release
\* an update has just found, which the pin may have left since.
Rebuild ==
    /\ building["rebuild"].at = "idle"
    /\ Offered # 0 /\ \E v \in {pin, released} \ {NoPin} : installers[Offered].version # v
    /\ building' = [building EXCEPT !["rebuild"] = [Free EXCEPT !.at = "insert"]]
    /\ UNCHANGED <<released, pinVars, updating, installers, output, link>>

\* The row is inserted with the pin, or with the default the builder has just written.
InsertRow(b) ==
    /\ building[b].at = "insert" /\ Len(installers) < MaxRows
    /\ \/ (reading.at # "no" => reading.by # b) /\ pin # NoPin /\ UNCHANGED <<pin, reading, found>>
       \/ WriteDefault(b)
    /\ installers' = Append(installers, [version |-> pin', status |-> "pending", whole |-> FALSE])
    /\ building' = [building EXCEPT ![b].at = "make", ![b].row = Len(installers) + 1]
    /\ UNCHANGED <<released, assets, updating, output, link>>

\* An UPDATE of the builder's row, which changes nothing when the row was deleted.
SetRow(b, fields) ==
    installers' = [installers EXCEPT ![building[b].row] = IF @.status = "deleted" THEN @ ELSE fields @@ @]

\* _build_nsis: the version's binary is there, makensis opens the output.
Make(b, a) ==
    LET i == building[b].row
    IN  /\ building[b].at = "make" /\ <<installers[i].version, a>> \in assets
        /\ output' = [output EXCEPT ![installers[i].version] = [row |-> i, whole |-> FALSE]]
        /\ building' = [building EXCEPT ![b].at = "making"]
        /\ UNCHANGED <<released, pinVars, updating, installers, link>>

\* ... or it isn't, or makensis fails; what it wrote may stay.
MakeFails(b) ==
    /\ building[b].at \in {"make", "making"}
    /\ output' \in {output, [output EXCEPT ![installers[building[b].row].version] =
                               IF building[b].at = "making" THEN NoFile ELSE @]}
    /\ SetRow(b, [status |-> "failed"])
    /\ building' = [building EXCEPT ![b] = Free]
    /\ UNCHANGED <<released, pinVars, updating, link>>

\* The file is finished; it is signed now when that is configured.
Made(b) ==
    LET i == building[b].row
        v == installers[i].version
    IN  /\ building[b].at = "making" /\ output[v].row # 0
        /\ output' = [output EXCEPT ![v] = [row |-> i, whole |-> TRUE]]
        /\ \/ /\ SetRow(b, [status |-> "built", whole |-> TRUE])
              /\ building' = [building EXCEPT ![b] = Free]
           \/ /\ SetRow(b, [status |-> "signing", whole |-> TRUE])
              /\ building' = [building EXCEPT ![b].at = "sign"]
        /\ UNCHANGED <<released, pinVars, updating, link>>

\* sign_existing: a row whose file is there.
Signable == {i \in Rows : installers[i].whole /\ installers[i].status # "deleted" /\ output[installers[i].version].row # 0}

\* group_sign_installer.
SignExisting(i) ==
    /\ LoopFree /\ i \in Signable
    /\ installers' = [installers EXCEPT ![i].status = "signing"]
    /\ building' = [building EXCEPT !["page"] = [at |-> "sign", row |-> i]]
    /\ UNCHANGED <<released, pinVars, updating, output, link>>

\* sign_installer_row: signed in place ...
Signs(b) ==
    /\ building[b].at = "sign" /\ output[installers[building[b].row].version].row # 0
    /\ SetRow(b, [status |-> "signed"])
    /\ building' = [building EXCEPT ![b] = Free]
    /\ UNCHANGED <<released, pinVars, updating, output, link>>

\* ... or not: no file, no token, or jsign fails.
SignFails(b) ==
    /\ building[b].at = "sign"
    /\ SetRow(b, [status |-> "built"])
    /\ building' = [building EXCEPT ![b] = Free]
    /\ UNCHANGED <<released, pinVars, updating, output, link>>

\* installer_delete: the file goes with the row, whichever row it was last built for.
DeleteInstaller(i) ==
    /\ LoopFree /\ i \in Rows /\ installers[i].status # "deleted"
    /\ installers' = [installers EXCEPT ![i].status = "deleted"]
    /\ output' = IF installers[i].whole THEN [output EXCEPT ![installers[i].version] = NoFile] ELSE output
    /\ UNCHANGED <<released, pinVars, updating, building, link>>

-----------------------------------------------------------------------------
(* Download links. *)

\* link_state.
LinkActive == link.state = "active" /\ link.uses < MaxUses

\* link_create.
CreateLink ==
    /\ LoopFree /\ link.state = "none"
    /\ link' = [state |-> "active", uses |-> 0]
    /\ UNCHANGED <<released, pinVars, updating, installers, output, building>>

\* link_revoke.
RevokeLink ==
    /\ LoopFree /\ link.state # "none"
    /\ link' = [link EXCEPT !.state = "over"]
    /\ UNCHANGED <<released, pinVars, updating, installers, output, building>>

DownloadExpires ==
    /\ link.state = "active"
    /\ link' = [link EXCEPT !.state = "over"]
    /\ UNCHANGED <<released, pinVars, updating, installers, output, building>>

\* public_download_file: counted in the statement that checks every limit.
Download ==
    /\ LoopFree /\ link.state # "none" /\ Offered # 0 /\ LinkActive
    /\ link' = [link EXCEPT !.uses = @ + 1]
    /\ UNCHANGED <<released, pinVars, updating, installers, output, building>>

\* The console restarts: files and rows stay as they are.
Restart ==
    /\ building' = [b \in Builders |-> Free]
    /\ reading' = NoReader
    /\ updating' = Still
    /\ <<building, reading, updating>>' # <<building, reading, updating>>
    /\ UNCHANGED <<released, pin, assets, found, installers, output, link>>

ClientNext ==
    \/ (\E r \in Readers : ReadEmpty(r)) \/ EmptyPin \/ SeedPin
    \/ Releases
    \/ Update \/ FetchFails \/ TruncatePin \/ WritePin
    \/ \E a \in Archs : Fetch(a) \/ Place(a) \/ \E v \in Versions : StageBinary(v, a)
    \/ Build \/ Rebuild
    \/ \E b \in Builders : InsertRow(b) \/ MakeFails(b) \/ Made(b) \/ Signs(b) \/ SignFails(b) \/ \E a \in Archs : Make(b, a)
    \/ \E i \in Rows : SignExisting(i) \/ DeleteInstaller(i)
    \/ Restart

LinkNext == CreateLink \/ RevokeLink \/ DownloadExpires \/ Download

InstallersNext == ClientNext \/ LinkNext

InstallersSpec == InstallersInit /\ [][InstallersNext]_installerVars

-----------------------------------------------------------------------------
(* Properties. *)

\* A pin that an update wrote has its binary for every architecture staged, in whatever version, when that update
\* began, though downloads fail, renames are interrupted, binaries are staged by hand meanwhile and the console
\* restarts: no build finds the pin ahead of those files (update_version).  The exception is the pin that a reader
\* of the empty file wrote, the default, which no binary need be there for (get_pinned_version).
PinHasBinaries == pin # NoPin => \A a \in found : <<pin, a>> \in assets
=============================================================================
