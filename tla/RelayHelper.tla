------------------------------ MODULE RelayHelper -----------------------------
(***************************************************************************)
(* One tenant's relay as the root helper runs it (provisioning/rdf_helper.py, *)
(* "Relays"): each command reads the tenant's row of the control database,   *)
(* then writes the compose file, or reads it, compares it with its own       *)
(* rendering and hands the text it compared to docker on standard input.     *)
(* Commands are processes: two may run at once, and one may be killed at any *)
(* step.  A new file is written beside the compose file, under one name for  *)
(* every command, and then takes its place, so a file is an inode here.      *)
(*                                                                          *)
(* Left out: directories replaced by symbolic links; the web servers'        *)
(* certificates and vhosts (CustomDomains has those of a custom domain).     *)
(***************************************************************************)
EXTENDS Naturals

CONSTANTS
    Commands,      \* the processes
    GoodRows,      \* values of the tenant's relay row that load_relay accepts
    Images,        \* rustdesk-server versions
    MaxFiles       \* bound on the files ever written

VARIABLES
    relayRow,      \* the tenant's row: a good one, or one that is refused or missing
    content,       \* by inode: the text
    inodesUsed,    \* inodes used
    compose,       \* docker-compose.yml's inode, 0 when there is none
    temporary,     \* .docker-compose.yml.rdf-helper's inode, or 0
    command,       \* by process: what it runs, its step, the row it read, its text, its new file
    project        \* docker's containers: the text they were created from, whether they run

helperVars == <<relayRow, content, inodesUsed, compose, temporary, command, project>>

Text(r, v) == [row |-> r, image |-> v]
Nothing == Text("none", 0)
Partial == Text("partial", 0)
Foreign == Text("foreign", 0)          \* any text that isn't the helper's
Renderings == {Text(r, v) : r \in GoodRows, v \in Images}
Texts == Renderings \cup {Nothing, Partial, Foreign}

Inodes == 1 .. MaxFiles
Actions == {"up", "start", "stop", "restart", "down"}
Idle == [do |-> "none", at |-> "idle", row |-> "none", text |-> Nothing, inode |-> 0]
NoProject == [text |-> Nothing, running |-> FALSE]

HelperInit ==
    /\ relayRow \in GoodRows
    /\ content = [i \in Inodes |-> Nothing]
    /\ inodesUsed = 0 /\ compose = 0 /\ temporary = 0
    /\ command = [c \in Commands |-> Idle]
    /\ project = NoProject

HelperTypeOK ==
    /\ relayRow \in GoodRows \cup {"none", "refused"}
    /\ content \in [Inodes -> Texts]
    /\ inodesUsed \in 0 .. MaxFiles /\ compose \in 0 .. inodesUsed /\ temporary \in 0 .. inodesUsed
    /\ command \in [Commands -> [do : Actions \cup {"none", "write"},
                                 at : {"idle", "load", "check", "run", "open", "write", "replace"},
                                 row : GoodRows \cup {"none"}, text : Texts, inode : 0 .. MaxFiles]]
    /\ project \in [text : Texts, running : BOOLEAN]

-----------------------------------------------------------------------------
(* What changes around the helper. *)

\* The console changes the tenant's row or restores a backup over it.
RowChanges ==
    /\ relayRow' \in (GoodRows \cup {"none", "refused"}) \ {relayRow}
    /\ UNCHANGED <<content, inodesUsed, compose, temporary, command, project>>

\* The compose file is replaced by hand.
Edit ==
    /\ inodesUsed < MaxFiles
    /\ inodesUsed' = inodesUsed + 1
    /\ content' = [content EXCEPT ![inodesUsed + 1] = Foreign]
    /\ compose' = inodesUsed + 1
    /\ UNCHANGED <<relayRow, temporary, command, project>>

-----------------------------------------------------------------------------
(* A command. *)

Start(c) ==
    /\ command[c].at = "idle"
    /\ \E do \in Actions \cup {"write"} : command' = [command EXCEPT ![c] = [Idle EXCEPT !.do = do, !.at = "load"]]
    /\ UNCHANGED <<relayRow, content, inodesUsed, compose, temporary, project>>

\* load_relay: a row that is missing or isn't as the helper expects it ends the command.
Load(c) ==
    /\ command[c].at = "load"
    /\ command' = [command EXCEPT ![c] =
          IF relayRow \notin GoodRows THEN Idle
          ELSE [@ EXCEPT !.row = relayRow, !.at = IF command[c].do = "write" THEN "open" ELSE "check"]]
    /\ UNCHANGED <<relayRow, content, inodesUsed, compose, temporary, project>>

\* The command ends in an error, or is killed.
Stops(c) ==
    /\ command[c].at # "idle"
    /\ command' = [command EXCEPT ![c] = Idle]
    /\ UNCHANGED <<relayRow, content, inodesUsed, compose, temporary, project>>

\* _checked_compose: the file is the rendering of the row that was read, at the version the file names.
Check(c) ==
    LET text == IF compose = 0 THEN Nothing ELSE content[compose]
    IN  /\ command[c].at = "check"
        /\ command' = [command EXCEPT ![c] =
              IF text \in {Text(command[c].row, v) : v \in Images} THEN [@ EXCEPT !.at = "run", !.text = text] ELSE Idle]
        /\ UNCHANGED <<relayRow, content, inodesUsed, compose, temporary, project>>

\* Mutant: docker reads the file by its name.
FileText(c) == IF compose = 0 THEN Nothing ELSE content[compose]

\* docker compose -f - : docker gets the text that was compared.
PipedText(c) == command[c].text

\* What docker makes of a command: up creates the containers anew, the others take those that are there.
Done(c) ==
    CASE command[c].do = "up"   -> [text |-> PipedText(c), running |-> TRUE]
      [] command[c].do = "down" -> NoProject
      [] command[c].do = "stop" -> [project EXCEPT !.running = FALSE]
      [] OTHER                  -> [project EXCEPT !.running = project.text # Nothing]

\* _compose: done, or failed or timed out with docker having done it or not.
Run(c) ==
    /\ command[c].at = "run"
    /\ project' \in {project, Done(c)}
    /\ command' = [command EXCEPT ![c] = Idle]
    /\ UNCHANGED <<relayRow, content, inodesUsed, compose, temporary>>

\* relay_write_compose: the last command's temporary file goes, a new one is opened ...
OpenTemporary(c) ==
    /\ command[c].at = "open" /\ inodesUsed < MaxFiles
    /\ inodesUsed' = inodesUsed + 1
    /\ content' = [content EXCEPT ![inodesUsed + 1] = Partial]
    /\ temporary' = inodesUsed + 1
    /\ command' = [command EXCEPT ![c].at = "write", ![c].inode = inodesUsed + 1]
    /\ UNCHANGED <<relayRow, compose, project>>

\* ... written, wherever its inode is by now ...
WriteTemporary(c) ==
    /\ command[c].at = "write"
    /\ \E v \in Images : content' = [content EXCEPT ![command[c].inode] = Text(command[c].row, v)]
    /\ command' = [command EXCEPT ![c].at = "replace"]
    /\ UNCHANGED <<relayRow, inodesUsed, compose, temporary, project>>

\* ... and whatever has the temporary name becomes the compose file.
Replace(c) ==
    /\ command[c].at = "replace"
    /\ IF temporary = 0 THEN UNCHANGED <<compose, temporary>> ELSE compose' = temporary /\ temporary' = 0
    /\ command' = [command EXCEPT ![c] = Idle]
    /\ UNCHANGED <<relayRow, content, inodesUsed, project>>

\* purge_relay_data: the directory goes, of any tenant but the first.
PurgeData ==
    /\ compose # 0 \/ temporary # 0
    /\ compose' = 0 /\ temporary' = 0
    /\ UNCHANGED <<relayRow, content, inodesUsed, command, project>>

HelperNext ==
    \/ RowChanges \/ Edit \/ PurgeData
    \/ \E c \in Commands :
           \/ Start(c) \/ Load(c) \/ Stops(c)
           \/ Check(c) \/ Run(c)
           \/ OpenTemporary(c) \/ WriteTemporary(c) \/ Replace(c)

HelperSpec == HelperInit /\ [][HelperNext]_helperVars

-----------------------------------------------------------------------------
(* Properties. *)

\* Docker's containers were created from the helper's own rendering of a row it accepted, never from a file
\* someone changed between the comparison and the run, nor from one another command had half written
\* (_checked_compose, _compose).
RunsRendering == project.text \in Renderings \cup {Nothing}
=============================================================================
