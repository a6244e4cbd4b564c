---------------------------- MODULE DevicePolicy ----------------------------
(***************************************************************************)
(* A tenant's devices and the client settings of their groups              *)
(* (routes/client_api.py, devices.py, groups.py, and the new-device watcher *)
(* of routes/api.py).                                                       *)
(*                                                                          *)
(* A device sends one heartbeat after the other; each carries the stamp of  *)
(* the settings it applied last, and its answer, which may be lost, the     *)
(* settings of its group when the stamp differs.  The handlers hold the     *)
(* event loop; the watcher is a thread, and its pass reads the fleet before *)
(* it writes.                                                               *)
(*                                                                          *)
(* Left out: labels, hardware details, installers, links, e-mails, and the  *)
(* relay's own list of peers (every device is on it).                       *)
(***************************************************************************)
EXTENDS Integers, FiniteSets

CONSTANTS
    Devices,
    Groups,
    Options,        \* _MANAGED_OPTIONS
    MaxEdits,       \* bound on what people do
    MaxClock        \* bound on seconds in which settings are saved

ASSUME PolicyAssumption == MaxEdits \in Nat /\ MaxClock \in Nat \ {0} /\ "none" \notin Groups

VARIABLES
    clock,
    tenantOpen, \* tenant.is_open, as the host cache has it
    group,      \* client_groups: whether it is there, its settings, its policy_ts (0: NULL)
    stamps,     \* history: every policy_ts given out
    reused,     \* history: those given out more than once
    fleet,      \* devices: no row, shown or hidden; its group
    details,    \* device_info: whether there is a row, and the policy_ts last reported
    client,     \* the RustDesk client: its options, the stamp it echoes, its exchange with the server
    watcher,    \* the ids the watcher's pass found unknown
    edits

deviceVars == <<clock, tenantOpen, group, stamps, reused, fleet, details, client, watcher, edits>>

NoGroup == "none"
Values == {"Y", "N"}
Unmanaged == [o \in Options |-> ""]
NoAnswer == [stamp |-> 0, options |-> Unmanaged]

DevicesInit ==
    /\ clock = 1
    /\ tenantOpen = TRUE
    /\ group = [g \in Groups |-> [there |-> TRUE, wants |-> Unmanaged, stamp |-> 0]]
    /\ stamps = {}
    /\ reused = {}
    /\ fleet = [d \in Devices |-> [row |-> "none", group |-> NoGroup]]
    /\ details = [d \in Devices |-> [row |-> FALSE, stamp |-> 0]]
    /\ client = [d \in Devices |-> [has |-> [o \in Options |-> "own"], stamp |-> 0,
                                    at |-> "idle", sent |-> 0, answer |-> NoAnswer]]
    /\ watcher = {}
    /\ edits = 0

Stamps == 0 .. MaxClock + MaxEdits
Wishes == [Options -> Values \cup {""}]

DevicesTypeOK ==
    /\ clock \in 1 .. MaxClock
    /\ tenantOpen \in BOOLEAN
    /\ group \in [Groups -> [there : BOOLEAN, wants : Wishes, stamp : Stamps]]
    /\ stamps \subseteq Stamps
    /\ reused \subseteq Stamps
    /\ fleet \in [Devices -> [row : {"none", "shown", "hidden"}, group : Groups \cup {NoGroup}]]
    /\ details \in [Devices -> [row : BOOLEAN, stamp : Stamps]]
    /\ client \in [Devices -> [has : [Options -> Values \cup {"own"}], stamp : Stamps,
                               at : {"idle", "asking", "answered"}, sent : Stamps,
                               answer : [stamp : Stamps, options : Wishes]]]
    /\ watcher \subseteq Devices
    /\ edits \in 0 .. MaxEdits

Edit == edits < MaxEdits /\ edits' = edits + 1

-----------------------------------------------------------------------------
(* The client, as the handlers rely on it. *)

Beat(d) ==
    /\ client[d].at = "idle"
    /\ client' = [client EXCEPT ![d].at = "asking", ![d].sent = client[d].stamp]
    /\ UNCHANGED <<clock, tenantOpen, group, stamps, reused, fleet, details, watcher, edits>>

\* The answer arrives: the client applies the settings, and echoes their stamp from now on.
Apply(d) ==
    LET c == client[d]
    IN  /\ c.at = "answered"
        /\ client' = [client EXCEPT ![d] =
                [at |-> "idle", sent |-> c.sent, answer |-> NoAnswer,
                 stamp |-> IF c.answer.stamp # 0 THEN c.answer.stamp ELSE c.stamp,
                 has |-> [o \in Options |-> IF c.answer.options[o] # "" THEN c.answer.options[o] ELSE c.has[o]]]]
        /\ UNCHANGED <<clock, tenantOpen, group, stamps, reused, fleet, details, watcher, edits>>

\* The request or its answer is lost, or the client is started again.
Lose(d) ==
    /\ client[d].at # "idle"
    /\ client' = [client EXCEPT ![d].at = "idle", ![d].answer = NoAnswer]
    /\ UNCHANGED <<clock, tenantOpen, group, stamps, reused, fleet, details, watcher, edits>>

-----------------------------------------------------------------------------
(* client_api.py *)

\* client_heartbeat: a heartbeat un-hides a device that was deleted.
Unhidden(row) == IF row = "hidden" THEN "shown" ELSE row

\* Mutant: a heartbeat that echoes a newer stamp than the group's isn't answered.
NewerThan(stamp, sent) == stamp > sent

\* client_heartbeat: `client_policy_ts != policy["policy_ts"]`
Differs(stamp, sent) == stamp # sent

\* What the heartbeat of a device in group g that echoed a stamp is answered.
Policy(g, sent) ==
    IF tenantOpen /\ g # NoGroup /\ group[g].stamp # 0 /\ Differs(group[g].stamp, sent)
    THEN [stamp |-> group[g].stamp, options |-> group[g].wants]
    ELSE NoAnswer

\* client_heartbeat, at once; the policy is read after the row was un-hidden.
Heartbeat(d) ==
    /\ client[d].at = "asking"
    /\ details' = [details EXCEPT ![d] = [row |-> TRUE, stamp |-> client[d].sent]]
    /\ fleet' = [fleet EXCEPT ![d].row = Unhidden(@)]
    /\ client' = [client EXCEPT ![d].at = "answered",
                                ![d].answer = IF fleet'[d].row = "shown" THEN Policy(fleet[d].group, client[d].sent)
                                              ELSE NoAnswer]
    /\ UNCHANGED <<clock, tenantOpen, group, stamps, reused, watcher, edits>>

\* client_sysinfo, whenever the client has something to say.
SysInfo(d) ==
    /\ ~details[d].row
    /\ details' = [details EXCEPT ![d].row = TRUE]
    /\ UNCHANGED <<clock, tenantOpen, group, stamps, reused, fleet, client, watcher, edits>>

-----------------------------------------------------------------------------
(* The watcher's thread, and Sync. *)

Registered(row) == IF row = "none" THEN "shown" ELSE row

\* Mutant: only a device that is shown counts as known.
RegisteredAnew(row) == "shown"

\* INSERT OR IGNORE: whatever row is there stays.
Announced(row) == Registered(row)

\* _check_new_devices reads the fleet ...
WatcherReads ==
    /\ watcher = {}
    /\ watcher' = {d \in Devices : fleet[d].row = "none"} /\ watcher' # {}
    /\ UNCHANGED <<clock, tenantOpen, group, stamps, reused, fleet, details, client, edits>>

\* ... and adds what it didn't find.
WatcherAdds ==
    /\ watcher # {}
    /\ fleet' = [d \in Devices |-> IF d \in watcher THEN [fleet[d] EXCEPT !.row = Announced(@)] ELSE fleet[d]]
    /\ watcher' = {}
    /\ UNCHANGED <<clock, tenantOpen, group, stamps, reused, details, client, edits>>

\* devices_sync
Sync ==
    /\ Edit
    /\ fleet' = [d \in Devices |-> [fleet[d] EXCEPT !.row = Registered(@)]]
    /\ UNCHANGED <<clock, tenantOpen, group, stamps, reused, details, client, watcher>>

-----------------------------------------------------------------------------
(* What people do. *)

\* device_edit, device_assign_group: to one of the tenant's groups, or (device_edit) to none.
Assign(d, g) ==
    /\ Edit
    /\ g \in {NoGroup} \cup {h \in Groups : group[h].there}
    /\ fleet' = [fleet EXCEPT ![d] = [row |-> Registered(@.row), group |-> g]]
    /\ UNCHANGED <<clock, tenantOpen, group, stamps, reused, details, client, watcher>>

\* device_delete: hidden, and what it reported forgotten.
Delete(d) ==
    /\ Edit
    /\ fleet' = [fleet EXCEPT ![d].row = "hidden"]
    /\ details' = [details EXCEPT ![d] = [row |-> FALSE, stamp |-> 0]]
    /\ UNCHANGED <<clock, tenantOpen, group, stamps, reused, client, watcher>>

\* Mutant: the time of the save.
SaveTime(g) == clock

\* Strictly newer than the group's own last.
NewStamp(g) == IF clock > group[g].stamp THEN clock ELSE group[g].stamp + 1

\* The new stamp, if it was given out before: by another group within the same second, or by this one before it
\* managed nothing for a while.  A device that moved between the two, or missed the while, takes the one's settings
\* for the other's.
Repeated(g) == {IF clock > group[g].stamp THEN clock ELSE group[g].stamp + 1} \cap stamps

\* group_client_settings
SaveSettings(g, wants) ==
    /\ Edit
    /\ group[g].there /\ wants # group[g].wants
    /\ IF wants = Unmanaged
       THEN /\ group' = [group EXCEPT ![g].wants = wants, ![g].stamp = 0]
            /\ UNCHANGED <<stamps, reused>>
       ELSE /\ group' = [group EXCEPT ![g].wants = wants, ![g].stamp = NewStamp(g)]
            /\ stamps' = stamps \cup {NewStamp(g)}
            /\ reused' = reused \cup Repeated(g)
    /\ UNCHANGED <<clock, tenantOpen, fleet, details, client, watcher>>

\* group_delete: only without devices; hidden ones lose the group.
GroupDelete(g) ==
    /\ Edit
    /\ group[g].there
    /\ \A d \in Devices : fleet[d].group = g => fleet[d].row # "shown"
    /\ group' = [group EXCEPT ![g] = [there |-> FALSE, wants |-> Unmanaged, stamp |-> 0]]
    /\ fleet' = [d \in Devices |-> [fleet[d] EXCEPT !.group = IF @ = g THEN NoGroup ELSE @]]
    /\ UNCHANGED <<clock, tenantOpen, stamps, reused, details, client, watcher>>

\* The tenant is suspended or reactivated.
DeviceTenant ==
    /\ Edit
    /\ tenantOpen' = ~tenantOpen
    /\ UNCHANGED <<clock, group, stamps, reused, fleet, details, client, watcher>>

Second ==
    /\ clock < MaxClock
    /\ clock' = clock + 1
    /\ UNCHANGED <<tenantOpen, group, stamps, reused, fleet, details, client, watcher, edits>>

DevicesNext ==
    \/ \E d \in Devices : Beat(d) \/ Heartbeat(d) \/ Apply(d) \/ Lose(d) \/ SysInfo(d) \/ Delete(d)
    \/ \E d \in Devices, g \in Groups \cup {NoGroup} : Assign(d, g)
    \/ \E g \in Groups, wants \in Wishes : SaveSettings(g, wants)
    \/ \E g \in Groups : GroupDelete(g)
    \/ WatcherReads \/ WatcherAdds \/ Sync \/ DeviceTenant \/ Second

\* A client goes on sending heartbeats, and its network isn't down for good.
DevicesFairness ==
    \A d \in Devices :
        /\ WF_deviceVars(Beat(d))
        /\ SF_deviceVars(Heartbeat(d))
        /\ SF_deviceVars(Apply(d))

DevicesSpec == DevicesInit /\ [][DevicesNext]_deviceVars /\ DevicesFairness

-----------------------------------------------------------------------------
(* Properties. *)

\* The client has every setting its group manages.
Obeys(d) ==
    LET g == fleet[d].group
    IN  g # NoGroup => \A o \in Options : group[g].wants[o] # "" => client[d].has[o] = group[g].wants[o]

\* group_detail's `applied`: shown in a group that manages something, the stamp it echoed last is the group's.
Applied(d) ==
    /\ fleet[d].row = "shown" /\ fleet[d].group # NoGroup
    /\ group[fleet[d].group].stamp # 0
    /\ details[d].stamp = group[fleet[d].group].stamp

\* The stamp the client would echo now is its group's: client_heartbeat has nothing to answer it.
Echoes(d) == fleet[d].group # NoGroup /\ group[fleet[d].group].stamp = client[d].stamp /\ client[d].stamp # 0

\* A client isn't left alone with settings that aren't its group's: when the stamp it echoes is the group's, it
\* has what the group manages, however the device was moved, groups were saved and answers were lost: unless that
\* very stamp was given out twice, which seconds can't exclude (client_heartbeat, group_client_settings).
EchoedHasApplied == \A d \in Devices : Echoes(d) /\ client[d].stamp \notin reused => Obeys(d)

\* A device the group page counts as having applied the settings (group_detail's `applied`) has applied them, or
\* echoes another stamp next: it was moved to another group and back between two heartbeats.  Unless, again, the
\* stamp was given out twice.
CountedHasApplied ==
    \A d \in Devices : Applied(d) /\ details[d].stamp \notin reused => Obeys(d) \/ client[d].stamp # details[d].stamp

\* routes/devices.py:246: a deleted device comes back only when it communicates, whatever Sync, the watcher or
\* an edit does meanwhile.
OnlyItselfComesBack ==
    [][\A d \in Devices : fleet[d].row = "hidden" /\ fleet'[d].row # "hidden" => client[d].at = "asking" /\ client'[d].at = "answered"]_deviceVars

\* What a group manages reaches each of its devices in the end, however answers are lost and devices moved,
\* deleted and brought back, unless the stamp was given out twice (group_client_settings, client_heartbeat).
PolicyArrives ==
    \A d \in Devices : []<>(Obeys(d) \/ ~tenantOpen \/ fleet[d].row = "none" \/ group[fleet[d].group].stamp \in reused)
=============================================================================
