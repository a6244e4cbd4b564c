----------------------------- MODULE DeviceWatch -----------------------------
(***************************************************************************)
(* Which of a tenant's devices are online, and what its admins are told     *)
(* when that changes (routes/api.py).                                       *)
(*                                                                          *)
(* A device's heartbeat ages, and so does what the relay itself knows of it: *)
(* a TCP connection seen by the poll of ss, and the registration with hbbs.  *)
(* A tick is a minute; a pass of the watcher comes at any time, since a pass *)
(* over many tenants takes long, and is in steps: the statuses are kept for  *)
(* the next pass before the notices go out one by one.  A device may fail,   *)
(* the channel heartbeats come through, a pass, and the process, which keeps *)
(* the statuses in memory.                                                  *)
(*                                                                          *)
(* Left out: several devices behind one address, hidden devices, groups,    *)
(* the wording and sending of a notice.                                     *)
(***************************************************************************)
EXTENDS Integers, FiniteSets

CONSTANTS
    Watched,        \* the devices
    Seen,           \* bound: those that use the relay and have sessions; the others only heartbeat
    Online,         \* _HEARTBEAT_ONLINE_S, in ticks; the half of it is _HEARTBEAT_SESSION_S
    Channel,        \* _HEARTBEAT_CHANNEL_S
    Reporting,      \* _HEARTBEAT_REPORTING_S
    Grace,          \* _ONLINE_GRACE_S
    Registration,   \* half an hour
    MaxFaults       \* bound on passes and processes that fail

VARIABLES
    alive,      \* the devices that are on
    channelUp,  \* does the device API answer
    beatAge,    \* by device: ticks since the last heartbeat (device_info.heartbeat_at)
    relayLeft,  \* by device: ticks for which a connection or the registration still counts
    previous,   \* _prev_status: what the last pass found, unknown before the first
    news,       \* the devices that pass has yet to give notice of
    toldOn,     \* the devices that, by the last notice about them, came online
    missed,     \* those of them that went off with no notice
    faults

watchVars == <<alive, channelUp, beatAge, relayLeft, previous, news, toldOn, missed, faults>>

Statuses == {"online", "in session", "offline"}

WatchInit ==
    /\ alive = Watched
    /\ channelUp = TRUE
    /\ beatAge = [d \in Watched |-> Reporting]
    /\ relayLeft = [d \in Watched |-> IF d \in Seen THEN Registration ELSE 0]
    /\ previous = [d \in Watched |-> "unknown"]
    /\ news = {}
    /\ toldOn = {}
    /\ missed = {}
    /\ faults = 0

WatchTypeOK ==
    /\ alive \subseteq Watched
    /\ channelUp \in BOOLEAN
    /\ beatAge \in [Watched -> 0 .. Reporting]
    /\ relayLeft \in [Watched -> 0 .. Registration]
    /\ previous \in [Watched -> Statuses \cup {"unknown"}]
    /\ news \subseteq Watched
    /\ toldOn \subseteq Watched
    /\ missed \subseteq toldOn
    /\ faults \in 0 .. MaxFaults

-----------------------------------------------------------------------------
(* Devices. *)

\* What a connection seen now, or a registration, adds to what is left of the older ones.
Longer(left, n) == IF left < n THEN n ELSE left

\* A minute: heartbeats from the devices that are on, if the API answers; a device that is on may have its connection
\* seen and may register anew.
WatchTick ==
    LET beats == IF channelUp THEN alive ELSE {}
        fading(d) == IF relayLeft[d] > 0 THEN relayLeft[d] - 1 ELSE 0
    IN  /\ beatAge' = [d \in Watched |-> IF d \in beats THEN 0
                                         ELSE IF beatAge[d] < Reporting THEN beatAge[d] + 1 ELSE Reporting]
        /\ \E seen \in SUBSET (alive \cap Seen) : \E anew \in SUBSET (alive \cap Seen) :
             relayLeft' = [d \in Watched |-> IF d \in anew THEN Registration
                                             ELSE IF d \in seen THEN Longer(fading(d), Grace) ELSE fading(d)]
        /\ UNCHANGED <<alive, channelUp, previous, news, toldOn, missed, faults>>

\* A device is switched on or off.
Switched(d) ==
    /\ alive' = IF d \in alive THEN alive \ {d} ELSE alive \cup {d}
    /\ UNCHANGED <<channelUp, beatAge, relayLeft, previous, news, toldOn, missed, faults>>

\* The channel fails or works again (port 21114 closed, say).
ChannelSwitched ==
    /\ channelUp' = ~channelUp
    /\ UNCHANGED <<alive, beatAge, relayLeft, previous, news, toldOn, missed, faults>>

-----------------------------------------------------------------------------
(* _compute_status *)

\* _heartbeat_ages: the devices whose heartbeat decides, none when the channel looks down.
Reports ==
    LET heard == {d \in Watched : beatAge[d] < Reporting}
    IN  IF \E d \in heard : beatAge[d] <= Channel THEN heard ELSE {}

IsOn(d) == IF d \in Reports THEN beatAge[d] < Online ELSE relayLeft[d] > 0

\* The status of each device, when the heartbeats of the busy ones list connections.
StatusOf(busy) ==
    [d \in Watched |->
        IF ~IsOn(d) THEN "offline"
        ELSE IF d \in Reports /\ d \in busy THEN "in session" ELSE "online"]

-----------------------------------------------------------------------------
(* _check_offline_transitions, one pass of the watcher. *)

\* Mutant: a device that was in a session isn't missed.
WasOnlyOnline(d) == previous[d] = "online"

WasOn(d) == previous[d] \in {"online", "in session"}

\* The pass finds something to tell of d.
Changed(d) == (~IsOn(d) /\ WasOn(d)) \/ (IsOn(d) /\ previous[d] = "offline")

\* The statuses are kept for the next pass; the first one of a process tells nothing.
WatchPass ==
    /\ news = {}
    /\ \E busy \in SUBSET Seen : previous' = StatusOf(busy)
    /\ news' = {d \in Watched : Changed(d)}
    /\ missed' = missed \cup {d \in toldOn : ~IsOn(d) /\ previous[d] = "unknown"}
    /\ UNCHANGED <<alive, channelUp, beatAge, relayLeft, toldOn, faults>>

\* The next notice: of the devices that went off first.
Tell(d) ==
    /\ d \in news
    /\ previous[d] = "offline" \/ \A e \in news : previous[e] # "offline"
    /\ news' = news \ {d}
    /\ toldOn' = IF previous[d] = "offline" THEN toldOn \ {d} ELSE toldOn \cup {d}
    /\ missed' = missed \ {d}
    /\ UNCHANGED <<alive, channelUp, beatAge, relayLeft, previous, faults>>

\* Devices whose going off would be forgotten with the pass, so that the older notice stays the last.
Untold == {d \in news \cap toldOn : previous[d] = "offline"}

\* An exception ends the pass, and is swallowed (watch_tenant_devices).
PassFails ==
    /\ news # {} /\ faults < MaxFaults
    /\ news' = {}
    /\ missed' = missed \cup Untold
    /\ faults' = faults + 1
    /\ UNCHANGED <<alive, channelUp, beatAge, relayLeft, previous, toldOn>>

\* The process starts anew: _prev_status is empty, and so is what the poll of ss had seen.
WatcherRestarts ==
    /\ faults < MaxFaults
    /\ previous' = [d \in Watched |-> "unknown"]
    /\ news' = {}
    /\ missed' = missed \cup Untold
    /\ faults' = faults + 1
    /\ relayLeft' \in [Watched -> 0 .. Registration]
    /\ \A d \in Watched : relayLeft'[d] <= relayLeft[d] /\ (relayLeft[d] > Grace => relayLeft'[d] = relayLeft[d])
    /\ UNCHANGED <<alive, channelUp, beatAge, toldOn>>

WatchNext ==
    \/ WatchTick \/ ChannelSwitched \/ WatchPass \/ PassFails \/ WatcherRestarts
    \/ \E d \in Watched : Switched(d) \/ Tell(d)

TellsNext == \E d \in Watched : Tell(d)

\* Time passes and the watcher's thread goes on.
WatchFairness == WF_watchVars(WatchTick) /\ WF_watchVars(WatchPass) /\ WF_watchVars(TellsNext)

WatchSpec == WatchInit /\ [][WatchNext]_watchVars /\ WatchFairness

-----------------------------------------------------------------------------
(* Properties. *)

\* A device that was switched off for good is found offline, and the last word about it isn't that it came online,
\* whatever the other devices and the channel do: unless an exception or a restart of the process has swallowed the
\* notice that it went off (_compute_status, _check_offline_transitions).
LastWordIsTrue ==
    \A d \in Watched :
        <>[](d \notin alive) => <>[](previous[d] = "offline" /\ (d \in toldOn => d \in missed))
=============================================================================
