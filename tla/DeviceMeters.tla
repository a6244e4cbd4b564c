----------------------------- MODULE DeviceMeters -----------------------------
(***************************************************************************)
(* Metered devices of one tenant (billing_usage.py record_peaks and           *)
(* report_meters): the maintenance thread keeps each day's highest count it    *)
(* saw and, once the day is over, sends it to Stripe's meter.  Midnight may     *)
(* pass between any two steps; a call may fail, or succeed with its answer      *)
(* lost; the dashboard may restart; the tenant may change its plan.             *)
(*                                                                          *)
(* Stripe accepts one event per identifier and refuses the next: its window     *)
(* for that is taken to be longer than any retry.                               *)
(***************************************************************************)
EXTENDS Naturals

CONSTANTS
    MaxDay,         \* days, from 1
    MaxDevices      \* bound on the devices

ASSUME MetersAssumption == MaxDay \in Nat \ {0} /\ MaxDevices \in Nat

VARIABLES
    fleetSize,    \* the tenant's devices
    today,        \* the day (UTC)
    metered,      \* the recorded plan's device price is metered
    peaks,        \* billing_device_peaks: by day the peak, or NoPeak
    reported,     \* days with reported_at
    events,       \* at Stripe: by day the value of the event with its identifier, or NoPeak
    meterPass     \* the hourly pass: its step, its day, the rows it read and hasn't sent

meterVars == <<fleetSize, today, metered, peaks, reported, events, meterPass>>

Days == 1 .. MaxDay
NoPeak == MaxDevices + 1
Resting == [at |-> "idle", day |-> 0, rows |-> {}]

MetersInit ==
    /\ fleetSize = 0 /\ today = 1 /\ metered \in BOOLEAN
    /\ peaks = [d \in Days |-> NoPeak]
    /\ reported = {}
    /\ events = [d \in Days |-> NoPeak]
    /\ meterPass = Resting

Peak == [day : Days, value : 0 .. MaxDevices]

MetersTypeOK ==
    /\ fleetSize \in 0 .. MaxDevices /\ today \in Days /\ metered \in BOOLEAN
    /\ peaks \in [Days -> 0 .. NoPeak] /\ reported \subseteq Days /\ events \in [Days -> 0 .. NoPeak]
    /\ meterPass \in [at : {"idle", "record", "report", "send", "mark"}, day : 0 .. MaxDay, rows : SUBSET Peak]

-----------------------------------------------------------------------------
(* What changes around the pass. *)

DevicesComeAndGo ==
    /\ fleetSize' \in (0 .. MaxDevices) \ {fleetSize}
    /\ UNCHANGED <<today, metered, peaks, reported, events, meterPass>>

Midnight ==
    /\ today < MaxDay /\ today' = today + 1
    /\ UNCHANGED <<fleetSize, metered, peaks, reported, events, meterPass>>

\* change_plan, plans.save.
PlanChanges ==
    /\ metered' = ~metered
    /\ UNCHANGED <<fleetSize, today, peaks, reported, events, meterPass>>

Restart ==
    /\ meterPass # Resting /\ meterPass' = Resting
    /\ UNCHANGED <<fleetSize, today, metered, peaks, reported, events>>

-----------------------------------------------------------------------------
(* The hourly pass. *)

\* record_peaks asks what day it is ...
BeginPass ==
    /\ meterPass = Resting
    /\ meterPass' = [Resting EXCEPT !.at = "record", !.day = today]
    /\ UNCHANGED <<fleetSize, today, metered, peaks, reported, events>>

Higher(a, b) == IF a = NoPeak \/ a < b THEN b ELSE a

\* ... and then counts, for a metered plan whose subscription is live.
RecordPeak ==
    /\ meterPass.at = "record"
    /\ peaks' \in {peaks} \cup IF metered THEN {[peaks EXCEPT ![meterPass.day] = Higher(@, fleetSize)]} ELSE {}
    /\ meterPass' = [Resting EXCEPT !.at = "report"]
    /\ UNCHANGED <<fleetSize, today, metered, reported, events>>

\* Mutant: today's peak goes out too.
Begun(d) == d <= today
Over(d) == d < today

\* report_meters: the peaks of days that are over, not yet reported, as they are now.
ReadPeaks ==
    /\ meterPass.at = "report"
    /\ meterPass' = [Resting EXCEPT !.at = "send",
                        !.rows = {[day |-> d, value |-> peaks[d]] :
                                    d \in {e \in Days \ reported : Over(e) /\ peaks[e] # NoPeak}}]
    /\ UNCHANGED <<fleetSize, today, metered, peaks, reported, events>>

Without(r) == [meterPass EXCEPT !.rows = @ \ {r}]

\* The event is created, or its identifier is known already: either way the day was counted.
SendPeak(r) ==
    /\ meterPass.at = "send" /\ r \in meterPass.rows /\ metered
    /\ events' = IF events[r.day] = NoPeak THEN [events EXCEPT ![r.day] = r.value] ELSE events
    /\ meterPass' = [meterPass EXCEPT !.at = "mark", !.day = r.day]
    /\ UNCHANGED <<fleetSize, today, metered, peaks, reported>>

\* No metered price any more; or the call fails, perhaps with its event created.
SkipPeak(r) ==
    /\ meterPass.at = "send" /\ r \in meterPass.rows
    /\ \/ UNCHANGED events
       \/ metered /\ events[r.day] = NoPeak /\ events' = [events EXCEPT ![r.day] = r.value]
    /\ meterPass' = Without(r)
    /\ UNCHANGED <<fleetSize, today, metered, peaks, reported>>

MarkReported ==
    /\ meterPass.at = "mark"
    /\ reported' = reported \cup {meterPass.day}
    /\ meterPass' = [at |-> "send", day |-> 0, rows |-> {r \in meterPass.rows : r.day # meterPass.day}]
    /\ UNCHANGED <<fleetSize, today, metered, peaks, events>>

EndPass ==
    /\ meterPass.at = "send" /\ meterPass.rows = {}
    /\ meterPass' = Resting
    /\ UNCHANGED <<fleetSize, today, metered, peaks, reported, events>>

MetersNext ==
    \/ DevicesComeAndGo \/ Midnight \/ PlanChanges \/ Restart
    \/ BeginPass \/ RecordPeak \/ ReadPeaks \/ MarkReported \/ EndPass
    \/ \E r \in meterPass.rows : SendPeak(r) \/ SkipPeak(r)

MetersSpec == MetersInit /\ [][MetersNext]_meterVars

-----------------------------------------------------------------------------
(* Properties. *)

\* What Stripe was told of a day is the day's peak, for good: it went out when no pass could raise it any more,
\* whatever call is retried and whenever midnight falls; a day marked as reported was counted (report_meters).
BilledAtPeak ==
    \A d \in Days : /\ events[d] # NoPeak => events[d] = peaks[d]
                    /\ d \in reported => events[d] # NoPeak
=============================================================================
