-------------------------------- MODULE MCDevices --------------------------------
(***************************************************************************)
(* A tenant's devices and what is billed for them, on small instances.  These *)
(* components share no state, so a run takes one of them, chosen at the start, *)
(* and leaves the others in their initial states: what holds of a component    *)
(* here is what holds of it alone.  The values of the constants are in the      *)
(* .cfg file, and below for the two components whose names would clash.          *)
(***************************************************************************)
EXTENDS DeviceMeters, DevicePolicy, DeviceSessions

VARIABLES
    turn,                                                                         \* the component of this run
    alive, channelUp, beatAge, relayLeft, previous, news, toldOn, missed, faults,  \* DeviceWatch
    devices, plan, priceOf, item, saved, recent, due, pusher, upsets              \* LicensedQuantities

Watch == INSTANCE DeviceWatch WITH
    Watched <- {"d1", "d2"}, Seen <- {"d1"}, Online <- 1, Channel <- 1, Reporting <- 3, Grace <- 1, Registration <- 2, MaxFaults <- 1

Quantities == INSTANCE LicensedQuantities WITH
    PlanCount <- 2, MaxDevices <- 1, MaxUpsets <- 2

watchVars == <<alive, channelUp, beatAge, relayLeft, previous, news, toldOn, missed, faults>>
quantityVars == <<devices, plan, priceOf, item, saved, recent, due, pusher, upsets>>

allVars == <<turn, meterVars, deviceVars, sessionVars, watchVars, quantityVars>>

\* Of the idle components' initial states, one.
AllInit ==
    /\ turn \in {"policy", "sessions", "watch", "quantities", "meters"}
    /\ MetersInit /\ (turn # "meters" => metered)
    /\ Quantities!QuantitiesInit /\ (turn # "quantities" => plan = 1)
    /\ DevicesInit
    /\ SessionsInit
    /\ Watch!WatchInit

AllNext ==
    \/ turn = "meters" /\ MetersNext /\ UNCHANGED <<turn, deviceVars, sessionVars, watchVars, quantityVars>>
    \/ turn = "policy" /\ DevicesNext /\ UNCHANGED <<turn, meterVars, sessionVars, watchVars, quantityVars>>
    \/ turn = "sessions" /\ SessionsNext /\ UNCHANGED <<turn, meterVars, deviceVars, watchVars, quantityVars>>
    \/ turn = "watch" /\ Watch!WatchNext /\ UNCHANGED <<turn, meterVars, deviceVars, sessionVars, quantityVars>>
    \/ turn = "quantities" /\ Quantities!QuantitiesNext /\ UNCHANGED <<turn, meterVars, deviceVars, sessionVars, watchVars>>

\* The components' fairness, each in its own runs.
AllFairness ==
    /\ WF_deviceVars(turn = "policy" /\ Beat("d1"))
    /\ SF_deviceVars(turn = "policy" /\ Heartbeat("d1"))
    /\ SF_deviceVars(turn = "policy" /\ Apply("d1"))
    /\ WF_sessionVars(turn = "sessions" /\ SessionsTick)
    /\ WF_sessionVars(turn = "sessions" /\ Sweeps)
    /\ WF_watchVars(turn = "watch" /\ Watch!WatchTick)
    /\ WF_watchVars(turn = "watch" /\ Watch!WatchPass)
    /\ WF_watchVars(turn = "watch" /\ Watch!TellsNext)
    /\ WF_quantityVars(turn = "quantities" /\ (Quantities!DayPasses \/ Quantities!HourPasses))
    /\ WF_quantityVars(turn = "quantities" /\ Quantities!Reconcile)
    /\ WF_quantityVars(turn = "quantities" /\ Quantities!RecordPlan)
    /\ \A t \in Quantities!Threads :
           WF_quantityVars(turn = "quantities" /\ Quantities!ThreadStep(t))

AllSpec == AllInit /\ [][AllNext]_allVars /\ AllFairness

-----------------------------------------------------------------------------
(* The properties of the two, by their own names. *)

\* The last notice about a device that stays off isn't that it is online (DeviceWatch).
LastWordIsTrue == Watch!LastWordIsTrue

\* What Stripe charges comes to be what the tenant has, while the item is the plan's (LicensedQuantities).
QuantityArrives == Quantities!QuantityArrives
=============================================================================
