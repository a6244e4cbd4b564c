-------------------------- MODULE LicensedQuantities --------------------------
(***************************************************************************)
(* What a Stripe tenant's licensed subscription item counts (billing_usage.py *)
(* push_quantities, billing.py change_plan, plans.py save): the tenant's      *)
(* devices, pushed to Stripe by the maintenance thread hourly when they       *)
(* changed and daily in any case, by the console's resync, and replaced with  *)
(* the item when the tenant changes plan.  Each reads the control database,   *)
(* talks to Stripe in two calls and writes the database again; other threads  *)
(* run in between, a call may fail, or succeed with its answer lost, and the  *)
(* dashboard may restart.                                                     *)
(*                                                                          *)
(* One licensed unit stands for technicians and devices, one hour for the     *)
(* debounce.  Left out: flat and metered prices (DeviceMeters), proration,    *)
(* and what a sync does with the status (TenantLifecycle).                    *)
(***************************************************************************)
EXTENDS Naturals

CONSTANTS
    PlanCount,      \* public plans with a licensed price
    MaxDevices,     \* bound on the devices
    MaxUpsets       \* bound on changes of devices, prices and plans, failures and restarts

VARIABLES
    devices,     \* the tenant's devices
    plan,        \* billing_subscriptions.plan_id
    priceOf,     \* plan_prices: the price a plan's item has now
    item,        \* the item of the subscription at Stripe
    saved,       \* billing_subscriptions.quantities: what was last pushed, or Unset
    recent,      \* quantities_pushed_at is less than an hour ago
    due,         \* today's reconciliation isn't done
    pusher,      \* by thread: its step and what it has read
    upsets       \* how often something changed or failed

quantityVars == <<devices, plan, priceOf, item, saved, recent, due, pusher, upsets>>

Threads == {"maintenance", "console", "change"}
Unset == MaxDevices + 1
Plans == 1 .. PlanCount
Prices == 1 .. PlanCount + MaxUpsets
NoItem == [id |-> 0, price |-> 0, quantity |-> 0]
Quiet == [at |-> "idle", daily |-> FALSE, plan |-> 0, price |-> 0, want |-> 0, seen |-> NoItem]

QuantitiesInit ==
    /\ devices = 0
    /\ plan \in Plans
    /\ priceOf = [p \in Plans |-> p]
    /\ item = [id |-> 1, price |-> plan, quantity |-> 0]
    /\ saved = Unset /\ recent = FALSE /\ due = TRUE
    /\ pusher = [t \in Threads |-> Quiet]
    /\ upsets = 0

QuantitiesTypeOK ==
    /\ devices \in 0 .. MaxDevices /\ plan \in Plans /\ priceOf \in [Plans -> Prices]
    /\ item \in [id : 1 .. MaxUpsets + 1, price : Prices, quantity : 0 .. MaxDevices]
    /\ saved \in 0 .. Unset /\ recent \in BOOLEAN /\ due \in BOOLEAN
    /\ pusher \in [Threads -> [at : {"idle", "retrieve", "update", "save"}, daily : BOOLEAN, plan : Plans \cup {0},
                               price : Prices \cup {0}, want : 0 .. MaxDevices,
                               seen : [id : 0 .. MaxUpsets + 1, price : Prices \cup {0}, quantity : 0 .. MaxDevices]]]
    /\ upsets \in 0 .. MaxUpsets

-----------------------------------------------------------------------------
(* What changes around the pushes. *)

Upset == upsets < MaxUpsets /\ upsets' = upsets + 1

\* A client announces itself, an admin hides or restores a device.
DevicesChange ==
    /\ Upset /\ devices' \in (0 .. MaxDevices) \ {devices}
    /\ UNCHANGED <<plan, priceOf, item, saved, recent, due, pusher>>

\* plans.save: the plan's prices are deleted and written anew; a price Stripe doesn't know saves nothing.
SavePlan(p) ==
    /\ Upset /\ priceOf' = [priceOf EXCEPT ![p] = PlanCount + upsets + 1]
    /\ UNCHANGED <<devices, plan, item, saved, recent, due, pusher>>

HourPasses ==
    /\ recent /\ recent' = FALSE
    /\ UNCHANGED <<devices, plan, priceOf, item, saved, due, pusher, upsets>>

\* A reconciliation that began yesterday is yesterday's.
DayPasses ==
    /\ ~due \/ pusher["maintenance"].daily
    /\ due' = TRUE /\ pusher' = [pusher EXCEPT !["maintenance"].daily = FALSE]
    /\ UNCHANGED <<devices, plan, priceOf, item, saved, recent, upsets>>

-----------------------------------------------------------------------------
(* push_quantities. *)

\* Unforced: only when something changed, at most once an hour.
Changed == saved # devices /\ ~recent

\* Mutant: force is ignored.
OnlyChanged(forced) == Changed
Proceeds(forced) == forced \/ Changed

Idle(t) == pusher[t].at = "idle"

\* The plan's price and the count are read.
Counts(t, daily) ==
    /\ pusher' = [pusher EXCEPT ![t] = [at |-> "retrieve", daily |-> daily, plan |-> plan, price |-> priceOf[plan],
                                        want |-> devices, seen |-> NoItem]]
    /\ UNCHANGED <<devices, plan, priceOf, item, saved, recent, upsets>>

\* hourly, in the maintenance thread.
Hourly == Idle("maintenance") /\ Proceeds(FALSE) /\ Counts("maintenance", FALSE) /\ UNCHANGED due

\* reconcile, once a day in the same thread.
Reconcile ==
    /\ Idle("maintenance") /\ due
    /\ Proceeds(TRUE) /\ Counts("maintenance", TRUE) /\ UNCHANGED due

\* billing_sync, in a thread of the console.
Sync == Idle("console") /\ Proceeds(TRUE) /\ Counts("console", FALSE) /\ UNCHANGED due

\* change_plan, by a tenant's admin: the new plan's price, the count.
ChoosePlan(p) ==
    /\ Idle("change") /\ p # plan
    /\ Upset
    /\ pusher' = [pusher EXCEPT !["change"] = [at |-> "retrieve", daily |-> FALSE, plan |-> p, price |-> priceOf[p],
                                               want |-> devices, seen |-> NoItem]]
    /\ UNCHANGED <<devices, plan, priceOf, item, saved, recent, due>>

\* The subscription is fetched; a push has something to update if the item is the plan's and counts otherwise.
Retrieve(t) ==
    /\ pusher[t].at = "retrieve"
    /\ pusher' = [pusher EXCEPT ![t].seen = item,
                                ![t].at = IF t = "change" \/ (item.price = pusher[t].price /\ item.quantity # pusher[t].want)
                                            THEN "update" ELSE "save"]
    /\ UNCHANGED <<devices, plan, priceOf, item, saved, recent, due, upsets>>

\* Stripe's item after the update: counted anew, or replaced.
Updated(t) ==
    IF t = "change" THEN [id |-> item.id + 1, price |-> pusher[t].price, quantity |-> pusher[t].want]
    ELSE [item EXCEPT !.quantity = pusher[t].want]

\* Stripe updates the item that was fetched, if it is still there.
Update(t) ==
    /\ pusher[t].at = "update" /\ item.id = pusher[t].seen.id
    /\ item' = Updated(t)
    /\ pusher' = [pusher EXCEPT ![t].at = "save"]
    /\ UNCHANGED <<devices, plan, priceOf, saved, recent, due, upsets>>

Ends(t) ==
    /\ pusher' = [pusher EXCEPT ![t] = Quiet]
    /\ due' = (due /\ ~pusher[t].daily)

\* What was counted is saved, whatever Stripe's item is by now.
Save(t) ==
    /\ t # "change" /\ pusher[t].at = "save"
    /\ saved' = pusher[t].want /\ recent' = TRUE
    /\ Ends(t)
    /\ UNCHANGED <<devices, plan, priceOf, item, upsets>>

\* change_plan: the plan is recorded, and counts as never pushed.
RecordPlan ==
    /\ pusher["change"].at = "save"
    /\ plan' = pusher["change"].plan /\ saved' = Unset
    /\ Ends("change")
    /\ UNCHANGED <<devices, priceOf, item, recent, upsets>>

\* The item is gone: Stripe refuses.
Refused(t) ==
    /\ pusher[t].at = "update" /\ item.id # pusher[t].seen.id
    /\ Ends(t)
    /\ UNCHANGED <<devices, plan, priceOf, item, saved, recent, upsets>>

\* A call fails, with or without its effect.
CallFails(t) ==
    /\ pusher[t].at \in {"retrieve", "update"} /\ Upset
    /\ \/ UNCHANGED item
       \/ pusher[t].at = "update" /\ item.id = pusher[t].seen.id /\ item' = Updated(t)
    /\ Ends(t)
    /\ UNCHANGED <<devices, plan, priceOf, saved, recent>>

Restart ==
    /\ Upset /\ pusher' = [t \in Threads |-> Quiet]
    /\ UNCHANGED <<devices, plan, priceOf, item, saved, recent, due>>

ThreadStep(t) == Retrieve(t) \/ Update(t) \/ Save(t) \/ Refused(t)

QuantitiesNext ==
    \/ DevicesChange \/ HourPasses \/ DayPasses \/ Restart
    \/ Hourly \/ Reconcile \/ Sync \/ RecordPlan
    \/ \E p \in Plans : SavePlan(p) \/ ChoosePlan(p)
    \/ \E t \in Threads : ThreadStep(t) \/ CallFails(t)

\* Every thread goes on, and days pass.
QuantitiesFairness ==
    /\ WF_quantityVars(DayPasses \/ HourPasses)
    /\ WF_quantityVars(Reconcile)
    /\ WF_quantityVars(RecordPlan)
    /\ \A t \in Threads : WF_quantityVars(ThreadStep(t))

QuantitiesSpec == QuantitiesInit /\ [][QuantitiesNext]_quantityVars /\ QuantitiesFairness

-----------------------------------------------------------------------------
(* Properties. *)

\* Once devices, plans and failures stop, Stripe comes to charge for the devices there are and goes on doing so,
\* however pushes crossed before, as long as the item has the price of the plan the tenant is recorded on
\* (push_quantities, reconcile).
QuantityArrives == <>[](item.price = priceOf[plan] => item.quantity = devices)

\* The claim of TENANCY.md:283-284, quantities are pushed when they change and daily, without that condition.
PushedDaily == <>[](item.quantity = devices)
=============================================================================
