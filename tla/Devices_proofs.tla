----------------------------- MODULE Devices_proofs -----------------------------
(***************************************************************************)
(* A tenant's devices, for every number of devices, groups, days and edits.   *)
(*                                                                          *)
(* DeviceMeters: what makes BilledAtPeak inductive is that a day with an event  *)
(* is over, so that no recording begins for it any more; that one begun before    *)
(* midnight records a day without event; and that what is being sent still is     *)
(* the peak.                                                                    *)
(*                                                                          *)
(* DevicePolicy: what makes EchoedHasApplied inductive is that a stamp means one  *)
(* state of one group's settings, for good: a new one was never given out, so      *)
(* that neither a client nor an answer under way holds it already.                *)
(*                                                                          *)
(* DeviceSessions: what makes RepeatsCountOnce inductive is that every row of a   *)
(* connection began after the post that announced it, so that while the post is    *)
(* repeated no row is too old to be found, and that one row at most is open.        *)
(***************************************************************************)
EXTENDS DeviceMeters, DevicePolicy, DeviceSessions, FiniteSetTheorems, TLAPS

-----------------------------------------------------------------------------
(* DeviceMeters. *)

\* A day with an event is over, and isn't being recorded.
CountedIsOver ==
    \A d \in Days : events[d] # NoPeak => /\ d < today
                                          /\ meterPass.at = "record" => d < meterPass.day

\* What is being sent is the peak of a day that is over; what is being marked has an event.
SendsPeaks ==
    /\ meterPass.at \in {"send", "mark"} =>
          \A r \in meterPass.rows : r.day < today /\ r.value = peaks[r.day]
    /\ meterPass.at = "mark" => meterPass.day \in Days /\ events[meterPass.day] # NoPeak
    /\ meterPass.at = "record" => meterPass.day \in Days /\ meterPass.day <= today

MetersInv == MetersTypeOK /\ BilledAtPeak /\ CountedIsOver /\ SendsPeaks

\* NoPeak is no count of devices.
LEMMA NoPeakIsNoCount == NoPeak \in Nat /\ NoPeak \notin 0 .. MaxDevices /\ 0 .. MaxDevices \subseteq 0 .. NoPeak
  BY MetersAssumption DEF MetersAssumption, NoPeak

\* The initial states.
LEMMA InitMeters == MetersInit => MetersInv
  <1> SUFFICES ASSUME MetersInit PROVE MetersInv
    OBVIOUS
  <1> USE DEF MetersInit, Resting
  <1>1. MetersTypeOK
    BY MetersAssumption, NoPeakIsNoCount DEF MetersTypeOK, MetersAssumption, Days, Peak
  <1>2. BilledAtPeak /\ CountedIsOver /\ SendsPeaks
    BY DEF BilledAtPeak, CountedIsOver, SendsPeaks
  <1> QED BY <1>1, <1>2 DEF MetersInv

\* The types, kept by every step.
LEMMA MetersTypeStep == MetersTypeOK /\ SendsPeaks /\ [MetersNext]_meterVars => MetersTypeOK'
  <1> SUFFICES ASSUME MetersTypeOK, SendsPeaks, [MetersNext]_meterVars PROVE MetersTypeOK'
    OBVIOUS
  <1> USE DEF MetersTypeOK
  <1>1. CASE DevicesComeAndGo
    BY <1>1 DEF DevicesComeAndGo
  <1>2. CASE Midnight
    BY <1>2, MetersAssumption DEF Midnight, Days, MetersAssumption
  <1>3. CASE PlanChanges
    BY <1>3 DEF PlanChanges
  <1>4. CASE Restart
    BY <1>4, MetersAssumption DEF Restart, Resting, MetersAssumption
  <1>5. CASE BeginPass
    <2>1. meterPass' = [at |-> "record", day |-> today, rows |-> {}]
      BY <1>5 DEF BeginPass, Resting
    <2>2. today \in 0 .. MaxDay
      BY MetersAssumption DEF Days, MetersAssumption
    <2>3. meterPass' \in [at : {"idle", "record", "report", "send", "mark"}, day : 0 .. MaxDay, rows : SUBSET Peak]
      BY <2>1, <2>2
    <2> QED BY <1>5, <2>3 DEF BeginPass
  <1>6. CASE RecordPeak
    <2>1. meterPass' \in [at : {"idle", "record", "report", "send", "mark"}, day : 0 .. MaxDay, rows : SUBSET Peak]
      BY <1>6, MetersAssumption DEF RecordPeak, Resting, MetersAssumption
    <2>2. \A a \in 0 .. NoPeak : Higher(a, fleetSize) \in 0 .. NoPeak
      BY NoPeakIsNoCount DEF Higher
    <2>3. peaks' \in [Days -> 0 .. NoPeak]
      BY <1>6, <2>2 DEF RecordPeak
    <2> QED BY <1>6, <2>1, <2>3 DEF RecordPeak
  <1>7. CASE ReadPeaks
    <2> DEFINE Read == {[day |-> d, value |-> peaks[d]] : d \in {e \in Days \ reported : Over(e) /\ peaks[e] # NoPeak}}
    <2>1. \A d \in Days : peaks[d] # NoPeak => peaks[d] \in 0 .. MaxDevices
      BY MetersAssumption DEF NoPeak, MetersAssumption
    <2>2. Read \subseteq Peak
      BY <2>1 DEF Peak
    <2>3. meterPass' = [at |-> "send", day |-> 0, rows |-> Read]
      BY <1>7 DEF ReadPeaks, Resting
    <2>4. 0 \in 0 .. MaxDay
      BY MetersAssumption DEF MetersAssumption
    <2> HIDE DEF Read
    <2>5. meterPass' \in [at : {"idle", "record", "report", "send", "mark"}, day : 0 .. MaxDay, rows : SUBSET Peak]
      BY <2>2, <2>3, <2>4
    <2> QED BY <1>7, <2>5 DEF ReadPeaks
  <1>8. ASSUME NEW r \in meterPass.rows, SendPeak(r) PROVE MetersTypeOK'
    <2>1. r \in Peak
      BY <1>8
    <2>2. events' \in [Days -> 0 .. NoPeak]
      BY <1>8, <2>1, NoPeakIsNoCount DEF SendPeak, Peak
    <2>3. r.day \in 0 .. MaxDay
      BY <2>1, MetersAssumption DEF Peak, Days, MetersAssumption
    <2>4. meterPass' \in [at : {"idle", "record", "report", "send", "mark"}, day : 0 .. MaxDay, rows : SUBSET Peak]
      BY <1>8, <2>3 DEF SendPeak
    <2> QED BY <1>8, <2>2, <2>4 DEF SendPeak
  <1>9. ASSUME NEW r \in meterPass.rows, SkipPeak(r) PROVE MetersTypeOK'
    <2>1. r \in Peak
      BY <1>9
    <2>2. events' \in [Days -> 0 .. NoPeak]
      BY <1>9, <2>1, NoPeakIsNoCount DEF SkipPeak, Peak
    <2> QED BY <1>9, <2>1, <2>2 DEF SkipPeak, Without, Peak
  <1>10. CASE MarkReported
    <2>1. meterPass' \in [at : {"idle", "record", "report", "send", "mark"}, day : 0 .. MaxDay, rows : SUBSET Peak]
      BY <1>10, MetersAssumption DEF MarkReported, MetersAssumption
    <2>2. reported' \subseteq Days
      BY <1>10 DEF MarkReported, SendsPeaks
    <2> QED BY <1>10, <2>1, <2>2 DEF MarkReported
  <1>11. CASE EndPass
    BY <1>11, MetersAssumption DEF EndPass, Resting, MetersAssumption
  <1>12. CASE UNCHANGED meterVars
    BY <1>12 DEF meterVars
  <1> QED
    BY <1>1, <1>2, <1>3, <1>4, <1>5, <1>6, <1>7, <1>8, <1>9, <1>10, <1>11, <1>12 DEF MetersNext

\* What is known of days, events and what is being sent, kept by every step.
LEMMA MetersSafetyStep ==
    MetersInv /\ [MetersNext]_meterVars => BilledAtPeak' /\ CountedIsOver' /\ SendsPeaks'
  <1> SUFFICES ASSUME MetersInv, [MetersNext]_meterVars PROVE BilledAtPeak' /\ CountedIsOver' /\ SendsPeaks'
    OBVIOUS
  <1> USE DEF MetersInv, BilledAtPeak, CountedIsOver, SendsPeaks
  <1>t. today \in Nat /\ meterPass.day \in Nat /\ \A d \in Days : d \in Nat
    BY MetersAssumption DEF MetersTypeOK, Days, MetersAssumption
  <1>r. \A r \in meterPass.rows : r \in Peak /\ r.day \in Days /\ r.value # NoPeak
    BY NoPeakIsNoCount DEF MetersTypeOK, Peak
  <1>1. CASE DevicesComeAndGo \/ PlanChanges
    BY <1>1 DEF DevicesComeAndGo, PlanChanges
  <1>2. CASE Midnight
    BY <1>2, <1>t, <1>r DEF Midnight
  <1>4. CASE Restart
    BY <1>4 DEF Restart, Resting
  <1>5. CASE BeginPass
    BY <1>5, <1>t DEF BeginPass, Resting, MetersTypeOK
  <1>6. CASE RecordPeak
    <2>1. \A d \in Days : events[d] # NoPeak => d # meterPass.day
      BY <1>6, <1>t DEF RecordPeak
    <2>2. \A d \in Days : d # meterPass.day => peaks'[d] = peaks[d]
      BY <1>6 DEF RecordPeak, MetersTypeOK
    <2>3. meterPass'.at = "report"
      BY <1>6 DEF RecordPeak, Resting
    <2> QED BY <1>6, <2>1, <2>2, <2>3 DEF RecordPeak
  <1>7. CASE ReadPeaks
    <2>1. meterPass'.at = "send"
      BY <1>7 DEF ReadPeaks, Resting
    <2>2. \A r \in meterPass'.rows : r.day < today /\ r.value = peaks[r.day]
      BY <1>7 DEF ReadPeaks, Resting, Over
    <2> QED BY <1>7, <2>1, <2>2 DEF ReadPeaks
  <1>8. ASSUME NEW r \in meterPass.rows, SendPeak(r) PROVE BilledAtPeak' /\ CountedIsOver' /\ SendsPeaks'
    <2>1. meterPass'.at = "mark" /\ meterPass'.day = r.day /\ meterPass'.rows = meterPass.rows
      BY <1>8 DEF SendPeak, MetersTypeOK
    <2>2. r.day \in Days /\ r.day < today /\ r.value = peaks[r.day] /\ r.value # NoPeak
      BY <1>8, <1>r DEF SendPeak
    <2>3. events'[r.day] # NoPeak /\ \A d \in Days : events'[d] = events[d] \/ (d = r.day /\ events'[d] = r.value)
      BY <1>8, <2>2 DEF SendPeak, MetersTypeOK
    <2> QED BY <1>8, <2>1, <2>2, <2>3 DEF SendPeak
  <1>9. ASSUME NEW r \in meterPass.rows, SkipPeak(r) PROVE BilledAtPeak' /\ CountedIsOver' /\ SendsPeaks'
    <2>1. meterPass'.at = "send" /\ meterPass'.rows \subseteq meterPass.rows
      BY <1>9 DEF SkipPeak, Without, MetersTypeOK
    <2>2. r.day \in Days /\ r.day < today /\ r.value = peaks[r.day] /\ r.value # NoPeak
      BY <1>9, <1>r DEF SkipPeak
    <2>3. \A d \in Days : events'[d] = events[d] \/ (d = r.day /\ events'[d] = r.value)
      BY <1>9, <2>2 DEF SkipPeak, MetersTypeOK
    <2>4. \A d \in Days : events[d] # NoPeak => events'[d] # NoPeak
      BY <2>2, <2>3
    <2> QED BY <1>9, <2>1, <2>2, <2>3, <2>4 DEF SkipPeak
  <1>10. CASE MarkReported
    <2>1. meterPass'.at = "send" /\ meterPass'.rows \subseteq meterPass.rows
      BY <1>10 DEF MarkReported
    <2> QED BY <1>10, <2>1 DEF MarkReported
  <1>11. CASE EndPass
    BY <1>11 DEF EndPass, Resting
  <1>12. CASE UNCHANGED meterVars
    BY <1>12 DEF meterVars
  <1> QED
    BY <1>1, <1>2, <1>4, <1>5, <1>6, <1>7, <1>8, <1>9, <1>10, <1>11, <1>12 DEF MetersNext

\* What Stripe was told of a day is the day's peak, for good.
THEOREM AlwaysBilledAtPeak == MetersSpec => []BilledAtPeak
  <1>1. MetersInv /\ [MetersNext]_meterVars => MetersInv'
    BY MetersTypeStep, MetersSafetyStep DEF MetersInv
  <1>2. MetersInv => BilledAtPeak
    BY DEF MetersInv
  <1> QED BY InitMeters, <1>1, <1>2, PTL DEF MetersSpec

-----------------------------------------------------------------------------
(* DevicePolicy. *)

GroupRow == [there : BOOLEAN, wants : Wishes, stamp : Stamps]
FleetRow == [row : {"none", "shown", "hidden"}, group : Groups \cup {NoGroup}]
DetailsRow == [row : BOOLEAN, stamp : Stamps]
AnswerOf == [stamp : Stamps, options : Wishes]
ClientOf == [has : [Options -> Values \cup {"own"}], stamp : Stamps, at : {"idle", "asking", "answered"},
             sent : Stamps, answer : AnswerOf]

\* Every stamp somebody holds was given out, and isn't 0.
StampsGiven ==
    /\ 0 \notin stamps
    /\ \A s \in stamps : s <= MaxClock + edits
    /\ \A g \in Groups : group[g].stamp \in stamps \cup {0}
    /\ \A d \in Devices : /\ client[d].stamp \in stamps \cup {0}
                          /\ client[d].sent \in stamps \cup {0}
                          /\ client[d].answer.stamp \in stamps \cup {0}
                          /\ details[d].stamp \in stamps \cup {0}

\* No two groups have the same stamp, unless it was given out twice.
OneGroupEach ==
    \A g, h \in Groups : group[g].stamp = group[h].stamp /\ group[g].stamp # 0 /\ group[g].stamp \notin reused => g = h

\* Who holds a group's stamp, given out once, holds its settings: c a client, r a group.
Has(c, wants) == \A o \in Options : wants[o] # "" => c.has[o] = wants[o]
Means(c, r, twice) ==
    r.stamp # 0 /\ r.stamp \notin twice =>
        /\ c.stamp = r.stamp => Has(c, r.wants)
        /\ c.answer.stamp = r.stamp => c.answer.options = r.wants

\* An answer without a stamp has no settings.
Sound(c) == c.answer.stamp = 0 => c.answer.options = Unmanaged

StampMeans ==
    /\ \A d \in Devices, g \in Groups : Means(client[d], group[g], reused)
    /\ \A d \in Devices : Sound(client[d])

PolicyInv == DevicesTypeOK /\ StampsGiven /\ OneGroupEach /\ StampMeans

LEMMA PolicyValues ==
    /\ NoAnswer \in AnswerOf /\ NoAnswer.stamp = 0 /\ 0 \in Stamps /\ Stamps \subseteq Nat
    /\ Unmanaged \in Wishes
  <1>1. Unmanaged \in Wishes
    BY DEF Wishes, Unmanaged
  <1>2. 0 \in Stamps /\ Stamps \subseteq Nat
    BY PolicyAssumption DEF Stamps, PolicyAssumption
  <1> QED BY <1>1, <1>2 DEF NoAnswer, AnswerOf

\* What is known of the rows.
LEMMA PolicyTypes ==
    DevicesTypeOK <=> /\ clock \in 1 .. MaxClock /\ tenantOpen \in BOOLEAN
                      /\ group \in [Groups -> GroupRow]
                      /\ stamps \subseteq Stamps /\ reused \subseteq Stamps
                      /\ fleet \in [Devices -> FleetRow]
                      /\ details \in [Devices -> DetailsRow]
                      /\ client \in [Devices -> ClientOf]
                      /\ watcher \subseteq Devices
                      /\ edits \in 0 .. MaxEdits
  BY DEF DevicesTypeOK, GroupRow, FleetRow, DetailsRow, ClientOf, AnswerOf

LEMMA InitPolicy == DevicesInit => PolicyInv
  <1> SUFFICES ASSUME DevicesInit PROVE PolicyInv
    OBVIOUS
  <1> USE DEF DevicesInit
  <1>1. \A d \in Devices : client[d] \in ClientOf
    BY PolicyValues DEF ClientOf
  <1>2. DevicesTypeOK
    <2>1. client \in [Devices -> ClientOf]
      BY <1>1
    <2>2. group \in [Groups -> GroupRow]
      BY PolicyValues DEF GroupRow
    <2>3. details \in [Devices -> DetailsRow]
      BY PolicyValues DEF DetailsRow
    <2>4. fleet \in [Devices -> FleetRow]
      BY DEF FleetRow
    <2>5. clock \in 1 .. MaxClock /\ edits \in 0 .. MaxEdits
      BY PolicyAssumption DEF PolicyAssumption
    <2> QED BY <2>1, <2>2, <2>3, <2>4, <2>5, PolicyTypes
  <1>3. StampsGiven /\ OneGroupEach /\ StampMeans
    BY PolicyValues DEF StampsGiven, OneGroupEach, StampMeans, Means, Sound, NoAnswer
  <1> QED BY <1>2, <1>3 DEF PolicyInv

\* The bound on stamps moves with the edits.
LEMMA MoreEdits ==
    ASSUME PolicyInv, edits' \in {edits, edits + 1}
    PROVE  \A s \in stamps : s <= MaxClock + edits /\ s <= MaxClock + edits'
  <1>1. edits \in Nat /\ MaxClock \in Nat
    BY PolicyTypes, PolicyAssumption DEF PolicyInv, PolicyAssumption
  <1>2. stamps \subseteq Nat
    BY PolicyTypes, PolicyValues DEF PolicyInv
  <1> SUFFICES ASSUME NEW s \in stamps PROVE s <= MaxClock + edits /\ s <= MaxClock + edits'
    OBVIOUS
  <1>3. s <= MaxClock + edits /\ s \in Nat
    BY <1>2 DEF PolicyInv, StampsGiven
  <1>4. edits' = edits \/ edits' = edits + 1
    OBVIOUS
  <1>5. CASE edits' = edits
    BY <1>3, <1>5
  <1>6. CASE edits' = edits + 1
    BY <1>1, <1>3, <1>6
  <1> QED BY <1>4, <1>5, <1>6

\* A client's step: the others' stay as they are.
LEMMA ClientStep ==
    ASSUME PolicyInv, NEW d \in Devices, NEW c \in ClientOf, client' = [client EXCEPT ![d] = c],
           group' = group, stamps' = stamps, reused' = reused, edits' \in {edits, edits + 1},
           \A e \in Devices : details'[e].stamp \in stamps \cup {0},
           c.stamp \in stamps \cup {0}, c.sent \in stamps \cup {0}, c.answer.stamp \in stamps \cup {0},
           \A g \in Groups : Means(c, group[g], reused), Sound(c)
    PROVE  client' \in [Devices -> ClientOf] /\ StampsGiven' /\ OneGroupEach' /\ StampMeans'
  <1>1. client \in [Devices -> ClientOf]
    BY PolicyTypes DEF PolicyInv
  <1>2. client'[d] = c /\ \A e \in Devices \ {d} : client'[e] = client[e]
    BY <1>1
  <1>3. client' \in [Devices -> ClientOf]
    BY <1>1
  <1>4. StampsGiven'
    <2>1. \A s \in stamps : s <= MaxClock + edits'
      BY MoreEdits
    <2>2. \A e \in Devices : /\ client'[e].stamp \in stamps \cup {0}
                             /\ client'[e].sent \in stamps \cup {0}
                             /\ client'[e].answer.stamp \in stamps \cup {0}
      <3> SUFFICES ASSUME NEW e \in Devices
                   PROVE  /\ client'[e].stamp \in stamps \cup {0}
                          /\ client'[e].sent \in stamps \cup {0}
                          /\ client'[e].answer.stamp \in stamps \cup {0}
        OBVIOUS
      <3>1. CASE e = d
        BY <1>2, <3>1
      <3>2. CASE e # d
        BY <1>2, <3>2 DEF PolicyInv, StampsGiven
      <3> QED BY <3>1, <3>2
    <2> QED BY <2>1, <2>2 DEF PolicyInv, StampsGiven
  <1>5. OneGroupEach'
    BY DEF PolicyInv, OneGroupEach
  <1>6. StampMeans'
    <2>1. \A e \in Devices, g \in Groups : Means(client'[e], group[g], reused)
      BY <1>2 DEF PolicyInv, StampMeans
    <2>2. \A e \in Devices, g \in Groups : Means(client'[e], group'[g], reused')
      BY <2>1
    <2>3. \A e \in Devices : Sound(client'[e])
      BY <1>2 DEF PolicyInv, StampMeans
    <2> QED BY <2>2, <2>3 DEF StampMeans, Means, Has, Sound
  <1> QED BY <1>3, <1>4, <1>5, <1>6

\* What is known of one client.
LEMMA ClientFacts ==
    ASSUME PolicyInv, NEW d \in Devices
    PROVE  /\ client[d] \in ClientOf
           /\ client[d].stamp \in stamps \cup {0} /\ client[d].sent \in stamps \cup {0}
           /\ client[d].answer.stamp \in stamps \cup {0}
           /\ details[d].stamp \in stamps \cup {0}
           /\ \A g \in Groups : Means(client[d], group[g], reused)
           /\ Sound(client[d])
           /\ \A e \in Devices : details[e].stamp \in stamps \cup {0}
  BY PolicyTypes DEF PolicyInv, StampsGiven, StampMeans

\* A client that keeps its stamp and its settings, with the answer it had or none.
LEMMA MeansKept ==
    ASSUME NEW b, NEW c, NEW r, NEW twice, Means(b, r, twice), c.stamp = b.stamp, c.has = b.has,
           c.answer.stamp = 0 \/ c.answer = b.answer
    PROVE  Means(c, r, twice)
  BY DEF Means, Has

LEMMA BeatStep ==
    ASSUME PolicyInv, NEW d \in Devices, Beat(d)
    PROVE  client' \in [Devices -> ClientOf] /\ StampsGiven' /\ OneGroupEach' /\ StampMeans'
  <1> DEFINE c == [client[d] EXCEPT !.at = "asking", !.sent = client[d].stamp]
  <1>1. client' = [client EXCEPT ![d] = c]
    BY DEF Beat
  <1>2. /\ c \in ClientOf
        /\ c.stamp = client[d].stamp /\ c.sent = client[d].stamp /\ c.answer = client[d].answer /\ c.has = client[d].has
    BY ClientFacts DEF ClientOf
  <1>3. (\A g \in Groups : Means(c, group[g], reused)) /\ Sound(c)
    <2> HIDE DEF c
    <2> QED BY <1>2, ClientFacts, MeansKept DEF Sound
  <1>4. group' = group /\ stamps' = stamps /\ reused' = reused /\ edits' = edits /\ details' = details
    BY DEF Beat
  <1> HIDE DEF c
  <1> QED BY <1>1, <1>2, <1>3, <1>4, ClientFacts, ClientStep

LEMMA LoseStep ==
    ASSUME PolicyInv, NEW d \in Devices, Lose(d)
    PROVE  client' \in [Devices -> ClientOf] /\ StampsGiven' /\ OneGroupEach' /\ StampMeans'
  <1> DEFINE c == [client[d] EXCEPT !.at = "idle", !.answer = NoAnswer]
  <1>1. client' = [client EXCEPT ![d] = c]
    BY DEF Lose
  <1>2. /\ c \in ClientOf
        /\ c.stamp = client[d].stamp /\ c.sent = client[d].sent /\ c.answer = NoAnswer /\ c.has = client[d].has
    BY ClientFacts, PolicyValues DEF ClientOf
  <1>3. c.answer.stamp = 0
    BY <1>2, PolicyValues
  <1>4. (\A g \in Groups : Means(c, group[g], reused)) /\ Sound(c)
    <2> HIDE DEF c
    <2> QED BY <1>2, <1>3, ClientFacts, MeansKept DEF Sound, NoAnswer
  <1>5. group' = group /\ stamps' = stamps /\ reused' = reused /\ edits' = edits /\ details' = details
    BY DEF Lose
  <1> HIDE DEF c
  <1> QED BY <1>1, <1>2, <1>3, <1>4, <1>5, ClientFacts, ClientStep

\* Applying an answer takes both its stamp and its options.
LEMMA ApplyStep ==
    ASSUME PolicyInv, NEW d \in Devices, Apply(d)
    PROVE  client' \in [Devices -> ClientOf] /\ StampsGiven' /\ OneGroupEach' /\ StampMeans'
  <1> DEFINE b == client[d]
             a == b.answer
             n == IF a.stamp # 0 THEN a.stamp ELSE b.stamp
             h == [o \in Options |-> IF a.options[o] # "" THEN a.options[o] ELSE b.has[o]]
             c == [at |-> "idle", sent |-> b.sent, answer |-> NoAnswer, stamp |-> n, has |-> h]
  <1>1. client' = [client EXCEPT ![d] = c]
    BY DEF Apply
  <1>2. b \in ClientOf /\ a \in AnswerOf
    BY ClientFacts DEF ClientOf
  <1>3. n \in Stamps /\ n \in stamps \cup {0}
    BY <1>2, ClientFacts DEF ClientOf, AnswerOf
  <1>4. h \in [Options -> Values \cup {"own"}]
    BY <1>2 DEF ClientOf, AnswerOf, Wishes
  <1>5. /\ c \in ClientOf
        /\ c.stamp = n /\ c.sent = b.sent /\ c.answer = NoAnswer /\ c.has = h
    BY <1>2, <1>3, <1>4, PolicyValues DEF ClientOf
  <1>6. c.answer.stamp = 0
    BY <1>5, PolicyValues
  <1>7. a.stamp = 0 => a.options = Unmanaged
    BY ClientFacts DEF Sound
  <1>8. (\A g \in Groups : Means(c, group[g], reused)) /\ Sound(c)
    <2> SUFFICES ASSUME NEW g \in Groups PROVE Means(c, group[g], reused)
      BY <1>5 DEF Sound, NoAnswer
    <2>1. Means(b, group[g], reused)
      BY ClientFacts
    <2>2. CASE a.stamp = 0
      <3>1. n = b.stamp
        BY <2>2
      <3>2. h = b.has
        <4>1. \A o \in Options : h[o] = b.has[o]
          BY <1>7, <2>2 DEF Unmanaged
        <4> QED BY <1>2, <1>4, <4>1 DEF ClientOf
      <3> HIDE DEF c, n, h
      <3> QED BY <1>5, <1>6, <2>1, <3>1, <3>2, MeansKept
    <2>3. CASE a.stamp # 0
      <3>1. n = a.stamp /\ \A o \in Options : a.options[o] # "" => h[o] = a.options[o]
        BY <2>3
      <3>2. group[g].stamp # 0 /\ group[g].stamp \notin reused /\ n = group[g].stamp => Has(c, group[g].wants)
        <4> HIDE DEF c, n, h
        <4> QED BY <1>5, <2>1, <3>1 DEF Means, Has
      <3> HIDE DEF c, n, h
      <3> QED BY <1>5, <1>6, <3>2 DEF Means
    <2> QED BY <2>2, <2>3
  <1>9. group' = group /\ stamps' = stamps /\ reused' = reused /\ edits' = edits /\ details' = details
    BY DEF Apply
  <1> HIDE DEF c
  <1> QED BY <1>1, <1>3, <1>5, <1>6, <1>8, <1>9, ClientFacts, ClientStep

\* The answer of a heartbeat is the group's settings under the group's stamp, or nothing.
LEMMA HeartbeatStep ==
    ASSUME PolicyInv, NEW d \in Devices, Heartbeat(d)
    PROVE  client' \in [Devices -> ClientOf] /\ StampsGiven' /\ OneGroupEach' /\ StampMeans'
  <1> DEFINE a == IF fleet'[d].row = "shown" THEN Policy(fleet[d].group, client[d].sent) ELSE NoAnswer
             c == [client[d] EXCEPT !.at = "answered", !.answer = a]
  <1>1. client' = [client EXCEPT ![d] = c]
    BY DEF Heartbeat
  <1>2. group \in [Groups -> GroupRow] /\ fleet[d].group \in Groups \cup {NoGroup}
    BY PolicyTypes DEF PolicyInv, FleetRow
  <1>3. \/ a = NoAnswer
        \/ \E h \in Groups : a = [stamp |-> group[h].stamp, options |-> group[h].wants] /\ group[h].stamp # 0
    BY <1>2 DEF Policy
  <1>4. a \in AnswerOf /\ a.stamp \in stamps \cup {0}
    <2>1. CASE a = NoAnswer
      BY <2>1, PolicyValues
    <2>2. ASSUME NEW h \in Groups, a = [stamp |-> group[h].stamp, options |-> group[h].wants]
          PROVE  a \in AnswerOf /\ a.stamp \in stamps \cup {0}
      <3>1. group[h] \in GroupRow /\ group[h].stamp \in stamps \cup {0}
        BY <1>2 DEF PolicyInv, StampsGiven
      <3> HIDE DEF a
      <3> QED BY <2>2, <3>1 DEF AnswerOf, GroupRow
    <2> HIDE DEF a
    <2> QED BY <1>3, <2>1, <2>2
  <1>5. /\ c \in ClientOf
        /\ c.stamp = client[d].stamp /\ c.sent = client[d].sent /\ c.answer = a /\ c.has = client[d].has
    <2> HIDE DEF a
    <2> QED BY <1>4, ClientFacts DEF ClientOf
  <1> HIDE DEF c, a
  <1>6. Sound(c)
    BY <1>3, <1>5 DEF Sound, NoAnswer
  <1>7. ASSUME NEW g \in Groups
        PROVE  Means(c, group[g], reused)
    <2>1. Means(client[d], group[g], reused)
      BY ClientFacts
    <2>2. CASE a = NoAnswer
      <3>1. c.answer.stamp = 0
        BY <1>5, <2>2, PolicyValues
      <3> QED BY <1>5, <2>1, <3>1, MeansKept
    <2>3. ASSUME NEW h \in Groups, a = [stamp |-> group[h].stamp, options |-> group[h].wants], group[h].stamp # 0
          PROVE  Means(c, group[g], reused)
      <3>1. a.stamp = group[h].stamp /\ a.options = group[h].wants
        BY <2>3
      <3>2. group[g].stamp = group[h].stamp /\ group[g].stamp \notin reused => g = h
        BY <2>3 DEF PolicyInv, OneGroupEach
      <3> QED BY <1>5, <2>1, <3>1, <3>2 DEF Means, Has
    <2> QED BY <1>3, <2>2, <2>3
  <1>8. group' = group /\ stamps' = stamps /\ reused' = reused /\ edits' = edits
    BY DEF Heartbeat
  <1>9. \A e \in Devices : details'[e].stamp \in stamps \cup {0}
    <2>1. details \in [Devices -> DetailsRow] /\ details' = [details EXCEPT ![d] = [row |-> TRUE, stamp |-> client[d].sent]]
      BY PolicyTypes DEF PolicyInv, Heartbeat
    <2>2. \A e \in Devices : details'[e].stamp = client[d].sent \/ details'[e] = details[e]
      BY <2>1
    <2> QED BY <2>2, ClientFacts
  <1> QED BY <1>1, <1>4, <1>5, <1>6, <1>7, <1>8, <1>9, ClientFacts, ClientStep

\* Steps that touch neither clients nor groups.
LEMMA OtherStep ==
    ASSUME PolicyInv, client' = client, group' = group, stamps' = stamps, reused' = reused, edits' \in {edits, edits + 1},
           \A d \in Devices : details'[d].stamp \in {details[d].stamp, 0}
    PROVE  client' \in [Devices -> ClientOf] /\ StampsGiven' /\ OneGroupEach' /\ StampMeans'
  <1>1. \A s \in stamps : s <= MaxClock + edits'
    BY MoreEdits
  <1>2. StampsGiven'
    BY <1>1 DEF PolicyInv, StampsGiven
  <1>3. OneGroupEach'
    BY DEF PolicyInv, OneGroupEach
  <1>4. StampMeans'
    BY DEF PolicyInv, StampMeans, Means, Has, Sound
  <1> QED BY <1>2, <1>3, <1>4, PolicyTypes DEF PolicyInv

\* The stamp of a save was never given out, and nobody holds it, or it counts as reused from now on.
LEMMA SaveStep ==
    ASSUME PolicyInv, NEW g \in Groups, NEW wants \in Wishes, SaveSettings(g, wants)
    PROVE  /\ group' \in [Groups -> GroupRow] /\ stamps' \subseteq Stamps /\ reused' \subseteq Stamps
           /\ client' \in [Devices -> ClientOf] /\ StampsGiven' /\ OneGroupEach' /\ StampMeans'
  <1>1. /\ group \in [Groups -> GroupRow] /\ stamps \subseteq Stamps /\ reused \subseteq Stamps /\ group[g] \in GroupRow
        /\ client \in [Devices -> ClientOf]
        /\ clock \in 1 .. MaxClock /\ edits \in 0 .. MaxEdits
    BY PolicyTypes DEF PolicyInv
  <1>2. edits' = edits + 1 /\ edits < MaxEdits /\ client' = client /\ details' = details
    BY DEF SaveSettings, Edit
  <1>n. MaxEdits \in Nat /\ MaxClock \in Nat /\ clock \in Nat /\ edits \in Nat /\ stamps \subseteq Nat
    BY <1>1, PolicyAssumption, PolicyValues DEF PolicyAssumption
  <1>3. PICK n \in stamps' \cup {0} :
           /\ n = 0 \/ n \notin stamps \/ n \in reused'
           /\ reused \subseteq reused' /\ reused' \subseteq Stamps
           /\ group' = [group EXCEPT ![g] = [group[g] EXCEPT !.wants = wants, !.stamp = n]]
           /\ stamps' = IF n = 0 THEN stamps ELSE stamps \cup {n}
           /\ n \in Stamps /\ n <= MaxClock + edits'
    <2>1. CASE wants = Unmanaged
      <3>1. group' = [group EXCEPT ![g] = [group[g] EXCEPT !.wants = wants, !.stamp = 0]] /\ stamps' = stamps /\ reused' = reused
        BY <2>1 DEF SaveSettings
      <3>2. 0 \in Stamps /\ 0 <= MaxClock + edits'
        BY <1>2, <1>n, PolicyValues
      <3> QED BY <1>1, <3>1, <3>2
    <2>2. CASE wants # Unmanaged
      <3> DEFINE n == NewStamp(g)
      <3>1. /\ group' = [group EXCEPT ![g] = [group[g] EXCEPT !.wants = wants, !.stamp = n]]
            /\ stamps' = stamps \cup {n} /\ reused' = reused \cup ({n} \cap stamps)
        BY <2>2 DEF SaveSettings, NewStamp, Repeated
      <3>2. n \in Nat \ {0} /\ n <= MaxClock + edits + 1
        <4>1. group[g].stamp \in Nat /\ group[g].stamp <= MaxClock + edits
          <5>1. group[g].stamp \in stamps \cup {0}
            BY DEF PolicyInv, StampsGiven
          <5>2. CASE group[g].stamp \in stamps
            BY <1>2, <1>n, <5>2, MoreEdits
          <5>3. CASE group[g].stamp = 0
            BY <1>n, <5>3
          <5> QED BY <5>1, <5>2, <5>3
        <4>2. clock <= MaxClock /\ clock > 0
          BY <1>1, <1>n
        <4> QED BY <1>n, <4>1, <4>2 DEF NewStamp
      <3>3. n \in Stamps /\ n <= MaxClock + edits'
        BY <1>2, <1>n, <3>2 DEF Stamps
      <3> HIDE DEF n
      <3> QED BY <1>1, <3>1, <3>2, <3>3
    <2> QED BY <2>1, <2>2
  <1> DEFINE r == [group[g] EXCEPT !.wants = wants, !.stamp = n]
  <1>4. r \in GroupRow /\ r.stamp = n /\ r.wants = wants
    BY <1>1, <1>3 DEF GroupRow
  <1>5. group' \in [Groups -> GroupRow] /\ group'[g] = r /\ \A h \in Groups \ {g} : group'[h] = group[h]
    BY <1>1, <1>3, <1>4
  <1> HIDE DEF r
  <1>6. stamps' \subseteq Stamps /\ stamps \subseteq stamps' /\ 0 \notin stamps'
    BY <1>1, <1>3 DEF PolicyInv, StampsGiven
  <1>7. \A s \in stamps' : s <= MaxClock + edits'
    BY <1>2, <1>3, MoreEdits
  <1>8. \A h \in Groups : group'[h].stamp \in stamps' \cup {0}
    BY <1>3, <1>4, <1>5, <1>6 DEF PolicyInv, StampsGiven
  <1>9. StampsGiven'
    BY <1>2, <1>6, <1>7, <1>8 DEF PolicyInv, StampsGiven
  <1>10. OneGroupEach'
    <2>1. \A h \in Groups \ {g} : group[h].stamp # 0 /\ group[h].stamp \notin reused' => group[h].stamp # n
      BY <1>3 DEF PolicyInv, StampsGiven
    <2> QED BY <1>3, <1>4, <1>5, <2>1 DEF PolicyInv, OneGroupEach
  <1>11. \A d \in Devices, h \in Groups : Means(client[d], group'[h], reused')
    <2> SUFFICES ASSUME NEW d \in Devices, NEW h \in Groups PROVE Means(client[d], group'[h], reused')
      OBVIOUS
    <2>1. CASE h # g
      <3>1. Means(client[d], group[h], reused)
        BY DEF PolicyInv, StampMeans
      <3> QED BY <1>3, <1>5, <2>1, <3>1 DEF Means
    <2>2. CASE h = g
      <3>1. n # 0 /\ n \notin reused' => client[d].stamp # n /\ client[d].answer.stamp # n
        BY <1>3, ClientFacts
      <3> QED BY <1>4, <1>5, <2>2, <3>1 DEF Means
    <2> QED BY <2>1, <2>2
  <1>12. StampMeans'
    <2>1. \A d \in Devices, h \in Groups : Means(client'[d], group'[h], reused')
      BY <1>2, <1>11
    <2>2. \A d \in Devices : Sound(client'[d])
      BY <1>2 DEF PolicyInv, StampMeans
    <2> QED BY <2>1, <2>2 DEF StampMeans, Means, Has, Sound
  <1> QED BY <1>1, <1>2, <1>3, <1>5, <1>6, <1>9, <1>10, <1>12

LEMMA GroupDeleteStep ==
    ASSUME PolicyInv, NEW g \in Groups, GroupDelete(g)
    PROVE  /\ group' \in [Groups -> GroupRow] /\ fleet' \in [Devices -> FleetRow]
           /\ client' \in [Devices -> ClientOf] /\ StampsGiven' /\ OneGroupEach' /\ StampMeans'
  <1> DEFINE r == [there |-> FALSE, wants |-> Unmanaged, stamp |-> 0]
  <1>1. /\ group \in [Groups -> GroupRow] /\ fleet \in [Devices -> FleetRow]
        /\ r \in GroupRow /\ r.stamp = 0
    BY PolicyTypes, PolicyValues DEF PolicyInv, GroupRow
  <1>2. /\ group' = [group EXCEPT ![g] = r] /\ stamps' = stamps /\ reused' = reused /\ client' = client /\ details' = details
        /\ edits' = edits + 1
    BY DEF GroupDelete, Edit
  <1> HIDE DEF r
  <1>3. group' \in [Groups -> GroupRow] /\ group'[g] = r /\ \A h \in Groups \ {g} : group'[h] = group[h]
    BY <1>1, <1>2
  <1>4. fleet' \in [Devices -> FleetRow]
    BY <1>1 DEF GroupDelete, FleetRow
  <1>5. StampsGiven'
    <2>1. \A s \in stamps : s <= MaxClock + edits'
      BY <1>2, MoreEdits
    <2> QED BY <1>1, <1>2, <1>3, <2>1 DEF PolicyInv, StampsGiven
  <1>6. OneGroupEach'
    BY <1>1, <1>2, <1>3 DEF PolicyInv, OneGroupEach
  <1>7. StampMeans'
    <2>1. \A d \in Devices, h \in Groups : Means(client'[d], group'[h], reused')
      BY <1>1, <1>2, <1>3 DEF PolicyInv, StampMeans, Means
    <2>2. \A d \in Devices : Sound(client'[d])
      BY <1>2 DEF PolicyInv, StampMeans
    <2> QED BY <2>1, <2>2 DEF StampMeans, Means, Has, Sound
  <1> QED BY <1>2, <1>3, <1>4, <1>5, <1>6, <1>7, PolicyTypes DEF PolicyInv

\* The rows of the fleet and of the devices' details keep their types.
LEMMA FleetTypes ==
    ASSUME PolicyInv, [DevicesNext]_deviceVars
    PROVE  /\ clock' \in 1 .. MaxClock /\ tenantOpen' \in BOOLEAN
           /\ fleet' \in [Devices -> FleetRow] /\ details' \in [Devices -> DetailsRow]
           /\ watcher' \subseteq Devices /\ edits' \in 0 .. MaxEdits
  <1>1. /\ clock \in 1 .. MaxClock /\ tenantOpen \in BOOLEAN
        /\ fleet \in [Devices -> FleetRow] /\ details \in [Devices -> DetailsRow]
        /\ watcher \subseteq Devices /\ edits \in 0 .. MaxEdits
        /\ MaxEdits \in Nat /\ MaxClock \in Nat /\ 0 \in Stamps
    BY PolicyTypes, PolicyAssumption, PolicyValues DEF PolicyInv, PolicyAssumption
  <1>e. Edit => edits' \in 0 .. MaxEdits /\ edits' \in {edits, edits + 1}
    BY <1>1 DEF Edit
  <1>2. \A r \in {"none", "shown", "hidden"} : /\ Unhidden(r) \in {"none", "shown", "hidden"}
                                               /\ Registered(r) \in {"none", "shown", "hidden"}
                                               /\ Announced(r) \in {"none", "shown", "hidden"}
    BY DEF Unhidden, Registered, Announced
  <1>3. ASSUME NEW d \in Devices, Beat(d) \/ Apply(d) \/ Lose(d)
        PROVE  UNCHANGED <<clock, tenantOpen, fleet, details, watcher, edits>>
    BY <1>3 DEF Beat, Apply, Lose
  <1>4. ASSUME NEW d \in Devices, Heartbeat(d)
        PROVE  /\ UNCHANGED <<clock, tenantOpen, watcher, edits>>
               /\ fleet' \in [Devices -> FleetRow] /\ details' \in [Devices -> DetailsRow]
    <2>1. client[d].sent \in Stamps
      BY PolicyTypes DEF PolicyInv, ClientOf
    <2> QED BY <1>1, <1>2, <1>4, <2>1 DEF Heartbeat, FleetRow, DetailsRow
  <1>5. ASSUME NEW d \in Devices, SysInfo(d) \/ Delete(d)
        PROVE  /\ UNCHANGED <<clock, tenantOpen, watcher>> /\ edits' \in {edits, edits + 1} /\ edits' \in 0 .. MaxEdits
               /\ fleet' \in [Devices -> FleetRow] /\ details' \in [Devices -> DetailsRow]
    <2>1. CASE SysInfo(d)
      BY <1>1, <2>1 DEF SysInfo, DetailsRow
    <2>2. CASE Delete(d)
      <3>1. fleet' \in [Devices -> FleetRow]
        BY <1>1, <2>2 DEF Delete, FleetRow
      <3>2. details' \in [Devices -> DetailsRow]
        BY <1>1, <2>2 DEF Delete, DetailsRow
      <3> QED BY <1>1, <1>e, <2>2, <3>1, <3>2 DEF Delete
    <2> QED BY <1>5, <2>1, <2>2
  <1>6. ASSUME NEW d \in Devices, NEW g \in Groups \cup {NoGroup}, Assign(d, g)
        PROVE  /\ UNCHANGED <<clock, tenantOpen, watcher, details>> /\ edits' \in 0 .. MaxEdits
               /\ fleet' \in [Devices -> FleetRow]
    <2>1. fleet[d] \in FleetRow /\ Registered(fleet[d].row) \in {"none", "shown", "hidden"}
      BY <1>1, <1>2 DEF FleetRow
    <2>2. fleet' = [fleet EXCEPT ![d] = [row |-> Registered(fleet[d].row), group |-> g]]
      BY <1>6 DEF Assign
    <2> QED BY <1>1, <1>e, <1>6, <2>1, <2>2 DEF Assign, FleetRow
  <1>7. ASSUME Sync \/ WatcherAdds
        PROVE  /\ UNCHANGED <<clock, tenantOpen, details>> /\ edits' \in 0 .. MaxEdits
               /\ watcher' \subseteq Devices
               /\ fleet' \in [Devices -> FleetRow]
    <2>1. \A d \in Devices : /\ [fleet[d] EXCEPT !.row = Announced(@)] \in FleetRow
                             /\ [fleet[d] EXCEPT !.row = Registered(@)] \in FleetRow
      BY <1>1, <1>2 DEF FleetRow
    <2>2. CASE Sync
      BY <1>1, <1>e, <2>1, <2>2 DEF Sync
    <2>3. CASE WatcherAdds
      BY <1>1, <2>1, <2>3 DEF WatcherAdds
    <2> QED BY <1>7, <2>2, <2>3
  <1>8. ASSUME NEW g \in Groups, GroupDelete(g)
        PROVE  UNCHANGED <<clock, tenantOpen, details, watcher>> /\ edits' \in 0 .. MaxEdits
    BY <1>1, <1>e, <1>8 DEF GroupDelete
  <1>9. ASSUME NEW g \in Groups, NEW wants \in Wishes, SaveSettings(g, wants)
        PROVE  UNCHANGED <<clock, tenantOpen, fleet, details, watcher>> /\ edits' \in 0 .. MaxEdits
    BY <1>1, <1>e, <1>9 DEF SaveSettings
  <1>10. ASSUME WatcherReads \/ DeviceTenant \/ Second \/ UNCHANGED deviceVars
         PROVE  /\ UNCHANGED <<fleet, details>> /\ clock' \in 1 .. MaxClock /\ tenantOpen' \in BOOLEAN
                /\ watcher' \subseteq Devices /\ edits' \in 0 .. MaxEdits
    <2>1. CASE WatcherReads \/ DeviceTenant
      BY <1>1, <1>e, <2>1 DEF WatcherReads, DeviceTenant
    <2>2. CASE Second
      BY <1>1, <2>2 DEF Second
    <2>3. CASE UNCHANGED deviceVars
      BY <1>1, <2>3 DEF deviceVars
    <2> QED BY <1>10, <2>1, <2>2, <2>3
  <1> QED
    BY <1>1, <1>3, <1>4, <1>5, <1>6, <1>7, <1>8, <1>9, <1>10, GroupDeleteStep DEF DevicesNext

LEMMA PolicyStep ==
    ASSUME PolicyInv, [DevicesNext]_deviceVars
    PROVE  PolicyInv'
  <1> DEFINE Kept == client' \in [Devices -> ClientOf] /\ StampsGiven' /\ OneGroupEach' /\ StampMeans'
             Rest == group' \in [Groups -> GroupRow] /\ stamps' \subseteq Stamps /\ reused' \subseteq Stamps
  <1>0. group \in [Groups -> GroupRow] /\ stamps \subseteq Stamps /\ reused \subseteq Stamps /\ details \in [Devices -> DetailsRow]
    BY PolicyTypes DEF PolicyInv
  <1>1. ASSUME NEW d \in Devices, Beat(d) \/ Apply(d) \/ Lose(d) \/ Heartbeat(d)
        PROVE  Kept /\ Rest
    BY <1>0, <1>1, BeatStep, ApplyStep, LoseStep, HeartbeatStep DEF Beat, Apply, Lose, Heartbeat
  <1>2. ASSUME client' = client, group' = group, stamps' = stamps, reused' = reused, edits' \in {edits, edits + 1},
               \A d \in Devices : details'[d].stamp \in {details[d].stamp, 0}
        PROVE  Kept /\ Rest
    BY <1>0, <1>2, OtherStep
  <1>3. ASSUME NEW d \in Devices, SysInfo(d) \/ Delete(d)
        PROVE  Kept /\ Rest
    <2>1. client' = client /\ group' = group /\ stamps' = stamps /\ reused' = reused /\ edits' \in {edits, edits + 1}
      BY <1>3 DEF SysInfo, Delete, Edit
    <2>2. \A e \in Devices : details'[e].stamp \in {details[e].stamp, 0}
      BY <1>0, <1>3 DEF SysInfo, Delete, DetailsRow
    <2> QED BY <1>2, <2>1, <2>2
  <1>4. ASSUME \/ \E d \in Devices, g \in Groups \cup {NoGroup} : Assign(d, g)
               \/ WatcherReads \/ WatcherAdds \/ Sync \/ DeviceTenant \/ Second \/ UNCHANGED deviceVars
        PROVE  Kept /\ Rest
    <2>1. client' = client /\ group' = group /\ stamps' = stamps /\ reused' = reused /\ edits' \in {edits, edits + 1} /\ details' = details
      BY <1>4 DEF Assign, WatcherReads, WatcherAdds, Sync, DeviceTenant, Second, deviceVars, Edit
    <2> QED BY <1>2, <2>1
  <1>5. ASSUME NEW g \in Groups, GroupDelete(g)
        PROVE  Kept /\ Rest
    BY <1>0, <1>5, GroupDeleteStep DEF GroupDelete
  <1>6. ASSUME NEW g \in Groups, NEW wants \in Wishes, SaveSettings(g, wants)
        PROVE  Kept /\ Rest
    BY <1>6, SaveStep
  <1>7. Kept /\ Rest
    <2> HIDE DEF Kept, Rest
    <2> QED BY <1>1, <1>3, <1>4, <1>5, <1>6 DEF DevicesNext
  <1>8. DevicesTypeOK'
    <2>1. DevicesTypeOK' <=> /\ clock' \in 1 .. MaxClock /\ tenantOpen' \in BOOLEAN
                             /\ group' \in [Groups -> GroupRow]
                             /\ stamps' \subseteq Stamps /\ reused' \subseteq Stamps
                             /\ fleet' \in [Devices -> FleetRow]
                             /\ details' \in [Devices -> DetailsRow]
                             /\ client' \in [Devices -> ClientOf]
                             /\ watcher' \subseteq Devices
                             /\ edits' \in 0 .. MaxEdits
      BY DEF DevicesTypeOK, GroupRow, FleetRow, DetailsRow, ClientOf, AnswerOf
    <2> QED BY <1>7, <2>1, FleetTypes
  <1> QED BY <1>7, <1>8 DEF PolicyInv

\* Type correctness of the devices' rows, their groups' settings and their clients (client_api.py, groups.py).
THEOREM PolicyTypeCorrect == DevicesSpec => []DevicesTypeOK
  <1>1. PolicyInv => DevicesTypeOK
    BY DEF PolicyInv
  <1> QED BY InitPolicy, PolicyStep, <1>1, PTL DEF DevicesSpec

\* A client isn't left alone with settings that aren't its group's: when the stamp it echoes is the group's, it
\* has what the group manages, however the device was moved, groups were saved and answers were lost, unless that
\* stamp was given out twice.
THEOREM EchoesWhatItHas == DevicesSpec => []EchoedHasApplied
  <1>1. PolicyInv => EchoedHasApplied
    <2> SUFFICES ASSUME PolicyInv, NEW d \in Devices, Echoes(d), client[d].stamp \notin reused PROVE Obeys(d)
      BY DEF EchoedHasApplied
    <2> DEFINE g == fleet[d].group
    <2>1. g \in Groups
      BY PolicyTypes DEF PolicyInv, FleetRow, Echoes
    <2>2. Means(client[d], group[g], reused)
      BY <2>1 DEF PolicyInv, StampMeans
    <2> QED BY <2>2 DEF Echoes, Obeys, Means, Has
  <1> QED BY InitPolicy, PolicyStep, <1>1, PTL DEF DevicesSpec

\* What the group page counts as applied is applied, but for a device moved away and back between two heartbeats.
THEOREM AlwaysCountedHasApplied == DevicesSpec => []CountedHasApplied
  <1>1. EchoedHasApplied => CountedHasApplied
    BY DEF EchoedHasApplied, CountedHasApplied, Echoes, Applied
  <1> QED BY EchoesWhatItHas, <1>1, PTL

\* A deleted device comes back only when it communicates (routes/devices.py:246): Sync, the watcher's late writes
\* and edits leave it hidden.
THEOREM OnlyItselfReturns == DevicesSpec => OnlyItselfComesBack
  <1>1. ASSUME PolicyInv, [DevicesNext]_deviceVars, NEW d \in Devices, fleet[d].row = "hidden", fleet'[d].row # "hidden"
        PROVE  client[d].at = "asking" /\ client'[d].at = "answered"
    <2>1. fleet \in [Devices -> FleetRow] /\ client \in [Devices -> ClientOf]
      BY <1>1, PolicyTypes DEF PolicyInv
    <2>2. fleet' # fleet
      BY <1>1
    <2>3. ASSUME NEW e \in Devices, Heartbeat(e)
          PROVE  client[d].at = "asking" /\ client'[d].at = "answered"
      <3>1. e = d
        BY <1>1, <2>1, <2>3 DEF Heartbeat, FleetRow
      <3> QED BY <2>1, <2>3, <3>1 DEF Heartbeat, ClientOf
    <2>4. ASSUME NEW e \in Devices, Delete(e)
          PROVE  FALSE
      BY <1>1, <2>1, <2>4 DEF Delete, FleetRow
    <2>5. ASSUME NEW e \in Devices, NEW g \in Groups \cup {NoGroup}, Assign(e, g)
          PROVE  FALSE
      BY <1>1, <2>1, <2>5 DEF Assign, Registered, FleetRow
    <2>6. ASSUME Sync \/ WatcherAdds
          PROVE  FALSE
      BY <1>1, <2>1, <2>6 DEF Sync, WatcherAdds, Registered, Announced, FleetRow
    <2>7. ASSUME NEW g \in Groups, GroupDelete(g)
          PROVE  FALSE
      BY <1>1, <2>1, <2>7 DEF GroupDelete, FleetRow
    <2>8. \/ \E e \in Devices : Heartbeat(e) \/ Delete(e)
          \/ \E e \in Devices, g \in Groups \cup {NoGroup} : Assign(e, g)
          \/ \E g \in Groups : GroupDelete(g)
          \/ Sync \/ WatcherAdds
      BY <1>1, <2>2 DEF DevicesNext, Beat, Apply, Lose, SysInfo, SaveSettings, WatcherReads, DeviceTenant, Second,
                        deviceVars
    <2> QED BY <2>3, <2>4, <2>5, <2>6, <2>7, <2>8
  <1>2. PolicyInv /\ [DevicesNext]_deviceVars =>
            [\A d \in Devices : fleet[d].row = "hidden" /\ fleet'[d].row # "hidden" =>
                                    client[d].at = "asking" /\ client'[d].at = "answered"]_deviceVars
    BY <1>1
  <1> QED BY InitPolicy, PolicyStep, <1>2, PTL DEF DevicesSpec, OnlyItselfComesBack

-----------------------------------------------------------------------------
(* DeviceSessions. *)

SessionRow == [conn : Conns, open : BOOLEAN, started : Ages, seen : Ages]
PostRow == [kind : {"new", "peer", "file", "close"}, conn : Conns, age : 0 .. Retry]

OneOpen == \A i, j \in Rows : rows[i].open /\ rows[j].open /\ rows[i].conn = rows[j].conn => i = j

\* Nothing is known of a connection before it is made.
UnknownYet ==
    \A c \in Conns : conn[c] = "not_yet" => /\ \A i \in Rows : rows[i].conn # c
                                            /\ \A p \in posts : p.conn # c
                                            /\ c \notin beat.conns

\* While a connection's opening is still reported, all of its rows are younger than that report.
NewSince == \A p \in posts : p.kind = "new" => \A i \in Rows : rows[i].conn = p.conn => rows[i].started <= p.age

SessionsTypes ==
    /\ conn \in [Conns -> {"not_yet", "up", "over"}]
    /\ posts \subseteq PostRow
    /\ beat \in [sent : BOOLEAN, conns : SUBSET Conns]
    /\ rows \in Seq(SessionRow) /\ Len(rows) <= MaxRows
    /\ files \in [Conns -> 0 .. 1]
    /\ deletes \in 0 .. MaxDeletes

SessionsInv == SessionsTypes /\ OneOpen /\ UnknownYet /\ NewSince

LEMMA InitSessions == SessionsInit => SessionsInv
  BY SessionsAssumption DEF SessionsAssumption, SessionsInit, SessionsInv, SessionsTypes, OneOpen, UnknownYet, NewSince,
     Rows, PostRow, SessionRow

LEMMA SessionValues ==
    /\ Retry \in Nat /\ Recent \in Nat /\ Retry <= Recent /\ 0 \in Ages /\ 0 \in 0 .. Retry /\ Ages \subseteq Int
    /\ \A c \in Conns : Row(c) \in SessionRow /\ Row(c).conn = c /\ Row(c).started = 0 /\ Row(c).open
    /\ \A n \in Ages : Older(n) \in Ages /\ Older(n) <= n + 1
  BY SessionsAssumption DEF SessionsAssumption, Ages, Row, SessionRow, Older

\* Rows that are there are only closed or touched, and those that are new are of connections that have none open.
LEMMA RowsStep ==
    ASSUME SessionsInv, NEW r, rows' = r, r \in Seq(SessionRow), Len(rows) <= Len(r), Len(r) <= MaxRows,
           conn' = conn, posts' \subseteq posts, beat'.conns \subseteq beat.conns,
           \A i \in Rows : r[i].conn = rows[i].conn /\ r[i].started = rows[i].started /\ (r[i].open => rows[i].open),
           \A i \in 1 .. Len(r) : i \notin Rows =>
               /\ r[i].started = 0 /\ conn[r[i].conn] # "not_yet"
               /\ \A j \in 1 .. Len(r) : r[j].open /\ r[j].conn = r[i].conn => j = i
    PROVE  OneOpen' /\ UnknownYet' /\ NewSince'
  <1>1. \A i \in 1 .. Len(r) : r[i] \in SessionRow
    OBVIOUS
  <1>2. OneOpen'
    <2>1. ASSUME NEW i \in 1 .. Len(r), NEW j \in 1 .. Len(r), r[i].open, r[j].open, r[i].conn = r[j].conn PROVE i = j
      BY <2>1 DEF SessionsInv, OneOpen
    <2> QED BY <2>1 DEF OneOpen, Rows
  <1>3. UnknownYet'
    <2>1. ASSUME NEW c \in Conns, conn[c] = "not_yet", NEW i \in 1 .. Len(r) PROVE r[i].conn # c
      BY <2>1 DEF SessionsInv, UnknownYet
    <2>2. ASSUME NEW c \in Conns, conn[c] = "not_yet" PROVE (\A p \in posts' : p.conn # c) /\ c \notin beat'.conns
      BY <2>2 DEF SessionsInv, UnknownYet
    <2> QED BY <2>1, <2>2 DEF UnknownYet, Rows
  <1>4. NewSince'
    <2>1. ASSUME NEW p \in posts', p.kind = "new", NEW i \in 1 .. Len(r), r[i].conn = p.conn PROVE r[i].started <= p.age
      <3>1. p \in posts /\ p.age \in 0 .. Retry
        BY DEF SessionsInv, SessionsTypes, PostRow
      <3>2. CASE i \in Rows
        BY <2>1, <3>1, <3>2 DEF SessionsInv, NewSince
      <3>3. CASE i \notin Rows
        BY <3>1, <3>3, SessionValues
      <3> QED BY <3>2, <3>3
    <2> QED BY <2>1 DEF NewSince, Rows
  <1> QED BY <1>2, <1>3, <1>4

\* A connection begins or ends, or its client reports.
LEMMA ReportStep ==
    ASSUME SessionsInv, NEW c \in Conns, NEW kind \in {"new", "peer", "file", "close"}, Post(kind, c),
           conn[c] # "not_yet" \/ kind = "new",
           kind = "new" => conn[c] = "not_yet",
           conn' \in [Conns -> {"not_yet", "up", "over"}], conn'[c] # "not_yet",
           \A d \in Conns : conn'[d] = "not_yet" => conn[d] = "not_yet",
           beat' = beat, rows' = rows, files' = files, deletes' = deletes
    PROVE  SessionsInv'
  <1> DEFINE q == [kind |-> kind, conn |-> c, age |-> 0]
  <1>1. q \in PostRow /\ posts' = posts \cup {q}
    BY SessionValues DEF Post, PostRow
  <1>2. q.kind = kind /\ q.conn = c
    OBVIOUS
  <1> HIDE DEF q
  <1>3. SessionsTypes'
    BY <1>1 DEF SessionsInv, SessionsTypes
  <1>4. OneOpen'
    BY DEF SessionsInv, OneOpen, Rows
  <1>5. UnknownYet'
    <2>1. ASSUME NEW d \in Conns, conn'[d] = "not_yet"
          PROVE  (\A i \in Rows : rows[i].conn # d) /\ (\A p \in posts' : p.conn # d) /\ d \notin beat.conns
      BY <1>1, <1>2, <2>1 DEF SessionsInv, UnknownYet
    <2> QED BY <2>1 DEF UnknownYet, Rows
  <1>6. NewSince'
    <2>1. ASSUME NEW p \in posts', p.kind = "new", NEW i \in Rows, rows[i].conn = p.conn PROVE rows[i].started <= p.age
      <3>1. CASE p \in posts
        BY <2>1, <3>1 DEF SessionsInv, NewSince
      <3>2. CASE p = q
        BY <1>2, <2>1, <3>2 DEF SessionsInv, UnknownYet
      <3> QED BY <1>1, <3>1, <3>2
    <2> QED BY <2>1 DEF NewSince, Rows
  <1> QED BY <1>3, <1>4, <1>5, <1>6 DEF SessionsInv

LEMMA ClientReports ==
    ASSUME SessionsInv, NEW c \in Conns, Opens(c) \/ Authorised(c) \/ SendsFile(c) \/ Closes(c)
    PROVE  SessionsInv'
  <1>1. conn \in [Conns -> {"not_yet", "up", "over"}]
    BY DEF SessionsInv, SessionsTypes
  <1>2. CASE Opens(c)
    BY <1>1, <1>2, ReportStep DEF Opens
  <1>3. CASE Authorised(c)
    BY <1>1, <1>3, ReportStep DEF Authorised
  <1>4. CASE SendsFile(c)
    BY <1>1, <1>4, ReportStep DEF SendsFile
  <1>5. CASE Closes(c)
    BY <1>1, <1>5, ReportStep DEF Closes
  <1> QED BY <1>2, <1>3, <1>4, <1>5

\* The client vanishes, or its heartbeat leaves or is lost.
LEMMA QuietStep ==
    ASSUME SessionsInv, Vanishes \/ SendBeat \/ LoseBeat
    PROVE  SessionsInv'
  <1>1. rows' = rows /\ files' = files /\ deletes' = deletes
    BY DEF Vanishes, SendBeat, LoseBeat
  <1>2. SessionsTypes'
    <2>1. conn' \in [Conns -> {"not_yet", "up", "over"}]
      <3>1. CASE Vanishes
        <4>1. conn' = [c \in Conns |-> IF conn[c] = "up" THEN "over" ELSE conn[c]]
          BY <3>1 DEF Vanishes
        <4>2. conn \in [Conns -> {"not_yet", "up", "over"}]
          BY DEF SessionsInv, SessionsTypes
        <4>3. \A c \in Conns : (IF conn[c] = "up" THEN "over" ELSE conn[c]) \in {"not_yet", "up", "over"}
          BY <4>2
        <4> QED BY <4>1, <4>3
      <3>2. CASE SendBeat \/ LoseBeat
        BY <3>2 DEF SendBeat, LoseBeat, SessionsInv, SessionsTypes
      <3> QED BY <3>1, <3>2
    <2>2. posts' \subseteq PostRow
      BY DEF Vanishes, SendBeat, LoseBeat, SessionsInv, SessionsTypes
    <2>3. beat' \in [sent : BOOLEAN, conns : SUBSET Conns]
      <3>1. CASE Vanishes \/ LoseBeat
        <4>1. beat' = beat \/ beat' = [sent |-> FALSE, conns |-> {}]
          BY <3>1 DEF Vanishes, LoseBeat
        <4>2. beat \in [sent : BOOLEAN, conns : SUBSET Conns]
          BY DEF SessionsInv, SessionsTypes
        <4>3. [sent |-> FALSE, conns |-> {}] \in [sent : BOOLEAN, conns : SUBSET Conns]
          OBVIOUS
        <4> QED BY <4>1, <4>2, <4>3
      <3>2. CASE SendBeat
        <4>1. beat' = [sent |-> TRUE, conns |-> {c \in Conns : conn[c] = "up"}]
          BY <3>2 DEF SendBeat
        <4>2. {c \in Conns : conn[c] = "up"} \in SUBSET Conns
          OBVIOUS
        <4> QED BY <4>1, <4>2
      <3> QED BY <3>1, <3>2
    <2> QED BY <1>1, <2>1, <2>2, <2>3 DEF SessionsInv, SessionsTypes
  <1>3. UnknownYet'
    <2>1. ASSUME NEW c \in Conns, conn'[c] = "not_yet"
          PROVE  conn[c] = "not_yet" /\ c \notin beat'.conns
      BY <2>1 DEF Vanishes, SendBeat, LoseBeat, SessionsInv, SessionsTypes, UnknownYet
    <2>2. posts' \subseteq posts
      BY DEF Vanishes, SendBeat, LoseBeat
    <2> QED BY <1>1, <2>1, <2>2 DEF SessionsInv, UnknownYet, Rows
  <1>4. OneOpen' /\ NewSince'
    BY <1>1 DEF Vanishes, SendBeat, LoseBeat, SessionsInv, OneOpen, NewSince, Rows
  <1> QED BY <1>2, <1>3, <1>4 DEF SessionsInv

\* The rows a heartbeat adds are of connections that have none open, one each.
LEMMA HeartbeatsStep ==
    ASSUME SessionsInv, Heartbeats
    PROVE  SessionsInv'
  <1> DEFINE fresh == {c \in beat.conns : OpenRows(c) = {}}
             kept == [i \in Rows |-> Reconciled(rows[i], beat.conns)]
             n == Cardinality(fresh)
  <1>1. /\ beat' = [sent |-> FALSE, conns |-> {}] /\ conn' = conn /\ posts' = posts /\ files' = files
        /\ deletes' = deletes /\ Len(rows) + n <= MaxRows
    BY DEF Heartbeats
  <1>2. PICK order \in [1 .. n -> fresh] :
            /\ \A c \in fresh : \E i \in DOMAIN order : order[i] = c
            /\ rows' = kept \o [i \in DOMAIN order |-> Row(order[i])]
    BY DEF Heartbeats
  <1>3. fresh \subseteq Conns /\ fresh \subseteq beat.conns /\ beat.conns \subseteq Conns
    BY DEF SessionsInv, SessionsTypes
  <1>4. n \in Nat /\ IsFiniteSet(fresh)
    BY <1>3, SessionsAssumption, FS_Subset, FS_CardinalityType DEF SessionsAssumption
  <1>5. \A i, j \in 1 .. n : order[i] = order[j] => i = j
    <2>1. order \in Surjection(1 .. n, fresh)
      BY <1>2 DEF Surjection
    <2>2. IsFiniteSet(1 .. n) /\ Cardinality(1 .. n) = n
      BY <1>4, FS_Interval
    <2> HIDE DEF fresh
    <2>3. order \in Injection(1 .. n, fresh)
      BY <2>1, <2>2, FS_SurjSameCardinalityImpliesInj
    <2> QED BY <2>3 DEF Injection, IsInjective
  <1>6. rows \in Seq(SessionRow) /\ Len(rows) \in Nat
    BY DEF SessionsInv, SessionsTypes
  <1>7. ASSUME NEW i \in Rows
        PROVE  /\ kept[i] \in SessionRow /\ kept[i].conn = rows[i].conn /\ kept[i].started = rows[i].started
               /\ kept[i].open => rows[i].open
    <2>1. rows[i] \in SessionRow
      BY <1>6, <1>7 DEF Rows
    <2> QED BY <2>1, SessionValues DEF Reconciled, SessionRow
  <1>8. kept \in Seq(SessionRow) /\ Len(kept) = Len(rows)
    BY <1>6, <1>7 DEF Rows
  <1> DEFINE added == [i \in 1 .. n |-> Row(order[i])]
  <1>9. \A i \in 1 .. n : order[i] \in fresh /\ order[i] \in Conns
    BY <1>2, <1>3
  <1>10. added \in Seq(SessionRow) /\ Len(added) = n
    <2>1. \A i \in 1 .. n : added[i] \in SessionRow
      BY <1>9, SessionValues
    <2>2. added = [i \in 1 .. n |-> added[i]]
      OBVIOUS
    <2> HIDE DEF added, n
    <2>3. added \in [1 .. n -> SessionRow]
      BY <2>1, <2>2
    <2> QED BY <1>4, <2>3
  <1> HIDE DEF n
  <1>11. rows' = kept \o added
    BY <1>2
  <1> HIDE DEF kept
  <1>12. ASSUME NEW i \in 1 .. n PROVE added[i].conn = order[i] /\ added[i].started = 0
    BY <1>9, <1>12, SessionValues
  <1> HIDE DEF added
  <1> DEFINE r == kept \o added
  <1>13. /\ r \in Seq(SessionRow) /\ Len(r) = Len(rows) + n
         /\ \A i \in Rows : r[i] = kept[i]
         /\ \A i \in 1 .. Len(r) : i \notin Rows => i - Len(rows) \in 1 .. n /\ r[i] = added[i - Len(rows)]
    BY <1>4, <1>6, <1>8, <1>10 DEF Rows
  <1> HIDE DEF r
  <1>14. ASSUME NEW i \in 1 .. Len(r), i \notin Rows
         PROVE  /\ r[i].started = 0 /\ conn[r[i].conn] # "not_yet"
                /\ \A j \in 1 .. Len(r) : r[j].open /\ r[j].conn = r[i].conn => j = i
    <2> DEFINE c == order[i - Len(rows)]
    <2>1. r[i].conn = c /\ r[i].started = 0 /\ c \in fresh /\ c \in Conns /\ c \in beat.conns
      BY <1>3, <1>9, <1>12, <1>13, <1>14
    <2>2. conn[c] # "not_yet"
      BY <2>1 DEF SessionsInv, UnknownYet
    <2>3. ASSUME NEW j \in 1 .. Len(r), r[j].open, r[j].conn = c PROVE j = i
      <3>1. CASE j \in Rows
        <4>1. rows[j].open /\ rows[j].conn = c
          BY <1>7, <1>13, <2>3, <3>1
        <4>2. j \in OpenRows(c)
          BY <3>1, <4>1 DEF OpenRows
        <4> QED BY <2>1, <4>2
      <3>2. CASE j \notin Rows
        <4>1. order[j - Len(rows)] = c /\ j - Len(rows) \in 1 .. n /\ i - Len(rows) \in 1 .. n
          BY <1>12, <1>13, <1>14, <2>3, <3>2
        <4>2. j - Len(rows) = i - Len(rows)
          BY <1>5, <4>1
        <4> QED BY <1>6, <4>2
      <3> QED BY <3>1, <3>2
    <2> HIDE DEF c
    <2> QED BY <2>1, <2>2, <2>3
  <1>15. \A i \in Rows : r[i].conn = rows[i].conn /\ r[i].started = rows[i].started /\ (r[i].open => rows[i].open)
    BY <1>7, <1>13
  <1>16. rows' = r /\ Len(rows) <= Len(r) /\ Len(r) <= MaxRows
    BY <1>1, <1>4, <1>6, <1>11, <1>13 DEF r, n
  <1>17. beat'.conns \subseteq beat.conns /\ posts' \subseteq posts
    BY <1>1
  <1>18. SessionsTypes'
    BY <1>1, <1>13, <1>16 DEF SessionsInv, SessionsTypes
  <1> QED BY <1>1, <1>13, <1>14, <1>15, <1>16, <1>17, <1>18, RowsStep DEF SessionsInv

\* The largest of some numbers up to n: of the intervals up to n that begin in the set, none is contained in all
\* the others but the one that begins there.
LEMMA LargestOf ==
    ASSUME NEW n \in Nat, NEW S \in SUBSET (0 .. n), S # {}
    PROVE  \E x \in S : \A y \in S : y <= x
  <1> DEFINE R == StrictSubsetOrdering(0 .. n)
             T == {x .. n : x \in S}
  <1>1. IsWellFoundedOn(R, FiniteSubsetsOf(0 .. n))
    BY FS_StrictSubsetOrderingWellFounded
  <1>2. T \subseteq FiniteSubsetsOf(0 .. n)
    <2>1. ASSUME NEW x \in S PROVE x .. n \subseteq 0 .. n /\ IsFiniteSet(x .. n)
      BY <2>1, FS_Interval
    <2> QED BY <2>1 DEF FiniteSubsetsOf
  <1>3. T # {}
    OBVIOUS
  <1> HIDE DEF R
  <1>4. PICK t \in T : \A u \in T : ~ (<<u, t>> \in R)
    BY <1>1, <1>2, <1>3, WFMin
  <1>5. PICK x \in S : t = x .. n
    OBVIOUS
  <1>6. ASSUME NEW y \in S, ~(y <= x) PROVE FALSE
    <2>1. y .. n \subseteq x .. n /\ x \in x .. n /\ x \notin y .. n
      BY <1>6
    <2>2. y .. n \in SUBSET (0 .. n) /\ x .. n \in SUBSET (0 .. n) /\ y .. n # x .. n
      BY <2>1
    <2>3. <<y .. n, x .. n>> \in R
      BY <2>1, <2>2 DEF R, StrictSubsetOrdering
    <2> QED BY <2>3, <1>4, <1>5
  <1> QED BY <1>6

\* A row that a report may be about is found.
LEMMA FoundRow ==
    ASSUME SessionsInv, NEW c \in Conns
    PROVE  Found(c) = 0 <=> \A i \in Rows : rows[i].conn = c => ~Reportable(rows[i])
  <1> DEFINE about == {i \in Rows : rows[i].conn = c /\ Reportable(rows[i])}
  <1>1. OpenRows(c) \subseteq about
    BY DEF OpenRows, Reportable
  <1>2. about = {} => Found(c) = 0
    BY DEF Found
  <1>3. ASSUME NEW S \in SUBSET Rows, S # {} PROVE Newest(S) \in S /\ Newest(S) # 0
    <2>1. Len(rows) \in Nat
      BY DEF SessionsInv, SessionsTypes
    <2>2. S \in SUBSET (0 .. Len(rows)) /\ 0 \notin S
      BY <1>3, <2>1 DEF Rows
    <2>3. \E i \in S : \A j \in S : j <= i
      BY <1>3, <2>1, <2>2, LargestOf
    <2> QED BY <2>2, <2>3 DEF Newest
  <1>4. about # {} => Found(c) # 0
    <2>1. about \in SUBSET Rows /\ OpenRows(c) \in SUBSET Rows
      BY DEF OpenRows
    <2>2. about # {} => Found(c) = IF OpenRows(c) # {} THEN Newest(OpenRows(c)) ELSE Newest(about)
      BY DEF Found
    <2> HIDE DEF about
    <2> QED BY <1>3, <2>1, <2>2
  <1> QED BY <1>2, <1>4

LEMMA DeliverStep ==
    ASSUME SessionsInv, NEW p \in posts, Deliver(p)
    PROVE  SessionsInv'
  <1> DEFINE c == p.conn
  <1>1. conn' = conn /\ beat' = beat /\ deletes' = deletes /\ posts' \subseteq posts /\ p \in PostRow /\ c \in Conns
    BY DEF Deliver, SessionsInv, SessionsTypes, PostRow
  <1>2. rows \in Seq(SessionRow) /\ Len(rows) \in Nat /\ Len(rows) <= MaxRows /\ MaxRows \in Nat
    BY SessionsAssumption DEF SessionsAssumption, SessionsInv, SessionsTypes
  <1>3. conn[c] # "not_yet"
    BY <1>1 DEF SessionsInv, UnknownYet
  <1>4. files' \in [Conns -> 0 .. 1]
    <2>1. files \in [Conns -> 0 .. 1]
      BY DEF SessionsInv, SessionsTypes
    <2>2. files' = files \/ files' = [files EXCEPT ![c] = Stored(c)]
      BY <1>1 DEF Deliver, PostRow
    <2>3. Stored(c) \in 0 .. 1
      BY <1>1, <2>1 DEF Stored
    <2> QED BY <2>1, <2>2, <2>3
  <1>5. ASSUME rows' = rows PROVE SessionsInv'
    BY <1>1, <1>2, <1>4, <1>5, RowsStep DEF SessionsInv, SessionsTypes, Rows
  <1>6. ASSUME AuditOpen(c) PROVE SessionsInv'
    <2>1. CASE Found(c) = 0
      <3> DEFINE r == Append(rows, Row(c))
      <3>1. rows' = r /\ Len(rows) < MaxRows
        BY <1>6, <2>1 DEF AuditOpen
      <3>2. /\ r \in Seq(SessionRow) /\ Len(r) = Len(rows) + 1 /\ r[Len(rows) + 1] = Row(c)
            /\ \A i \in Rows : r[i] = rows[i]
        BY <1>1, <1>2, SessionValues DEF Rows
      <3> HIDE DEF r
      <3>3. \A i \in Rows : rows[i].conn = c => ~rows[i].open
        BY <1>1, <2>1, FoundRow DEF Reportable
      <3>4. \A i \in 1 .. Len(r) : i \in Rows \/ i = Len(rows) + 1
        BY <1>2, <3>2 DEF Rows
      <3>5. Len(rows) <= Len(r) /\ Len(r) <= MaxRows
        BY <1>2, <3>1, <3>2
      <3>6. ASSUME NEW i \in 1 .. Len(r), i \notin Rows
            PROVE  /\ r[i].started = 0 /\ conn[r[i].conn] # "not_yet"
                   /\ \A j \in 1 .. Len(r) : r[j].open /\ r[j].conn = r[i].conn => j = i
        BY <1>1, <1>3, <3>2, <3>3, <3>4, <3>6, SessionValues
      <3>7. SessionsTypes'
        BY <1>1, <1>4, <3>1, <3>2, <3>5 DEF SessionsInv, SessionsTypes
      <3> QED BY <1>1, <3>1, <3>2, <3>5, <3>6, <3>7, RowsStep DEF SessionsInv
    <2>2. CASE Found(c) # 0
      BY <1>5, <1>6, <2>2 DEF AuditOpen
    <2> QED BY <2>1, <2>2
  <1>7. ASSUME AuditClose(c) PROVE SessionsInv'
    <2>1. CASE Found(c) = 0 \/ OpenRows(c) = {}
      BY <1>5, <1>7, <2>1 DEF AuditClose
    <2>2. CASE ~(Found(c) = 0 \/ OpenRows(c) = {})
      <3>1. PICK f : f = Found(c)
        OBVIOUS
      <3> DEFINE r == [rows EXCEPT ![f].open = FALSE, ![f].seen = 0]
      <3>2. rows' = r
        BY <1>7, <2>2, <3>1 DEF AuditClose
      <3>3. Len(r) = Len(rows) /\ r \in Seq(SessionRow)
        <4>0. rows \in [1 .. Len(rows) -> SessionRow]
          BY <1>2
        <4>1. ASSUME NEW i \in 1 .. Len(rows) PROVE r[i] \in SessionRow
          <5>1. rows[i] \in SessionRow
            BY <1>2, <4>1
          <5>2. CASE i = f
            <6>1. r[i] = [rows[i] EXCEPT !.open = FALSE, !.seen = 0]
              BY <4>0, <4>1, <5>2
            <6> HIDE DEF r
            <6> QED BY <5>1, <6>1, SessionValues DEF SessionRow
          <5>3. CASE i # f
            BY <4>0, <4>1, <5>1, <5>3
          <5> QED BY <5>2, <5>3
        <4>2. DOMAIN r = 1 .. Len(rows) /\ r = [i \in DOMAIN r |-> r[i]]
          BY <4>0
        <4> HIDE DEF r
        <4>3. r \in [1 .. Len(rows) -> SessionRow]
          BY <4>1, <4>2
        <4> QED BY <1>2, <4>3
      <3>4. ASSUME NEW i \in Rows
            PROVE  r[i].conn = rows[i].conn /\ r[i].started = rows[i].started /\ (r[i].open => rows[i].open)
        <4>1. rows[i] \in SessionRow
          BY <1>2, <3>4 DEF Rows
        <4> QED BY <1>2, <3>4, <4>1 DEF SessionRow, Rows
      <3> HIDE DEF r
      <3>5. SessionsTypes'
        BY <1>1, <1>2, <1>4, <3>2, <3>3 DEF SessionsInv, SessionsTypes
      <3> QED BY <1>1, <1>2, <3>2, <3>3, <3>4, <3>5, RowsStep DEF SessionsInv, Rows
    <2> QED BY <2>1, <2>2
  <1> QED BY <1>1, <1>5, <1>6, <1>7 DEF Deliver, PostRow

LEMMA SweepsStep ==
    ASSUME SessionsInv, Sweeps
    PROVE  SessionsInv'
  <1> DEFINE r == [i \in Rows |-> IF IsStale(rows[i]) THEN [rows[i] EXCEPT !.open = FALSE] ELSE rows[i]]
  <1>1. rows' = r /\ conn' = conn /\ posts' = posts /\ beat' = beat /\ files' = files /\ deletes' = deletes
    BY DEF Sweeps
  <1>2. rows \in Seq(SessionRow) /\ Len(rows) \in Nat /\ Len(rows) <= MaxRows
    BY DEF SessionsInv, SessionsTypes
  <1>3. ASSUME NEW i \in Rows
        PROVE  /\ r[i] \in SessionRow /\ r[i].conn = rows[i].conn /\ r[i].started = rows[i].started
               /\ r[i].open => rows[i].open
    <2>1. rows[i] \in SessionRow
      BY <1>2, <1>3 DEF Rows
    <2> QED BY <2>1 DEF SessionRow
  <1>4. r \in Seq(SessionRow) /\ Len(r) = Len(rows)
    BY <1>2, <1>3 DEF Rows
  <1> HIDE DEF r
  <1>5. SessionsTypes'
    BY <1>1, <1>2, <1>4 DEF SessionsInv, SessionsTypes
  <1> QED BY <1>1, <1>2, <1>3, <1>4, <1>5, RowsStep DEF SessionsInv, Rows

LEMMA DeletesStep ==
    ASSUME SessionsInv, Deletes
    PROVE  SessionsInv'
  <1>1. /\ rows' = <<>> /\ files' = [c \in Conns |-> 0] /\ conn' = conn /\ posts' = posts /\ beat' = beat
        /\ deletes < MaxDeletes /\ deletes' = deletes + 1
    BY DEF Deletes
  <1>2. SessionsTypes'
    BY <1>1, SessionsAssumption DEF SessionsAssumption, SessionsInv, SessionsTypes
  <1>3. OneOpen' /\ UnknownYet' /\ NewSince'
    BY <1>1 DEF SessionsInv, OneOpen, UnknownYet, NewSince, Rows
  <1> QED BY <1>2, <1>3 DEF SessionsInv

\* A report grows older with the rows it is about.
LEMMA SessionsTickStep ==
    ASSUME SessionsInv, SessionsTick
    PROVE  SessionsInv'
  <1> DEFINE r == [i \in Rows |-> [rows[i] EXCEPT !.started = Older(@), !.seen = Older(@)]]
  <1>1. /\ rows' = r /\ conn' = conn /\ beat' = beat /\ files' = files /\ deletes' = deletes
        /\ posts' = {[p EXCEPT !.age = @ + 1] : p \in {q \in posts : q.age < Retry}}
    BY DEF SessionsTick
  <1>2. rows \in Seq(SessionRow) /\ Len(rows) \in Nat /\ Len(rows) <= MaxRows /\ posts \subseteq PostRow
    BY DEF SessionsInv, SessionsTypes
  <1>3. ASSUME NEW i \in Rows
        PROVE  /\ r[i] \in SessionRow /\ r[i].conn = rows[i].conn /\ r[i].started \in Int /\ rows[i].started \in Int
               /\ r[i].started <= rows[i].started + 1 /\ r[i].open = rows[i].open
    <2>1. rows[i] \in SessionRow
      BY <1>2, <1>3 DEF Rows
    <2> QED BY <2>1, SessionValues DEF SessionRow
  <1>4. r \in Seq(SessionRow) /\ Len(r) = Len(rows)
    <2>1. r = [i \in 1 .. Len(rows) |-> r[i]]
      BY DEF Rows
    <2> HIDE DEF r
    <2>2. r \in [1 .. Len(rows) -> SessionRow]
      BY <1>3, <2>1 DEF Rows
    <2> QED BY <1>2, <2>2
  <1> HIDE DEF r
  <1>5. \A p \in posts' : \E q \in posts : /\ p.kind = q.kind /\ p.conn = q.conn /\ p.age = q.age + 1 /\ q.age \in Int
                                           /\ p \in PostRow
    BY <1>1, <1>2, SessionValues DEF PostRow
  <1>6. SessionsTypes'
    BY <1>1, <1>2, <1>4, <1>5 DEF SessionsInv, SessionsTypes
  <1>7. OneOpen'
    BY <1>1, <1>3, <1>4 DEF SessionsInv, OneOpen, Rows
  <1>8. UnknownYet'
    <2>1. ASSUME NEW c \in Conns, conn[c] = "not_yet"
          PROVE  (\A i \in Rows : r[i].conn # c) /\ (\A p \in posts' : p.conn # c) /\ c \notin beat.conns
      BY <1>3, <1>5, <2>1 DEF SessionsInv, UnknownYet
    <2> QED BY <1>1, <1>4, <2>1 DEF UnknownYet, Rows
  <1>9. NewSince'
    <2>1. ASSUME NEW p \in posts', p.kind = "new", NEW i \in Rows, r[i].conn = p.conn PROVE r[i].started <= p.age
      <3>1. PICK q \in posts : p.kind = q.kind /\ p.conn = q.conn /\ p.age = q.age + 1 /\ q.age \in Int
        BY <1>5
      <3>2. rows[i].started <= q.age
        BY <1>3, <2>1, <3>1 DEF SessionsInv, NewSince
      <3> QED BY <1>3, <3>1, <3>2
    <2> QED BY <1>1, <1>4, <2>1 DEF NewSince, Rows
  <1> QED BY <1>6, <1>7, <1>8, <1>9 DEF SessionsInv

LEMMA SessionsStep == SessionsInv /\ [SessionsNext]_sessionVars => SessionsInv'
  <1> SUFFICES ASSUME SessionsInv, [SessionsNext]_sessionVars PROVE SessionsInv'
    OBVIOUS
  <1>1. CASE UNCHANGED sessionVars
    BY <1>1 DEF sessionVars, SessionsInv, SessionsTypes, OneOpen, UnknownYet, NewSince, Rows
  <1> QED BY <1>1, ClientReports, QuietStep, HeartbeatsStep, DeliverStep, SweepsStep, DeletesStep, SessionsTickStep
          DEF SessionsNext

\* The types, and that a connection has one open session at most.
THEOREM SessionsTypeCorrect == SessionsSpec => []SessionsTypeOK
  <1>1. SessionsInv => SessionsTypeOK
    BY DEF SessionsInv, SessionsTypes, SessionsTypeOK, SessionRow, PostRow
  <1> QED BY <1>1, InitSessions, SessionsStep, PTL DEF SessionsSpec

\* One step of RepeatsCountOnce.
RepeatStep ==
    /\ \A p \in posts : Deliver(p) /\ Expected(p) => Len(rows') = Len(rows)
    /\ \A c \in Conns : Cardinality(OpenRows(c)') <= 1

LEMMA RepeatStepHolds ==
    ASSUME SessionsInv, SessionsInv'
    PROVE  RepeatStep
  <1>1. ASSUME NEW p \in posts, Deliver(p), NEW i \in Rows, rows[i].conn = p.conn,
               p.kind = "new" \/ rows[i].started <= p.age + (Recent - Retry)
        PROVE  Len(rows') = Len(rows)
    <2>1. p.conn \in Conns /\ p.age \in 0 .. Retry /\ Ages \subseteq Int
      BY SessionValues DEF SessionsInv, SessionsTypes, PostRow
    <2>2. rows[i].started \in Int
      <3>1. rows[i] \in SessionRow
        BY DEF SessionsInv, SessionsTypes, Rows
      <3> QED BY <2>1, <3>1 DEF SessionRow
    <2>3. rows[i].started <= p.age \/ rows[i].started <= p.age + (Recent - Retry)
      BY <1>1 DEF SessionsInv, NewSince
    <2>4. rows[i].started <= Recent
      BY <2>1, <2>2, <2>3, SessionValues
    <2>5. Reportable(rows[i])
      BY <2>4 DEF Reportable
    <2>6. Found(p.conn) # 0
      BY <1>1, <2>1, <2>5, FoundRow
    <2>7. p.kind \in {"new", "peer", "file", "close"}
      BY DEF SessionsInv, SessionsTypes, PostRow
    <2>8. CASE p.kind \in {"new", "peer"}
      BY <1>1, <2>6, <2>8 DEF Deliver, AuditOpen
    <2>9. CASE p.kind = "close"
      BY <1>1, <2>9 DEF Deliver, AuditClose, SessionsInv, SessionsTypes
    <2>10. CASE p.kind = "file"
      BY <1>1, <2>10 DEF Deliver
    <2> QED BY <2>7, <2>8, <2>9, <2>10
  <1>2. ASSUME NEW c \in Conns PROVE Cardinality(OpenRows(c)') <= 1
    <2>1. \A i, j \in OpenRows(c)' : i = j
      BY DEF OpenRows, SessionsInv, OneOpen
    <2>2. CASE OpenRows(c)' = {}
      BY <2>2, FS_EmptySet
    <2>3. CASE OpenRows(c)' # {}
      <3>1. PICK i : OpenRows(c)' = {i}
        BY <2>1, <2>3
      <3>2. Cardinality({i}) = 1
        BY FS_Singleton
      <3>3. Cardinality(OpenRows(c)') = 1
        BY <3>1, <3>2
      <3> QED BY <3>3
    <2> QED BY <2>2, <2>3
  <1>3. ASSUME NEW p \in posts, Deliver(p), Expected(p) PROVE Len(rows') = Len(rows)
    BY <1>1, <1>3 DEF Expected
  <1> QED BY <1>2, <1>3 DEF RepeatStep

\* However late and often reports are repeated, however closes, heartbeats, sweeps and the deletion of the device come
\* in between: the opening of a connection that has a session makes no second one, a peer's report makes none when the
\* session was young enough as the report was first sent, and no connection has two open sessions; for any number of
\* connections and any repeat time within the window (_audit_session_id, _reconcile_sessions).
THEOREM RepeatsAlwaysCountOnce == SessionsSpec => RepeatsCountOnce
  <1>1. SessionsInv /\ SessionsInv' => [RepeatStep]_sessionVars
    BY RepeatStepHolds
  <1> QED BY <1>1, InitSessions, SessionsStep, PTL DEF SessionsSpec, RepeatsCountOnce, RepeatStep
=============================================================================
