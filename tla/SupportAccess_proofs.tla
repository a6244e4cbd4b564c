--------------------------- MODULE SupportAccess_proofs ---------------------------
(***************************************************************************)
(* SupportAccess, and the ProviderAdmins it extends, for any number of        *)
(* admins, consoles, tabs, grants, tokens and sessions: type correctness,      *)
(* DisabledIsOut and, for a tenant whose requests come one after the other,     *)
(* RevokeEndsAll.                                                               *)
(***************************************************************************)
EXTENDS SupportAccess, SequenceTheorems, FiniteSetTheorems, TLAPS

\* What the rows refer to was there before them.
Refers ==
    /\ \A t \in 1 .. Len(tokens) : tokens[t].grant <= Len(grants)
    /\ \A s \in 1 .. Len(entries) : entries[s].grant <= Len(grants)
    /\ \A b \in Tabs : /\ tab[b].entry <= Len(entries)
                       /\ entering[b].at # "no" => entering[b].token \in 1 .. Len(tokens)
    /\ \A k \in Clerks : /\ clerk[k].grant <= Len(grants)
                         /\ clerk[k].does = "revoke" => clerk[k].grant # 0
    /\ \A c \in Consoles : console[c].enroll <= Len(links)
    /\ \A e \in enrolling : e[2] <= Len(links)

SupportInv == SupportTypeOK /\ Refers

\* A version that was disabled has been left behind.
DisabledAreOld ==
    \A a \in Admins, v \in 0 .. MaxVersion : <<a, v>> \in disabled => v < admin[a].version

\* One grant at most is live, and a request of the tenant knows it.
OneLive ==
    /\ \A g, h \in Live : g = h
    /\ \A k \in Clerks : clerk[k].does # "nothing" => Live \subseteq {clerk[k].grant}

GrantRow == [state : {"live", "over", "revoked"}, told : BOOLEAN]
TokenRow == [grant : 1 .. MaxGrants, by : Admins, used : BOOLEAN]
EntryRow == [grant : 1 .. MaxGrants, by : Admins, state : {"open", "ended"}]
LinkRow == [of : Admins, good : BOOLEAN]

-----------------------------------------------------------------------------
(* The rows, as sequences. *)

\* A function on 1 .. n is a sequence.
LEMMA FunctionIsSeq ==
    ASSUME NEW S, NEW n \in Nat, NEW f \in [1 .. n -> S]
    PROVE  f \in Seq(S) /\ Len(f) = n
  BY SeqDef, LenProperties

\* Ending the sessions of some grants changes nothing else of them.
LEMMA EndEntriesType ==
    ASSUME entries \in Seq(EntryRow), NEW of
    PROVE  /\ EndEntries(of) \in Seq(EntryRow)
           /\ Len(EndEntries(of)) = Len(entries)
           /\ \A s \in 1 .. Len(entries) :
                 /\ EndEntries(of)[s].grant = entries[s].grant
                 /\ EndEntries(of)[s].by = entries[s].by
                 /\ EndEntries(of)[s].state = "open" => entries[s].grant \notin of /\ entries[s].state = "open"
  <1>1. Len(entries) \in Nat /\ \A s \in 1 .. Len(entries) : entries[s] \in EntryRow
    BY LenProperties, ElementOfSeq
  <1>2. EndEntries(of) \in [1 .. Len(entries) -> EntryRow]
    BY <1>1 DEF EndEntries, EntryRow
  <1>3. EndEntries(of) \in Seq(EntryRow) /\ Len(EndEntries(of)) = Len(entries)
    BY <1>1, <1>2, FunctionIsSeq
  <1>4. ASSUME NEW s \in 1 .. Len(entries)
        PROVE  /\ EndEntries(of)[s].grant = entries[s].grant
               /\ EndEntries(of)[s].by = entries[s].by
               /\ EndEntries(of)[s].state = "open" => entries[s].grant \notin of /\ entries[s].state = "open"
    BY <1>1, <1>4 DEF EndEntries, EntryRow
  <1> QED BY <1>3, <1>4

\* Some number of a set of numbers is the largest: of the intervals up to n that begin in the set, none is
\* contained in all the others but the one that begins there.
LEMMA LargestOf ==
    ASSUME NEW n \in Nat, NEW S \in SUBSET (0 .. n), S # {}
    PROVE  \E x \in S : \A y \in S : y <= x
  <1> DEFINE R == StrictSubsetOrdering(0 .. n)
             T == {x .. n : x \in S}
  <1>1. IsWellFoundedOn(R, FiniteSubsetsOf(0 .. n))
    BY FS_StrictSubsetOrderingWellFounded
  <1>2. T \subseteq FiniteSubsetsOf(0 .. n)
    <2>1. ASSUME NEW x \in S PROVE x .. n \subseteq 0 .. n /\ IsFiniteSet(x .. n)
      BY <2>1, FS_Interval
    <2> QED BY <2>1 DEF FiniteSubsetsOf
  <1>3. T # {}
    OBVIOUS
  <1> HIDE DEF R
  <1>4. PICK t \in T : \A u \in T : ~ (<<u, t>> \in R)
    BY <1>1, <1>2, <1>3, WFMin
  <1>5. PICK x \in S : t = x .. n
    OBVIOUS
  <1>6. ASSUME NEW y \in S, ~(y <= x) PROVE FALSE
    <2>1. y .. n \subseteq x .. n /\ x \in x .. n /\ x \notin y .. n
      BY <1>6
    <2>2. y .. n \in SUBSET (0 .. n) /\ x .. n \in SUBSET (0 .. n) /\ y .. n # x .. n
      BY <2>1
    <2>3. <<y .. n, x .. n>> \in R
      BY <2>1, <2>2 DEF R, StrictSubsetOrdering
    <2> QED BY <2>3, <1>4, <1>5
  <1> QED BY <1>6

\* The newest live grant, if there is one.
LEMMA ActiveGrantLives ==
    ASSUME grants \in Seq(GrantRow)
    PROVE  /\ ActiveGrant \in 0 .. Len(grants)
           /\ ActiveGrant # 0 => ActiveGrant \in Live
           /\ ActiveGrant = 0 => Live = {}
  <1>1. Len(grants) \in Nat /\ Live \subseteq 1 .. Len(grants)
    BY LenProperties DEF Live
  <1>2. CASE Live = {}
    BY <1>1, <1>2 DEF ActiveGrant
  <1>3. CASE Live # {}
    <2>1. Live \in SUBSET (0 .. Len(grants))
      BY <1>1
    <2>2. \E g \in Live : \A h \in Live : h <= g
      BY <1>1, <1>3, <2>1, LargestOf
    <2>3. ActiveGrant \in Live
      BY <1>3, <2>2 DEF ActiveGrant
    <2> QED BY <1>1, <1>3, <2>3
  <1> QED BY <1>2, <1>3

-----------------------------------------------------------------------------
(* Type correctness, with what the rows refer to. *)

LEMMA InitSupport == SupportInit => SupportInv
  <1> SUFFICES ASSUME SupportInit PROVE SupportInv
    OBVIOUS
  <1> USE AdminsAssumption, SupportAssumption DEF AdminsAssumption, SupportAssumption, SupportInit, AdminInit
  <1>1. AdminTypeOK
    BY DEF AdminTypeOK, NoSession
  <1>2. SupportTypeOK
    BY <1>1 DEF SupportTypeOK, NoErrand, NotEntering, NoEntry
  <1>3. Refers
    BY DEF Refers, NoErrand, NotEntering, NoEntry, NoSession
  <1> QED BY <1>2, <1>3 DEF SupportInv

\* A new link, with the others of its admin invalid.
LEMMA NewLinkType ==
    ASSUME links \in Seq(LinkRow), NEW a \in Admins, NewLink(a)
    PROVE  links' \in Seq(LinkRow) /\ Len(links') = Len(links) + 1 /\ Len(links') <= MaxLinks
  <1> DEFINE old == [l \in 1 .. Len(links) |-> [links[l] EXCEPT !.good = @ /\ links[l].of # a]]
             new == [of |-> a, good |-> TRUE]
  <1>1. Len(links) \in Nat /\ \A l \in 1 .. Len(links) : links[l] \in LinkRow
    BY LenProperties, ElementOfSeq
  <1>2. old \in [1 .. Len(links) -> LinkRow] /\ new \in LinkRow
    BY <1>1 DEF LinkRow
  <1>3. old \in Seq(LinkRow) /\ Len(old) = Len(links)
    BY <1>1, <1>2, FunctionIsSeq
  <1>4. links' = Append(old, new)
    BY DEF NewLink
  <1> HIDE DEF old, new
  <1>5. links' \in Seq(LinkRow) /\ Len(links') = Len(links) + 1
    BY <1>2, <1>3, <1>4, AppendProperties
  <1> QED BY <1>1, <1>5, AdminsAssumption DEF NewLink, AdminsAssumption

\* The console's part of the types, row by row.
AdminRow == [state : {"none", "enabled", "disabled"}, version : 0 .. MaxVersion, passkey : BOOLEAN]
ConsoleRow == [by : Admins \cup {NoAdmin}, version : 0 .. MaxVersion, enroll : 0 .. MaxLinks]
AdminInv ==
    /\ admin \in [Admins -> AdminRow]
    /\ console \in [Consoles -> ConsoleRow]
    /\ links \in Seq(LinkRow) /\ Len(links) \in 0 .. MaxLinks
    /\ arrived \subseteq Consoles \X Admins
    /\ enrolling \subseteq Consoles \X (1 .. MaxLinks)
    /\ disabled \subseteq Admins \X (0 .. MaxVersion)
    /\ \A c \in Consoles : console[c].enroll <= Len(links)
    /\ \A e \in enrolling : e[2] <= Len(links)

LEMMA AdminInvIsTypes ==
    AdminInv <=> /\ AdminTypeOK
                 /\ \A c \in Consoles : console[c].enroll <= Len(links)
                 /\ \A e \in enrolling : e[2] <= Len(links)
  <1>1. links \in Seq(LinkRow) => Len(links) \in Nat
    BY LenProperties
  <1> QED BY SMTT(30), <1>1, AdminsAssumption DEF AdminInv, AdminTypeOK, AdminRow, ConsoleRow, LinkRow, AdminsAssumption

\* Rows stay rows when a field is set.
LEMMA RowTypes ==
    /\ \A r \in ConsoleRow, l \in 0 .. MaxLinks : [r EXCEPT !.enroll = l] \in ConsoleRow /\ [r EXCEPT !.enroll = l].enroll = l
    /\ \A r \in AdminRow : r.version < MaxVersion => Disabled(r) \in AdminRow /\ Disabled(r).version = r.version + 1
    /\ \A r \in LinkRow : r.of \in Admins /\ [r EXCEPT !.good = FALSE] \in LinkRow
  <1>1. \A r \in ConsoleRow, l \in 0 .. MaxLinks :
            [r EXCEPT !.enroll = l] \in ConsoleRow /\ [r EXCEPT !.enroll = l].enroll = l
    BY DEF ConsoleRow
  <1>2. ASSUME NEW r \in AdminRow, r.version < MaxVersion
        PROVE  Disabled(r) \in AdminRow /\ Disabled(r).version = r.version + 1
    <2>1. r.version + 1 \in 0 .. MaxVersion
      BY <1>2, AdminsAssumption DEF AdminRow, AdminsAssumption
    <2> QED BY <2>1 DEF AdminRow, Disabled
  <1>3. \A r \in LinkRow : r.of \in Admins /\ [r EXCEPT !.good = FALSE] \in LinkRow
    BY DEF LinkRow
  <1> QED BY <1>1, <1>2, <1>3

\* The sessions a browser may be given.
LEMMA SessionTypes ==
    ASSUME AdminInv
    PROVE  /\ NoSession \in ConsoleRow /\ NoSession.enroll = 0
           /\ \A a \in Admins : SessionOf(a) \in ConsoleRow /\ SessionOf(a).enroll = 0
  <1>1. NoSession \in ConsoleRow /\ NoSession.enroll = 0
    BY AdminsAssumption DEF AdminsAssumption, NoSession, ConsoleRow
  <1>2. ASSUME NEW a \in Admins PROVE SessionOf(a) \in ConsoleRow /\ SessionOf(a).enroll = 0
    <2>1. admin[a].version \in 0 .. MaxVersion
      BY DEF AdminInv, AdminRow
    <2> QED BY <1>1, <2>1 DEF SessionOf, ConsoleRow
  <1> QED BY <1>1, <1>2

LEMMA AdminTypeStep == AdminInv /\ AdminNext => AdminInv'
  <1> SUFFICES ASSUME AdminInv, AdminNext PROVE AdminInv'
    OBVIOUS
  <1> USE AdminsAssumption DEF AdminsAssumption, AdminInv
  <1>0. \A l \in 1 .. Len(links) : links[l] \in LinkRow /\ links[l].of \in Admins
                                    /\ [links[l] EXCEPT !.good = FALSE] \in LinkRow
    BY ElementOfSeq, RowTypes
  <1>a. ASSUME NEW l \in 1 .. Len(links), links' = [links EXCEPT ![l].good = FALSE]
        PROVE  links' \in Seq(LinkRow) /\ Len(links') = Len(links)
    BY <1>0, <1>a, ExceptSeq
  <1>1. ASSUME NEW c \in Consoles, AdminArrives(c) PROVE AdminInv'
    BY <1>1 DEF AdminArrives, SignedIn, Enabled, ConsoleRow
  <1>2. ASSUME NEW c \in Consoles, TurnedAway(c) PROVE AdminInv'
    BY <1>2, SessionTypes DEF TurnedAway
  <1>3. ASSUME NEW c \in Consoles, AdminLogout(c) PROVE AdminInv'
    BY <1>3, SessionTypes DEF AdminLogout
  <1>4. ASSUME NEW c \in Consoles, NEW a \in Admins, AdminLogin(c, a) PROVE AdminInv'
    BY <1>4, SessionTypes DEF AdminLogin
  <1>5. ASSUME NEW c \in Consoles, EnrollComplete(c) PROVE AdminInv'
    <2>1. console[c].enroll \in 0 .. MaxLinks /\ [console[c] EXCEPT !.enroll = 0] \in ConsoleRow
          /\ [console[c] EXCEPT !.enroll = 0].enroll = 0
      <3>1. console[c] \in ConsoleRow /\ 0 \in 0 .. MaxLinks
        OBVIOUS
      <3>2. console[c].enroll \in 0 .. MaxLinks
        BY <3>1 DEF ConsoleRow
      <3> QED BY <3>1, <3>2, RowTypes
    <2>2. console' = [console EXCEPT ![c] = [console[c] EXCEPT !.enroll = 0]]
      BY <1>5 DEF EnrollComplete
    <2>3. enrolling' \in {enrolling, enrolling \cup {<<c, console[c].enroll>>}} /\ console[c].enroll # 0
          /\ UNCHANGED <<admin, links, arrived, disabled>>
      BY <1>5 DEF EnrollComplete
    <2>4. enrolling' \subseteq Consoles \X (1 .. MaxLinks) /\ \A e \in enrolling' : e[2] <= Len(links)
      BY <2>1, <2>3
    <2> QED BY <2>1, <2>2, <2>3, <2>4
  <1>6. ASSUME NEW c \in Consoles, NEW l \in 1 .. Len(links), EnrollBegin(c, l) PROVE AdminInv'
    <2>1. [console[c] EXCEPT !.enroll = l] \in ConsoleRow /\ [console[c] EXCEPT !.enroll = l].enroll = l
      <3>1. console[c] \in ConsoleRow /\ l \in 0 .. MaxLinks
        OBVIOUS
      <3> QED BY <3>1, RowTypes
    <2>2. console' = [console EXCEPT ![c] = [console[c] EXCEPT !.enroll = l]]
          /\ UNCHANGED <<admin, links, arrived, enrolling, disabled>>
      BY <1>6 DEF EnrollBegin
    <2> QED BY <2>1, <2>2
  <1>7. ASSUME NEW c \in Consoles, NEW l \in 1 .. Len(links), Enrolled(c, l) PROVE AdminInv'
    <2>1. links' \in Seq(LinkRow) /\ Len(links') = Len(links)
      BY <1>7, <1>a DEF Enrolled
    <2>2. links[l].of \in Admins
      BY <1>0
    <2>3. admin' \in [Admins -> AdminRow]
      BY <1>7, <2>2 DEF Enrolled, AdminRow
    <2>4. console' = [console EXCEPT ![c] = SessionOf(links[l].of)] /\ enrolling' \subseteq enrolling
          /\ UNCHANGED <<arrived, disabled>>
      BY <1>7 DEF Enrolled
    <2>5. SessionOf(links[l].of) \in ConsoleRow /\ SessionOf(links[l].of).enroll = 0
      BY <2>2, SessionTypes
    <2> QED BY <2>1, <2>3, <2>4, <2>5
  <1>8. ASSUME NEW l \in 1 .. Len(links), LinkExpires(l) PROVE AdminInv'
    BY <1>8, <1>a DEF LinkExpires
  <1>9. ASSUME NEW c \in Consoles, NEW by \in Admins, AdminHandles(c, by) PROVE AdminInv'
    <2>0. arrived' \subseteq arrived /\ UNCHANGED <<console, enrolling>>
      BY <1>9 DEF AdminHandles
    <2>1. ASSUME NEW a \in Admins, Invite(a) PROVE AdminInv'
      <3>1. admin' \in [Admins -> AdminRow] /\ UNCHANGED disabled
        BY <2>1 DEF Invite, AdminRow
      <3>2. links' \in Seq(LinkRow) /\ Len(links') = Len(links) + 1 /\ Len(links') <= MaxLinks
        BY <2>1, NewLinkType DEF Invite
      <3> QED BY SMTT(30), <2>0, <3>1, <3>2 DEF ConsoleRow
    <2>2. ASSUME NEW a \in Admins, GiveLink(a) PROVE AdminInv'
      <3>1. links' \in Seq(LinkRow) /\ Len(links') = Len(links) + 1 /\ Len(links') <= MaxLinks /\ UNCHANGED <<admin, disabled>>
        BY <2>2, NewLinkType DEF GiveLink
      <3> QED BY SMTT(30), <2>0, <3>1 DEF ConsoleRow
    <2>3. ASSUME NEW a \in Admins, Disable(by, a) PROVE AdminInv'
      <3>1. admin[a].version \in 0 .. MaxVersion /\ admin[a].version < MaxVersion
        BY <2>3 DEF Disable, AdminRow
      <3>2. Disabled(admin[a]) \in AdminRow
        <4>1. admin[a] \in AdminRow
          OBVIOUS
        <4> QED BY <3>1, <4>1, RowTypes
      <3> QED BY <2>0, <2>3, <3>1, <3>2 DEF Disable
    <2>4. ASSUME NEW a \in Admins, Enable(a) PROVE AdminInv'
      BY <2>0, <2>4 DEF Enable, AdminRow
    <2>5. CASE UNCHANGED <<admin, links, disabled>>
      BY <2>0, <2>5
    <2> QED BY <1>9, <2>1, <2>2, <2>3, <2>4, <2>5 DEF AdminHandles
  <1> QED BY <1>1, <1>2, <1>3, <1>4, <1>5, <1>6, <1>7, <1>8, <1>9 DEF AdminNext

\* The dashboard's part.
ClerkRow == [does : {"nothing", "grant", "revoke"}, grant : 0 .. MaxGrants]
EnteringRow == [at : {"no", "read", "spent", "checked"}, token : 0 .. MaxTokens, version : 0 .. MaxVersion]
TabRow == [entry : 0 .. MaxEntries, version : 0 .. MaxVersion]
RowsInv ==
    /\ open \in BOOLEAN
    /\ grants \in Seq(GrantRow) /\ Len(grants) \in 0 .. MaxGrants
    /\ clerk \in [Clerks -> ClerkRow]
    /\ tokens \in Seq(TokenRow) /\ Len(tokens) \in 0 .. MaxTokens
    /\ entering \in [Tabs -> EnteringRow]
    /\ entries \in Seq(EntryRow) /\ Len(entries) \in 0 .. MaxEntries
    /\ tab \in [Tabs -> TabRow]
    /\ \A t \in 1 .. Len(tokens) : tokens[t].grant <= Len(grants)
    /\ \A s \in 1 .. Len(entries) : entries[s].grant <= Len(grants)
    /\ \A b \in Tabs : /\ tab[b].entry <= Len(entries)
                       /\ entering[b].at # "no" => entering[b].token \in 1 .. Len(tokens)
    /\ \A k \in Clerks : /\ clerk[k].grant <= Len(grants)
                         /\ clerk[k].does = "revoke" => clerk[k].grant # 0

LEMMA SupportInvIsRows == SupportInv <=> AdminInv /\ RowsInv
  <1>1. /\ grants \in Seq(GrantRow) => Len(grants) \in Nat
        /\ tokens \in Seq(TokenRow) => Len(tokens) \in Nat
        /\ entries \in Seq(EntryRow) => Len(entries) \in Nat
    BY LenProperties
  <1>2. /\ grants \in Seq(GrantRow) => (Len(grants) <= MaxGrants <=> Len(grants) \in 0 .. MaxGrants)
        /\ tokens \in Seq(TokenRow) => (Len(tokens) <= MaxTokens <=> Len(tokens) \in 0 .. MaxTokens)
        /\ entries \in Seq(EntryRow) => (Len(entries) <= MaxEntries <=> Len(entries) \in 0 .. MaxEntries)
    BY <1>1, SupportAssumption DEF SupportAssumption
  <1> DEFINE Types ==
        /\ open \in BOOLEAN
        /\ grants \in Seq(GrantRow) /\ Len(grants) \in 0 .. MaxGrants
        /\ clerk \in [Clerks -> ClerkRow]
        /\ tokens \in Seq(TokenRow) /\ Len(tokens) \in 0 .. MaxTokens
        /\ entering \in [Tabs -> EnteringRow]
        /\ entries \in Seq(EntryRow) /\ Len(entries) \in 0 .. MaxEntries
        /\ tab \in [Tabs -> TabRow]
  <1>3. SupportTypeOK <=> AdminTypeOK /\ Types
    BY <1>2, Zenon DEF SupportTypeOK, GrantRow, TokenRow, EntryRow, ClerkRow, EnteringRow, TabRow
  <1>4. RowsInv <=> /\ Types
                    /\ \A t \in 1 .. Len(tokens) : tokens[t].grant <= Len(grants)
                    /\ \A s \in 1 .. Len(entries) : entries[s].grant <= Len(grants)
                    /\ \A b \in Tabs : /\ tab[b].entry <= Len(entries)
                                       /\ entering[b].at # "no" => entering[b].token \in 1 .. Len(tokens)
                    /\ \A k \in Clerks : /\ clerk[k].grant <= Len(grants)
                                         /\ clerk[k].does = "revoke" => clerk[k].grant # 0
    BY Zenon DEF RowsInv
  <1> HIDE DEF Types
  <1>5. SupportTypeOK /\ Refers <=> AdminInv /\ RowsInv
    BY <1>3, <1>4, AdminInvIsTypes, Zenon DEF Refers
  <1> QED BY <1>5 DEF SupportInv

\* What the tenant does about its grants.
TenantStep ==
    \/ \E k \in Clerks : Look(k, "grant") \/ Look(k, "revoke") \/ Grant(k) \/ Revoke(k)
    \/ \E g \in 1 .. Len(grants) : RunsOut(g)
    \/ Sweep
    \/ OpenOrClose

\* Rows of grants, tokens and sessions.
LEMMA SupportRowTypes ==
    /\ \A r \in GrantRow : \A st \in {"live", "over", "revoked"} : [r EXCEPT !.state = st] \in GrantRow
    /\ \A r \in GrantRow : [r EXCEPT !.told = TRUE] \in GrantRow
    /\ [state |-> "live", told |-> FALSE] \in GrantRow
    /\ \A r \in TokenRow : [r EXCEPT !.used = TRUE] \in TokenRow /\ [r EXCEPT !.used = TRUE].grant = r.grant
                           /\ r.by \in Admins /\ r.grant \in 1 .. MaxGrants
    /\ \A r \in EntryRow : [r EXCEPT !.state = "ended"] \in EntryRow /\ [r EXCEPT !.state = "ended"].grant = r.grant
    /\ NoErrand \in ClerkRow /\ NoErrand.grant = 0 /\ NoErrand.does = "nothing"
    /\ NotEntering \in EnteringRow /\ NotEntering.at = "no"
    /\ NoEntry \in TabRow /\ NoEntry.entry = 0
  <1>1. /\ \A r \in GrantRow : \A st \in {"live", "over", "revoked"} : [r EXCEPT !.state = st] \in GrantRow
        /\ \A r \in GrantRow : [r EXCEPT !.told = TRUE] \in GrantRow
        /\ [state |-> "live", told |-> FALSE] \in GrantRow
    BY DEF GrantRow
  <1>2. \A r \in TokenRow : [r EXCEPT !.used = TRUE] \in TokenRow /\ [r EXCEPT !.used = TRUE].grant = r.grant
                            /\ r.by \in Admins /\ r.grant \in 1 .. MaxGrants
    BY DEF TokenRow
  <1>3. \A r \in EntryRow : [r EXCEPT !.state = "ended"] \in EntryRow /\ [r EXCEPT !.state = "ended"].grant = r.grant
    BY DEF EntryRow
  <1>4. NoErrand \in ClerkRow /\ NoErrand.grant = 0 /\ NoErrand.does = "nothing"
    BY SupportAssumption DEF SupportAssumption, ClerkRow, NoErrand
  <1>5. NotEntering \in EnteringRow /\ NotEntering.at = "no"
    BY SupportAssumption, AdminsAssumption DEF SupportAssumption, AdminsAssumption, EnteringRow, NotEntering
  <1>6. NoEntry \in TabRow /\ NoEntry.entry = 0
    BY SupportAssumption, AdminsAssumption DEF SupportAssumption, AdminsAssumption, TabRow, NoEntry
  <1> QED BY <1>1, <1>2, <1>3, <1>4, <1>5, <1>6

\* A field of one grant is set, or a grant is added.
LEMMA GrantsType ==
    ASSUME grants \in Seq(GrantRow)
    PROVE  /\ Len(grants) \in Nat /\ \A g \in 1 .. Len(grants) : grants[g] \in GrantRow
           /\ \A g \in 1 .. Len(grants) : \A st \in {"live", "over", "revoked"} :
                 /\ [grants EXCEPT ![g].state = st] \in Seq(GrantRow)
                 /\ Len([grants EXCEPT ![g].state = st]) = Len(grants)
           /\ Append(grants, [state |-> "live", told |-> FALSE]) \in Seq(GrantRow)
           /\ Len(Append(grants, [state |-> "live", told |-> FALSE])) = Len(grants) + 1
  <1>1. Len(grants) \in Nat /\ \A g \in 1 .. Len(grants) : grants[g] \in GrantRow
    BY LenProperties, ElementOfSeq
  <1>2. ASSUME NEW g \in 1 .. Len(grants), NEW st \in {"live", "over", "revoked"}
        PROVE  /\ [grants EXCEPT ![g].state = st] \in Seq(GrantRow)
               /\ Len([grants EXCEPT ![g].state = st]) = Len(grants)
    <2>1. [grants[g] EXCEPT !.state = st] \in GrantRow
      BY <1>1, SupportRowTypes
    <2> QED BY <2>1, ExceptSeq
  <1>3. /\ Append(grants, [state |-> "live", told |-> FALSE]) \in Seq(GrantRow)
        /\ Len(Append(grants, [state |-> "live", told |-> FALSE])) = Len(grants) + 1
    BY AppendProperties, SupportRowTypes
  <1> QED BY <1>1, <1>2, <1>3

LEMMA TenantTypeStep == RowsInv /\ TenantStep => RowsInv'
  <1> SUFFICES ASSUME RowsInv, TenantStep PROVE RowsInv'
    OBVIOUS
  <1> USE SupportAssumption DEF SupportAssumption, RowsInv
  <1>1. ASSUME NEW k \in Clerks, NEW does \in {"grant", "revoke"}, Look(k, does) PROVE RowsInv'
    <2>1. ActiveGrant \in 0 .. Len(grants) /\ [does |-> does, grant |-> ActiveGrant] \in ClerkRow
      BY ActiveGrantLives DEF ClerkRow
    <2>2. clerk' = [clerk EXCEPT ![k] = [does |-> does, grant |-> ActiveGrant]]
          /\ UNCHANGED <<open, grants, tokens, entering, entries, tab>> /\ (does = "revoke" => ActiveGrant # 0)
      BY <1>1 DEF Look
    <2> QED BY <2>1, <2>2
  <1>2. ASSUME NEW k \in Clerks, Grant(k) PROVE RowsInv'
    <2>1. clerk[k].grant \in 0 .. Len(grants)
      BY DEF ClerkRow
    <2>2. grants' \in Seq(GrantRow) /\ Len(grants') \in Len(grants) .. MaxGrants
      <3>1. CASE grants' = Append(grants, [state |-> "live", told |-> FALSE]) /\ Len(grants) < MaxGrants
        BY <3>1, GrantsType
      <3>2. CASE clerk[k].grant # 0 /\ grants' = [grants EXCEPT ![clerk[k].grant].state = IF @ = "over" THEN "live" ELSE @]
        <4>1. PICK st \in {"live", "over", "revoked"} : grants' = [grants EXCEPT ![clerk[k].grant].state = st]
          <5>1. grants[clerk[k].grant] \in GrantRow
            BY <2>1, <3>2, GrantsType
          <5>2. grants[clerk[k].grant].state \in {"live", "over", "revoked"}
            BY <5>1 DEF GrantRow
          <5>3. CASE grants[clerk[k].grant].state = "over"
            BY <3>2, <5>3
          <5>4. CASE grants[clerk[k].grant].state # "over"
            BY <3>2, <5>2, <5>4
          <5> QED BY <5>3, <5>4
        <4>2. clerk[k].grant \in 1 .. Len(grants)
          BY <2>1, <3>2
        <4>3. grants' \in Seq(GrantRow) /\ Len(grants') = Len(grants)
          <5> DEFINE g == clerk[k].grant
          <5>1. g \in 1 .. Len(grants) /\ st \in {"live", "over", "revoked"} /\ grants' = [grants EXCEPT ![g].state = st]
            BY <4>1, <4>2
          <5> HIDE DEF g
          <5> QED BY <5>1, GrantsType
        <4> QED BY <4>3
      <3> QED BY <1>2, <3>1, <3>2 DEF Grant
    <2>3. clerk' = [clerk EXCEPT ![k] = NoErrand] /\ UNCHANGED <<open, tokens, entering, entries, tab>>
      BY <1>2 DEF Grant
    <2>4. /\ \A t \in 1 .. Len(tokens) : tokens[t].grant \in 1 .. MaxGrants
          /\ \A s \in 1 .. Len(entries) : entries[s].grant \in 1 .. MaxGrants
          /\ \A j \in Clerks : clerk[j].grant \in 0 .. MaxGrants
      <3>1. /\ \A t \in 1 .. Len(tokens) : tokens[t] \in TokenRow
            /\ \A s \in 1 .. Len(entries) : entries[s] \in EntryRow
        BY ElementOfSeq
      <3> QED BY <3>1 DEF TokenRow, EntryRow, ClerkRow
    <2> QED BY <2>2, <2>3, <2>4, SupportRowTypes
  <1>3. ASSUME NEW k \in Clerks, Revoke(k) PROVE RowsInv'
    <2>1. clerk[k].grant \in 1 .. Len(grants)
      BY <1>3 DEF Revoke, ClerkRow
    <2>2. grants' \in Seq(GrantRow) /\ Len(grants') = Len(grants)
      BY <1>3, <2>1, GrantsType DEF Revoke
    <2>3. /\ entries' = EndEntries({clerk[k].grant})
          /\ clerk' = [clerk EXCEPT ![k] = NoErrand] /\ UNCHANGED <<open, tokens, entering, tab>>
      BY <1>3 DEF Revoke
    <2> QED BY SMTT(30), <2>2, <2>3, EndEntriesType, SupportRowTypes
  <1>4. ASSUME NEW g \in 1 .. Len(grants), RunsOut(g) PROVE RowsInv'
    BY <1>4, GrantsType DEF RunsOut
  <1>5. CASE Sweep
    <2>1. PICK due : /\ grants' = [g \in 1 .. Len(grants) |->
                                        IF g \in due THEN [grants[g] EXCEPT !.told = TRUE] ELSE grants[g]]
                     /\ entries' = EndEntries(due)
                     /\ UNCHANGED <<open, clerk, tokens, entering, tab>>
      BY <1>5 DEF Sweep
    <2>2. grants' \in [1 .. Len(grants) -> GrantRow]
      BY <2>1, GrantsType, SupportRowTypes
    <2>3. grants' \in Seq(GrantRow) /\ Len(grants') = Len(grants)
      <3>1. Len(grants) \in Nat
        OBVIOUS
      <3> QED BY <2>2, <3>1, FunctionIsSeq
    <2>4. /\ entries' \in Seq(EntryRow) /\ Len(entries') = Len(entries)
          /\ \A s \in 1 .. Len(entries) : entries'[s].grant = entries[s].grant
      BY <2>1, EndEntriesType
    <2> QED BY <2>1, <2>3, <2>4
  <1>6. CASE OpenOrClose
    BY <1>6, EndEntriesType DEF OpenOrClose
  <1> QED BY <1>1, <1>2, <1>3, <1>4, <1>5, <1>6 DEF TenantStep

\* What becomes of tokens and sessions.
EntryStep ==
    \/ \E c \in Consoles, a \in Admins : IssueToken(c, a)
    \/ \E b \in Tabs :
        \/ \E t \in 1 .. Len(tokens) : ReadToken(b, t)
        \/ SpendToken(b) \/ CheckToken(b) \/ Enter(b) \/ SentAway(b) \/ EndSession(b)

\* A session of a tab is ended, and its cookie with it.
LEMMA LeaveType ==
    ASSUME RowsInv, NEW b \in Tabs, tab[b].entry # 0,
           entries' = [entries EXCEPT ![tab[b].entry].state = "ended"],
           tab' = [tab EXCEPT ![b] = NoEntry], UNCHANGED <<open, grants, clerk, tokens, entering>>
    PROVE  RowsInv'
  <1> DEFINE s == tab[b].entry
  <1>1. s \in 1 .. Len(entries)
    BY DEF RowsInv, TabRow
  <1>2. entries[s] \in EntryRow
    BY <1>1, ElementOfSeq DEF RowsInv
  <1>3. [entries[s] EXCEPT !.state = "ended"] \in EntryRow /\ [entries[s] EXCEPT !.state = "ended"].grant = entries[s].grant
    BY <1>2, SupportRowTypes
  <1>4. entries' = [entries EXCEPT ![s] = [entries[s] EXCEPT !.state = "ended"]]
    OBVIOUS
  <1> HIDE DEF s
  <1>5. entries' \in Seq(EntryRow) /\ Len(entries') = Len(entries)
        /\ \A i \in 1 .. Len(entries) : entries'[i].grant = entries[i].grant
    <2>1. entries \in Seq(EntryRow)
      BY DEF RowsInv
    <2>2. \A j \in 1 .. Len(entries) :
            entries'[j] = IF j = s THEN [entries[s] EXCEPT !.state = "ended"] ELSE entries[j]
      <3>1. DOMAIN entries = 1 .. Len(entries)
        BY <2>1, LenProperties
      <3> QED BY <1>4, <3>1
    <2>3. entries' \in Seq(EntryRow) /\ Len(entries') = Len(entries)
      <3> DEFINE e == [entries[s] EXCEPT !.state = "ended"]
      <3>1. e \in EntryRow /\ entries' = [entries EXCEPT ![s] = e]
        BY <1>3, <1>4
      <3> HIDE DEF e
      <3>2. [entries EXCEPT ![s] = e] \in Seq(EntryRow) /\ Len([entries EXCEPT ![s] = e]) = Len(entries)
        BY <1>1, <2>1, <3>1, ExceptSeq
      <3> QED BY <3>1, <3>2
    <2> QED BY <1>3, <2>2, <2>3
  <1> QED BY <1>5, SupportRowTypes, SupportAssumption DEF RowsInv, SupportAssumption

LEMMA EntryTypeStep == AdminInv /\ RowsInv /\ EntryStep => AdminInv' /\ RowsInv'
  <1> SUFFICES ASSUME AdminInv, RowsInv, EntryStep PROVE AdminInv' /\ RowsInv'
    OBVIOUS
  <1> USE SupportAssumption, AdminsAssumption DEF SupportAssumption, AdminsAssumption
  <1>0. UNCHANGED <<admin, console, links, enrolling, disabled>> /\ arrived' \subseteq arrived
    BY DEF EntryStep, IssueToken, ReadToken, SpendToken, CheckToken, Enter, SentAway, EndSession, adminVars
  <1>a. AdminInv'
    BY <1>0 DEF AdminInv
  <1> USE DEF RowsInv
  <1>1. ASSUME NEW c \in Consoles, NEW a \in Admins, IssueToken(c, a) PROVE RowsInv'
    <2> DEFINE t == [grant |-> ActiveGrant, by |-> a, used |-> FALSE]
    <2>1. ActiveGrant \in 1 .. Len(grants)
      BY <1>1, ActiveGrantLives DEF IssueToken
    <2>2. t \in TokenRow /\ t.grant = ActiveGrant
      BY <2>1 DEF TokenRow
    <2>3. tokens' = Append(tokens, t) /\ Len(tokens) < MaxTokens
          /\ UNCHANGED <<open, grants, clerk, entering, entries, tab>>
      BY <1>1 DEF IssueToken
    <2> HIDE DEF t
    <2>4. /\ tokens' \in Seq(TokenRow) /\ Len(tokens') = Len(tokens) + 1
          /\ \A i \in 1 .. Len(tokens) : tokens'[i] = tokens[i]
          /\ tokens'[Len(tokens) + 1] = t
      BY <2>2, <2>3, AppendProperties
    <2>5. ASSUME NEW i \in 1 .. Len(tokens') PROVE tokens'[i].grant <= Len(grants)
      <3>1. CASE i \in 1 .. Len(tokens)
        BY <2>4, <3>1
      <3>2. CASE i = Len(tokens) + 1
        BY <2>1, <2>2, <2>4, <3>2
      <3> QED BY <2>4, <3>1, <3>2
    <2> QED BY <2>3, <2>4, <2>5
  <1>2. ASSUME NEW b \in Tabs, NEW t \in 1 .. Len(tokens), ReadToken(b, t) PROVE RowsInv'
    <2>1. [at |-> "read", token |-> t, version |-> 0] \in EnteringRow
      BY DEF EnteringRow
    <2>2. entering' = [entering EXCEPT ![b] = [at |-> "read", token |-> t, version |-> 0]]
          /\ UNCHANGED <<open, grants, clerk, tokens, entries, tab>>
      BY <1>2 DEF ReadToken
    <2> QED BY <2>1, <2>2
  <1>3. ASSUME NEW b \in Tabs, SpendToken(b) PROVE RowsInv'
    <2> DEFINE t == entering[b].token
               e == [entering[b] EXCEPT !.at = "spent"]
    <2>1. t \in 1 .. Len(tokens) /\ e \in EnteringRow /\ e.token = t
      BY <1>3 DEF SpendToken, EnterAt, EnteringRow
    <2>2. tokens[t] \in TokenRow
      BY <2>1, ElementOfSeq
    <2>3. [tokens[t] EXCEPT !.used = TRUE] \in TokenRow /\ [tokens[t] EXCEPT !.used = TRUE].grant = tokens[t].grant
      BY <2>2, SupportRowTypes
    <2>4. /\ tokens' = [tokens EXCEPT ![t] = [tokens[t] EXCEPT !.used = TRUE]]
          /\ entering' = [entering EXCEPT ![b] = e]
          /\ UNCHANGED <<open, grants, clerk, entries, tab>>
      BY <1>3 DEF SpendToken
    <2> HIDE DEF t, e
    <2>5. tokens' \in Seq(TokenRow) /\ Len(tokens') = Len(tokens)
          /\ \A i \in 1 .. Len(tokens) : tokens'[i].grant = tokens[i].grant
      BY <2>1, <2>3, <2>4, ExceptSeq
    <2> QED BY <2>1, <2>4, <2>5
  <1>4. ASSUME NEW b \in Tabs, CheckToken(b) PROVE RowsInv'
    <2>1. entering[b].token \in 1 .. Len(tokens)
      BY <1>4 DEF CheckToken, EnterAt
    <2>2. tokens[entering[b].token] \in TokenRow
      BY <2>1, ElementOfSeq
    <2>3. tokens[entering[b].token].by \in Admins
      BY <2>2, SupportRowTypes
    <2>4. admin[tokens[entering[b].token].by].version \in 0 .. MaxVersion
      BY <2>3 DEF AdminInv, AdminRow
    <2>5. UNCHANGED <<open, grants, clerk, tokens, entries>>
      BY <1>4 DEF CheckToken
    <2>6. CASE /\ entering' = [entering EXCEPT ![b].at = "checked", ![b].version = admin[tokens[entering[b].token].by].version]
               /\ UNCHANGED tab
      <3> DEFINE v == admin[tokens[entering[b].token].by].version
                 e == [entering[b] EXCEPT !.at = "checked", !.version = v]
      <3>1. entering' = [entering EXCEPT ![b] = e]
        BY <2>6
      <3>2. e \in EnteringRow /\ e.token = entering[b].token
        BY <2>4 DEF EnteringRow
      <3> HIDE DEF e
      <3> QED BY <2>1, <2>5, <2>6, <3>1, <3>2
    <2>7. CASE entering' = [entering EXCEPT ![b] = NotEntering] /\ tab' = [tab EXCEPT ![b] = NoEntry]
      BY <2>5, <2>7, SupportRowTypes
    <2> QED BY <1>4, <2>6, <2>7 DEF CheckToken, Answered
  <1>5. ASSUME NEW b \in Tabs, Enter(b) PROVE RowsInv'
    <2> DEFINE t == entering[b].token
               e == [grant |-> tokens[t].grant, by |-> tokens[t].by, state |-> "open"]
               n == [entry |-> Len(entries) + 1, version |-> entering[b].version]
    <2>1. t \in 1 .. Len(tokens) /\ Len(entries) < MaxEntries
      BY <1>5 DEF Enter, EnterAt
    <2>2. tokens[t] \in TokenRow
      BY <2>1, ElementOfSeq
    <2>3. e \in EntryRow /\ e.grant = tokens[t].grant /\ n \in TabRow /\ n.entry = Len(entries) + 1
      BY SMTT(30), <2>1, <2>2 DEF TokenRow, EntryRow, TabRow, EnteringRow
    <2>4. /\ entries' = Append(entries, e) /\ tab' = [tab EXCEPT ![b] = n]
          /\ entering' = [entering EXCEPT ![b] = NotEntering]
          /\ UNCHANGED <<open, grants, clerk, tokens>>
      BY <1>5 DEF Enter, Answered
    <2>5. tokens[t].grant <= Len(grants)
      BY <2>1
    <2> HIDE DEF e, n, t
    <2>6. /\ entries' \in Seq(EntryRow) /\ Len(entries') = Len(entries) + 1
          /\ \A i \in 1 .. Len(entries) : entries'[i] = entries[i]
          /\ entries'[Len(entries) + 1] = e
      BY <2>3, <2>4, AppendProperties
    <2>7. \A i \in 1 .. Len(entries') : entries'[i].grant <= Len(grants)
      BY <2>3, <2>5, <2>6
    <2>8. /\ tab' \in [Tabs -> TabRow] /\ entering' \in [Tabs -> EnteringRow]
          /\ \A d \in Tabs : /\ tab'[d].entry <= Len(entries) + 1
                             /\ entering'[d].at # "no" => entering[d].at # "no" /\ entering'[d] = entering[d]
      <3>1. \A d \in Tabs : tab[d].entry \in Int /\ tab[d].entry <= Len(entries) + 1
        BY DEF TabRow
      <3> QED BY <2>3, <2>4, <3>1, SupportRowTypes
    <2> QED BY <2>1, <2>4, <2>6, <2>7, <2>8
  <1>6. ASSUME NEW b \in Tabs, SentAway(b) PROVE RowsInv'
    BY <1>6, LeaveType DEF SentAway
  <1>7. ASSUME NEW b \in Tabs, EndSession(b) PROVE RowsInv'
    BY <1>7, LeaveType DEF EndSession, Admitted
  <1> QED BY <1>a, <1>1, <1>2, <1>3, <1>4, <1>5, <1>6, <1>7 DEF EntryStep

-----------------------------------------------------------------------------
(* What is proved on top of the types. *)

LEMMA SupportSteps ==
    ASSUME [SupportNext]_<<adminVars, supportVars>>
    PROVE  \/ AdminNext /\ UNCHANGED supportVars
           \/ TenantStep /\ UNCHANGED adminVars
           \/ EntryStep
           \/ UNCHANGED <<adminVars, supportVars>>
  BY DEF SupportNext, ConsoleStep, TenantStep, EntryStep, Look, Grant, Revoke, RunsOut, Sweep, OpenOrClose

LEMMA SupportTypeStep == SupportInv /\ [SupportNext]_<<adminVars, supportVars>> => SupportInv'
  <1> SUFFICES ASSUME AdminInv, RowsInv, [SupportNext]_<<adminVars, supportVars>> PROVE AdminInv' /\ RowsInv'
    <2>1. (SupportInv <=> AdminInv /\ RowsInv)'
      BY SupportInvIsRows, PTL
    <2> QED BY <2>1, SupportInvIsRows
  <1>1. CASE AdminNext /\ UNCHANGED supportVars
    <2>1. AdminInv'
      BY <1>1, AdminTypeStep
    <2>2. RowsInv'
      BY <1>1 DEF RowsInv, supportVars
    <2> QED BY <2>1, <2>2
  <1>2. CASE TenantStep /\ UNCHANGED adminVars
    <2>1. RowsInv'
      BY <1>2, TenantTypeStep
    <2>2. AdminInv'
      BY <1>2 DEF AdminInv, adminVars
    <2> QED BY <2>1, <2>2
  <1>3. CASE EntryStep
    BY <1>3, EntryTypeStep
  <1>4. CASE UNCHANGED <<adminVars, supportVars>>
    BY <1>4 DEF AdminInv, RowsInv, adminVars, supportVars
  <1> QED BY <1>1, <1>2, <1>3, <1>4, SupportSteps

\* Type correctness: grants, tokens, sessions, links and cookies are what the code takes them for, and refer
\* to rows that are there (support.py, console/auth.py).
THEOREM SupportTypeCorrect == SupportSpec => [](SupportTypeOK /\ Refers)
  <1>1. SupportSpec => []SupportInv
    BY InitSupport, SupportTypeStep, PTL DEF SupportSpec
  <1> QED BY <1>1, PTL DEF SupportInv

\* Only admin_disable adds to what was disabled, and it raises the version past it.
LEMMA DisabledStep == AdminInv /\ DisabledAreOld /\ [SupportNext]_<<adminVars, supportVars>> => DisabledAreOld'
  <1> SUFFICES ASSUME AdminInv, DisabledAreOld, [SupportNext]_<<adminVars, supportVars>> PROVE DisabledAreOld'
    OBVIOUS
  <1> USE AdminsAssumption DEF AdminsAssumption
  <1>1. ASSUME UNCHANGED disabled, \A a \in Admins : admin'[a].version = admin[a].version PROVE DisabledAreOld'
    BY <1>1 DEF DisabledAreOld
  <1>2. ASSUME NEW by \in Admins, NEW a \in Admins, Disable(by, a) PROVE DisabledAreOld'
    <2>1. admin[a] \in AdminRow /\ admin[a].version < MaxVersion
      BY <1>2 DEF Disable, AdminInv
    <2>2. Disabled(admin[a]).version = admin[a].version + 1 /\ admin[a].version \in 0 .. MaxVersion
      BY <2>1, RowTypes DEF AdminRow
    <2>3. disabled' = disabled \cup {<<a, admin[a].version>>}
      BY <1>2 DEF Disable
    <2>4. \A d \in Admins : admin'[d].version = IF d = a THEN admin[a].version + 1 ELSE admin[d].version
      BY <1>2, <2>2 DEF Disable, AdminInv
    <2>5. ASSUME NEW d \in Admins, NEW v \in 0 .. MaxVersion, <<d, v>> \in disabled' PROVE v < admin'[d].version
      <3>1. CASE <<d, v>> \in disabled
        BY <2>2, <2>4, <3>1 DEF DisabledAreOld
      <3>2. CASE d = a /\ v = admin[a].version
        BY <2>2, <2>4, <3>2
      <3> QED BY <2>3, <2>5, <3>1, <3>2
    <2> QED BY <2>5 DEF DisabledAreOld
  <1>3. ASSUME AdminNext PROVE DisabledAreOld'
    <2>1. ASSUME NEW c \in Consoles, NEW by \in Admins, AdminHandles(c, by) PROVE DisabledAreOld'
      <3>1. ASSUME NEW a \in Admins, Invite(a) PROVE DisabledAreOld'
        BY <1>1, <3>1 DEF Invite, AdminInv, AdminRow
      <3>2. ASSUME NEW a \in Admins, GiveLink(a) PROVE DisabledAreOld'
        BY <1>1, <3>2 DEF GiveLink
      <3>3. ASSUME NEW a \in Admins, Enable(a) PROVE DisabledAreOld'
        BY <1>1, <3>3 DEF Enable, AdminInv, AdminRow
      <3>4. CASE UNCHANGED <<admin, links, disabled>>
        BY <1>1, <3>4
      <3> QED BY <1>2, <2>1, <3>1, <3>2, <3>3, <3>4 DEF AdminHandles
    <2>2. ASSUME NEW c \in Consoles, NEW l \in 1 .. Len(links), Enrolled(c, l) PROVE DisabledAreOld'
      BY <1>1, <2>2 DEF Enrolled, AdminInv, AdminRow
    <2>3. ASSUME UNCHANGED <<admin, disabled>> PROVE DisabledAreOld'
      BY <1>1, <2>3
    <2> QED BY <1>3, <2>1, <2>2, <2>3
        DEF AdminNext, AdminArrives, TurnedAway, AdminLogout, EnrollComplete, AdminLogin, EnrollBegin, LinkExpires
  <1>4. ASSUME UNCHANGED <<admin, disabled>> PROVE DisabledAreOld'
    BY <1>1, <1>4
  <1>5. ASSUME EntryStep PROVE UNCHANGED <<admin, disabled>>
    BY <1>5 DEF EntryStep, IssueToken, ReadToken, SpendToken, CheckToken, Enter, SentAway, EndSession, adminVars
  <1> QED BY <1>3, <1>4, <1>5, SupportSteps DEF adminVars

\* A session that is let in has its admin's version of now.
LEMMA OldIsOut == SupportInv /\ DisabledAreOld => DisabledIsOut
  <1> SUFFICES ASSUME AdminInv, RowsInv, DisabledAreOld PROVE DisabledIsOut
    BY SupportInvIsRows
  <1>1. ASSUME NEW a \in Admins, <<a, admin[a].version>> \in disabled PROVE FALSE
    BY <1>1 DEF DisabledAreOld, AdminInv, AdminRow
  <1>2. ASSUME NEW c \in Consoles, SignedIn(c) PROVE <<console[c].by, console[c].version>> \notin disabled
    <2>1. console[c] \in ConsoleRow
      BY DEF AdminInv
    <2>2. console[c].by \in Admins /\ console[c].version = admin[console[c].by].version
      BY <1>2, <2>1 DEF SignedIn, Enabled, ConsoleRow
    <2> QED BY <1>1, <2>2
  <1>3. ASSUME NEW b \in Tabs, Admitted(b) PROVE <<entries[tab[b].entry].by, tab[b].version>> \notin disabled
    <2>1. tab[b].entry \in 1 .. Len(entries)
      BY <1>3 DEF Admitted, RowsInv, TabRow
    <2>2. entries[tab[b].entry] \in EntryRow
      BY <2>1, ElementOfSeq DEF RowsInv
    <2>3. entries[tab[b].entry].by \in Admins
      BY <2>2 DEF EntryRow
    <2>4. tab[b].version = admin[entries[tab[b].entry].by].version
      BY <1>3 DEF Admitted, AdminStays
    <2> QED BY <1>1, <2>3, <2>4
  <1> QED BY <1>2, <1>3 DEF DisabledIsOut, DisabledMeansOut

\* A provider admin who was disabled is out, on the console and in every tenant's dashboard, whatever was let
\* in, half enrolled or half entered then, and though it is enabled again (admin_disable, require_provider,
\* session_user).
THEOREM DisabledStaysOut == SupportSpec => []DisabledIsOut
  <1>1. SupportInit => SupportInv /\ DisabledAreOld
    BY InitSupport DEF SupportInit, AdminInit, DisabledAreOld
  <1>2. SupportInv /\ DisabledAreOld /\ [SupportNext]_<<adminVars, supportVars>> => (SupportInv /\ DisabledAreOld)'
    BY SupportTypeStep, DisabledStep, SupportInvIsRows
  <1> QED BY <1>1, <1>2, OldIsOut, PTL DEF SupportSpec

-----------------------------------------------------------------------------
(* A revoke, for a tenant whose own requests come one after the other. *)

LiveAfter == {g \in 1 .. Len(grants') : grants'[g].state = "live"}

LEMMA LivePrimed == Live' = LiveAfter
  BY DEF Live, LiveAfter

\* While there is one clerk at most, no two grants get live.
LEMMA OneLiveStep ==
    ASSUME \A j, k \in Clerks : j = k
    PROVE  RowsInv /\ OneLive /\ [SupportNext]_<<adminVars, supportVars>> => OneLive'
  <1> SUFFICES ASSUME RowsInv, OneLive, [SupportNext]_<<adminVars, supportVars>> PROVE OneLive'
    OBVIOUS
  <1>0. /\ Len(grants) \in Nat /\ Live \subseteq 1 .. Len(grants)
        /\ \A g \in 1 .. Len(grants) : grants[g] \in GrantRow
        /\ DOMAIN grants = 1 .. Len(grants)
    BY LenProperties, ElementOfSeq DEF RowsInv, Live
  <1>1. ASSUME Live' \subseteq Live, UNCHANGED clerk PROVE OneLive'
    BY <1>1 DEF OneLive
  <1>2. ASSUME UNCHANGED <<grants, clerk>> PROVE OneLive'
    BY <1>1, <1>2 DEF Live
  <1>3. ASSUME NEW k \in Clerks, NEW does \in {"grant", "revoke"}, Look(k, does) PROVE OneLive'
    <2>1. ActiveGrant \in Live \/ Live = {}
      BY ActiveGrantLives DEF RowsInv
    <2>2. Live \subseteq {ActiveGrant}
      BY <2>1 DEF OneLive
    <2>3. UNCHANGED grants /\ clerk' = [clerk EXCEPT ![k] = [does |-> does, grant |-> ActiveGrant]]
      BY <1>3 DEF Look
    <2>4. Live' = Live
      BY <2>3 DEF Live
    <2>5. \A j \in Clerks : clerk'[j].grant = ActiveGrant
      BY <2>3 DEF RowsInv
    <2> QED BY <2>2, <2>4, <2>5 DEF OneLive
  <1>4. ASSUME NEW k \in Clerks, Grant(k) PROVE OneLive'
    <2> DEFINE g == clerk[k].grant
    <2>1. Live \subseteq {g} /\ g \in 0 .. Len(grants)
      <3>1. clerk[k].does = "grant" /\ clerk[k] \in ClerkRow /\ clerk[k].grant <= Len(grants)
        BY <1>4 DEF Grant, RowsInv
      <3> QED BY <1>0, <3>1 DEF OneLive, ClerkRow
    <2>2. \A j \in Clerks : clerk'[j].does = "nothing"
      BY <1>4 DEF Grant, RowsInv, NoErrand
    <2>3. CASE g = 0 /\ grants' = Append(grants, [state |-> "live", told |-> FALSE])
      <3>1. Live = {}
        BY <1>0, <2>1, <2>3
      <3>2. Len(grants') = Len(grants) + 1 /\ \A i \in 1 .. Len(grants) : grants'[i] = grants[i]
        BY <2>3, AppendProperties, SupportRowTypes DEF RowsInv
      <3>3. LiveAfter \subseteq {Len(grants) + 1}
        BY <1>0, <3>1, <3>2 DEF Live, LiveAfter
      <3> QED BY <2>2, <3>3, LivePrimed DEF OneLive
    <2>4. CASE g # 0 /\ grants' = [grants EXCEPT ![g].state = IF @ = "over" THEN "live" ELSE @]
      <3>1. g \in 1 .. Len(grants)
        BY <2>1, <2>4
      <3>2. Len(grants') = Len(grants) /\ \A i \in 1 .. Len(grants) : i # g => grants'[i] = grants[i]
        <4>1. DOMAIN grants' = 1 .. Len(grants)
          BY <1>0, <2>4
        <4>2. grants' \in Seq(GrantRow)
          BY <1>4, TenantTypeStep DEF TenantStep, RowsInv
        <4>3. Len(grants') = Len(grants)
          BY <1>0, <4>1, <4>2, LenProperties
        <4> QED BY <1>0, <2>4, <4>3
      <3>3. LiveAfter \subseteq {g}
        BY <2>1, <3>2 DEF Live, LiveAfter
      <3> QED BY <2>2, <3>3, LivePrimed DEF OneLive
    <2> QED BY <1>4, <2>3, <2>4 DEF Grant
  <1>5. ASSUME NEW k \in Clerks, Revoke(k) PROVE OneLive'
    <2>1. clerk[k].grant \in 1 .. Len(grants)
      BY <1>5 DEF Revoke, RowsInv, ClerkRow
    <2>2. grants' = [grants EXCEPT ![clerk[k].grant].state = "revoked"] /\ clerk' = [clerk EXCEPT ![k] = NoErrand]
      BY <1>5 DEF Revoke
    <2>3. Len(grants') = Len(grants)
      BY <2>1, <2>2, GrantsType DEF RowsInv
    <2>4. LiveAfter \subseteq Live
      BY <1>0, <2>1, <2>2, <2>3 DEF Live, LiveAfter, GrantRow
    <2>5. \A j \in Clerks : clerk'[j].does = "nothing"
      BY <2>2 DEF RowsInv, NoErrand
    <2> QED BY <2>4, <2>5, LivePrimed DEF OneLive
  <1>6. ASSUME NEW g \in 1 .. Len(grants), RunsOut(g) PROVE OneLive'
    <2>1. grants' = [grants EXCEPT ![g].state = "over"] /\ UNCHANGED clerk
      BY <1>6 DEF RunsOut
    <2>2. Len(grants') = Len(grants)
      BY <2>1, GrantsType DEF RowsInv
    <2>3. LiveAfter \subseteq Live
      BY <1>0, <2>1, <2>2 DEF Live, LiveAfter, GrantRow
    <2> QED BY <1>1, <2>1, <2>3, LivePrimed
  <1>7. ASSUME Sweep PROVE OneLive'
    <2>1. PICK due : /\ grants' = [g \in 1 .. Len(grants) |->
                                        IF g \in due THEN [grants[g] EXCEPT !.told = TRUE] ELSE grants[g]]
                     /\ UNCHANGED clerk
      BY <1>7 DEF Sweep
    <2>2. grants' \in [1 .. Len(grants) -> GrantRow]
      BY <1>0, <2>1, SupportRowTypes
    <2>3. Len(grants') = Len(grants)
      BY <1>0, <2>2, FunctionIsSeq
    <2>4. LiveAfter \subseteq Live
      BY <1>0, <2>1, <2>3 DEF Live, LiveAfter, GrantRow
    <2> QED BY <1>1, <2>1, <2>4, LivePrimed
  <1>8. ASSUME OpenOrClose PROVE OneLive'
    BY <1>2, <1>8 DEF OpenOrClose
  <1>9. ASSUME EntryStep PROVE OneLive'
    <2>1. UNCHANGED <<grants, clerk>>
      BY <1>9 DEF EntryStep, IssueToken, ReadToken, SpendToken, CheckToken, Enter, SentAway, EndSession
    <2> QED BY <1>2, <2>1
  <1> QED BY <1>2, <1>3, <1>4, <1>5, <1>6, <1>7, <1>8, <1>9, SupportSteps DEF TenantStep, supportVars

\* What a revoke leaves: no live grant, and no open session of another.
LEMMA RevokeEnds ==
    ASSUME RowsInv, OneLive, NEW k \in Clerks, Revoke(k)
    PROVE  \A b \in Tabs : ~Admitted(b)'
  <1> SUFFICES ASSUME NEW b \in Tabs, Admitted(b)' PROVE FALSE
    OBVIOUS
  <1> DEFINE g == clerk[k].grant
             s == tab[b].entry
  <1>1. g \in 1 .. Len(grants) /\ Live \subseteq {g}
    BY SMTT(30) DEF Revoke, OneLive, RowsInv, ClerkRow
  <1>2. grants' = [grants EXCEPT ![g].state = "revoked"] /\ entries' = EndEntries({g}) /\ UNCHANGED tab
    BY DEF Revoke
  <1>3. s # 0 /\ entries'[s].state = "open" /\ grants'[entries'[s].grant].state = "live"
    BY <1>2 DEF Admitted, GrantRuns
  <1>4. s \in 1 .. Len(entries)
    BY <1>3 DEF RowsInv, TabRow
  <1>5. entries[s] \in EntryRow /\ entries[s].grant <= Len(grants)
    BY <1>4, ElementOfSeq DEF RowsInv
  <1> HIDE DEF g, s
  <1>6. entries'[s].grant = entries[s].grant /\ entries[s].grant # g
    BY <1>2, <1>3, <1>4, EndEntriesType DEF RowsInv
  <1>7. entries[s].grant \in 1 .. Len(grants)
    BY <1>5 DEF EntryRow, RowsInv
  <1>8. grants'[entries[s].grant] = grants[entries[s].grant]
    <2>1. DOMAIN grants = 1 .. Len(grants)
      BY LenProperties DEF RowsInv
    <2> QED BY <1>2, <1>6, <1>7, <2>1
  <1>9. entries[s].grant \in Live
    BY <1>3, <1>6, <1>7, <1>8 DEF Live
  <1> QED BY <1>1, <1>6, <1>9

\* "Support access revoked. Any support session has ended." (routes/support.py:54), for a tenant whose own requests
\* come one after the other: whatever session was being opened, and whatever the grant's end did meanwhile.
THEOREM RevokeEndsEverySession ==
    ASSUME \A j, k \in Clerks : j = k
    PROVE  SupportSpec => RevokeEndsAll
  <1>1. SupportInit => SupportInv /\ OneLive
    BY InitSupport DEF SupportInit, OneLive, Live, NoErrand
  <1>2. SupportInv /\ OneLive /\ [SupportNext]_<<adminVars, supportVars>> => (SupportInv /\ OneLive)'
    BY SupportTypeStep, OneLiveStep, SupportInvIsRows
  <1>3. SupportInv /\ OneLive =>
            [\A k \in Clerks : Revoke(k) => \A b \in Tabs : ~Admitted(b)']_<<adminVars, supportVars>>
    BY RevokeEnds, SupportInvIsRows
  <1> QED BY <1>1, <1>2, <1>3, PTL DEF SupportSpec, RevokeEndsAll
=============================================================================
