--------------------------- MODULE ProviderAdmins ---------------------------
(***************************************************************************)
(* The provider's admins and their way into the console: passkey sign-in,   *)
(* sessions, one-time enrolment links, disabling and enabling               *)
(* (console/auth.py, console/routes.py).                                    *)
(*                                                                          *)
(* require_provider runs in the thread pool before its handler, so a        *)
(* request that was let in may be handled after its admin was disabled;     *)
(* enroll_complete reads the request's body between its check of the link   *)
(* and its use.  The other handlers hold the event loop: atomic.            *)
(*                                                                          *)
(* Left out: e-mails, names, guesses (RateLimit), what other pages do.      *)
(***************************************************************************)
EXTENDS Integers, Sequences, FiniteSets

CONSTANTS
    Admins,         \* provider_users that may exist
    FirstAdmins,    \* made by scripts/provider_admin.py, and enrolled
    Consoles,       \* browsers on the console's host
    MaxLinks,       \* bound on enrolment links
    MaxArrived,     \* bound on requests past require_provider
    MaxVersion      \* bound on an admin's session_version

VARIABLES
    admin,      \* by admin: state, session_version, whether it has a passkey
    console,    \* by browser: the session in its cookie
    links,      \* enrolment links: whose, and whether still good
    arrived,    \* requests require_provider has let in: <<browser, admin>>
    enrolling,  \* enroll_complete past its check of the link: <<browser, link>>
    disabled    \* history: <<admin, session_version>> when it was disabled

adminVars == <<admin, console, links, arrived, enrolling, disabled>>

NoAdmin == "nobody"
ASSUME AdminsAssumption == NoAdmin \notin Admins /\ FirstAdmins \subseteq Admins /\ MaxLinks \in Nat /\ MaxVersion \in Nat
NoSession == [by |-> NoAdmin, version |-> 0, enroll |-> 0]

\* sign_in_provider: the session is cleared first.
SessionOf(a) == [NoSession EXCEPT !.by = a, !.version = admin[a].version]

AdminInit ==
    /\ admin = [a \in Admins |-> [state |-> IF a \in FirstAdmins THEN "enabled" ELSE "none",
                                  version |-> 0, passkey |-> a \in FirstAdmins]]
    /\ console = [c \in Consoles |-> NoSession]
    /\ links = <<>>
    /\ arrived = {}
    /\ enrolling = {}
    /\ disabled = {}

AdminTypeOK ==
    /\ admin \in [Admins -> [state : {"none", "enabled", "disabled"}, version : 0 .. MaxVersion, passkey : BOOLEAN]]
    /\ console \in [Consoles -> [by : Admins \cup {NoAdmin}, version : 0 .. MaxVersion, enroll : 0 .. MaxLinks]]
    /\ links \in Seq([of : Admins, good : BOOLEAN]) /\ Len(links) <= MaxLinks
    /\ arrived \subseteq Consoles \X Admins
    /\ enrolling \subseteq Consoles \X (1 .. MaxLinks)
    /\ disabled \subseteq Admins \X (0 .. MaxVersion)

-----------------------------------------------------------------------------
(* Sessions. *)

Enabled(a) == a # NoAdmin /\ admin[a].state = "enabled"

\* require_provider
SignedIn(c) == Enabled(console[c].by) /\ console[c].version = admin[console[c].by].version

AdminArrives(c) ==
    /\ Cardinality(arrived) < MaxArrived
    /\ SignedIn(c)
    /\ arrived' = arrived \cup {<<c, console[c].by>>}
    /\ UNCHANGED <<admin, console, links, enrolling, disabled>>

TurnedAway(c) ==
    /\ console[c].by # NoAdmin /\ ~SignedIn(c)
    /\ console' = [console EXCEPT ![c] = NoSession]
    /\ UNCHANGED <<admin, links, arrived, enrolling, disabled>>

\* login_begin, login_complete: with a's passkey.
AdminLogin(c, a) ==
    /\ Enabled(a) /\ admin[a].passkey
    /\ console' = [console EXCEPT ![c] = SessionOf(a)]
    /\ UNCHANGED <<admin, links, arrived, enrolling, disabled>>

AdminLogout(c) ==
    /\ console[c] # NoSession
    /\ console' = [console EXCEPT ![c] = NoSession]
    /\ UNCHANGED <<admin, links, arrived, enrolling, disabled>>

-----------------------------------------------------------------------------
(* Enrolment links. *)

\* create_enrollment: a's earlier links stop working.
NewLink(a) ==
    /\ Len(links) < MaxLinks
    /\ links' = Append([l \in 1 .. Len(links) |->
                            [links[l] EXCEPT !.good = @ /\ links[l].of # a]],
                       [of |-> a, good |-> TRUE])

\* An hour has passed.
LinkExpires(l) ==
    /\ links[l].good
    /\ links' = [links EXCEPT ![l].good = FALSE]
    /\ UNCHANGED <<admin, console, arrived, enrolling, disabled>>

\* _enrollment: not used, not expired, its admin not disabled.
LinkWorks(l) == l # 0 /\ links[l].good /\ Enabled(links[l].of)

EnrollBegin(c, l) ==
    /\ LinkWorks(l)
    /\ console' = [console EXCEPT ![c].enroll = l]
    /\ UNCHANGED <<admin, links, arrived, enrolling, disabled>>

\* enroll_complete up to its await: the pending enrolment is spent.
EnrollComplete(c) ==
    /\ console[c].enroll # 0
    /\ console' = [console EXCEPT ![c].enroll = 0]
    /\ enrolling' = IF LinkWorks(console[c].enroll)
                    THEN enrolling \cup {<<c, console[c].enroll>>} ELSE enrolling
    /\ UNCHANGED <<admin, links, arrived, disabled>>

\* ... and after it: the passkey is stored, and its owner signed in with the row as it is now.
Enrolled(c, l) ==
    /\ <<c, l>> \in enrolling
    /\ enrolling' = enrolling \ {<<c, l>>}
    /\ admin' = [admin EXCEPT ![links[l].of].passkey = TRUE]
    /\ links' = [links EXCEPT ![l].good = FALSE]
    /\ console' = [console EXCEPT ![c] = SessionOf(links[l].of)]
    /\ UNCHANGED <<arrived, disabled>>

-----------------------------------------------------------------------------
(* The Admins page, by a request that was let in. *)

\* admin_invite
Invite(a) ==
    /\ admin[a].state = "none"
    /\ admin' = [admin EXCEPT ![a].state = "enabled"]
    /\ NewLink(a)
    /\ UNCHANGED disabled

\* admin_enroll_link
GiveLink(a) == Enabled(a) /\ NewLink(a) /\ UNCHANGED <<admin, disabled>>

\* Mutant: disabling leaves session_version alone.
DisabledRow(row) == [row EXCEPT !.state = "disabled"]

Disabled(row) == [row EXCEPT !.state = "disabled", !.version = @ + 1]

\* admin_disable: anybody but yourself.
Disable(by, a) ==
    /\ a # by /\ admin[a].state # "none"
    /\ admin[a].version < MaxVersion
    /\ admin' = [admin EXCEPT ![a] = Disabled(@)]
    /\ disabled' = disabled \cup {<<a, admin[a].version>>}
    /\ UNCHANGED links

\* admin_enable
Enable(a) ==
    /\ admin[a].state # "none"
    /\ admin' = [admin EXCEPT ![a].state = "enabled"]
    /\ UNCHANGED <<links, disabled>>

AdminHandles(c, by) ==
    /\ <<c, by>> \in arrived
    /\ arrived' = arrived \ {<<c, by>>}
    /\ \/ \E a \in Admins : Invite(a) \/ GiveLink(a) \/ Disable(by, a) \/ Enable(a)
       \/ UNCHANGED <<admin, links, disabled>>     \* refused, or a page that changes none of this
    /\ UNCHANGED <<console, enrolling>>

AdminNext ==
    \/ \E c \in Consoles :
        \/ AdminArrives(c) \/ TurnedAway(c) \/ AdminLogout(c) \/ EnrollComplete(c)
        \/ \E a \in Admins : AdminLogin(c, a) \/ AdminHandles(c, a)
        \/ \E l \in 1 .. Len(links) : EnrollBegin(c, l) \/ Enrolled(c, l)
    \/ \E l \in 1 .. Len(links) : LinkExpires(l)

-----------------------------------------------------------------------------
(* Properties. *)

\* A provider admin who was disabled is out for good: no session it had before works again when it is
\* enabled, and none is older than its last disabling (require_provider, admin_disable, enroll_complete).
DisabledMeansOut ==
    \A c \in Consoles : SignedIn(c) => <<console[c].by, console[c].version>> \notin disabled
=============================================================================
