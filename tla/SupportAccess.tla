---------------------------- MODULE SupportAccess ----------------------------
(***************************************************************************)
(* Provider support in a tenant's dashboard (support.py, routes/support.py, *)
(* console/tenant_pages.py): the tenant grants and revokes access, an admin *)
(* of the provider gets a one-time token in the console, the dashboard      *)
(* turns it into a session and checks the session at every request.         *)
(*                                                                          *)
(* The dashboard's handlers run in a pool of threads, each statement its    *)
(* own transaction until the first write: granting, revoking and entering   *)
(* are modelled statement by statement.  Time is not counted: a grant runs   *)
(* out at any moment, a token or a session may be too old when it is asked. *)
(*                                                                          *)
(* Left out: how long a grant lasts, unattended-access passwords, paths     *)
(* support can't open, reasons, e-mails and the log.                        *)
(***************************************************************************)
EXTENDS ProviderAdmins

CONSTANTS
    Tabs,           \* browsers on the tenant's host
    Clerks,         \* the tenant's own requests to grant or revoke
    MaxGrants,
    MaxTokens,
    MaxEntries      \* bound on support sessions

ASSUME SupportAssumption == MaxGrants \in Nat /\ MaxTokens \in Nat /\ MaxEntries \in Nat

VARIABLES
    open,       \* is the tenant open
    grants,     \* support_grants: live, over or revoked; whether its end was notified
    clerk,      \* by request: what it does, and the grant active_grant gave it (0: none)
    tokens,     \* support_tokens: for which grant and admin, whether still good, whether used
    entering,   \* by tab: the progress of enter
    entries,    \* support_sessions
    tab         \* by tab: its session's entry and the admin's session_version

supportVars == <<open, grants, clerk, tokens, entering, entries, tab>>

NoErrand == [does |-> "nothing", grant |-> 0]
NotEntering == [at |-> "no", token |-> 0, version |-> 0]
NoEntry == [entry |-> 0, version |-> 0]

SupportInit ==
    /\ AdminInit
    /\ open = TRUE
    /\ grants = <<>> /\ tokens = <<>> /\ entries = <<>>
    /\ clerk = [k \in Clerks |-> NoErrand]
    /\ entering = [b \in Tabs |-> NotEntering]
    /\ tab = [b \in Tabs |-> NoEntry]

SupportTypeOK ==
    /\ AdminTypeOK
    /\ open \in BOOLEAN
    /\ grants \in Seq([state : {"live", "over", "revoked"}, told : BOOLEAN]) /\ Len(grants) <= MaxGrants
    /\ clerk \in [Clerks -> [does : {"nothing", "grant", "revoke"}, grant : 0 .. MaxGrants]]
    /\ tokens \in Seq([grant : 1 .. MaxGrants, by : Admins, used : BOOLEAN])
    /\ Len(tokens) <= MaxTokens
    /\ entering \in [Tabs -> [at : {"no", "read", "spent", "checked"}, token : 0 .. MaxTokens,
                              version : 0 .. MaxVersion]]
    /\ entries \in Seq([grant : 1 .. MaxGrants, by : Admins, state : {"open", "ended"}])
    /\ Len(entries) <= MaxEntries
    /\ tab \in [Tabs -> [entry : 0 .. MaxEntries, version : 0 .. MaxVersion]]

-----------------------------------------------------------------------------
(* Grants. *)

Live == {g \in 1 .. Len(grants) : grants[g].state = "live"}

\* active_grant: the newest that runs, 0 when none does.
ActiveGrant == IF Live = {} THEN 0 ELSE CHOOSE g \in Live : \A h \in Live : h <= g

\* entries with those of some grants ended
EndEntries(of) == [s \in 1 .. Len(entries) |->
                        IF entries[s].grant \in of THEN [entries[s] EXCEPT !.state = "ended"] ELSE entries[s]]

\* support_grant, support_revoke: the handler looks for the active grant ...
Look(k, does) ==
    /\ clerk[k] = NoErrand /\ open
    /\ does = "revoke" => ActiveGrant # 0
    /\ clerk' = [clerk EXCEPT ![k] = [does |-> does, grant |-> ActiveGrant]]
    /\ UNCHANGED <<adminVars, open, grants, tokens, entering, entries, tab>>

\* Mutant: a change is a grant of its own, beside the one that runs.
GrantAnew(k) ==
    /\ clerk[k].does = "grant" /\ Len(grants) < MaxGrants
    /\ grants' = Append(grants, [state |-> "live", told |-> FALSE])
    /\ clerk' = [clerk EXCEPT ![k] = NoErrand]
    /\ UNCHANGED <<adminVars, open, tokens, entering, entries, tab>>

\* ... and makes one, or sets the end of the one it found to the future.
Grant(k) ==
    /\ clerk[k].does = "grant"
    /\ LET g == clerk[k].grant IN
        \/ /\ g = 0 /\ Len(grants) < MaxGrants
           /\ grants' = Append(grants, [state |-> "live", told |-> FALSE])
        \/ /\ g # 0
           /\ grants' = [grants EXCEPT ![g].state = IF @ = "over" THEN "live" ELSE @]
    /\ clerk' = [clerk EXCEPT ![k] = NoErrand]
    /\ UNCHANGED <<adminVars, open, tokens, entering, entries, tab>>

\* ... or revokes it and ends its sessions.
Revoke(k) ==
    /\ clerk[k].does = "revoke"
    /\ grants' = [grants EXCEPT ![clerk[k].grant].state = "revoked"]
    /\ entries' = EndEntries({clerk[k].grant})
    /\ clerk' = [clerk EXCEPT ![k] = NoErrand]
    /\ UNCHANGED <<adminVars, open, tokens, entering, tab>>

\* A live grant's end passes.
RunsOut(g) ==
    /\ grants[g].state = "live"
    /\ grants' = [grants EXCEPT ![g].state = "over"]
    /\ UNCHANGED <<adminVars, open, clerk, tokens, entering, entries, tab>>

\* sweep, once an hour.
Sweep ==
    LET due == {g \in 1 .. Len(grants) : grants[g].state = "over" /\ ~grants[g].told}
    IN  /\ due # {}
        /\ grants' = [g \in 1 .. Len(grants) |->
                        IF g \in due THEN [grants[g] EXCEPT !.told = TRUE] ELSE grants[g]]
        /\ entries' = EndEntries(due)
        /\ UNCHANGED <<adminVars, open, clerk, tokens, entering, tab>>

\* lifecycle: a tenant that closes ends every support session.
OpenOrClose ==
    /\ open' = ~open
    /\ entries' = IF open THEN EndEntries(1 .. MaxGrants) ELSE entries
    /\ UNCHANGED <<adminVars, grants, clerk, tokens, entering, tab>>

-----------------------------------------------------------------------------
(* Tokens. *)

\* tenant_support_open, by an admin whose request was let in.
IssueToken(c, a) ==
    /\ <<c, a>> \in arrived
    /\ arrived' = arrived \ {<<c, a>>}
    /\ open /\ ActiveGrant # 0
    /\ Len(tokens) < MaxTokens
    /\ tokens' = Append(tokens, [grant |-> ActiveGrant, by |-> a, used |-> FALSE])
    /\ UNCHANGED <<admin, console, links, enrolling, disabled, open, grants, clerk, entering, entries, tab>>

EnterAt(b, step) == entering[b].at = step

\* support_enter: the tab's session is cleared, and filled when the token was accepted.
Answered(b, session) == tab' = [tab EXCEPT ![b] = session]

\* enter finds the token unused ...
ReadToken(b, t) ==
    /\ EnterAt(b, "no") /\ open
    /\ ~tokens[t].used
    /\ entering' = [entering EXCEPT ![b] = [at |-> "read", token |-> t, version |-> 0]]
    /\ UNCHANGED <<adminVars, open, grants, clerk, tokens, entries, tab>>

\* ... marks it used, whoever else did ...
SpendToken(b) ==
    /\ EnterAt(b, "read")
    /\ tokens' = [tokens EXCEPT ![entering[b].token].used = TRUE]
    /\ entering' = [entering EXCEPT ![b].at = "spent"]
    /\ UNCHANGED <<adminVars, open, grants, clerk, entries, tab>>

\* ... checks the token's time, the grant and the admin ...
CheckToken(b) ==
    LET t == tokens[entering[b].token]
    IN  /\ EnterAt(b, "spent")
        /\ \/ /\ ActiveGrant = t.grant /\ Enabled(t.by)
              /\ entering' = [entering EXCEPT ![b].at = "checked", ![b].version = admin[t.by].version]
              /\ UNCHANGED tab
           \/ /\ entering' = [entering EXCEPT ![b] = NotEntering]     \* refused, if only because 60 s have passed
              /\ Answered(b, NoEntry)
        /\ UNCHANGED <<adminVars, open, grants, clerk, tokens, entries>>

\* ... and opens the session.
Enter(b) ==
    LET t == tokens[entering[b].token]
    IN  /\ EnterAt(b, "checked") /\ Len(entries) < MaxEntries
        /\ entries' = Append(entries, [grant |-> t.grant, by |-> t.by, state |-> "open"])
        /\ Answered(b, [entry |-> Len(entries) + 1, version |-> entering[b].version])
        /\ entering' = [entering EXCEPT ![b] = NotEntering]
        /\ UNCHANGED <<adminVars, open, grants, clerk, tokens>>

-----------------------------------------------------------------------------
(* Sessions. *)

\* session_user: access neither revoked nor expired.
GrantRuns(s) == grants[entries[s].grant].state = "live"

\* session_user: the provider's admin is enabled and hasn't been signed out.
AdminStays(s, version) == Enabled(entries[s].by) /\ admin[entries[s].by].version = version

\* session_user returns a user.
Admitted(b) ==
    LET s == tab[b].entry
    IN  s # 0 /\ entries[s].state = "open" /\ GrantRuns(s) /\ AdminStays(s, tab[b].version) /\ open

\* ... or ends the session, if only because four hours have passed; require_auth then clears the cookie.
SentAway(b) ==
    /\ tab[b].entry # 0
    /\ entries' = [entries EXCEPT ![tab[b].entry].state = "ended"]
    /\ tab' = [tab EXCEPT ![b] = NoEntry]
    /\ UNCHANGED <<adminVars, open, grants, clerk, tokens, entering>>

\* support_end
EndSession(b) ==
    /\ Admitted(b)
    /\ entries' = [entries EXCEPT ![tab[b].entry].state = "ended"]
    /\ tab' = [tab EXCEPT ![b] = NoEntry]
    /\ UNCHANGED <<adminVars, open, grants, clerk, tokens, entering>>

ConsoleStep == AdminNext /\ UNCHANGED supportVars

SupportNext ==
    \/ ConsoleStep
    \/ \E k \in Clerks : Look(k, "grant") \/ Look(k, "revoke") \/ Grant(k) \/ Revoke(k)
    \/ \E g \in 1 .. Len(grants) : RunsOut(g)
    \/ Sweep
    \/ OpenOrClose
    \/ \E c \in Consoles, a \in Admins : IssueToken(c, a)
    \/ \E b \in Tabs :
        \/ \E t \in 1 .. Len(tokens) : ReadToken(b, t)
        \/ SpendToken(b) \/ CheckToken(b) \/ Enter(b) \/ SentAway(b) \/ EndSession(b)

SupportSpec == SupportInit /\ [][SupportNext]_<<adminVars, supportVars>>

-----------------------------------------------------------------------------
(* Properties. *)

\* A provider admin who was disabled is out, on the console and in the tenants' dashboards: no session it had
\* before works again, though it is enabled later (require_provider, session_user, admin_disable).
DisabledIsOut ==
    /\ DisabledMeansOut
    /\ \A b \in Tabs : Admitted(b) => <<entries[tab[b].entry].by, tab[b].version>> \notin disabled

\* "Support access revoked. Any support session has ended." (routes/support.py:54): when a revoke is done no
\* support session works, though another one was being opened, the grant ran out or was extended meanwhile, or
\* provider admins came and went.  It holds while the tenant's own requests come one after the other; two
\* Clerks at once leave two grants (grant, revoke).
RevokeEndsAll ==
    [][\A k \in Clerks : Revoke(k) => \A b \in Tabs : ~Admitted(b)']_<<adminVars, supportVars>>
=============================================================================
