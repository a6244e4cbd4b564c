------------------------------- MODULE Accounts -------------------------------
(***************************************************************************)
(* The accounts of one tenant's dashboard: sign-in, sessions, passkeys,     *)
(* roles and the hand-over of a sign-in to a custom domain (auth.py,        *)
(* handoff.py, routes/users.py, webauthn.py, admin.py, invites.py).         *)
(*                                                                          *)
(* A session is the signed cookie of a browser; the server keeps only the   *)
(* user's session_version.  A request is checked first (require_auth, in    *)
(* the thread pool) and handled later with the user and permissions of the  *)
(* check and the cookie it was sent with; the answer replaces the browser's *)
(* cookie.                                                                  *)
(*                                                                          *)
(* Left out: names, e-mails and notifications, which groups a user sees,    *)
(* the tenant boundary of every query, limits on guesses, the 15 s cache     *)
(* of roles.                                                                *)
(***************************************************************************)
EXTENDS Integers, FiniteSets

CONSTANTS
    Users,          \* accounts that may exist; an id is never used again (AUTOINCREMENT)
    FirstAdmin,     \* the one the invite or /setup makes
    Browsers,
    Passkeys,
    MaxRequests,    \* bound on requests in flight
    MaxSignIns,     \* bound on sign-ins, and so on session lines
    MaxClicks       \* bound on requests that change an account

ASSUME AccountsAssumption ==
    /\ FirstAdmin \in Users
    /\ "none" \notin Users
    /\ {MaxRequests, MaxSignIns, MaxClicks} \subseteq Nat

VARIABLES
    account,    \* by user: state, role, method, session_version, passkeys
    desk,       \* the tenant's custom role, once it is made, and its capabilities
    cookie,     \* by browser: its session
    inFlight,   \* requests that passed require_auth
    handoffs,   \* sign-ins on their way to the custom domain
    ended,      \* history: <<user, line>> of sessions somebody ended
    back,       \* history: those of them a request or a hand-over under way brought back since
    lines,      \* history: sign-ins so far; a session belongs to the line of its sign-in
    clicks

accountVars == <<account, desk, cookie, inFlight, handoffs, ended, back, lines, clicks>>

NoUser == "none"
NoDesk == [made |-> FALSE, caps |-> {}]
Caps == {"manage_users", "manage_roles"}
Methods == {"password", "passkey", "both"}
NeedsPasskey == {"passkey", "both"}

DeskRoles == {NoDesk} \cup [made : {TRUE}, caps : SUBSET Caps]

NobodyYet == [state |-> "none", role |-> "viewer", method |-> "password", version |-> 0, keys |-> {}]
SignedOut == [user |-> NoUser, version |-> 0, pending |-> NoUser, challenge |-> "none", line |-> 0]

There(u) == u # NoUser /\ account[u].state = "there"
Roles == {"admin", "viewer"} \cup (IF desk.made THEN {"desk"} ELSE {})

\* get_role_permissions: admin is all, an unknown role nothing.
CapsOf(role) == CASE role = "admin" -> Caps
                  [] role = "desk" -> desk.caps
                  [] OTHER -> {}

-----------------------------------------------------------------------------
(* Sessions. *)

\* require_auth lets the cookie's user in.
Valid(c) == There(c.user) /\ c.version = account[c.user].version

\* require_auth, before the handler runs.
Arrive(b) ==
    /\ Cardinality(inFlight) < MaxRequests
    /\ Valid(cookie[b])
    /\ inFlight' = inFlight \cup {[browser |-> b, cookie |-> cookie[b], by |-> cookie[b].user,
                                   caps |-> CapsOf(account[cookie[b].user].role)]}
    /\ UNCHANGED <<account, desk, cookie, handoffs, ended, back, lines, clicks>>

\* ... which clears a session that ended.
Rejected(b) ==
    /\ cookie[b].user # NoUser /\ ~Valid(cookie[b])
    /\ cookie' = [cookie EXCEPT ![b] = SignedOut]
    /\ UNCHANGED <<account, desk, inFlight, handoffs, ended, back, lines, clicks>>

\* The answer: the request's session, as the handler left it, is the browser's.
Answer(r, c) ==
    /\ inFlight' = inFlight \ {r}
    /\ cookie' = [cookie EXCEPT ![r.browser] = c]

Click == clicks < MaxClicks /\ clicks' = clicks + 1

\* sign_in with u's row: the session carries its id and version.
Session(u, line) == [SignedOut EXCEPT !.user = u, !.version = account[u].version, !.line = line]

NewLine == lines < MaxSignIns /\ lines' = lines + 1

\* u's sessions that are let in now, and the hand-overs that will make one; but for those kept.
SessionsOf(u, kept) ==
    {<<u, c.line>> : c \in {d \in ({cookie[b] : b \in Browsers} \cup {r.cookie : r \in inFlight}) :
                               d.user = u /\ Valid(d) /\ \A k \in kept : k.line # d.line}}
    \cup {<<u, h.line>> : h \in {g \in handoffs : g.user = u /\ g.usable /\ \A k \in kept : k.line # g.line}}

\* Sessions end; one that ended before, and is kept by the answer to its request, is back.
SessionsEnd(u, kept) ==
    /\ ended' = ended \cup SessionsOf(u, kept)
    /\ back' = (back \ SessionsOf(u, kept)) \cup {<<u, c.line>> : c \in {k \in kept : ~Valid(k)}}

\* bump_session_version
Bump(u) == account[u].version + 1

\* u's row changed in some fields, and its sessions ended.
EndSessions(u, kept, changed) ==
    /\ account' = [account EXCEPT ![u] = [changed EXCEPT !.version = Bump(u)]]
    /\ SessionsEnd(u, kept)

-----------------------------------------------------------------------------
(* Sign-in. *)

\* login_post with the right password, or none for a passkey account.
Login(b, u) ==
    /\ There(u)
    /\ \/ /\ account[u].method \in NeedsPasskey
          /\ cookie' = [cookie EXCEPT ![b] = [@ EXCEPT !.pending = u]]
          /\ UNCHANGED lines
       \/ /\ account[u].method = "password"
          /\ NewLine
          /\ cookie' = [cookie EXCEPT ![b] = Session(u, lines')]
    /\ UNCHANGED <<account, desk, inFlight, handoffs, ended, back, clicks>>

\* login_webauthn_begin: there must be a passkey to ask for.
WebauthnBegin(b) ==
    LET u == cookie[b].pending IN
    /\ There(u) /\ account[u].keys # {}
    /\ cookie' = [cookie EXCEPT ![b] = [@ EXCEPT !.challenge = "login"]]
    /\ UNCHANGED <<account, desk, inFlight, handoffs, ended, back, lines, clicks>>

\* login_webauthn_complete with one of the user's passkeys; otherwise the challenge is spent.
WebauthnComplete(b) ==
    LET u == cookie[b].pending IN
    /\ cookie[b].challenge = "login"
    /\ \/ /\ There(u) /\ account[u].keys # {}
          /\ NewLine
          /\ cookie' = [cookie EXCEPT ![b] = Session(u, lines')]
       \/ /\ cookie' = [cookie EXCEPT ![b] = [@ EXCEPT !.challenge = "none"]]
          /\ UNCHANGED lines
    /\ UNCHANGED <<account, desk, inFlight, handoffs, ended, back, clicks>>

\* logout, and the requests under way keep the cookie they were sent with.
Logout(b) ==
    /\ cookie[b] # SignedOut
    /\ cookie' = [cookie EXCEPT ![b] = SignedOut]
    /\ UNCHANGED <<account, desk, inFlight, handoffs, ended, back, lines, clicks>>

\* The first admin's account, which nobody had.
FirstAccount ==
    /\ account[FirstAdmin].state = "none"
    /\ account' = [account EXCEPT ![FirstAdmin] =
                      [NobodyYet EXCEPT !.state = "there", !.role = "admin", !.version = 1]]

\* setup_post, with the server's setup token: it isn't signed in yet.
SetupPost ==
    /\ FirstAccount
    /\ UNCHANGED <<desk, cookie, inFlight, handoffs, ended, back, lines, clicks>>

\* invite_accept: it is signed in.
InviteAccept(b) ==
    /\ FirstAccount
    /\ NewLine
    /\ cookie' = [cookie EXCEPT ![b] = [SignedOut EXCEPT !.user = FirstAdmin, !.version = 1, !.line = lines']]
    /\ UNCHANGED <<desk, inFlight, handoffs, ended, back, clicks>>

-----------------------------------------------------------------------------
(* My account: handlers of a request r that passed require_auth. *)

\* passkey_register_begin and _complete in one ceremony.
RegisterPasskey(r, k) ==
    /\ Click
    /\ \A u \in Users : k \notin account[u].keys
    /\ account' = IF There(r.by) THEN [account EXCEPT ![r.by].keys = @ \cup {k}] ELSE account
    /\ Answer(r, r.cookie)
    /\ UNCHANGED <<desk, handoffs, ended, back, lines>>

\* passkey_delete keeps the last one of a passkey account.
DeletePasskey(r, k) ==
    /\ Click
    /\ k \in account[r.by].keys
    /\ account[r.by].keys # {k} \/ account[r.by].method = "password"
    /\ account' = [account EXCEPT ![r.by].keys = @ \ {k}]
    /\ Answer(r, r.cookie)
    /\ UNCHANGED <<desk, handoffs, ended, back, lines>>

MayChoose(u, m) == m \in NeedsPasskey => account[u].keys # {}

\* account_set_auth_method: the other sessions end, this one gets the new version,
\* though it may have been ended since its request was admitted.
SetAuthMethod(r, m) ==
    /\ Click
    /\ There(r.by) /\ MayChoose(r.by, m) /\ m # account[r.by].method
    /\ EndSessions(r.by, {r.cookie}, [account[r.by] EXCEPT !.method = m])
    /\ Answer(r, [r.cookie EXCEPT !.version = account'[r.by].version])
    /\ UNCHANGED <<desk, handoffs, lines>>

\* account_change_password, likewise.
ChangePassword(r) ==
    /\ Click
    /\ There(r.by)
    /\ EndSessions(r.by, {r.cookie}, account[r.by])
    /\ Answer(r, [r.cookie EXCEPT !.version = account'[r.by].version])
    /\ UNCHANGED <<desk, handoffs, lines>>

\* account_sign_out_everywhere
SignOutEverywhere(r) ==
    /\ Click
    /\ There(r.by)
    /\ EndSessions(r.by, {}, account[r.by])
    /\ Answer(r, SignedOut)
    /\ UNCHANGED <<desk, handoffs, lines>>

-----------------------------------------------------------------------------
(* Users: handlers that need manage_users, on another user's account. *)

\* user_create
CreateUser(r, u, role) ==
    /\ Click
    /\ "manage_users" \in r.caps
    /\ account[u].state = "none" /\ u # FirstAdmin
    /\ role \in Roles
    /\ account' = [account EXCEPT ![u] = [NobodyYet EXCEPT !.state = "there", !.role = role, !.version = 1]]
    /\ Answer(r, r.cookie)
    /\ UNCHANGED <<desk, handoffs, ended, back, lines>>

MayManage(r, u) == "manage_users" \in r.caps /\ There(u)

\* Mutant: only the row's role is changed.
RoleOnly(u, role) ==
    account' = [account EXCEPT ![u].role = role] /\ SessionsEnd(u, {})

\* The UPDATE of user_set_role.
ChangeRole(u, role) == EndSessions(u, {}, [account[u] EXCEPT !.role = role])

\* user_set_role
SetRole(r, u, role) ==
    /\ Click
    /\ MayManage(r, u) /\ u # r.by
    /\ role \in Roles /\ role # account[u].role
    /\ ChangeRole(u, role)
    /\ Answer(r, r.cookie)
    /\ UNCHANGED <<desk, handoffs, lines>>

\* user_sign_out (of oneself too)
SignOutUser(r, u) ==
    /\ Click
    /\ MayManage(r, u)
    /\ EndSessions(u, {}, account[u])
    /\ Answer(r, r.cookie)
    /\ UNCHANGED <<desk, handoffs, lines>>

\* user_reset_password: another password, and the same for the sessions.
ResetPassword(r, u) == SignOutUser(r, u)

\* user_delete: a hand-over of the user's still refers to the row, and the delete fails.
DeleteUser(r, u) ==
    /\ Click
    /\ MayManage(r, u) /\ u # r.by
    /\ IF \E h \in handoffs : h.user = u
       THEN UNCHANGED <<account, ended, back>>
       ELSE /\ account' = [account EXCEPT ![u] = [NobodyYet EXCEPT !.state = "deleted"]]
            /\ SessionsEnd(u, {})
    /\ Answer(r, r.cookie)
    /\ UNCHANGED <<desk, handoffs, lines>>

\* Mutant: the sign-in method stays.
KeepMethod(u, keys) == [account[u] EXCEPT !.keys = keys]

\* Never leave an account requiring a passkey with none registered.
WithKeys(u, keys) ==
    [account[u] EXCEPT !.keys = keys, !.method = IF keys = {} THEN "password" ELSE @]

\* Some keys are left; the sessions end if that changes how the user signs in.
LeaveKeys(r, u, left) ==
    /\ Click
    /\ MayManage(r, u)
    /\ IF left = {} /\ account[u].method # "password"
       THEN EndSessions(u, {}, WithKeys(u, left))
       ELSE account' = [account EXCEPT ![u] = WithKeys(u, left)] /\ UNCHANGED <<ended, back>>
    /\ Answer(r, r.cookie)
    /\ UNCHANGED <<desk, handoffs, lines>>

\* user_revoke_passkey
RevokePasskey(r, u) == \E k \in account[u].keys : LeaveKeys(r, u, account[u].keys \ {k})

\* user_reset_passkeys
ResetPasskeys(r, u) == LeaveKeys(r, u, {})

\* admin_role_create, admin_role_update, admin_role_delete for the custom role
SetDeskRole(r, new) ==
    /\ Click
    /\ "manage_roles" \in r.caps
    /\ desk' = new /\ desk' # desk
    /\ ~new.made => \A u \in Users : account[u].role # "desk"
    /\ Answer(r, r.cookie)
    /\ UNCHANGED <<account, handoffs, ended, back, lines>>

-----------------------------------------------------------------------------
(* The hand-over of a sign-in to a custom domain, where another browser       *)
(* session is kept.                                                           *)

\* issue: a token, for a minute; its row stays for a day after that.
Issue(u, line) == handoffs' = handoffs \cup {[user |-> u, line |-> line, usable |-> TRUE]}

\* handoff_start and handoff_go, on the tenant's own host
HandoffGo(r) ==
    /\ Click
    /\ There(r.by)
    /\ Issue(r.by, r.cookie.line)
    /\ Answer(r, r.cookie)
    /\ UNCHANGED <<account, desk, ended, back, lines>>

\* spend: once, whatever happens next
Spend(h) ==
    /\ h.usable
    /\ handoffs' = (handoffs \ {h}) \cup {[h EXCEPT !.usable = FALSE]}

\* handoff_enter, on the custom domain: signed in with the user's row of now,
\* whether or not the session it was issued by has ended meanwhile.
HandoffEnter(b) ==
    /\ \E h \in handoffs :
          /\ Spend(h)
          /\ cookie' = [cookie EXCEPT ![b] = IF There(h.user) THEN Session(h.user, h.line) ELSE @]
          /\ back' = IF <<h.user, h.line>> \in ended THEN back \cup {<<h.user, h.line>>} ELSE back
    /\ UNCHANGED <<account, desk, inFlight, ended, lines, clicks>>

\* Its minute is over, or its day: issue deletes the old ones.
HandoffExpires ==
    /\ \E h \in handoffs :
          handoffs' = (handoffs \ {h}) \cup (IF h.usable THEN {[h EXCEPT !.usable = FALSE]} ELSE {})
    /\ UNCHANGED <<account, desk, cookie, inFlight, ended, back, lines, clicks>>

-----------------------------------------------------------------------------

AccountsInit ==
    /\ account = [u \in Users |-> NobodyYet]
    /\ desk = NoDesk
    /\ cookie = [b \in Browsers |-> SignedOut]
    /\ inFlight = {}
    /\ handoffs = {}
    /\ ended = {} /\ back = {}
    /\ lines = 0
    /\ clicks = 0

\* A page that changes nothing, or a handler that refuses.
ShowPage(r) ==
    /\ Answer(r, r.cookie)
    /\ UNCHANGED <<account, desk, handoffs, ended, back, lines, clicks>>

Handle(r) ==
    \/ ShowPage(r)
    \/ \E k \in Passkeys : RegisterPasskey(r, k) \/ DeletePasskey(r, k)
    \/ \E m \in Methods : SetAuthMethod(r, m)
    \/ ChangePassword(r) \/ SignOutEverywhere(r) \/ HandoffGo(r)
    \/ \E u \in Users, role \in Roles : CreateUser(r, u, role) \/ SetRole(r, u, role)
    \/ \E u \in Users : \/ SignOutUser(r, u) \/ ResetPassword(r, u) \/ DeleteUser(r, u)
                        \/ RevokePasskey(r, u) \/ ResetPasskeys(r, u)
    \/ \E new \in DeskRoles : SetDeskRole(r, new)

AccountsNext ==
    \/ \E b \in Browsers : Arrive(b) \/ Rejected(b) \/ Logout(b) \/ InviteAccept(b)
    \/ \E b \in Browsers, u \in Users : Login(b, u)
    \/ \E b \in Browsers : WebauthnBegin(b) \/ WebauthnComplete(b) \/ HandoffEnter(b)
    \/ \E r \in inFlight : Handle(r)
    \/ SetupPost
    \/ HandoffExpires

AccountsSpec == AccountsInit /\ [][AccountsNext]_accountVars

-----------------------------------------------------------------------------

Cookies == [user : Users \cup {NoUser}, version : Nat, pending : Users \cup {NoUser},
            challenge : {"none", "login"}, line : 0..MaxSignIns]

\* Every variable keeps to its values.
AccountsTypeOK ==
    /\ account \in [Users -> [state : {"none", "there", "deleted"}, role : {"admin", "viewer", "desk"},
                              method : Methods, version : Nat, keys : SUBSET Passkeys]]
    /\ desk \in DeskRoles
    /\ cookie \in [Browsers -> Cookies]
    /\ inFlight \subseteq [browser : Browsers, cookie : Cookies, by : Users, caps : SUBSET Caps]
    /\ handoffs \subseteq [user : Users, line : 1..MaxSignIns, usable : BOOLEAN]
    /\ ended \subseteq Users \X (1..MaxSignIns) /\ back \subseteq Users \X (1..MaxSignIns)
    /\ lines \in 0..MaxSignIns
    /\ clicks \in 0..MaxClicks

\* "Never leave an account requiring a passkey with none registered": through
\* the owner's and the admins' pages at once, a passkey account has a passkey
\* and so its user can get in.
PasskeyNeverMissing ==
    \A u \in Users : There(u) /\ account[u].method \in NeedsPasskey => account[u].keys # {}

\* A session that was ended - by a role change, a reset, a deletion, a change of
\* password or method elsewhere, a sign-out of everything - is not let in again in
\* whatever browser, renewed cookie, late answer or hand-over it lives on; unless
\* a change of its own method or password that was admitted before it ended is
\* handled after, or a hand-over that was issued by it or was under way is spent.
EndedSessionsDie ==
    \A c \in {cookie[b] : b \in Browsers} \cup {r.cookie : r \in inFlight} :
        Valid(c) => <<c.user, c.line>> \notin ended \ back
=============================================================================
