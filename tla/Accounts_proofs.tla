------------------------------ MODULE Accounts_proofs ------------------------------
(***************************************************************************)
(* Two invariants of Accounts, for any number of users, browsers, passkeys,  *)
(* requests, sign-ins and clicks: PasskeyNeverMissing and EndedSessionsDie.  *)
(*                                                                          *)
(* The first is inductive with the types.  The second needs to know how far     *)
(* behind its account every session is (LinesOK): none is ahead of it, and one    *)
(* that ended and is not back carries a version the account has passed.  A step    *)
(* may leave a session as it was; make one of a new line; or give one that         *)
(* is not ended, or is back by this step, the account's present version.            *)
(***************************************************************************)
EXTENDS Accounts, TLAPS

Account == [state : {"none", "there", "deleted"}, role : {"admin", "viewer", "desk"}, method : Methods,
            version : Nat, keys : SUBSET Passkeys]
Cookie == [user : Users \cup {NoUser}, version : Nat, pending : Users \cup {NoUser},
           challenge : {"none", "login"}, line : Nat]
Handoff == [user : Users, line : Nat, usable : BOOLEAN]

TypesOK ==
    /\ account \in [Users -> Account]
    /\ cookie \in [Browsers -> Cookie]
    /\ \A r \in inFlight : r.browser \in Browsers /\ r.cookie \in Cookie /\ r.by \in Users /\ r.cookie.user = r.by
    /\ handoffs \subseteq Handoff
    /\ lines \in Nat

\* The cookies of the browsers and of the requests under way.
Held == {cookie[b] : b \in Browsers} \cup {r.cookie : r \in inFlight}

\* A cookie of account a, and n lines so far: not ahead of it; or behind it.
NotAhead(c, a, n) == c.line <= n /\ a.state # "none" /\ (a.state = "deleted" \/ c.version <= a.version)
Behind(c, a) == a.state = "deleted" \/ c.version < a.version

LinesOK ==
    /\ \A c \in Held : c.user \in Users =>
          /\ NotAhead(c, account[c.user], lines)
          /\ <<c.user, c.line>> \in ended \ back => Behind(c, account[c.user])
    /\ \A h \in handoffs : h.line <= lines
    /\ \A e \in ended : e \in Users \X Nat /\ e[2] <= lines

IInv == TypesOK /\ PasskeyNeverMissing /\ LinesOK

-----------------------------------------------------------------------------
(* What a step does to an account, to the sessions and to what was ended. *)

KeyOK(a) == a.state = "there" /\ a.method \in NeedsPasskey => a.keys # {}

\* What an account may become: its version never goes back, except with the account.
After(a) ==
    {n \in Account : /\ KeyOK(n)
                     /\ \/ a.state = "none" \/ n.state = "deleted"
                        \/ n.state = a.state /\ a.version <= n.version}

AccountStep ==
    \/ UNCHANGED account
    \/ \E u \in Users : \E n \in After(account[u]) : account' = [account EXCEPT ![u] = n]

\* Sessions of u end, and u's version passes theirs.
EndsStep ==
    \/ ended' = ended /\ back \subseteq back'
    \/ \E u \in Users : \E S \in SUBSET ({u} \X Nat) :
          /\ \A e \in S : e[2] <= lines
          /\ ended' = ended \cup S /\ back \ S \subseteq back'
          /\ account'[u].state = "deleted" \/ account[u].version < account'[u].version

Same(c, d) == c.user = d.user /\ c.line = d.line /\ c.version = d.version

\* A session of a new line, or one let in again that has not ended or is back.
Fresh(c) ==
    /\ account'[c.user].state = "there" /\ c.version = account'[c.user].version
    /\ \/ c.line = lines + 1 /\ lines' = lines + 1
       \/ c.line <= lines /\ <<c.user, c.line>> \notin ended' \ back'

Known(c) == c.user = NoUser \/ (\E d \in Held : Same(c, d)) \/ Fresh(c)

LineStep ==
    /\ lines' \in {lines, lines + 1}
    /\ \A h \in handoffs' : h.line <= lines
    /\ \A c \in Held' : Known(c)

LEMMA Users0 == NoUser \notin Users /\ FirstAdmin \in Users
BY AccountsAssumption DEF NoUser

LEMMA HeldTypes == TypesOK => Held \subseteq Cookie
BY DEF TypesOK, Held

\* The sessions of u that are ended now are u's, and of lines there have been.
LEMMA EndedNow ==
    ASSUME IInv, NEW u \in Users, NEW kept, NEW e \in SessionsOf(u, kept)
    PROVE  e \in {u} \X Nat /\ e[2] <= lines
<1>1. TypesOK /\ LinesOK
  BY DEF IInv
<1>2. CASE \E c \in Held : e = <<u, c.line>> /\ c.user = u
  BY <1>1, <1>2, HeldTypes DEF LinesOK, NotAhead, Cookie
<1>3. CASE \E h \in handoffs : e = <<u, h.line>>
  BY <1>1, <1>3 DEF TypesOK, LinesOK, Handoff
<1> QED
  BY <1>2, <1>3 DEF SessionsOf, Held

LEMMA AccountKept ==
    ASSUME TypesOK, PasskeyNeverMissing, AccountStep
    PROVE  /\ account' \in [Users -> Account] /\ PasskeyNeverMissing'
           /\ \A u \in Users : account[u].state # "none" =>
                 /\ account'[u].state # "none"
                 /\ \/ account'[u].state = "deleted"
                    \/ account[u].state # "deleted" /\ account[u].version <= account'[u].version
<1>1. CASE UNCHANGED account
  <2>1. \A u \in Users : account[u].version \in Nat /\ account[u].version <= account[u].version
    BY DEF TypesOK, Account
  <2> QED
    BY <1>1, <2>1 DEF TypesOK, PasskeyNeverMissing, There
<1>2. ASSUME NEW u \in Users, NEW n \in After(account[u]), account' = [account EXCEPT ![u] = n]
      PROVE  /\ account' \in [Users -> Account] /\ PasskeyNeverMissing'
             /\ \A v \in Users : account[v].state # "none" =>
                   /\ account'[v].state # "none"
                   /\ \/ account'[v].state = "deleted"
                      \/ account[v].state # "deleted" /\ account[v].version <= account'[v].version
  <2>1. /\ n \in Account /\ KeyOK(n)
        /\ \/ account[u].state = "none" \/ n.state = "deleted"
           \/ n.state = account[u].state /\ account[u].version <= n.version
    BY <1>2 DEF After
  <2>2. /\ account' \in [Users -> Account]
        /\ account'[u] = n /\ \A v \in Users \ {u} : account'[v] = account[v]
    BY <1>2, <2>1 DEF TypesOK
  <2>3. PasskeyNeverMissing'
    BY <2>1, <2>2 DEF PasskeyNeverMissing, There, KeyOK
  <2>4. \A v \in Users : account[v].version \in Nat /\ account[v].version <= account[v].version
    BY DEF TypesOK, Account
  <2> QED
    BY <2>1, <2>2, <2>3, <2>4
<1> QED
  BY <1>1, <1>2 DEF AccountStep

\* Behind its account, a session stays so.
LEMMA StaysBehind ==
    ASSUME TypesOK, PasskeyNeverMissing, AccountStep, NEW c \in Cookie, c.user \in Users,
           NotAhead(c, account[c.user], lines)
    PROVE  /\ account'[c.user].state # "none"
           /\ account'[c.user].state = "deleted" \/ c.version <= account'[c.user].version
           /\ Behind(c, account[c.user]) => Behind(c, account'[c.user])
<1>1. /\ account'[c.user].state # "none"
      /\ \/ account'[c.user].state = "deleted"
         \/ account[c.user].state # "deleted" /\ account[c.user].version <= account'[c.user].version
  BY AccountKept DEF NotAhead
<1>2. account' \in [Users -> Account]
  BY AccountKept
<1>3. account[c.user].version \in Nat /\ account'[c.user].version \in Nat /\ c.version \in Nat
  BY <1>2 DEF TypesOK, Account, Cookie
<1> QED
  BY <1>1, <1>3 DEF NotAhead, Behind

LEMMA LinesKept ==
    ASSUME IInv, TypesOK', AccountStep, EndsStep, LineStep
    PROVE  LinesOK'
<1>1. /\ TypesOK /\ PasskeyNeverMissing /\ LinesOK
      /\ lines \in Nat /\ lines' \in Nat /\ lines <= lines'
      /\ Held \subseteq Cookie /\ Held' \subseteq Cookie
  <2>1. TypesOK /\ PasskeyNeverMissing /\ LinesOK
    BY DEF IInv
  <2>2. Held \subseteq Cookie /\ Held' \subseteq Cookie
    BY <2>1 DEF TypesOK, Held
  <2>3. lines \in Nat /\ lines' \in Nat /\ lines <= lines'
    BY <2>1 DEF TypesOK, LineStep
  <2> QED
    BY <2>1, <2>2, <2>3
<1>2. \A e \in ended' : e \in Users \X Nat /\ e[2] <= lines
  BY <1>1 DEF EndsStep, LinesOK
<1>3. /\ \A e \in ended' : e \in Users \X Nat /\ e[2] <= lines'
      /\ \A h \in handoffs' : h.line <= lines'
  <2>1. \A h \in handoffs' : h.line \in Nat /\ h.line <= lines
    BY DEF LineStep, TypesOK, Handoff
  <2> QED
    BY <1>1, <1>2, <2>1
<1>4. ASSUME NEW c \in Cookie, NEW d \in Held, Same(c, d), c.user \in Users
      PROVE  /\ NotAhead(c, account'[c.user], lines')
             /\ <<c.user, c.line>> \in ended' \ back' => Behind(c, account'[c.user])
  <2>1. /\ NotAhead(c, account[c.user], lines) /\ c.line \in Nat /\ c.version \in Nat
        /\ <<c.user, c.line>> \in ended \ back => Behind(c, account[c.user])
    BY <1>1, <1>4 DEF LinesOK, Same, NotAhead, Behind, Cookie
  <2>2. /\ account'[c.user].state # "none"
        /\ account'[c.user].state = "deleted" \/ c.version <= account'[c.user].version
        /\ Behind(c, account[c.user]) => Behind(c, account'[c.user])
    BY <1>1, <1>4, <2>1, StaysBehind
  <2>3. NotAhead(c, account'[c.user], lines')
    BY <1>1, <2>1, <2>2 DEF NotAhead
  <2>4. ASSUME <<c.user, c.line>> \in ended' \ back' PROVE Behind(c, account'[c.user])
    <3>1. CASE <<c.user, c.line>> \in ended \ back
      BY <2>1, <2>2, <3>1
    <3>2. CASE <<c.user, c.line>> \notin ended \ back
      <4>1. PICK u \in Users : \E S \in SUBSET ({u} \X Nat) :
               /\ ended' = ended \cup S /\ back \ S \subseteq back'
               /\ account'[u].state = "deleted" \/ account[u].version < account'[u].version
        BY <2>4, <3>2 DEF EndsStep
      <4>2. PICK S \in SUBSET ({u} \X Nat) : ended' = ended \cup S /\ back \ S \subseteq back'
        BY <4>1
      <4>3. c.user = u
        <5>1. <<c.user, c.line>> \in S
          BY <2>4, <3>2, <4>2
        <5> QED
          BY <4>2, <5>1
      <4>4. account[u].version \in Nat /\ account'[u].version \in Nat
        BY <1>1, AccountKept DEF TypesOK, Account
      <4>5. account[u].state = "deleted" => account'[u].state = "deleted"
        BY <1>1, AccountKept
      <4> QED
        BY <2>1, <4>1, <4>3, <4>4, <4>5 DEF NotAhead, Behind
    <3> QED
      BY <3>1, <3>2
  <2> QED
    BY <2>3, <2>4
<1>5. ASSUME NEW c \in Cookie, Fresh(c), c.user \in Users
      PROVE  /\ NotAhead(c, account'[c.user], lines')
             /\ <<c.user, c.line>> \notin ended' \ back'
  <2>1. c.version \in Nat /\ c.line \in Nat
    BY DEF Cookie
  <2>2. c.line <= lines'
    BY <1>1, <1>5, <2>1 DEF Fresh
  <2>3. NotAhead(c, account'[c.user], lines')
    BY <1>5, <2>1, <2>2 DEF NotAhead, Fresh
  <2>4. c.line = lines + 1 => <<c.user, c.line>> \notin ended'
    BY <1>1, <1>2
  <2> QED
    BY <1>5, <2>3, <2>4 DEF Fresh
<1>6. ASSUME NEW c \in Held', c.user \in Users
      PROVE  /\ NotAhead(c, account'[c.user], lines')
             /\ <<c.user, c.line>> \in ended' \ back' => Behind(c, account'[c.user])
  <2>1. c \in Cookie /\ Known(c) /\ c.user # NoUser
    BY <1>1, <1>6, Users0 DEF LineStep
  <2> QED
    BY <1>4, <1>5, <1>6, <2>1 DEF Known
<1> QED
  BY <1>3, <1>6 DEF LinesOK

-----------------------------------------------------------------------------
(* Answers and sign-ins. *)

\* A browser, the only one, has another cookie, and requests may have been answered.
LEMMA OtherCookie ==
    ASSUME IInv, NEW b \in Browsers, NEW c \in Cookie, Known(c),
           cookie' = [cookie EXCEPT ![b] = c], inFlight' \subseteq inFlight,
           handoffs' \subseteq Handoff, \A h \in handoffs' : h.line <= lines,
           account' \in [Users -> Account], lines' \in {lines, lines + 1}
    PROVE  TypesOK' /\ LineStep
<1>1. /\ TypesOK
      /\ cookie' \in [Browsers -> Cookie]
      /\ cookie'[b] = c /\ \A d \in Browsers \ {b} : cookie'[d] = cookie[d]
  BY DEF IInv, TypesOK
<1>2. TypesOK'
  BY <1>1 DEF TypesOK
<1>3. Held' \subseteq Held \cup {c}
  BY <1>1 DEF Held
<1>4. \A d \in Held : Known(d)
  BY DEF Known, Same
<1>5. \A d \in Held' : Known(d)
  BY <1>3, <1>4
<1> QED
  BY <1>2, <1>5 DEF LineStep

LEMMA HandoffLines ==
    ASSUME IInv
    PROVE  handoffs \subseteq Handoff /\ \A h \in handoffs : h.line <= lines
BY DEF IInv, TypesOK, LinesOK

LEMMA SignedOutIsCookie == SignedOut \in Cookie /\ SignedOut.user = NoUser
BY DEF SignedOut, Cookie

LEMMA Sessions ==
    ASSUME TypesOK, NEW u \in Users, NEW line \in Nat
    PROVE  /\ Session(u, line) \in Cookie /\ Session(u, line).user = u /\ Session(u, line).line = line
           /\ Session(u, line).version = account[u].version
<1>1. account[u].version \in Nat
  BY DEF TypesOK, Account
<1>2. SignedOut \in Cookie
  BY SignedOutIsCookie
<1>3. Session(u, line) \in Cookie
  BY <1>1, <1>2 DEF Session, Cookie
<1>4. Session(u, line).user = u
  BY <1>2 DEF Session, Cookie
<1>5. Session(u, line).line = line /\ Session(u, line).version = account[u].version
  BY <1>2 DEF Session, Cookie
<1> QED
  BY <1>3, <1>4, <1>5

\* The conclusion every action has to reach.
Kept == TypesOK' /\ AccountStep /\ EndsStep /\ LineStep

\* Browser b begins a line of u's.
LEMMA Begins ==
    ASSUME IInv, NEW b \in Browsers, NEW u \in Users, NEW c \in Cookie, c.user = u, c.line = lines',
           c.version = account'[u].version, cookie' = [cookie EXCEPT ![b] = c], NewLine,
           account' \in [Users -> Account], account'[u].state = "there", UNCHANGED <<inFlight, handoffs>>
    PROVE  TypesOK' /\ LineStep
<1>1. lines' = lines + 1
  BY DEF NewLine
<1>2. Known(c)
  BY <1>1 DEF Known, Fresh
<1> QED
  BY <1>1, <1>2, HandoffLines, OtherCookie

\* Browser b keeps its session, or has none.
LEMMA Keeps ==
    ASSUME IInv, NEW b \in Browsers, NEW c \in Cookie, c.user = NoUser \/ Same(c, cookie[b]),
           cookie' = [cookie EXCEPT ![b] = c], UNCHANGED <<account, inFlight, handoffs, ended, back, lines>>
    PROVE  Kept
<1>1. Known(c)
  BY DEF Known, Held
<1>2. account' \in [Users -> Account] /\ handoffs' = handoffs
  BY DEF IInv, TypesOK
<1>3. TypesOK' /\ LineStep
  BY <1>1, <1>2, HandoffLines, OtherCookie
<1> QED
  BY <1>3 DEF Kept, AccountStep, EndsStep

LEMMA LoginKept ==
    ASSUME IInv, NEW b \in Browsers, NEW u \in Users, Login(b, u)
    PROVE  Kept
<1>1. /\ TypesOK /\ cookie[b] \in Cookie /\ account' = account /\ account' \in [Users -> Account]
      /\ UNCHANGED <<account, inFlight, handoffs, ended, back>>
  BY DEF IInv, TypesOK, Login
<1>2. CASE cookie' = [cookie EXCEPT ![b] = [@ EXCEPT !.pending = u]] /\ UNCHANGED lines
  <2> DEFINE c == [cookie[b] EXCEPT !.pending = u]
  <2>1. c \in Cookie /\ Same(c, cookie[b])
    BY <1>1 DEF Cookie, Same
  <2>2. cookie' = [cookie EXCEPT ![b] = c]
    BY <1>2
  <2> HIDE DEF c
  <2> QED
    BY <1>1, <1>2, <2>1, <2>2, Keeps
<1>3. CASE NewLine /\ cookie' = [cookie EXCEPT ![b] = Session(u, lines')]
  <2>1. lines' \in Nat
    BY <1>1, <1>3 DEF NewLine, TypesOK
  <2>2. UNCHANGED <<inFlight, handoffs>> /\ account'[u].state = "there"
    BY <1>1 DEF Login, There
  <2>3. PICK c \in Cookie : c = Session(u, lines') /\ c.user = u /\ c.line = lines' /\ c.version = account'[u].version
    BY <1>1, <2>1, Sessions
  <2>4. TypesOK' /\ LineStep
    BY <1>1, <1>3, <2>2, <2>3, Begins
  <2> QED
    BY <1>1, <2>4 DEF Kept, AccountStep, EndsStep
<1> QED
  BY <1>2, <1>3 DEF Login

LEMMA WebauthnKept ==
    ASSUME IInv, NEW b \in Browsers, WebauthnBegin(b) \/ WebauthnComplete(b)
    PROVE  Kept
<1> DEFINE u == cookie[b].pending
<1>1. /\ TypesOK /\ cookie[b] \in Cookie /\ account' = account /\ account' \in [Users -> Account]
      /\ UNCHANGED <<account, inFlight, handoffs, ended, back>>
  BY DEF IInv, TypesOK, WebauthnBegin, WebauthnComplete
<1>2. ASSUME NEW x \in {"none", "login"}, cookie' = [cookie EXCEPT ![b] = [@ EXCEPT !.challenge = x]], UNCHANGED lines
      PROVE  Kept
  <2> DEFINE c == [cookie[b] EXCEPT !.challenge = x]
  <2>1. c \in Cookie /\ Same(c, cookie[b])
    BY <1>1 DEF Cookie, Same
  <2>2. cookie' = [cookie EXCEPT ![b] = c]
    BY <1>2
  <2> HIDE DEF c
  <2> QED
    BY <1>1, <1>2, <2>1, <2>2, Keeps
<1>3. CASE There(u) /\ NewLine /\ cookie' = [cookie EXCEPT ![b] = Session(u, lines')]
  <2>1. lines' \in Nat /\ u \in Users /\ account'[u].state = "there"
    BY <1>1, <1>3 DEF NewLine, TypesOK, There, Cookie
  <2>2. PICK v \in Users : v = u
    BY <2>1
  <2>3. PICK c \in Cookie : c = Session(v, lines') /\ c.user = v /\ c.line = lines' /\ c.version = account'[v].version
    BY <1>1, <2>1, Sessions
  <2>4. TypesOK' /\ LineStep
    BY <1>1, <1>3, <2>1, <2>2, <2>3, Begins
  <2> QED
    BY <1>1, <2>4 DEF Kept, AccountStep, EndsStep
<1> QED
  BY <1>2, <1>3 DEF WebauthnBegin, WebauthnComplete

LEMMA LeaveKept ==
    ASSUME IInv, NEW b \in Browsers, Rejected(b) \/ Logout(b)
    PROVE  Kept
BY SignedOutIsCookie, Keeps DEF Rejected, Logout

LEMMA ArriveKept ==
    ASSUME IInv, NEW b \in Browsers, Arrive(b)
    PROVE  Kept
<1> DEFINE r == [browser |-> b, cookie |-> cookie[b], by |-> cookie[b].user, caps |-> CapsOf(account[cookie[b].user].role)]
<1>1. /\ inFlight' = inFlight \cup {r} /\ cookie[b].user # NoUser /\ cookie[b] \in Cookie
      /\ UNCHANGED <<account, cookie, handoffs, ended, back, lines>> /\ TypesOK
  BY DEF IInv, TypesOK, Arrive, Valid, There
<1>2. r.browser = b /\ r.cookie = cookie[b] /\ r.by = cookie[b].user /\ r.by \in Users
  BY <1>1 DEF Cookie
<1> HIDE DEF r
<1>3. TypesOK'
  BY <1>1, <1>2 DEF TypesOK
<1>4. Held' \subseteq Held
  BY <1>1, <1>2 DEF Held
<1>5. LineStep
  BY <1>1, <1>4, HandoffLines DEF LineStep, Known, Same
<1> QED
  BY <1>1, <1>3, <1>5 DEF Kept, AccountStep, EndsStep

\* A hand-over that was there, spent or not.
LEMMA HandoffsLeft ==
    ASSUME IInv, NEW h \in handoffs
    PROVE  /\ [h EXCEPT !.usable = FALSE] \in Handoff /\ [h EXCEPT !.usable = FALSE].line <= lines
           /\ h.user \in Users /\ h.line \in Nat /\ h.line <= lines
BY HandoffLines DEF Handoff

LEMMA HandoffKept ==
    ASSUME IInv, HandoffExpires \/ \E b \in Browsers : HandoffEnter(b)
    PROVE  Kept
<1>1. TypesOK /\ handoffs \subseteq Handoff /\ \A h \in handoffs : h.line <= lines
  BY HandoffLines DEF IInv
<1>2. CASE HandoffExpires
  <2>1. PICK h \in handoffs :
            handoffs' = (handoffs \ {h}) \cup (IF h.usable THEN {[h EXCEPT !.usable = FALSE]} ELSE {})
    BY <1>2 DEF HandoffExpires
  <2>2. UNCHANGED <<account, cookie, inFlight, ended, back, lines>>
    BY <1>2 DEF HandoffExpires
  <2>3. handoffs' \subseteq Handoff /\ \A k \in handoffs' : k.line <= lines
    BY <1>1, <2>1, HandoffsLeft
  <2>4. TypesOK' /\ Held' = Held
    BY <1>1, <2>2, <2>3 DEF TypesOK, Held
  <2>5. LineStep
    BY <2>2, <2>3, <2>4 DEF LineStep, Known, Same
  <2> QED
    BY <2>2, <2>4, <2>5 DEF Kept, AccountStep, EndsStep
<1>3. ASSUME NEW b \in Browsers, HandoffEnter(b) PROVE Kept
  <2>1. PICK h \in handoffs :
            /\ Spend(h)
            /\ cookie' = [cookie EXCEPT ![b] = IF There(h.user) THEN Session(h.user, h.line) ELSE @]
            /\ back' = IF <<h.user, h.line>> \in ended THEN back \cup {<<h.user, h.line>>} ELSE back
    BY <1>3 DEF HandoffEnter
  <2>2. h.user \in Users /\ h.line \in Nat /\ h.line <= lines /\ cookie[b] \in Cookie
    BY <1>1, HandoffsLeft DEF TypesOK
  <2>3. UNCHANGED <<account, inFlight, ended, lines>> /\ account' \in [Users -> Account]
    BY <1>1, <1>3 DEF HandoffEnter, TypesOK
  <2>4. handoffs' \subseteq Handoff /\ \A k \in handoffs' : k.line <= lines
    BY <1>1, <2>1, HandoffsLeft DEF Spend
  <2> DEFINE c == IF There(h.user) THEN Session(h.user, h.line) ELSE cookie[b]
  <2>5. c \in Cookie /\ Known(c)
    <3>1. CASE There(h.user)
      <4> DEFINE d == Session(h.user, h.line)
      <4>1. d \in Cookie /\ d.user = h.user /\ d.line = h.line /\ d.version = account[h.user].version
        BY <1>1, <2>2, Sessions
      <4>2. <<h.user, h.line>> \notin ended' \ back'
        BY <2>1, <2>3
      <4>3. account'[h.user].state = "there" /\ account' = account
        BY <2>3, <3>1 DEF There
      <4> HIDE DEF d
      <4>4. Fresh(d)
        BY <2>2, <4>1, <4>2, <4>3 DEF Fresh
      <4> QED
        BY <3>1, <4>1, <4>4 DEF Known, d
    <3>2. CASE ~There(h.user)
      BY <2>2, <3>2 DEF Known, Held, Same
    <3> QED
      BY <3>1, <3>2
  <2>6. cookie' = [cookie EXCEPT ![b] = c]
    BY <2>1
  <2> HIDE DEF c
  <2>7. TypesOK' /\ LineStep
    BY <2>3, <2>4, <2>5, <2>6, OtherCookie
  <2>8. EndsStep
    BY <2>1, <2>3 DEF EndsStep
  <2> QED
    BY <2>3, <2>7, <2>8 DEF Kept, AccountStep
<1> QED
  BY <1>2, <1>3

LEMMA InviteKept ==
    ASSUME IInv, NEW b \in Browsers, InviteAccept(b)
    PROVE  Kept
<1> DEFINE n == [NobodyYet EXCEPT !.state = "there", !.role = "admin", !.version = 1]
           c == [SignedOut EXCEPT !.user = FirstAdmin, !.version = 1, !.line = lines']
<1>1. /\ TypesOK /\ NewLine /\ UNCHANGED <<inFlight, handoffs, ended, back>> /\ account[FirstAdmin].state = "none"
      /\ account' = [account EXCEPT ![FirstAdmin] = n] /\ cookie' = [cookie EXCEPT ![b] = c]
  BY DEF IInv, InviteAccept, FirstAccount
<1>2. n \in Account /\ KeyOK(n) /\ n.state = "there" /\ n.version = 1
  BY DEF NobodyYet, Account, KeyOK, Methods, NeedsPasskey
<1>3. n \in After(account[FirstAdmin])
  BY <1>1, <1>2 DEF After
<1>4. FirstAdmin \in Users /\ lines' \in Nat
  BY <1>1, Users0 DEF NewLine, TypesOK
<1>5. c \in Cookie /\ c.user = FirstAdmin /\ c.line = lines' /\ c.version = 1
  BY <1>4 DEF SignedOut, Cookie
<1> HIDE DEF n, c
<1>6. account' \in [Users -> Account] /\ account'[FirstAdmin] = n
  BY <1>1, <1>2, <1>4 DEF TypesOK
<1>7. TypesOK' /\ LineStep
  BY <1>1, <1>2, <1>4, <1>5, <1>6, Begins
<1> QED
  BY <1>1, <1>3, <1>4, <1>7 DEF Kept, AccountStep, EndsStep

LEMMA SetupKept ==
    ASSUME IInv, SetupPost
    PROVE  Kept
<1> DEFINE n == [NobodyYet EXCEPT !.state = "there", !.role = "admin", !.version = 1]
<1>1. /\ TypesOK /\ UNCHANGED <<cookie, inFlight, handoffs, ended, back, lines>>
      /\ account[FirstAdmin].state = "none" /\ account' = [account EXCEPT ![FirstAdmin] = n]
  BY DEF IInv, SetupPost, FirstAccount
<1>2. n \in Account /\ KeyOK(n) /\ n.state = "there"
  BY DEF NobodyYet, Account, KeyOK, Methods, NeedsPasskey
<1>3. n \in After(account[FirstAdmin])
  BY <1>1, <1>2 DEF After
<1> HIDE DEF n
<1>4. FirstAdmin \in Users /\ account' \in [Users -> Account]
  BY <1>1, <1>2, Users0 DEF TypesOK
<1>5. TypesOK' /\ Held' = Held
  BY <1>1, <1>4 DEF TypesOK, Held
<1>6. LineStep
  BY <1>1, <1>5, HandoffLines DEF LineStep, Known, Same
<1> QED
  BY <1>1, <1>3, <1>4, <1>5, <1>6 DEF Kept, AccountStep, EndsStep

-----------------------------------------------------------------------------
(* The handlers of a request that passed require_auth. *)

\* u's sessions end, and its version passes theirs.
LEMMA EndsOfUser ==
    ASSUME IInv, NEW u \in Users, NEW kept, SessionsEnd(u, kept),
           account'[u].state = "deleted" \/ account[u].version < account'[u].version
    PROVE  EndsStep
<1> DEFINE S == SessionsOf(u, kept)
<1>1. S \in SUBSET ({u} \X Nat) /\ \A e \in S : e[2] <= lines
  BY EndedNow
<1>2. ended' = ended \cup S /\ back \ S \subseteq back'
  BY DEF SessionsEnd
<1> HIDE DEF S
<1> QED
  BY <1>1, <1>2 DEF EndsStep

LEMMA HandlerKept ==
    ASSUME IInv, NEW r \in inFlight, AccountStep, EndsStep, NEW c \in Cookie, Known(c),
           Answer(r, c), UNCHANGED <<handoffs, lines>>
    PROVE  Kept
<1>1. /\ TypesOK /\ PasskeyNeverMissing /\ handoffs' = handoffs /\ lines' \in {lines, lines + 1}
      /\ r.browser \in Browsers /\ cookie' = [cookie EXCEPT ![r.browser] = c] /\ inFlight' \subseteq inFlight
  BY DEF IInv, TypesOK, Answer
<1>2. account' \in [Users -> Account]
  BY <1>1, AccountKept
<1>3. PICK b \in Browsers : b = r.browser
  BY <1>1
<1>4. TypesOK' /\ LineStep
  BY <1>1, <1>2, <1>3, HandoffLines, OtherCookie
<1> QED
  BY <1>4 DEF Kept

\* A request that leaves its cookie as it was.
LEMMA PlainKept ==
    ASSUME IInv, NEW r \in inFlight, AccountStep, EndsStep, Answer(r, r.cookie), UNCHANGED <<handoffs, lines>>
    PROVE  Kept
<1>1. r.cookie \in Cookie /\ Known(r.cookie)
  BY DEF IInv, TypesOK, Known, Held, Same
<1> QED
  BY <1>1, HandlerKept

\* Ending a user's sessions, with a change of the account that leaves it usable.
LEMMA EndKept ==
    ASSUME IInv, NEW u \in Users, There(u), NEW kept,
           NEW changed \in Account, changed.state = account[u].state, KeyOK(changed),
           EndSessions(u, kept, changed)
    PROVE  AccountStep /\ EndsStep /\ account'[u].version \in Nat /\ account'[u].state = "there"
<1> DEFINE n == [changed EXCEPT !.version = Bump(u)]
<1>1. account[u].version \in Nat /\ Bump(u) \in Nat /\ account[u].version < Bump(u) /\ account \in [Users -> Account]
  BY DEF IInv, TypesOK, Account, Bump
<1>2. n \in Account
  BY <1>1 DEF Account
<1>3. n.version = Bump(u)
  BY DEF Account
<1>4. n.state = changed.state /\ n.method = changed.method /\ n.keys = changed.keys
  BY DEF Account
<1>5. KeyOK(n)
  BY <1>4 DEF KeyOK
<1>6. n \in After(account[u])
  <2>1. account[u].version <= n.version
    BY <1>1, <1>3
  <2>2. n.state = account[u].state
    BY <1>4
  <2> HIDE DEF n
  <2> QED
    BY <1>2, <1>5, <2>1, <2>2 DEF After
<1>7. account' = [account EXCEPT ![u] = n] /\ SessionsEnd(u, kept)
  BY DEF EndSessions
<1>8. n.state = "there"
  BY <1>4 DEF There
<1> HIDE DEF n
<1>9. account'[u] = n
  BY <1>1, <1>7
<1>10. EndsStep
  BY <1>1, <1>3, <1>7, <1>9, EndsOfUser
<1> QED
  BY <1>1, <1>3, <1>6, <1>7, <1>8, <1>9, <1>10 DEF AccountStep

\* Of the account as it is.
LEMMA Usable ==
    ASSUME IInv, NEW u \in Users
    PROVE  account[u] \in Account /\ KeyOK(account[u])
<1>1. account[u] \in Account /\ u # NoUser
  BY Users0 DEF IInv, TypesOK
<1> QED
  BY <1>1 DEF IInv, PasskeyNeverMissing, There, KeyOK

\* The passkeys of an account change, and its method with them.
LEMMA KeysKept ==
    ASSUME IInv, NEW u \in Users, NEW keys \in SUBSET Passkeys, NEW m \in Methods,
           m \in NeedsPasskey => keys # {}
    PROVE  LET n == [account[u] EXCEPT !.keys = keys, !.method = m]
           IN  n \in Account /\ n.state = account[u].state /\ KeyOK(n) /\ n \in After(account[u])
<1> DEFINE n == [account[u] EXCEPT !.keys = keys, !.method = m]
<1>1. account[u] \in Account
  BY Usable
<1>2. n \in Account
  BY <1>1 DEF Account
<1>3. n.state = account[u].state /\ n.version = account[u].version
  BY <1>1 DEF Account
<1>4. n.keys = keys /\ n.method = m
  BY <1>1 DEF Account
<1>5. account[u].version \in Nat
  BY <1>1 DEF Account
<1>6. KeyOK(n)
  BY <1>4 DEF KeyOK
<1> HIDE DEF n
<1>7. n \in After(account[u])
  BY <1>2, <1>3, <1>5, <1>6 DEF After
<1> USE DEF n
<1> QED
  BY <1>2, <1>3, <1>6, <1>7

\* Only the passkeys change.
LEMMA OnlyKeysKept ==
    ASSUME IInv, NEW u \in Users, NEW keys \in SUBSET Passkeys,
           account[u].method \in NeedsPasskey => keys # {},
           account' = [account EXCEPT ![u].keys = keys]
    PROVE  AccountStep
<1>1. account[u] \in Account
  BY Usable
<1>2. [account[u] EXCEPT !.keys = keys] = [account[u] EXCEPT !.keys = keys, !.method = account[u].method]
  BY <1>1 DEF Account
<1>3. account[u].method \in Methods
  BY <1>1 DEF Account
<1>4. [account[u] EXCEPT !.keys = keys] \in After(account[u])
  BY ZenonT(60), <1>2, <1>3, KeysKept
<1> QED
  BY <1>4 DEF AccountStep

\* The session whose answer keeps it was not ended, or is back now.
LEMMA KeptOrBack ==
    ASSUME IInv, NEW r \in inFlight, SessionsEnd(r.by, {r.cookie})
    PROVE  <<r.by, r.cookie.line>> \notin ended' \ back' /\ r.cookie.line <= lines
<1> DEFINE pair == <<r.by, r.cookie.line>>
           S == SessionsOf(r.by, {r.cookie})
<1>1. r.cookie \in Held /\ r.cookie.user = r.by /\ r.by \in Users /\ r.cookie \in Cookie
  BY DEF IInv, TypesOK, Held
<1>2. /\ r.cookie.line <= lines
      /\ pair \in ended \ back => Behind(r.cookie, account[r.by])
  BY <1>1 DEF IInv, LinesOK, NotAhead
<1>3. pair \notin S
  BY DEF SessionsOf
<1>4. ended' = ended \cup S /\ back \ S \subseteq back' /\ (~Valid(r.cookie) => pair \in back')
  BY <1>1 DEF SessionsEnd
<1>5. Valid(r.cookie) => ~Behind(r.cookie, account[r.by])
  BY <1>1 DEF Valid, There, Behind, Cookie
<1> HIDE DEF pair, S
<1>6. pair \notin ended' \ back'
  BY <1>2, <1>3, <1>4, <1>5
<1> QED
  BY <1>2, <1>6 DEF pair

\* My account.
LEMMA OwnKept ==
    ASSUME IInv, NEW r \in inFlight,
           \/ ShowPage(r) \/ HandoffGo(r) \/ ChangePassword(r) \/ SignOutEverywhere(r)
           \/ \E k \in Passkeys : RegisterPasskey(r, k) \/ DeletePasskey(r, k)
           \/ \E m \in Methods : SetAuthMethod(r, m)
    PROVE  Kept
<1> DEFINE u == r.by
<1>1. /\ TypesOK /\ r.browser \in Browsers /\ r.cookie \in Cookie /\ u \in Users /\ r.cookie.user = u
      /\ r.cookie.line \in Nat /\ account[u] \in Account /\ KeyOK(account[u])
  BY Usable DEF IInv, TypesOK, Cookie
<1>2. CASE ShowPage(r)
  BY <1>2, PlainKept DEF ShowPage, AccountStep, EndsStep
<1>3. CASE HandoffGo(r)
  <2> DEFINE h == [user |-> r.by, line |-> r.cookie.line, usable |-> TRUE]
  <2>1. /\ handoffs' = handoffs \cup {h} /\ Answer(r, r.cookie)
        /\ UNCHANGED <<account, ended, back, lines>>
    BY <1>3 DEF HandoffGo, Issue
  <2>2. r.cookie.line <= lines /\ r.cookie \in Held
    BY <1>1 DEF IInv, LinesOK, NotAhead, Held
  <2>3. h \in Handoff /\ h.line <= lines
    BY <1>1, <2>2 DEF Handoff
  <2> HIDE DEF h
  <2>4. handoffs' \subseteq Handoff /\ \A k \in handoffs' : k.line <= lines
    BY <2>1, <2>3, HandoffLines
  <2>5. /\ account' \in [Users -> Account] /\ Known(r.cookie) /\ inFlight' \subseteq inFlight
        /\ cookie' = [cookie EXCEPT ![r.browser] = r.cookie]
    BY <1>1, <2>1, <2>2 DEF TypesOK, Answer, Known, Same
  <2>6. PICK b \in Browsers : b = r.browser
    BY <1>1
  <2>7. PICK c \in Cookie : c = r.cookie
    BY <1>1
  <2>8. TypesOK' /\ LineStep
    BY <2>1, <2>4, <2>5, <2>6, <2>7, OtherCookie
  <2> QED
    BY <2>1, <2>8 DEF Kept, AccountStep, EndsStep
<1>4. ASSUME There(u), NEW changed \in Account, changed.state = account[u].state, KeyOK(changed),
             UNCHANGED <<handoffs, lines>>,
             \/ /\ EndSessions(u, {r.cookie}, changed)
                /\ Answer(r, [r.cookie EXCEPT !.version = account'[r.by].version])
             \/ EndSessions(u, {}, changed) /\ Answer(r, SignedOut)
      PROVE  Kept
  <2>1. CASE /\ EndSessions(u, {r.cookie}, changed)
             /\ Answer(r, [r.cookie EXCEPT !.version = account'[r.by].version])
    <3>1. AccountStep /\ EndsStep /\ account'[u].version \in Nat /\ account'[u].state = "there"
      BY <1>1, <1>4, <2>1, EndKept
    <3> DEFINE c == [r.cookie EXCEPT !.version = account'[r.by].version]
    <3>2. c \in Cookie /\ c.user = u /\ c.line = r.cookie.line /\ c.version = account'[u].version
      BY <1>1, <3>1 DEF Cookie
    <3>3. <<u, r.cookie.line>> \notin ended' \ back' /\ r.cookie.line <= lines
      BY <1>1, <2>1, KeptOrBack DEF EndSessions
    <3> HIDE DEF c
    <3>4. Known(c)
      BY <3>1, <3>2, <3>3 DEF Known, Fresh
    <3> QED
      BY <1>4, <2>1, <3>1, <3>2, <3>4, HandlerKept DEF c
  <2>2. CASE EndSessions(u, {}, changed) /\ Answer(r, SignedOut)
    <3>1. AccountStep /\ EndsStep
      BY <1>1, <1>4, <2>2, EndKept
    <3>2. SignedOut \in Cookie /\ Known(SignedOut)
      BY SignedOutIsCookie DEF Known
    <3> QED
      BY <1>4, <2>2, <3>1, <3>2, HandlerKept
  <2> QED
    BY <1>4, <2>1, <2>2
<1>5. CASE ChangePassword(r)
  BY <1>1, <1>4, <1>5 DEF ChangePassword
<1>6. CASE SignOutEverywhere(r)
  BY <1>1, <1>4, <1>6 DEF SignOutEverywhere
<1>7. ASSUME NEW k \in Passkeys, RegisterPasskey(r, k) PROVE Kept
  <2>1. account' = IF There(u) THEN [account EXCEPT ![u].keys = account[u].keys \cup {k}] ELSE account
    BY <1>7 DEF RegisterPasskey
  <2>2. account[u].keys \cup {k} \in SUBSET Passkeys /\ account[u].keys \cup {k} # {}
    BY <1>1 DEF Account
  <2>3. AccountStep
    <3>1. CASE There(u)
      BY <1>1, <2>1, <2>2, <3>1, OnlyKeysKept
    <3> QED
      BY <2>1, <3>1 DEF AccountStep
  <2> QED
    BY <1>7, <2>3, PlainKept DEF RegisterPasskey, EndsStep
<1>8. ASSUME NEW k \in Passkeys, DeletePasskey(r, k) PROVE Kept
  <2>1. account' = [account EXCEPT ![u].keys = account[u].keys \ {k}]
    BY <1>8 DEF DeletePasskey
  <2>2. /\ account[u].keys \ {k} \in SUBSET Passkeys
        /\ account[u].method \in NeedsPasskey => account[u].keys \ {k} # {}
    BY <1>1, <1>8 DEF Account, DeletePasskey, NeedsPasskey
  <2>3. AccountStep
    BY <1>1, <2>1, <2>2, OnlyKeysKept
  <2> QED
    BY <1>8, <2>3, PlainKept DEF DeletePasskey, EndsStep
<1>9. ASSUME NEW m \in Methods, SetAuthMethod(r, m) PROVE Kept
  <2> DEFINE a == [account[u] EXCEPT !.method = m]
  <2>1. a \in Account /\ a.state = account[u].state /\ a.keys = account[u].keys /\ a.method = m
    BY <1>1 DEF Account
  <2>2. KeyOK(a)
    BY <1>9, <2>1 DEF SetAuthMethod, MayChoose, KeyOK
  <2> HIDE DEF a
  <2> QED
    BY <1>1, <1>4, <1>9, <2>1, <2>2 DEF SetAuthMethod, a
<1> QED
  BY <1>2, <1>3, <1>5, <1>6, <1>7, <1>8, <1>9

\* Another user's account, or the custom role.
LEMMA ManagedKept ==
    ASSUME IInv, NEW r \in inFlight,
           \/ \E u \in Users, role \in Roles : CreateUser(r, u, role) \/ SetRole(r, u, role)
           \/ \E u \in Users : \/ SignOutUser(r, u) \/ ResetPassword(r, u) \/ DeleteUser(r, u)
                               \/ RevokePasskey(r, u) \/ ResetPasskeys(r, u)
           \/ \E new \in DeskRoles : SetDeskRole(r, new)
    PROVE  Kept
<1>1. TypesOK /\ 0 \in Nat
  BY DEF IInv
<1>2. ASSUME NEW u \in Users, There(u), NEW changed \in Account, changed.state = account[u].state, KeyOK(changed),
             EndSessions(u, {}, changed), Answer(r, r.cookie), UNCHANGED <<handoffs, lines>>
      PROVE  Kept
  <2>1. AccountStep /\ EndsStep
    BY <1>1, <1>2, EndKept
  <2> QED
    BY <1>2, <2>1, PlainKept
<1>3. ASSUME NEW u \in Users, NEW role \in Roles, CreateUser(r, u, role) PROVE Kept
  <2> DEFINE n == [NobodyYet EXCEPT !.state = "there", !.role = role, !.version = 1]
  <2>1. n \in Account /\ KeyOK(n)
    BY DEF NobodyYet, Account, KeyOK, Methods, NeedsPasskey, Roles
  <2>2. account' = [account EXCEPT ![u] = n] /\ account[u].state = "none"
    BY <1>3 DEF CreateUser
  <2>3. n \in After(account[u])
    BY <2>1, <2>2 DEF After
  <2> HIDE DEF n
  <2>4. AccountStep
    BY <2>2, <2>3 DEF AccountStep
  <2> QED
    BY <1>3, <2>4, PlainKept DEF CreateUser, EndsStep
<1>4. ASSUME NEW u \in Users, NEW role \in Roles, SetRole(r, u, role) PROVE Kept
  <2> DEFINE a == [account[u] EXCEPT !.role = role]
  <2>1. account[u] \in Account /\ KeyOK(account[u]) /\ role \in {"admin", "viewer", "desk"}
    BY Usable DEF Roles
  <2>2. a \in Account /\ a.state = account[u].state /\ a.method = account[u].method /\ a.keys = account[u].keys
    BY <2>1 DEF Account
  <2>3. KeyOK(a)
    BY <2>1, <2>2 DEF KeyOK
  <2> HIDE DEF a
  <2>4. /\ There(u) /\ EndSessions(u, {}, a) /\ Answer(r, r.cookie) /\ UNCHANGED <<handoffs, lines>>
    BY <1>4 DEF SetRole, MayManage, ChangeRole, a
  <2> QED
    BY <1>2, <2>2, <2>3, <2>4
<1>5. ASSUME NEW u \in Users, SignOutUser(r, u) PROVE Kept
  <2>1. There(u) /\ EndSessions(u, {}, account[u]) /\ Answer(r, r.cookie) /\ UNCHANGED <<handoffs, lines>>
    BY <1>5 DEF SignOutUser, MayManage
  <2>2. account[u] \in Account /\ KeyOK(account[u])
    BY Usable
  <2> QED
    BY <1>2, <2>1, <2>2
<1>6. ASSUME NEW u \in Users, DeleteUser(r, u) PROVE Kept
  <2> DEFINE n == [NobodyYet EXCEPT !.state = "deleted"]
  <2>1. n \in Account /\ KeyOK(n) /\ n.state = "deleted"
    BY DEF NobodyYet, Account, KeyOK, Methods, NeedsPasskey
  <2>2. n \in After(account[u])
    BY <2>1 DEF After
  <2> HIDE DEF n
  <2>3. CASE UNCHANGED <<account, ended, back>>
    BY <1>6, <2>3, PlainKept DEF DeleteUser, AccountStep, EndsStep
  <2>4. CASE account' = [account EXCEPT ![u] = n] /\ SessionsEnd(u, {})
    <3>1. account'[u] = n
      BY <1>1, <2>4 DEF TypesOK
    <3>2. AccountStep /\ EndsStep
      BY <1>1, <2>1, <2>2, <2>4, <3>1, EndsOfUser DEF AccountStep
    <3> QED
      BY <1>6, <3>2, PlainKept DEF DeleteUser
  <2> QED
    BY <1>6, <2>3, <2>4 DEF DeleteUser, n
<1>7. ASSUME NEW u \in Users, NEW left \in SUBSET Passkeys, left \subseteq account[u].keys, LeaveKeys(r, u, left)
      PROVE  Kept
  <2> DEFINE m == IF left = {} THEN "password" ELSE account[u].method
             n == [account[u] EXCEPT !.keys = left, !.method = m]
  <2>1. m \in Methods /\ (m \in NeedsPasskey => left # {})
    BY Usable DEF Account, Methods, NeedsPasskey
  <2>2. n \in Account /\ n.state = account[u].state /\ KeyOK(n) /\ n \in After(account[u])
    BY <2>1, KeysKept
  <2>3. There(u) /\ Answer(r, r.cookie) /\ UNCHANGED <<handoffs, lines>>
    BY <1>7 DEF LeaveKeys, MayManage
  <2>4. n = WithKeys(u, left)
    BY DEF WithKeys
  <2>5. EndSessions(u, {}, n) \/ (account' = [account EXCEPT ![u] = n] /\ UNCHANGED <<ended, back>>)
    BY <1>7, <2>4 DEF LeaveKeys
  <2> HIDE DEF n
  <2>6. CASE account' = [account EXCEPT ![u] = n] /\ UNCHANGED <<ended, back>>
    BY <2>2, <2>3, <2>6, PlainKept DEF AccountStep, EndsStep
  <2> QED
    BY <1>2, <2>2, <2>3, <2>5, <2>6
<1>8. ASSUME NEW u \in Users, RevokePasskey(r, u) \/ ResetPasskeys(r, u) PROVE Kept
  <2>1. account[u].keys \in SUBSET Passkeys
    BY Usable DEF Account
  <2>2. PICK left : left \subseteq account[u].keys /\ LeaveKeys(r, u, left)
    BY <1>8 DEF RevokePasskey, ResetPasskeys
  <2> QED
    BY <1>7, <2>1, <2>2
<1>9. ASSUME NEW new \in DeskRoles, SetDeskRole(r, new) PROVE Kept
  BY <1>9, PlainKept DEF SetDeskRole, AccountStep, EndsStep
<1> QED
  BY <1>3, <1>4, <1>5, <1>6, <1>8, <1>9 DEF ResetPassword

-----------------------------------------------------------------------------
(* All of it. *)

LEMMA InitOK == AccountsInit => IInv
<1> SUFFICES ASSUME AccountsInit PROVE IInv
  OBVIOUS
<1>1. TypesOK
  BY SignedOutIsCookie DEF AccountsInit, TypesOK, Account, NobodyYet, Methods
<1>2. PasskeyNeverMissing
  BY DEF AccountsInit, PasskeyNeverMissing, There, NobodyYet
<1>3. (\A c \in Held : c.user = NoUser) /\ ended = {} /\ handoffs = {}
  BY SignedOutIsCookie DEF AccountsInit, Held
<1>4. LinesOK
  BY <1>3, Users0 DEF LinesOK
<1> QED
  BY <1>1, <1>2, <1>4 DEF IInv

LEMMA NextOK == IInv /\ [AccountsNext]_accountVars => IInv'
<1> SUFFICES ASSUME IInv, [AccountsNext]_accountVars PROVE IInv'
  OBVIOUS
<1>1. Kept
  <2>1. ASSUME UNCHANGED accountVars PROVE Kept
    <3>1. TypesOK' /\ Held' = Held
      BY <2>1 DEF IInv, TypesOK, Held, accountVars
    <3>2. LineStep
      BY <2>1, <3>1, HandoffLines DEF LineStep, Known, Same, accountVars
    <3> QED
      BY <2>1, <3>1, <3>2 DEF Kept, AccountStep, EndsStep, accountVars
  <2>2. ASSUME NEW r \in inFlight, Handle(r) PROVE Kept
    BY <2>2, OwnKept, ManagedKept DEF Handle
  <2>3. ASSUME NEW b \in Browsers, Arrive(b) \/ Rejected(b) \/ Logout(b) \/ InviteAccept(b) PROVE Kept
    BY <2>3, ArriveKept, LeaveKept, InviteKept
  <2>4. ASSUME NEW b \in Browsers, WebauthnBegin(b) \/ WebauthnComplete(b) \/ HandoffEnter(b) PROVE Kept
    BY <2>4, WebauthnKept, HandoffKept
  <2>5. CASE HandoffExpires
    BY <2>5, HandoffKept
  <2>6. ASSUME NEW b \in Browsers, NEW u \in Users, Login(b, u) PROVE Kept
    BY <2>6, LoginKept
  <2>7. CASE SetupPost
    BY <2>7, SetupKept
  <2> QED
    BY <2>1, <2>2, <2>3, <2>4, <2>5, <2>6, <2>7 DEF AccountsNext
<1>2. TypesOK /\ PasskeyNeverMissing
  BY DEF IInv
<1>3. PasskeyNeverMissing'
  BY <1>1, <1>2, AccountKept DEF Kept
<1>4. LinesOK'
  BY <1>1, LinesKept DEF Kept
<1> QED
  BY <1>1, <1>3, <1>4 DEF IInv, Kept

LEMMA AlwaysIInv == AccountsSpec => []IInv
BY InitOK, NextOK, PTL DEF AccountsSpec

\* An account that needs a passkey to sign in has one, through any number of
\* owners' and admins' requests at once (routes/users.py, routes/webauthn.py).
THEOREM PasskeyIsNeverMissing == AccountsSpec => []PasskeyNeverMissing
<1>1. IInv => PasskeyNeverMissing
  BY DEF IInv
<1> QED
  BY <1>1, AlwaysIInv, PTL

\* An ended session is not let in again in whichever browser, renewed cookie, late
\* answer or hand-over it lives on (require_auth, bump_session_version), unless a
\* change of its own method or password, admitted before, or a hand-over brings it back.
THEOREM EndedSessionsStayDead == AccountsSpec => []EndedSessionsDie
<1>1. IInv => EndedSessionsDie
  <2> SUFFICES ASSUME IInv, NEW c \in Held, Valid(c), <<c.user, c.line>> \in ended \ back
               PROVE  FALSE
    BY DEF EndedSessionsDie, Held
  <2>1. c \in Cookie /\ c.user \in Users /\ c.version = account[c.user].version /\ account[c.user].state = "there"
    BY Users0, HeldTypes DEF IInv, Valid, There, Cookie
  <2>2. Behind(c, account[c.user])
    BY <2>1 DEF IInv, LinesOK
  <2> QED
    BY <2>1, <2>2 DEF Behind, Cookie
<1> QED
  BY <1>1, AlwaysIInv, PTL

=============================================================================
