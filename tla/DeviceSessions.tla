--------------------------- MODULE DeviceSessions ---------------------------
(***************************************************************************)
(* The session log of one device, kept from what its RustDesk client        *)
(* reports (routes/client_api.py): heartbeats list the connections that are *)
(* up, audit posts say when one is opened, authorised, closed, and when a   *)
(* file is sent.  Every post may be lost, repeated for a couple of minutes  *)
(* or overtake another; the client may vanish.  The handlers hold the event *)
(* loop: atomic.  A tick is SESSION_STALE_S, two minutes.                   *)
(*                                                                          *)
(* Left out: who connected and from where, the check of the device's uuid,  *)
(* connection numbers used again by a client that was restarted.            *)
(***************************************************************************)
EXTENDS Integers, Sequences, FiniteSets

CONSTANTS
    Conns,      \* connections, by their conn_id
    Retry,      \* ticks for which the client repeats an audit post
    Stale,      \* SESSION_STALE_S
    Recent,     \* _AUDIT_RETRY_WINDOW_S
    MaxRows,    \* bound on rows of device_sessions
    MaxDeletes  \* bound on deletions of the device

\* _AUDIT_RETRY_WINDOW_S is the longer one: "the client retries an audit post for up to ~2 min".
ASSUME SessionsAssumption ==
    /\ IsFiniteSet(Conns)
    /\ Retry \in Nat /\ Recent \in Nat /\ Retry <= Recent
    /\ MaxRows \in Nat /\ MaxDeletes \in Nat

VARIABLES
    conn,       \* by connection: not yet, up or over
    posts,      \* audit posts the client still repeats: kind, connection, age
    beat,       \* the heartbeat on its way: the connections it lists
    rows,       \* device_sessions: connection, open or not, ticks since started_at and last_seen_at
    files,      \* device_file_transfers by connection
    deletes

sessionVars == <<conn, posts, beat, rows, files, deletes>>

None == "none"
Ages == 0 .. Recent + 1

SessionsInit ==
    /\ conn = [c \in Conns |-> "not_yet"]
    /\ posts = {}
    /\ beat = [sent |-> FALSE, conns |-> {}]
    /\ rows = <<>>
    /\ files = [c \in Conns |-> 0]
    /\ deletes = 0

SessionsTypeOK ==
    /\ conn \in [Conns -> {"not_yet", "up", "over"}]
    /\ posts \subseteq [kind : {"new", "peer", "file", "close"}, conn : Conns, age : 0 .. Retry]
    /\ beat \in [sent : BOOLEAN, conns : SUBSET Conns]
    /\ rows \in Seq([conn : Conns, open : BOOLEAN, started : Ages, seen : Ages]) /\ Len(rows) <= MaxRows
    /\ files \in [Conns -> Nat]
    /\ deletes \in 0 .. MaxDeletes

Rows == 1 .. Len(rows)

-----------------------------------------------------------------------------
(* The client, as the handlers rely on it. *)

Post(kind, c) == posts' = posts \cup {[kind |-> kind, conn |-> c, age |-> 0]}

Opens(c) ==
    /\ conn[c] = "not_yet"
    /\ conn' = [conn EXCEPT ![c] = "up"]
    /\ Post("new", c)
    /\ UNCHANGED <<beat, rows, files, deletes>>

Authorised(c) ==
    /\ conn[c] = "up"
    /\ Post("peer", c)
    /\ UNCHANGED <<conn, beat, rows, files, deletes>>

SendsFile(c) ==
    /\ conn[c] = "up" /\ files[c] = 0
    /\ Post("file", c)
    /\ UNCHANGED <<conn, beat, rows, files, deletes>>

Closes(c) ==
    /\ conn[c] = "up"
    /\ conn' = [conn EXCEPT ![c] = "over"]
    /\ Post("close", c)
    /\ UNCHANGED <<beat, rows, files, deletes>>

\* Switched off: nothing is reported any more.
Vanishes ==
    /\ \E c \in Conns : conn[c] = "up"
    /\ conn' = [c \in Conns |-> IF conn[c] = "up" THEN "over" ELSE conn[c]]
    /\ posts' = {}
    /\ UNCHANGED <<beat, rows, files, deletes>>

SendBeat ==
    /\ ~beat.sent
    /\ beat' = [sent |-> TRUE, conns |-> {c \in Conns : conn[c] = "up"}]
    /\ UNCHANGED <<conn, posts, rows, files, deletes>>

LoseBeat ==
    /\ beat.sent
    /\ beat' = [sent |-> FALSE, conns |-> {}]
    /\ UNCHANGED <<conn, posts, rows, files, deletes>>

-----------------------------------------------------------------------------
(* The handlers. *)

Row(c) == [conn |-> c, open |-> TRUE, started |-> 0, seen |-> 0]
OpenRows(c) == {i \in Rows : rows[i].conn = c /\ rows[i].open}
Newest(S) == CHOOSE i \in S : \A j \in S : j <= i

\* _reconcile_sessions, a row the device has: closed at last_seen_at, touched, or left as it was.
Reconciled(r, listed) ==
    CASE r.open /\ r.conn \notin listed -> [r EXCEPT !.open = FALSE]
      [] r.open /\ r.conn \in listed -> [r EXCEPT !.seen = 0]
      [] OTHER -> r

\* client_heartbeat: ... and a row for each connection that has none open, in any order.
Heartbeats ==
    /\ beat.sent
    /\ LET fresh == {c \in beat.conns : OpenRows(c) = {}}
           kept == [i \in Rows |-> Reconciled(rows[i], beat.conns)]
       IN  /\ Len(rows) + Cardinality(fresh) <= MaxRows
           /\ \E order \in [1 .. Cardinality(fresh) -> fresh] :
                /\ \A c \in fresh : \E i \in DOMAIN order : order[i] = c
                /\ rows' = kept \o [i \in DOMAIN order |-> Row(order[i])]
    /\ beat' = [sent |-> FALSE, conns |-> {}]
    /\ UNCHANGED <<conn, posts, files, deletes>>

\* Mutant: only an open row counts.
OpenOnly(r) == r.open

\* A report may be about this row: it is open, or started moments ago.
Reportable(r) == r.open \/ r.started <= Recent

\* _audit_session_id: the open row, else the newest that started moments ago, else none.
Found(c) ==
    LET about == {i \in Rows : rows[i].conn = c /\ Reportable(rows[i])}
    IN  IF about = {} THEN 0
        ELSE IF OpenRows(c) # {} THEN Newest(OpenRows(c)) ELSE Newest(about)

\* client_audit_conn, "new" and "peer": a row is made when none is found.
AuditOpen(c) ==
    IF Found(c) = 0
    THEN Len(rows) < MaxRows /\ rows' = Append(rows, Row(c))
    ELSE UNCHANGED rows

\* client_audit_conn, "close": an open row ends now.
AuditClose(c) ==
    rows' = IF Found(c) = 0 \/ OpenRows(c) = {} THEN rows
            ELSE [rows EXCEPT ![Found(c)].open = FALSE, ![Found(c)].seen = 0]

\* client_audit_file: a nonce that is known isn't stored again.
Stored(c) == IF files[c] = 0 THEN 1 ELSE files[c]

\* A post arrives; the client repeats it when the answer is lost.
Deliver(p) ==
    /\ p \in posts
    /\ CASE p.kind \in {"new", "peer"} -> AuditOpen(p.conn) /\ UNCHANGED files
         [] p.kind = "close" -> AuditClose(p.conn) /\ UNCHANGED files
         [] p.kind = "file" -> files' = [files EXCEPT ![p.conn] = Stored(p.conn)] /\ UNCHANGED rows
    /\ posts' \in {posts, posts \ {p}}
    /\ UNCHANGED <<conn, beat, deletes>>

\* Mutant: the comparison the wrong way round.
IsNew(r) == r.seen < Stale

\* sweep_stale_sessions: nothing confirmed the session for two minutes.
IsStale(r) == r.seen > Stale

Sweeps ==
    /\ \E i \in Rows : rows[i].open /\ IsStale(rows[i])
    /\ rows' = [i \in Rows |-> IF IsStale(rows[i]) THEN [rows[i] EXCEPT !.open = FALSE] ELSE rows[i]]
    /\ UNCHANGED <<conn, posts, beat, files, deletes>>

\* device_delete: the device's sessions and transfers go.
Deletes ==
    /\ deletes < MaxDeletes /\ deletes' = deletes + 1
    /\ rows' = <<>>
    /\ files' = [c \in Conns |-> 0]
    /\ UNCHANGED <<conn, posts, beat>>

\* Two minutes pass, the age of a row counted until it no longer matters; an older post is given up.
Older(n) == IF n > Recent THEN n ELSE n + 1
SessionsTick ==
    /\ posts' = {[p EXCEPT !.age = @ + 1] : p \in {q \in posts : q.age < Retry}}
    /\ rows' = [i \in Rows |-> [rows[i] EXCEPT !.started = Older(@), !.seen = Older(@)]]
    /\ UNCHANGED <<conn, beat, files, deletes>>

SessionsNext ==
    \/ \E c \in Conns : Opens(c) \/ Authorised(c) \/ SendsFile(c) \/ Closes(c)
    \/ Vanishes \/ SendBeat \/ LoseBeat \/ Heartbeats
    \/ \E p \in posts : Deliver(p)
    \/ Sweeps \/ Deletes \/ SessionsTick

\* Time passes and the watcher's thread makes its passes; the client owes nothing.
SessionsFairness == WF_sessionVars(SessionsTick) /\ WF_sessionVars(Sweeps)

SessionsSpec == SessionsInit /\ [][SessionsNext]_sessionVars /\ SessionsFairness

-----------------------------------------------------------------------------
(* Properties. *)

\* The report is about a session there is: any, for an opening, else one that began no longer before the report was
\* first sent than what the window has over the time of repeats.
Expected(p) == \E i \in Rows : /\ rows[i].conn = p.conn
                               /\ p.kind = "new" \/ rows[i].started <= p.age + (Recent - Retry)

\* Whatever closed it meanwhile and however late the report comes, the opening of a connection that has a session
\* makes no second one, and neither does a peer's report of a session that was young when it was first sent
\* (_audit_session_id, _AUDIT_RETRY_WINDOW_S).  And heartbeats, reports and their repeats never leave a connection
\* with two open sessions.
RepeatsCountOnce ==
    [][/\ \A p \in posts : Deliver(p) /\ Expected(p) => Len(rows') = Len(rows)
       /\ \A c \in Conns : Cardinality(OpenRows(c)') <= 1]_sessionVars

\* A session whose connection is over ends in the log, though its close was lost, came before its opening, or
\* the device never reports again (_reconcile_sessions, client_audit_conn, sweep_stale_sessions).
EverySessionEnds ==
    \A c \in Conns : (conn[c] = "over" /\ OpenRows(c) # {}) ~> OpenRows(c) = {}
=============================================================================
