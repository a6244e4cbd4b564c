----------------------------- MODULE DomainCheck -----------------------------
(***************************************************************************)
(* Is a custom domain pointed at its tenant (provisioning/rdf_helper.py,    *)
(* check_domain)?  The dashboard's worker and the root helper ask several   *)
(* resolvers, one query after the other, while the records change and reach *)
(* the resolvers at different times.  One action per query.                 *)
(*                                                                          *)
(* What one resolver answers is a view: whether it is down, the end of the  *)
(* CNAME chain, the addresses, the values of the TXT record, and what the   *)
(* CAA records of the domain and of its parent say.  Left out: how records  *)
(* are written, IPv6 and IPv4 addresses the server doesn't have, the words  *)
(* of the reasons.                                                          *)
(***************************************************************************)
EXTENDS Integers, Sequences

CONSTANTS
    Resolvers,  \* how many: DNS_CHECK_RESOLVERS
    Views,      \* what a resolver may answer
    MaxChanges  \* bound on changes of an answer

ASSUME CheckAssumption ==
    /\ Resolvers \in Nat \ {0}
    /\ \A v \in Views : v.down \in BOOLEAN /\ v.cname \in {"none", "target", "account", "elsewhere"}

VARIABLES
    zone,       \* by resolver, what it answers now
    check,      \* the check: the next query, its resolver, what was answered, results so far
    held,       \* by resolver, what has been true of its answers since the check began
    changes

checkVars == <<zone, check, held, changes>>

Asked == 1 .. Resolvers
Codes == {"ok", "lookup_failed", "other_account", "cname_elsewhere", "cdn", "no_record", "a_mismatch",
          "aaaa_mismatch", "txt_missing", "txt_wrong", "disagree", "caa"}
Parts == {"cname", "a", "aaaa", "txt", "caa"}
Result(code, method) == [code |-> code, method |-> method]
NoRecord == [cname |-> "none", found |-> {}]

\* The records of a view that point here, and that let us have a certificate.
PartsOf(v) ==
    IF v.down THEN {}
    ELSE {p \in Parts : CASE p = "cname" -> v.cname = "target"
                          [] p = "a" -> v.a = {"ours"}
                          [] p = "aaaa" -> v.aaaa \subseteq {"ours"}
                          [] p = "txt" -> "token" \in v.txt
                          [] p = "caa" -> v.caa = "allows" \/ (v.caa = "none" /\ v.parentCaa # "denies")}

CheckInit ==
    /\ zone \in [Asked -> Views]
    /\ check = [at |-> "A", on |-> 1, climb |-> FALSE, rec4 |-> NoRecord, results |-> <<>>,
                result |-> Result("no_record", "none")]
    /\ held = [r \in Asked |-> PartsOf(zone[r])]
    /\ changes = 0

WaysToPoint == {"cname", "txt", "none"}
CheckTypeOK ==
    /\ zone \in [Asked -> Views]
    /\ check.at \in {"A", "AAAA", "TXT", "CAA", "done"} /\ check.on \in Asked /\ check.climb \in BOOLEAN
    /\ check.results \in Seq([code : Codes, method : WaysToPoint]) /\ Len(check.results) <= Resolvers
    /\ check.result \in [code : Codes, method : WaysToPoint]
    /\ held \in [Asked -> SUBSET Parts]
    /\ changes \in 0 .. MaxChanges

-----------------------------------------------------------------------------

\* Mutant: one resolver that says so is enough.
AnyAgrees(results) == \E i \in DOMAIN results : results[i].code = "ok"

\* Every resolver says it points here.
AllAgree(results) == \A i \in DOMAIN results : results[i].code = "ok"

\* check_domain: one method for all, then the CAA records; else one reason, or that they disagree.
Combined(results) ==
    LET codes == {results[i].code : i \in DOMAIN results}
        methods == {results[i].method : i \in DOMAIN results} \ {"none"}
        good == CHOOSE m \in methods : TRUE
    IN  IF AllAgree(results)
        THEN IF \A m, n \in methods : m = n THEN Result("ok", good) ELSE Result("disagree", "none")
        ELSE IF \A c, d \in codes : c = d THEN results[1] ELSE Result("disagree", "none")

\* What one resolver's records gave: the next resolver, the CAA records, or the end.
Gives(r) ==
    LET results == Append(check.results, r)
        all == Combined(results)
    IN  check' = [check EXCEPT !.results = results, !.rec4 = NoRecord,
                    !.at = IF Len(results) < Resolvers THEN "A" ELSE IF all.code = "ok" THEN "CAA" ELSE "done",
                    !.on = IF Len(results) < Resolvers THEN @ + 1 ELSE 1,
                    !.result = IF Len(results) < Resolvers THEN @ ELSE all]

\* dig_query: no answer, or the chain's end with the addresses found there.
Looked(v) == IF v.down THEN [cname |-> "down", found |-> {}] ELSE [cname |-> v.cname, found |-> v.a]

\* The address lookup; a CNAME is part of the answer.
QueryA ==
    /\ check.at = "A"
    /\ check' = [check EXCEPT !.at = "AAAA", !.rec4 = Looked(zone[check.on])]
    /\ UNCHANGED <<zone, held, changes>>

\* A CNAME in either answer counts; the later one of two wins.
Chain(v) == IF v.cname # "none" THEN v.cname ELSE check.rec4.cname

\* What a chain that isn't ours is told.
ChainProblem(v) ==
    CASE Chain(v) = "account" -> "other_account"
      [] Chain(v) # "account" /\ "cdn" \in check.rec4.found \cup v.aaaa -> "cdn"
      [] OTHER -> "cname_elsewhere"

\* What addresses that aren't exactly ours are told, or "ok".
AddressProblem(v) ==
    LET a4 == check.rec4.found
    IN  CASE a4 \cup v.aaaa = {} -> "no_record"
          [] a4 \cup v.aaaa # {} /\ "cdn" \in a4 \cup v.aaaa -> "cdn"
          [] a4 \cup v.aaaa # {} /\ "cdn" \notin a4 \cup v.aaaa /\ a4 # {"ours"} -> "a_mismatch"
          [] a4 = {"ours"} /\ "cdn" \notin v.aaaa /\ ~(v.aaaa \subseteq {"ours"}) -> "aaaa_mismatch"
          [] OTHER -> "ok"

\* The IPv6 lookup, and _check_one's judgement of both.
QueryAAAA ==
    LET v == zone[check.on]
    IN  /\ check.at = "AAAA"
        /\ IF v.down \/ check.rec4.cname = "down" THEN Gives(Result("lookup_failed", "none"))
           ELSE IF Chain(v) = "target" THEN Gives(Result("ok", "cname"))
           ELSE IF Chain(v) # "none" THEN Gives(Result(ChainProblem(v), "none"))
           ELSE IF AddressProblem(v) # "ok" THEN Gives(Result(AddressProblem(v), "none"))
           ELSE check' = [check EXCEPT !.at = "TXT"]
        /\ UNCHANGED <<zone, held, changes>>

\* The verification record, needed with an address.
QueryTXT ==
    LET v == zone[check.on]
    IN  /\ check.at = "TXT"
        /\ Gives(IF v.down THEN Result("lookup_failed", "none")
                 ELSE IF v.txt = {} THEN Result("txt_missing", "none")
                 ELSE IF "token" \notin v.txt THEN Result("txt_wrong", "none")
                 ELSE Result("ok", "txt"))
        /\ UNCHANGED <<zone, held, changes>>

\* check_caa: the set that applies is the first found climbing from the domain.
QueryCAA ==
    LET v == zone[check.on]
        caa == IF check.climb THEN v.parentCaa ELSE v.caa
        passed == check' = [check EXCEPT !.climb = FALSE, !.at = IF check.on < Resolvers THEN "CAA" ELSE "done",
                                         !.on = IF check.on < Resolvers THEN @ + 1 ELSE 1]
    IN  /\ check.at = "CAA"
        /\ IF v.down THEN check' = [check EXCEPT !.at = "done", !.result = Result("lookup_failed", "none")]
           ELSE IF caa = "denies" THEN check' = [check EXCEPT !.at = "done", !.result = Result("caa", "none")]
           ELSE IF caa = "none" /\ ~check.climb THEN check' = [check EXCEPT !.climb = TRUE]
           ELSE passed
        /\ UNCHANGED <<zone, held, changes>>

\* Records change, or a change reaches a resolver.
Change(r, v) ==
    /\ changes < MaxChanges /\ check.at # "done" /\ zone[r] # v
    /\ changes' = changes + 1
    /\ zone' = [zone EXCEPT ![r] = v]
    /\ held' = [held EXCEPT ![r] = @ \cup PartsOf(v)]
    /\ UNCHANGED check

CheckNext ==
    \/ QueryA \/ QueryAAAA \/ QueryTXT \/ QueryCAA
    \/ \E r \in Asked, v \in Views : Change(r, v)

CheckSpec == CheckInit /\ [][CheckNext]_checkVars

-----------------------------------------------------------------------------
(* Properties. *)

Shown == {m \in {"cname", "txt"} :
            \A r \in Asked : (IF m = "cname" THEN {"cname"} ELSE {"a", "aaaa", "txt"}) \subseteq held[r]}

\* A domain is accepted only when every resolver has, during the check, shown every record one method needs, and
\* one and the same method; and while nothing changes, it is accepted exactly then, if no CAA record forbids it
\* (check_domain, _check_one, check_caa).
AcceptedIsPointed ==
    check.at = "done" =>
        /\ check.result.code = "ok" => check.result.method \in Shown
        /\ changes = 0 /\ check.result.code # "ok" =>
            \/ \E r \in Asked : "caa" \notin held[r]
            \/ \A m \in Shown : m = "txt" /\ \E r \in Asked : zone[r].cname # "none"
=============================================================================
