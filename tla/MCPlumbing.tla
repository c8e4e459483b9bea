------------------------------- MODULE MCPlumbing -------------------------------
(***************************************************************************)
(* What every request passes through, checked side by side: the session    *)
(* tokens and replays of the browser, the audit chain, and the QuickBooks  *)
(* tokens.  They share no state; each behaviour is one of one of them, the *)
(* others at rest.                                                         *)
(***************************************************************************)
EXTENDS ApiClient, AuditChain, TokenRefresh

VARIABLE side

plumbingVars == <<side, apiVars, auditVars, vars>>

(* update_account_review_status writes the row and retires its conclusion   *)
(* before the event; check_posted audits the entries it found before it     *)
(* reopens the row they hit, and audits that too; run_allocation and most   *)
(* other handlers write one event at the end.                               *)
ProgramOf == [w \in Requests |->
  CASE w = "status" -> <<"review_row", Audit>>
    [] w = "posted" -> <<Audit, "review_row", Audit>>
    [] OTHER        -> <<Audit>>]

(* Two evidence pulls that share the session of a manual sync, and the      *)
(* autopilot: a background task with a session of its own, in the process   *)
(* that serves the requests.                                                *)
Shared == [c \in Callers |-> IF c = "autopilot" THEN "worker" ELSE "web"]
OneProcess == [s \in Sessions |-> "app"]

PlumbingInit ==
  /\ side \in {"requests", "chain", "tokens"}
  /\ ApiInit /\ AuditInit /\ Init
  /\ side # "requests" => company = CHOOSE n \in Companies : TRUE

PlumbingNext ==
  /\ UNCHANGED side
  /\ \/ side = "requests" /\ ApiNext /\ UNCHANGED <<auditVars, vars>>
     \/ side = "chain" /\ AuditNext /\ UNCHANGED <<apiVars, vars>>
     \/ side = "tokens" /\ Next /\ UNCHANGED <<apiVars, auditVars>>

(* On the other sides no request, transaction or call is under way, so that *)
(* their fairness asks for nothing.                                         *)
PlumbingSpec ==
  /\ PlumbingInit /\ [][PlumbingNext]_plumbingVars
  /\ ApiFairness /\ AuditFairness /\ TokenFairness
================================================================================
