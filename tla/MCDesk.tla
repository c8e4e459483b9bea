--------------------------------- MODULE MCDesk ---------------------------------
(***************************************************************************)
(* Five components that share no state, and of which no liveness is stated *)
(* here, checked side by side: the review, the tasks, the checklist and    *)
(* the document requests of a close, and the QuickBooks tokens on two      *)
(* machines.  Each behaviour is one of one component, the others at rest.  *)
(***************************************************************************)
EXTENDS CloseReview, Tasks, CloseChecklist, PbcRequests, TokenRefresh, TLC

VARIABLE side

deskVars == <<side, reviewVars, taskVars, listVars, pbcVars, vars>>

(* January 2024 as the code counts months, its last day, which the leap day *)
(* follows in the next month, and a due date after both.                    *)
Jan2024 == 2024 * 12
SomePeriods == {Date(Jan2024, 31)}
SomeDues == {Date(Jan2024 + 2, 31)}

(* The review waits for the reconciliation.                                 *)
SomeDeps == [recon |-> None, review |-> "recon"]

(* Two Fly machines.  On the first, two evidence pulls share the session of *)
(* a manual sync and the autopilot has a session of its own; on the second, *)
(* another request needs a token.                                           *)
Session == [c \in Callers |->
  CASE c = "autopilot" -> "worker"
    [] c = "other"     -> "web2"
    [] OTHER           -> "web"]

Machine == [s \in Sessions |-> IF s = "web2" THEN "second" ELSE "first"]

(* Bounds of the checklist: no two edits overlap, since NoCycle and         *)
(* NeverStuck claim nothing afterwards, and no two ticks.  Of what this     *)
(* leaves out PageAgreesWithGate is proved only.                            *)
OneEditsOneTicks == ~crossed /\ \E m \in Members : tick[m] = NoTick

DeskInit ==
  /\ side \in {"review", "tasks", "checklist", "pbc", "tokens"}
  /\ ReviewInit /\ TaskInit /\ ListInit /\ PbcInit /\ Init

DeskNext ==
  /\ UNCHANGED side
  /\ \/ side = "review" /\ ReviewNext
        /\ UNCHANGED <<taskVars, listVars, pbcVars, vars>>
     \/ side = "tasks" /\ TaskNext
        /\ UNCHANGED <<reviewVars, listVars, pbcVars, vars>>
     \/ side = "checklist" /\ ListNext /\ OneEditsOneTicks'
        /\ UNCHANGED <<reviewVars, taskVars, pbcVars, vars>>
     \/ side = "pbc" /\ PbcNext
        /\ UNCHANGED <<reviewVars, taskVars, listVars, vars>>
     \/ side = "tokens" /\ Next
        /\ UNCHANGED <<reviewVars, taskVars, listVars, pbcVars>>

DeskSpec == DeskInit /\ [][DeskNext]_deskVars

(* The types of the four desks; those of the tokens are proved only.        *)
DeskTypeOK == ReviewTypeOK /\ TaskTypeOK /\ ListTypeOK /\ PbcTypeOK

(* Ids, Clerks, Members and Handlers are one pair of interchangeable        *)
(* values, which each component uses once.                                  *)
DeskSymmetry == Permutations(Ids)
================================================================================
