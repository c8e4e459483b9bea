-------------------------------- MODULE RiskRadar --------------------------------
(***************************************************************************)
(* The GL accuracy watchdog (Risk Radar) and the queue it files into.      *)
(*                                                                         *)
(* A scan compares the month's transactions with the client's history and  *)
(* replaces the open findings; members file a finding as an adjusting      *)
(* entry, acknowledge it, or dismiss it, which for a miscoding also        *)
(* teaches the client's memory that the vendor belongs on that account.    *)
(* What the detectors find is left open, but for the confirmed pairings.   *)
(***************************************************************************)
EXTENDS AdjustingEntries

CONSTANTS
  Findings,       (* finding keys of the month; each is an origin of entries *)
  Fixable,        (* those an entry can fix: reclass and accrual, not "flag" *)
  Miscoded,       (* those of kind misclassification                        *)
  PairOf          (* PairOf[f]: the vendor and the account of the finding   *)

ASSUME FindingsAssumption ==
  /\ Findings \subseteq Filers
  /\ Fixable \subseteq Findings
  /\ Miscoded \subseteq Findings

VARIABLES
  finding,        (* finding[f]: its status, "absent" without a row         *)
  exceptions      (* pairings confirmed as correct in the client's memory   *)

radarVars == <<finding, exceptions>>
vars == <<entry, booked, worked, closed, finding, exceptions>>

FindingStatuses == {"absent", "open", "in_adjustments", "dismissed", "acknowledged"}
Undecided == {f \in Findings : finding[f] \in {"absent", "open"}}
Confirmed(f) == f \in Miscoded /\ PairOf[f] \in exceptions

--------------------------------------------------------------------------------
(* Defect: the keys already acted on are not spared.                        *)
ScanAll ==
  /\ \E flagged \in SUBSET {f \in Findings : ~Confirmed(f)} :
       finding' = [f \in Findings |-> IF f \in flagged THEN "open" ELSE "absent"]
  /\ UNCHANGED exceptions
  /\ UNCHANGED entryVars

(* By hand, nightly, or after a sync, which does not look at the lock.      *)
Scan ==
  /\ \E flagged \in SUBSET {f \in Undecided : ~Confirmed(f)} :
       finding' = [f \in Findings |-> IF f \in flagged THEN "open"
                                      ELSE IF f \in Undecided THEN "absent"
                                      ELSE finding[f]]
  /\ UNCHANGED exceptions
  /\ UNCHANGED entryVars

(* One finding or a selection of them: a single request refuses a flag and  *)
(* a finding acted on, a batch skips them.                                  *)
AcceptFindings(S) ==
  LET F == {f \in S : finding[f] = "open" /\ f \in Fixable} IN
  /\ ~closed
  /\ F # {}
  /\ File(F)
  /\ finding' = [f \in Findings |-> IF f \in F THEN "in_adjustments" ELSE finding[f]]
  /\ UNCHANGED exceptions

DismissFinding(u, f) ==
  /\ ~closed
  /\ IsReviewer(u)
  /\ finding[f] = "open"
  /\ finding' = [finding EXCEPT ![f] = "dismissed"]
  /\ exceptions' = IF f \in Miscoded THEN exceptions \cup {PairOf[f]} ELSE exceptions
  /\ UNCHANGED entryVars

Acknowledge(f) ==
  /\ ~closed
  /\ finding[f] = "open"
  /\ finding' = [finding EXCEPT ![f] = "acknowledged"]
  /\ UNCHANGED exceptions
  /\ UNCHANGED entryVars

--------------------------------------------------------------------------------
Init ==
  /\ EntryInit
  /\ finding = [f \in Findings |-> "absent"]
  /\ exceptions = {}

(* The assistant and other producers file entries without a finding.        *)
QueueStep ==
  /\ EntryStep \/ \E o \in Filers \ Findings : File({o})
  /\ UNCHANGED radarVars

RadarStep ==
  \/ Scan
  \/ \E S \in SUBSET Findings : AcceptFindings(S)
  \/ \E f \in Findings : Acknowledge(f) \/ \E u \in Users : DismissFinding(u, f)

Next == QueueStep \/ RadarStep

Spec == Init /\ [][Next]_vars

--------------------------------------------------------------------------------
(* Properties.                                                              *)

(* Type correctness.                                                        *)
TypeOK ==
  /\ EntryTypeOK
  /\ finding \in [Findings -> FindingStatuses]
  /\ exceptions \subseteq {PairOf[f] : f \in Miscoded}

(* A finding becomes an entry once, however often the month is scanned      *)
(* again, and exactly the findings marked in_adjustments have theirs: no    *)
(* regeneration and no dismissal takes it out of the queue.                 *)
OneEntryPerFinding ==
  \A f \in Findings :
    /\ finding[f] = "in_adjustments" <=> \E e \in Rows : entry[e].origin = f
    /\ \A e, g \in Rows : entry[e].origin = f /\ entry[g].origin = f => e = g
================================================================================
