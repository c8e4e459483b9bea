----------------------------- MODULE RiskRadar_proofs -----------------------------
(***************************************************************************)
(* Theorems about the queue of adjusting entries and the findings filed    *)
(* into it, for any rows, members, roles, producers and findings.          *)
(***************************************************************************)
EXTENDS RiskRadar, TLAPS

--------------------------------------------------------------------------------
(* What a step may do to one row.                                           *)

Kept(e) == entry'[e] = entry[e]

(* A producer replaces an open draft or fills a free row.                   *)
Redrafted(e) ==
  /\ entry[e].status \in {"none", "open"}
  /\ \/ entry'[e] = NoEntry
     \/ \E o \in Origins, d \in Drafts : entry'[e] = Draft(o, d)

Accepted(e) ==
  \E u \in Users :
    /\ Exists(e) /\ IsReviewer(u) /\ ~BlocksSelfApproval(entry[e].prep, u)
    /\ entry'[e] = [entry[e] EXCEPT !.status = "accepted", !.appr = u]

Dismissed(e) ==
  /\ Exists(e)
  /\ ~entry[e].saved
  /\ entry'[e] = [entry[e] EXCEPT !.status = "dismissed"]

Posted(e) ==
  /\ Exists(e) \/ entry[e].saved
  /\ entry'[e] = [entry[e] EXCEPT !.status = "posted"]

Reopened(e) ==
  /\ entry[e].status = "accepted"
  /\ entry'[e] = [entry[e] EXCEPT !.status = "open", !.appr = None, !.saved = FALSE]

Edited(e) ==
  /\ entry[e].status = "open"
  /\ \E u \in Users, d \in Drafts : entry'[e] = [entry[e] EXCEPT !.lines = d, !.prep = u]

SavedNow(e) ==
  /\ entry[e].status \in {"accepted", "posted"}
  /\ entry'[e] = [entry[e] EXCEPT !.saved = TRUE]

Decided(e) ==
  Accepted(e) \/ Dismissed(e) \/ Posted(e) \/ Reopened(e) \/ Edited(e) \/ SavedNow(e)

WorkedOn(e) == Kept(e) \/ (~closed /\ Decided(e))
RowOutcome(e) == Redrafted(e) \/ WorkedOn(e)

LEMMA RegenerateOutcome ==
  ASSUME NEW o \in Producers, Regenerate(o), NEW e \in Rows
  PROVE  RowOutcome(e)
BY DEF Regenerate, RowOutcome, WorkedOn, Kept, Redrafted, Replaceable, Exists, Origins

LEMMA FileOutcome ==
  ASSUME NEW F \in SUBSET Filers, File(F), NEW e \in Rows
  PROVE  RowOutcome(e)
<1>1. PICK at \in [F -> Rows], lines \in [F -> Drafts] : FileAt(F, at, lines)
  BY DEF File
<1>2. CASE \E o \in F : at[o] = e
  <2>1. PICK o \in F : o = CHOOSE q \in F : at[q] = e
    BY <1>2
  <2>2. at[o] = e /\ o \in Origins
    BY <1>2, <2>1 DEF Origins
  <2>3. entry'[e] = Draft(o, lines[o]) /\ entry[e].status = "none"
    BY <1>1, <1>2, <2>1, <2>2 DEF FileAt, Exists
  <2> QED BY <2>2, <2>3 DEF RowOutcome, Redrafted
<1>3. CASE ~\E o \in F : at[o] = e
  BY <1>1, <1>3 DEF FileAt, RowOutcome, WorkedOn, Kept
<1> QED BY <1>2, <1>3

LEMMA MemberOutcome ==
  ASSUME EntryTypeOK, NEW u \in Users, MemberStep(u), NEW e \in Rows
  PROVE  WorkedOn(e)
<1>1. CASE SaveBatch(u)
  <2>1. e \in Active => entry[e].status \in {"accepted", "posted"}
    BY <1>1 DEF EntryTypeOK, Entry, Statuses, SaveBatch, Active
  <2> QED BY <1>1, <2>1 DEF SaveBatch, WorkedOn, Kept, Decided, SavedNow
<1>2. ASSUME NEW f \in Rows, Accept(u, f)
      PROVE  WorkedOn(e)
  <2>1. CASE e = f
    BY <1>2, <2>1 DEF EntryTypeOK, Accept, WorkedOn, Decided, Accepted
  <2>2. CASE e # f
    BY <1>2, <2>2 DEF EntryTypeOK, Accept, WorkedOn, Kept
  <2> QED BY <2>1, <2>2
<1>3. ASSUME NEW f \in Rows, Dismiss(u, f)
      PROVE  WorkedOn(e)
  <2>1. CASE e = f
    BY <1>3, <2>1 DEF EntryTypeOK, Dismiss, WorkedOn, Decided, Dismissed
  <2>2. CASE e # f
    BY <1>3, <2>2 DEF EntryTypeOK, Dismiss, WorkedOn, Kept
  <2> QED BY <2>1, <2>2
<1>4. ASSUME NEW f \in Rows, MarkPosted(u, f)
      PROVE  WorkedOn(e)
  <2>1. CASE e = f
    BY <1>4, <2>1 DEF EntryTypeOK, MarkPosted, WorkedOn, Decided, Posted
  <2>2. CASE e # f
    BY <1>4, <2>2 DEF EntryTypeOK, MarkPosted, WorkedOn, Kept
  <2> QED BY <2>1, <2>2
<1>5. ASSUME NEW f \in Rows, Reopen(u, f)
      PROVE  WorkedOn(e)
  <2>1. CASE e = f
    BY <1>5, <2>1 DEF EntryTypeOK, Reopen, WorkedOn, Decided, Reopened
  <2>2. CASE e # f
    BY <1>5, <2>2 DEF EntryTypeOK, Reopen, WorkedOn, Kept
  <2> QED BY <2>1, <2>2
<1>6. ASSUME NEW f \in Rows, NEW d \in Drafts, Edit(u, f, d)
      PROVE  WorkedOn(e)
  <2>1. CASE e = f
    BY <1>6, <2>1 DEF EntryTypeOK, Edit, WorkedOn, Decided, Edited
  <2>2. CASE e # f
    BY <1>6, <2>2 DEF EntryTypeOK, Edit, WorkedOn, Kept
  <2> QED BY <2>1, <2>2
<1> QED BY <1>1, <1>2, <1>3, <1>4, <1>5, <1>6 DEF MemberStep

LEMMA CheckOutcome ==
  ASSUME CheckPosted, NEW e \in Rows
  PROVE  WorkedOn(e)
BY DEF CheckPosted, Detected, Saved, WorkedOn, Kept, Decided, Posted

(* Every step of the queue does one of these to every row.                  *)
LEMMA Outcomes ==
  ASSUME EntryTypeOK, [EntryNext]_entryVars, NEW e \in Rows
  PROVE  RowOutcome(e)
<1>1. CASE UNCHANGED entry
  BY <1>1 DEF RowOutcome, WorkedOn, Kept
<1>2. ASSUME NEW d \in Drafts, Book(d) \/ Unbook(d)
      PROVE  RowOutcome(e)
  BY <1>1, <1>2 DEF Book, Unbook
<1>3. ASSUME NEW a \in Accounts, Work(a)
      PROVE  RowOutcome(e)
  BY <1>1, <1>3 DEF Work
<1>4. CASE Lock \/ Unlock
  BY <1>1, <1>4 DEF Lock, Unlock
<1> QED
  BY <1>1, <1>2, <1>3, <1>4, RegenerateOutcome, FileOutcome, MemberOutcome, CheckOutcome
     DEF RowOutcome, EntryNext, EntryStep, entryVars

(* Risk Radar works on the queue through steps of the queue.                *)
LEMMA QueueSteps == ASSUME [Next]_vars PROVE [EntryNext]_entryVars
<1>1. CASE QueueStep
  BY <1>1, FindingsAssumption DEF QueueStep, EntryNext
<1>2. CASE \E S \in SUBSET Findings : AcceptFindings(S)
  <2>1. PICK S \in SUBSET Findings : AcceptFindings(S)
    BY <1>2
  <2> DEFINE F == {f \in S : finding[f] = "open" /\ f \in Fixable}
  <2>2. File(F) /\ F \in SUBSET Filers
    BY <2>1, FindingsAssumption DEF AcceptFindings
  <2> QED BY <2>2 DEF EntryNext
<1>3. CASE UNCHANGED entryVars
  BY <1>3
<1>4. Scan \/ (\E f \in Findings : Acknowledge(f) \/ \E u \in Users : DismissFinding(u, f))
        => UNCHANGED entryVars
  BY DEF Scan, Acknowledge, DismissFinding
<1>5. UNCHANGED vars => UNCHANGED entryVars
  BY DEF vars, entryVars
<1> QED BY <1>1, <1>2, <1>3, <1>4, <1>5 DEF Next, RadarStep

--------------------------------------------------------------------------------
(* The inductive invariant of a row: an open entry carries no approval, so  *)
(* that its next maker is not its approver; a saved one is reviewed, so     *)
(* that neither an edit nor a producer touches it.                          *)
Separate(r) ==
  r.appr # None => IsReviewer(r.appr) /\ (r.appr = r.prep => IsAdmin(r.appr))

RowOK(r) ==
  /\ r \in Entry
  /\ r.status \in {"none", "open"} => r.appr = None
  /\ r.status = "none" => r.origin = None
  /\ r.saved => r.status \in {"accepted", "posted"}
  /\ Separate(r)

RestOK == booked \subseteq Drafts /\ worked \subseteq Accounts /\ closed \in BOOLEAN

QueueInv == entry \in [Rows -> Entry] /\ RestOK /\ \A e \in Rows : RowOK(entry[e])

LEMMA DraftOK ==
  ASSUME NEW o \in Origins, NEW d \in Drafts
  PROVE  RowOK(NoEntry) /\ RowOK(Draft(o, d))
BY DEF RowOK, Separate, NoEntry, Draft, Entry, Statuses

LEMMA RowStepOK ==
  ASSUME NEW e \in Rows, RowOK(entry[e]), RowOutcome(e)
  PROVE  RowOK(entry'[e])
<1>1. CASE Kept(e)
  BY <1>1 DEF Kept
<1>2. CASE Redrafted(e)
  <2>1. CASE entry'[e] = NoEntry
    BY <2>1 DEF RowOK, Separate, NoEntry, Entry, Statuses
  <2>2. CASE \E o \in Origins, d \in Drafts : entry'[e] = Draft(o, d)
    BY <2>2, DraftOK
  <2> QED BY <1>2, <2>1, <2>2 DEF Redrafted
<1>3. CASE Accepted(e)
  BY <1>3, EntriesAssumption
     DEF Accepted, Exists, BlocksSelfApproval, RowOK, Separate, Entry, Statuses
<1>4. CASE Dismissed(e)
  BY <1>4 DEF Dismissed, Exists, RowOK, Separate, Entry, Statuses
<1>5. CASE Posted(e)
  BY <1>5 DEF Posted, Exists, RowOK, Separate, Entry, Statuses
<1>6. CASE Reopened(e)
  BY <1>6 DEF Reopened, RowOK, Separate, Entry, Statuses
<1>7. CASE Edited(e)
  BY <1>7 DEF Edited, RowOK, Separate, Entry, Statuses
<1>8. CASE SavedNow(e)
  BY <1>8 DEF SavedNow, RowOK, Separate, Entry, Statuses
<1> QED BY <1>1, <1>2, <1>3, <1>4, <1>5, <1>6, <1>7, <1>8 DEF RowOutcome, WorkedOn, Decided

(* Every action writes entry as a function on the rows.                     *)
LEMMA RowsDomain ==
  ASSUME entry \in [Rows -> Entry], [EntryNext]_entryVars
  PROVE  entry' = [e \in Rows |-> entry'[e]]
<1>1. ASSUME NEW u \in Users, MemberStep(u)
      PROVE  entry' = [e \in Rows |-> entry'[e]]
  BY <1>1 DEF MemberStep, SaveBatch, Accept, Dismiss, MarkPosted, Reopen, Edit
<1>2. ASSUME NEW F \in SUBSET Filers, File(F)
      PROVE  entry' = [e \in Rows |-> entry'[e]]
  BY <1>2 DEF File, FileAt
<1>3. ASSUME NEW o \in Producers, Regenerate(o)
      PROVE  entry' = [e \in Rows |-> entry'[e]]
  BY <1>3 DEF Regenerate
<1>4. CASE CheckPosted
  BY <1>4 DEF CheckPosted
<1>5. CASE UNCHANGED entry
  BY <1>5
<1> QED
  BY <1>1, <1>2, <1>3, <1>4, <1>5
     DEF EntryNext, EntryStep, entryVars, Book, Unbook, Work, Lock, Unlock

LEMMA RestStepOK ==
  ASSUME RestOK, [EntryNext]_entryVars
  PROVE  RestOK'
<1>1. ASSUME NEW u \in Users, MemberStep(u)
      PROVE  RestOK'
  BY <1>1 DEF RestOK, MemberStep, SaveBatch, Accept, Dismiss, MarkPosted, Reopen, Edit
<1>2. CASE (\E F \in SUBSET Filers : File(F)) \/ \E o \in Producers : Regenerate(o)
  BY <1>2 DEF RestOK, File, FileAt, Regenerate
<1>3. ASSUME NEW d \in Drafts, Book(d) \/ Unbook(d)
      PROVE  RestOK'
  BY <1>3 DEF RestOK, Book, Unbook
<1>4. CASE CheckPosted
  BY <1>4 DEF RestOK, CheckPosted
<1>5. ASSUME NEW a \in Accounts, Work(a)
      PROVE  RestOK'
  BY <1>5 DEF RestOK, Work
<1>6. CASE Lock \/ Unlock
  BY <1>6 DEF RestOK, Lock, Unlock
<1>7. CASE UNCHANGED entryVars
  BY <1>7 DEF RestOK, entryVars
<1> QED BY <1>1, <1>2, <1>3, <1>4, <1>5, <1>6, <1>7 DEF EntryNext, EntryStep

LEMMA QueueInvType == ASSUME QueueInv PROVE EntryTypeOK
BY DEF QueueInv, RestOK, EntryTypeOK

LEMMA QueueInvStep == ASSUME QueueInv, [EntryNext]_entryVars PROVE QueueInv'
<1>1. \A e \in Rows : RowOK(entry'[e])
  BY Outcomes, RowStepOK, QueueInvType DEF QueueInv
<1>2. entry' \in [Rows -> Entry]
  BY <1>1, RowsDomain DEF QueueInv, RowOK
<1>3. RestOK'
  BY RestStepOK DEF QueueInv
<1>4. \A e \in Rows : RowOK(entry[e])'
  BY <1>1 DEF RowOK, Separate
<1> QED BY <1>2, <1>3, <1>4 DEF QueueInv

LEMMA QueueInvariant == Spec => []QueueInv
<1>1. ASSUME Init PROVE QueueInv
  <2>1. entry \in [Rows -> Entry] /\ \A e \in Rows : RowOK(entry[e])
    BY <1>1 DEF Init, EntryInit, RowOK, Separate, NoEntry, Entry, Statuses
  <2>2. closed \in BOOLEAN
    BY <1>1, Zenon DEF Init, EntryInit
  <2>3. booked \subseteq Drafts /\ worked \subseteq Accounts
    BY <1>1 DEF Init, EntryInit
  <2> QED BY <2>1, <2>2, <2>3, Zenon DEF QueueInv, RestOK
<1>2. QueueInv /\ [Next]_vars => QueueInv'
  BY QueueSteps, QueueInvStep
<1> QED BY <1>1, <1>2, PTL DEF Spec

(* Over any sequence of requests the approver an entry names is a reviewer, *)
(* and its maker only if an admin (edit_proposal, _transition).             *)
THEOREM MakersDoNotApprove == Spec => []MakerIsNotApprover
<1>1. QueueInv => MakerIsNotApprover
  BY DEF QueueInv, RowOK, Separate, MakerIsNotApprover
<1> QED BY <1>1, QueueInvariant, PTL

(* A saved entry is reviewed and keeps its lines and its maker until a      *)
(* reviewer takes it out of the batch (save_batch, reopen_proposal).        *)
THEOREM SavedBatchIsLocked == Spec => SavedStaysLocked
<1> DEFINE Locked == \A e \in Rows : entry[e].saved =>
       /\ entry[e].status \in {"accepted", "posted"}
       /\ entry'[e].lines = entry[e].lines /\ entry'[e].prep = entry[e].prep
       /\ ~entry'[e].saved => entry[e].status = "accepted" /\ entry'[e].status = "open"
<1>1. ASSUME QueueInv, [Next]_vars, NEW e \in Rows, entry[e].saved
      PROVE  /\ entry[e].status \in {"accepted", "posted"}
             /\ entry'[e].lines = entry[e].lines /\ entry'[e].prep = entry[e].prep
             /\ ~entry'[e].saved => entry[e].status = "accepted" /\ entry'[e].status = "open"
  <2>1. RowOutcome(e) /\ RowOK(entry[e])
    BY <1>1, QueueSteps, Outcomes, QueueInvType DEF QueueInv
  <2>2. entry[e].status \in {"accepted", "posted"} /\ entry[e] \in Entry
    BY <1>1, <2>1 DEF RowOK
  <2> QED
    BY <1>1, <2>1, <2>2
       DEF RowOutcome, WorkedOn, Kept, Redrafted, Decided, Accepted, Dismissed, Posted, Reopened,
           Edited, SavedNow, Entry
<1>2. QueueInv /\ [Next]_vars => [Locked]_entryVars
  BY <1>1
<1> QED BY <1>2, QueueInvariant, PTL DEF Spec, SavedStaysLocked

(* Nothing decided moves while the month is locked (_is_closed).            *)
THEOREM DecisionsOutlastTheClose == Spec => ClosedDecisionsStay
<1>1. ASSUME QueueInv, [Next]_vars, closed, NEW e \in Rows,
             entry[e].status \notin {"none", "open"}
      PROVE  entry'[e] = entry[e]
  BY <1>1, QueueSteps, Outcomes, QueueInvType DEF RowOutcome, WorkedOn, Kept, Redrafted
<1>2. QueueInv /\ [Next]_vars =>
        [closed /\ closed' =>
           \A e \in Rows : entry[e].status \notin {"none", "open"} => entry'[e] = entry[e]]_entryVars
  BY <1>1
<1> QED BY <1>2, QueueInvariant, PTL DEF Spec, ClosedDecisionsStay

--------------------------------------------------------------------------------
(* Findings and the rows filed for them.                                    *)

(* Apart from filing, no step of the queue gives a row an origin that files *)
(* or takes one away.                                                       *)
OriginStays(e) ==
  \/ entry'[e].origin = entry[e].origin
  \/ entry'[e].origin \notin Filers /\ entry[e].origin \notin Filers

LEMMA WorkKeepsOrigin ==
  ASSUME NEW e \in Rows, entry[e] \in Entry, WorkedOn(e)
  PROVE  OriginStays(e)
BY DEF WorkedOn, Kept, Decided, Accepted, Dismissed, Posted, Reopened, Edited, SavedNow,
       OriginStays, Entry

LEMMA EntryStepOrigins ==
  ASSUME QueueInv, EntryStep, NEW e \in Rows
  PROVE  OriginStays(e)
<1> USE QueueInvType DEF QueueInv
<1>1. ASSUME NEW o \in Producers, Regenerate(o)
      PROVE  OriginStays(e)
  <2>1. None \notin Filers /\ o \notin Filers
    BY EntriesAssumption
  <2>2. CASE e \notin Replaceable(o)
    BY <1>1, <2>2 DEF Regenerate, OriginStays
  <2>3. CASE e \in Replaceable(o)
    <3>1. entry[e].origin \notin Filers
      BY <2>1, <2>3 DEF Replaceable, Exists, RowOK
    <3>2. entry'[e] = NoEntry \/ \E d \in Drafts : entry'[e] = Draft(o, d)
      BY <1>1, <2>3 DEF Regenerate
    <3>3. entry'[e].origin \notin Filers
      <4>1. NoEntry.origin = None /\ \A d \in Drafts : Draft(o, d).origin = o
        BY DEF NoEntry, Draft
      <4> QED BY <2>1, <3>2, <4>1
    <3> QED BY <3>1, <3>3 DEF OriginStays
  <2> QED BY <2>2, <2>3
<1>2. ASSUME NEW u \in Users, MemberStep(u)
      PROVE  OriginStays(e)
  BY <1>2, MemberOutcome, WorkKeepsOrigin
<1>3. CASE CheckPosted
  BY <1>3, CheckOutcome, WorkKeepsOrigin
<1>4. CASE UNCHANGED entry
  BY <1>4 DEF OriginStays
<1> QED
  BY <1>1, <1>2, <1>3, <1>4 DEF EntryStep, Book, Unbook, Work, Lock, Unlock

(* Filing gives each origin of F one row that was free.                     *)
LEMMA FiledRows ==
  ASSUME QueueInv, NEW F \in SUBSET Filers, File(F)
  PROVE  \E at \in [F -> Rows] :
           /\ \A o \in F : entry[at[o]].status = "none" /\ entry'[at[o]].origin = o
           /\ \A e \in Rows : (\A o \in F : at[o] # e) => entry'[e] = entry[e]
<1>1. PICK at \in [F -> Rows], lines \in [F -> Drafts] : FileAt(F, at, lines)
  BY DEF File
<1>2. ASSUME NEW o \in F
      PROVE  entry[at[o]].status = "none" /\ entry'[at[o]].origin = o
  <2>1. (CHOOSE q \in F : at[q] = at[o]) = o
    BY <1>1 DEF FileAt
  <2>2. entry'[at[o]] = Draft(o, lines[o])
    BY <1>1, <2>1 DEF FileAt
  <2> QED BY <1>1, <2>2 DEF FileAt, Exists, Draft, NoEntry
<1>3. \A e \in Rows : (\A o \in F : at[o] # e) => entry'[e] = entry[e]
  BY <1>1 DEF FileAt
<1> QED BY <1>2, <1>3

(* Whatever files, the rows of a finding f outside F stay as they are, and  *)
(* one of F that had none has one.                                          *)
LEMMA FilingIsExact ==
  ASSUME QueueInv, NEW F \in SUBSET Filers, File(F), NEW f \in Findings
  PROVE  /\ f \notin F => \A e \in Rows : entry'[e].origin = f <=> entry[e].origin = f
         /\ f \in F /\ (\A e \in Rows : entry[e].origin # f) =>
              \E e \in Rows : \A g \in Rows : entry'[g].origin = f <=> g = e
<1>1. PICK at \in [F -> Rows] :
        /\ \A o \in F : entry[at[o]].status = "none" /\ entry'[at[o]].origin = o
        /\ \A e \in Rows : (\A o \in F : at[o] # e) => entry'[e] = entry[e]
  BY FiledRows
<1>2. \A e \in Rows : entry[e].status = "none" => entry[e].origin # f
  BY EntriesAssumption, FindingsAssumption DEF QueueInv, RowOK
<1>3. ASSUME f \notin F, NEW e \in Rows
      PROVE  entry'[e].origin = f <=> entry[e].origin = f
  BY <1>1, <1>2, <1>3
<1>4. ASSUME f \in F, \A e \in Rows : entry[e].origin # f
      PROVE  \E e \in Rows : \A g \in Rows : entry'[g].origin = f <=> g = e
  <2>1. \A g \in Rows : entry'[g].origin = f <=> g = at[f]
    BY <1>1, <1>4
  <2> QED BY <2>1, <1>4
<1> QED BY <1>3, <1>4

FiledInv == finding \in [Findings -> FindingStatuses] /\ OneEntryPerFinding

SameRows(f) == \A e \in Rows : entry'[e].origin = f <=> entry[e].origin = f

LEMMA QueueStepKeepsRows ==
  ASSUME QueueInv, QueueStep, NEW f \in Findings
  PROVE  SameRows(f)
<1>1. CASE EntryStep
  BY <1>1, EntryStepOrigins, FindingsAssumption DEF OriginStays, SameRows
<1>2. ASSUME NEW o \in Filers \ Findings, File({o})
      PROVE  SameRows(f)
  BY <1>2, FilingIsExact DEF SameRows
<1> QED BY <1>1, <1>2 DEF QueueStep

LEMMA FiledInvStep == ASSUME QueueInv, FiledInv, [Next]_vars PROVE FiledInv'
<1> DEFINE Filed(f) == \E e \in Rows : entry[e].origin = f
           Single(f) == \A e, g \in Rows : entry[e].origin = f /\ entry[g].origin = f => e = g
<1>1. CASE QueueStep \/ UNCHANGED vars
  <2>1. \A f \in Findings : SameRows(f)
    BY <1>1, QueueStepKeepsRows DEF vars, SameRows
  <2>2. UNCHANGED finding
    BY <1>1 DEF QueueStep, radarVars, vars
  <2> QED BY <2>1, <2>2 DEF FiledInv, OneEntryPerFinding, SameRows
<1>2. CASE Scan
  BY <1>2 DEF Scan, entryVars, FiledInv, OneEntryPerFinding, FindingStatuses, Undecided
<1>3. ASSUME NEW S \in SUBSET Findings, AcceptFindings(S)
      PROVE  FiledInv'
  <2> DEFINE F == {f \in S : finding[f] = "open" /\ f \in Fixable}
  <2>1. /\ File(F)
        /\ F \in SUBSET Filers /\ F \subseteq Findings
        /\ finding' = [f \in Findings |-> IF f \in F THEN "in_adjustments" ELSE finding[f]]
        /\ \A f \in F : finding[f] = "open"
    BY <1>3, FindingsAssumption DEF AcceptFindings
  <2> HIDE DEF F
  <2>2. finding' \in [Findings -> FindingStatuses]
    BY <2>1 DEF FiledInv, FindingStatuses
  <2>3. ASSUME NEW f \in Findings, f \notin F
        PROVE  SameRows(f) /\ finding'[f] = finding[f]
    BY <2>1, <2>3, FilingIsExact DEF SameRows
  <2>4. ASSUME NEW f \in F
        PROVE  /\ finding'[f] = "in_adjustments"
               /\ \E e \in Rows : \A g \in Rows : entry'[g].origin = f <=> g = e
    <3>1. \A e \in Rows : entry[e].origin # f
      BY <2>1, <2>4 DEF FiledInv, OneEntryPerFinding
    <3> QED BY <2>1, <2>4, <3>1, FilingIsExact
  <2>5. OneEntryPerFinding'
    BY <2>1, <2>3, <2>4 DEF FiledInv, OneEntryPerFinding, SameRows
  <2> QED BY <2>2, <2>5 DEF FiledInv
<1>4. ASSUME NEW f \in Findings, Acknowledge(f) \/ \E u \in Users : DismissFinding(u, f)
      PROVE  FiledInv'
  BY <1>4
     DEF Acknowledge, DismissFinding, entryVars, FiledInv, OneEntryPerFinding, FindingStatuses
<1> QED BY <1>1, <1>2, <1>3, <1>4 DEF Next, RadarStep

LEMMA FiledInvariant == Spec => []FiledInv
<1>1. Init => FiledInv
  BY EntriesAssumption, FindingsAssumption
     DEF Init, EntryInit, NoEntry, FiledInv, OneEntryPerFinding, FindingStatuses
<1>2. QueueInv /\ FiledInv /\ [Next]_vars => FiledInv'
  BY FiledInvStep
<1> QED BY <1>1, <1>2, QueueInvariant, PTL DEF Spec

(* Type correctness of the queue, the findings and the confirmed pairings   *)
(* in every reachable state; only a dismissal adds a pairing.               *)
THEOREM TypeCorrect == Spec => []TypeOK
<1> DEFINE Pairings == exceptions \subseteq {PairOf[f] : f \in Miscoded}
<1>1. Init => Pairings
  BY DEF Init
<1>2. Pairings /\ [Next]_vars => Pairings'
  <2> SUFFICES ASSUME Pairings, [Next]_vars PROVE Pairings'
    OBVIOUS
  <2>1. ASSUME NEW u \in Users, NEW f \in Findings, DismissFinding(u, f)
        PROVE  Pairings'
    BY <2>1 DEF DismissFinding
  <2>2. CASE UNCHANGED exceptions
    BY <2>2
  <2> QED
    BY <2>1, <2>2
       DEF Next, QueueStep, RadarStep, Scan, AcceptFindings, Acknowledge, radarVars, vars
<1>3. QueueInv /\ FiledInv /\ Pairings => TypeOK
  BY QueueInvType DEF FiledInv, TypeOK
<1> QED BY <1>1, <1>2, <1>3, QueueInvariant, FiledInvariant, PTL DEF Spec

(* However often a month is scanned and findings are filed, one by one or   *)
(* in bulk, a finding marked in_adjustments has one entry in the queue and  *)
(* any other none (accept_finding, _replace_open_findings).                 *)
THEOREM FindingsFiledOnce == Spec => []OneEntryPerFinding
<1>1. FiledInv => OneEntryPerFinding
  BY DEF FiledInv
<1> QED BY <1>1, FiledInvariant, PTL

(* Only Check QuickBooks takes an account out of worked.                    *)
LEMMA OthersKeepWork ==
  ASSUME [EntryNext]_entryVars, NEW a \in worked \ worked'
  PROVE  CheckPosted
<1>1. ASSUME NEW u \in Users, MemberStep(u)
      PROVE  UNCHANGED worked
  BY <1>1
     DEF MemberStep, SaveBatch, Accept, Dismiss, MarkPosted, Reopen, Edit
<1>2. ASSUME NEW o \in Producers, Regenerate(o)
      PROVE  UNCHANGED worked
  BY <1>2 DEF Regenerate
<1>3. ASSUME NEW F \in SUBSET Filers, File(F)
      PROVE  UNCHANGED worked
  BY <1>3 DEF File, FileAt
<1> QED
  BY <1>1, <1>2, <1>3 DEF EntryNext, EntryStep, Book, Unbook, Work, Lock, Unlock, entryVars

(* Work on an account is thrown away only for an entry of the saved batch   *)
(* that touches it, and only in the step that leaves the whole batch posted *)
(* (check_posted starts the affected accounts over when all are found).     *)
THEOREM WorkThrownAway == Spec => StartedOverWhenPosted
<1>1. ASSUME QueueInv, [Next]_vars, NEW a \in worked \ worked'
      PROVE  /\ \A e \in Saved : entry'[e].status = "posted"
             /\ \E e \in Saved : a \in entry[e].lines
  <2>1. CheckPosted
    BY <1>1, QueueSteps, OthersKeepWork
  <2>2. AllPosted /\ a \in Affected
    BY <1>1, <2>1 DEF CheckPosted
  <2>3. ASSUME NEW e \in Saved
        PROVE  entry'[e].status = "posted"
    <3>1. e \in Rows /\ entry[e].saved /\ entry[e] \in Entry
      BY <1>1, <2>3 DEF Saved, QueueInv
    <3>2. entry'[e] = IF Detected(e) THEN [entry[e] EXCEPT !.status = "posted"] ELSE entry[e]
      BY <2>1, <3>1 DEF CheckPosted
    <3> QED BY <2>2, <2>3, <3>1, <3>2 DEF AllPosted, Detected, Entry
  <2>4. \E e \in Saved : a \in entry[e].lines
    BY <2>2 DEF Affected
  <2> QED BY <2>3, <2>4
<1>2. ASSUME QueueInv, [Next]_vars
      PROVE  [\A a \in worked \ worked' :
                /\ \A e \in Saved : entry'[e].status = "posted"
                /\ \E e \in Saved : a \in entry[e].lines]_entryVars
  BY <1>1, <1>2
<1> QED BY <1>2, QueueInvariant, PTL DEF Spec, StartedOverWhenPosted
================================================================================
