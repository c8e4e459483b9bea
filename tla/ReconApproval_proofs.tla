-------------------------- MODULE ReconApproval_proofs ---------------------------
(***************************************************************************)
(* Who approves, what an approval is worth and what its working paper      *)
(* says: theorems of ReconSignoff about every road to an approved row.     *)
(* ReconRace: what holds of the working papers when requests overlap.      *)
(***************************************************************************)
EXTENDS ReconSignoff_proofs, ReconRace, FiniteSetTheorems

(* This step signed the row, on behalf of somebody the gates let through.   *)
SignedNow(a, p) ==
  \E u \in Users : /\ IsReviewer(u)
                   /\ MayApprove(u, a, p)
                   /\ rows'[a][p] = SignedRow(u, a, p)
                   /\ UNCHANGED <<gl, evidence>>

(* An approved row was approved before, by the same member, or is signed    *)
(* now.                                                                     *)
RowOutcome(a, p) ==
  Approved(rows'[a][p]) =>
    \/ Approved(rows[a][p]) /\ rows'[a][p].appr = rows[a][p].appr
    \/ SignedNow(a, p)

(* An active paper was active before, or belongs to an approval.            *)
PaperOutcome(a, p) ==
  \A c \in active'[a][p] :
    c \in active[a][p] \/ \E u \in Users : MayApprove(u, a, p) /\ c = ConclusionOf(u, a, p)

Outcome == \A a \in Accounts, p \in Periods : RowOutcome(a, p) /\ PaperOutcome(a, p)

--------------------------------------------------------------------------------
(* The edits that are not approvals.                                        *)
LEMMA UnapprovedEdits ==
  ASSUME NEW r \in Row, NEW v \in MaybeAmount, NEW u \in Users, NEW b \in BOOLEAN
  PROVE  /\ ~Approved(Restarted(r))
         /\ ~Approved(Cleared(r))
         /\ ~Approved(Reflagged(r))
         /\ ~Approved(AgentPrepared(u, r, v, b))
         /\ ~Approved(r) => ~Approved(AgentAnalyzed(r, b))
         /\ ~Approved(Frozen(Restarted(r), v, u))
<1> USE DEF Row, Approved
<1>1. ~Approved(Restarted(r)) /\ ~Approved(Reflagged(r))
  BY DEF Restarted, Reflagged
<1>2. ~Approved(Cleared(r))
  BY DEF Cleared, Restarted
<1>3. ~Approved(AgentPrepared(u, r, v, b))
  BY DEF AgentPrepared, Frozen
<1>4. ~Approved(r) => ~Approved(AgentAnalyzed(r, b))
  BY DEF AgentAnalyzed, Exists
<1>5. ~Approved(Frozen(Restarted(r), v, u))
  BY DEF Frozen, Restarted
<1> QED BY <1>1, <1>2, <1>3, <1>4, <1>5

LEMMA ApproveOutcome ==
  ASSUME TypeOK, NEW u \in Users, NEW p \in Periods, NEW S \in SUBSET Accounts,
         IsReviewer(u), \A a \in S : MayApprove(u, a, p), Approve(u, S, p),
         UNCHANGED <<gl, evidence>>
  PROVE  Outcome
<1> SUFFICES ASSUME NEW a \in Accounts, NEW q \in Periods
             PROVE  RowOutcome(a, q) /\ PaperOutcome(a, q)
  BY DEF Outcome
<1>1. rows'[a][q] = IF a \in S /\ q = p THEN SignedRow(u, a, p) ELSE rows[a][q]
  BY WithRowsAt DEF Approve
<1>2. RowOutcome(a, q)
  BY <1>1 DEF RowOutcome, SignedNow
<1>3. PICK kept \in SUBSET S :
        active' = WithConclusions(p,
                    [b \in S |-> IF b \in kept THEN {ConclusionOf(u, b, p)} ELSE {}])
  BY DEF Approve
<1>4. active'[a][q] =
        IF a \in S /\ q = p THEN (IF a \in kept THEN {ConclusionOf(u, a, p)} ELSE {})
                            ELSE active[a][q]
  <2> DEFINE con == [b \in S |-> IF b \in kept THEN {ConclusionOf(u, b, p)} ELSE {}]
  <2>1. active'[a][q] = IF a \in DOMAIN con /\ q = p THEN con[a] ELSE active[a][q]
    <3>1. active' = WithConclusions(p, con)
      BY <1>3
    <3> HIDE DEF con
    <3> QED BY <3>1, WithConclusionsAt
  <2>2. DOMAIN con = S /\ (a \in S => con[a] = IF a \in kept THEN {ConclusionOf(u, a, p)} ELSE {})
    OBVIOUS
  <2> HIDE DEF con
  <2> QED BY <2>1, <2>2
<1>5. PaperOutcome(a, q)
  <2>1. CASE a \in S /\ q = p
    <3>1. active'[a][q] \subseteq {ConclusionOf(u, a, q)}
      BY <1>4, <2>1
    <3> QED BY <2>1, <3>1 DEF PaperOutcome
  <2>2. CASE ~(a \in S /\ q = p)
    BY <1>4, <2>2 DEF PaperOutcome
  <2> QED BY <2>1, <2>2
<1> QED BY <1>2, <1>5

(* Papers that are retired, or not touched, are not new.                    *)
LEMMA RetireOutcome ==
  ASSUME TypeOK, NEW p \in Periods, NEW S, active' = active \/ active' = Retired(S, p)
  PROVE  \A a \in Accounts, q \in Periods : PaperOutcome(a, q)
BY WithConclusionsAt DEF Retired, PaperOutcome

LEMMA SetStatusOutcome ==
  ASSUME TypeOK, NEW u \in Users, NEW a \in Accounts, NEW p \in Periods,
         NEW s \in Requested, SetStatus(u, a, p, s)
  PROVE  Outcome
<1>1. CASE s = "approved" /\ MayApprove(u, a, p) /\ Approve(u, {a}, p)
  <2> DEFINE S == {a}
  <2>1. /\ S \in SUBSET Accounts /\ (\A b \in S : MayApprove(u, b, p)) /\ Approve(u, S, p)
        /\ IsReviewer(u) /\ UNCHANGED <<gl, evidence>>
    BY <1>1 DEF SetStatus, RoleAllows
  <2> HIDE DEF S
  <2> QED BY <2>1, ApproveOutcome
<1>2. ASSUME s # "approved"
      PROVE  Outcome
  <2>1. \A b \in Accounts, q \in Periods : PaperOutcome(b, q)
    BY <1>2, RetireOutcome DEF SetStatus
  <2>2. ASSUME NEW b \in Accounts, NEW q \in Periods
        PROVE  RowOutcome(b, q)
    <3>1. PICK new : /\ ~Approved(new)
                     /\ rows' = WithRows(p, [c \in {a} |-> new])
      <4>1. rows[a][p] \in Row /\ FreezeValue(a, p) \in MaybeAmount
        BY RowsAreRows, FreezeType
      <4>2. ~Approved([rows[a][p] EXCEPT !.status = s])
        BY <1>2, <4>1 DEF Row, Approved
      <4>3. ~Approved([rows[a][p] EXCEPT !.status = s, !.appr = None])
        BY <1>2, <4>1 DEF Row, Approved
      <4>4. ~Approved(Frozen(Restarted(rows[a][p]), FreezeValue(a, p), u))
        BY <4>1, UnapprovedEdits
      <4> QED BY <1>2, <4>2, <4>3, <4>4 DEF SetStatus
    <3>2. rows'[b][q] = IF b = a /\ q = p THEN new ELSE rows[b][q]
      BY <3>1, WithRowsAt
    <3> QED BY <3>1, <3>2 DEF RowOutcome
  <2> QED BY <2>1, <2>2 DEF Outcome
<1> QED BY <1>1, <1>2 DEF SetStatus

LEMMA BulkStatusOutcome ==
  ASSUME TypeOK, NEW u \in Users, NEW S \in SUBSET Accounts, NEW p \in Periods,
         NEW s \in Requested, BulkStatus(u, S, p, s)
  PROVE  Outcome
<1>1. CASE s = "approved" /\ Approve(u, {a \in S : MayApprove(u, a, p)}, p)
  <2> DEFINE R == {a \in S : MayApprove(u, a, p)}
  <2>1. /\ R \in SUBSET Accounts /\ (\A b \in R : MayApprove(u, b, p)) /\ Approve(u, R, p)
        /\ IsReviewer(u) /\ UNCHANGED <<gl, evidence>>
    BY <1>1 DEF BulkStatus, RoleAllows
  <2> HIDE DEF R
  <2> QED BY <2>1, ApproveOutcome
<1>2. CASE /\ s # "approved"
           /\ rows' = WithRows(p, [a \in S |->
                        IF s = "pending" THEN Restarted(rows[a][p])
                                         ELSE [rows[a][p] EXCEPT !.status = s]])
           /\ active' = Retired(S \cap ApprovedIn(p), p)
  <2>1. \A b \in Accounts, q \in Periods : PaperOutcome(b, q)
    BY <1>2, RetireOutcome
  <2>2. ASSUME NEW b \in Accounts, NEW q \in Periods
        PROVE  RowOutcome(b, q)
    <3>1. /\ ~Approved(Restarted(rows[b][p]))
          /\ ~Approved([rows[b][p] EXCEPT !.status = s])
      BY <1>2, RowsAreRows DEF Restarted, Row, Approved
    <3>2. \/ rows'[b][q] = rows[b][q]
          \/ q = p /\ rows'[b][q] = Restarted(rows[b][p])
          \/ q = p /\ rows'[b][q] = [rows[b][p] EXCEPT !.status = s]
      BY <1>2, WithRowsAt
    <3> QED BY <3>1, <3>2 DEF RowOutcome
  <2> QED BY <2>1, <2>2 DEF Outcome
<1> QED BY <1>1, <1>2 DEF BulkStatus

LEMMA OtherRowStepsOutcome ==
  ASSUME TypeOK, NEW u \in Users, NEW p \in Periods,
         \/ \E a \in Accounts, v \in MaybeAmount : SetSubledger(u, a, p, v)
         \/ \E a \in Accounts : AgentPrepare(u, a, p)
         \/ ResetAgentic(p)
  PROVE  Outcome
<1> SUFFICES ASSUME NEW b \in Accounts, NEW q \in Periods
             PROVE  RowOutcome(b, q)
  BY DEF Outcome, PaperOutcome, SetSubledger, AgentPrepare, ResetAgentic
<1>1. rows[b][q] \in Row
  BY RowsAreRows
<1>2. ASSUME NEW a \in Accounts, NEW v \in MaybeAmount, SetSubledger(u, a, p, v)
      PROVE  RowOutcome(b, q)
  <2> DEFINE new(r) == Frozen([r EXCEPT !.status = IF Exists(r) THEN @ ELSE "pending"], v, u)
  <2>1. rows'[b][q] = IF b = a /\ q = p THEN new(rows[b][q]) ELSE rows[b][q]
    BY <1>2, WithRowsAt DEF SetSubledger
  <2>2. Approved(new(rows[b][q])) =>
          Approved(rows[b][q]) /\ new(rows[b][q]).appr = rows[b][q].appr
    BY <1>1 DEF Frozen, Approved, Exists, Row
  <2> HIDE DEF new
  <2> QED BY <2>1, <2>2 DEF RowOutcome
<1>3. ASSUME NEW a \in Accounts, AgentPrepare(u, a, p)
      PROVE  RowOutcome(b, q)
  <2>1. PICK x \in Amounts, commented \in BOOLEAN :
          rows' = WithRows(p, [c \in {a} |->
            IF AgentTies(a, p, x) THEN AgentPrepared(u, rows[a][p], x, commented)
                                  ELSE AgentAnalyzed(rows[a][p], commented)])
    BY <1>3 DEF AgentPrepare
  <2>2. rows[a][p] \in Row /\ ~Approved(rows[a][p]) /\ x \in MaybeAmount
    BY <1>3, RowsAreRows DEF AgentPrepare, AgentMayTouch, MaybeAmount
  <2>3. \/ rows'[b][q] = rows[b][q]
        \/ rows'[b][q] = AgentPrepared(u, rows[a][p], x, commented)
        \/ rows'[b][q] = AgentAnalyzed(rows[a][p], commented)
    BY <2>1, WithRowsAt
  <2> QED BY <2>2, <2>3, UnapprovedEdits DEF RowOutcome
<1>4. CASE ResetAgentic(p)
  <2>1. rows'[b][q] \in {rows[b][q], Cleared(rows[b][q])}
    BY <1>4, WithRowsAt DEF ResetAgentic
  <2>2. ~Approved(Cleared(rows[b][q]))
    BY <1>1 DEF Cleared, Restarted, Approved, Row
  <2> QED BY <2>1, <2>2 DEF RowOutcome
<1> QED BY <1>2, <1>3, <1>4

(* Pulls, documents, schedules and the lock never approve.                  *)
LEMMA ReflagOutcome ==
  ASSUME TypeOK, NEW p \in Periods, NEW S, Reflag(S, p)
  PROVE  Outcome
<1> SUFFICES ASSUME NEW a \in Accounts, NEW q \in Periods
             PROVE  RowOutcome(a, q)
  BY DEF Outcome, PaperOutcome, Reflag
<1>1. rows'[a][q] \in {rows[a][q], Reflagged(rows[a][q])}
  BY WithRowsAt DEF Reflag
<1>2. ~Approved(Reflagged(rows[a][q]))
  BY RowsAreRows DEF Reflagged, Approved, Row
<1> QED BY <1>1, <1>2 DEF RowOutcome

LEMMA SyncStepOutcome ==
  ASSUME TypeOK, NEW p \in Periods, SyncStep(p)
  PROVE  Outcome
<1>1. CASE Sync(p) \/ SyncRepulled(p)
  <2>1. \E S : Reflag(S, p)
    BY <1>1 DEF Sync, SyncRepulled
  <2> QED BY <2>1, ReflagOutcome
<1>2. ASSUME NEW b \in Accounts, SyncOne(b, p)
      PROVE  Outcome
  <2>1. PICK S : /\ rows' = WithRows(p, [c \in S |-> Reflagged(rows[c][p])])
                 /\ active' = Retired(S, p)
    BY <1>2 DEF SyncOne
  <2>2. \A a \in Accounts, q \in Periods : PaperOutcome(a, q)
    BY <2>1, RetireOutcome
  <2>3. ASSUME NEW a \in Accounts, NEW q \in Periods
        PROVE  RowOutcome(a, q)
    <3>1. rows'[a][q] \in {rows[a][q], Reflagged(rows[a][q])}
      BY <2>1, WithRowsAt
    <3>2. ~Approved(Reflagged(rows[a][q]))
      BY RowsAreRows DEF Reflagged, Approved, Row
    <3> QED BY <3>1, <3>2 DEF RowOutcome
  <2> QED BY <2>2, <2>3 DEF Outcome
<1>3. CASE AutopilotSync(p)
  BY <1>3 DEF AutopilotSync, Outcome, RowOutcome, PaperOutcome
<1> QED BY <1>1, <1>2, <1>3 DEF SyncStep

LEMMA PaperStepOutcome ==
  ASSUME TypeOK, NEW p \in Periods, PaperStep(p)
  PROVE  Outcome
<1>1. CASE \/ \E a \in Accounts : AttachEvidence(a, p) \/ ClientUpload(a, p) \/ RemoveEvidence(a, p)
           \/ FluxSignOff(p) \/ FluxReopen(p)
  BY <1>1 DEF AttachEvidence, ClientUpload, RemoveEvidence, FluxSignOff, FluxReopen,
              Outcome, RowOutcome, PaperOutcome
<1>2. ASSUME NEW S \in SUBSET Accounts, ReopenAfterPosting(S, p)
      PROVE  Outcome
  <2> SUFFICES ASSUME NEW a \in Accounts, NEW q \in Periods
               PROVE  RowOutcome(a, q)
    BY <1>2 DEF Outcome, PaperOutcome, ReopenAfterPosting
  <2>1. rows'[a][q] \in {rows[a][q], Cleared(rows[a][q])}
    BY <1>2, WithRowsAt DEF ReopenAfterPosting
  <2>2. ~Approved(Cleared(rows[a][q]))
    BY RowsAreRows DEF Cleared, Restarted, Approved, Row
  <2> QED BY <2>1, <2>2 DEF RowOutcome
<1> QED BY <1>1, <1>2 DEF PaperStep

LEMMA ScheduleStepOutcome ==
  ASSUME TypeOK, ScheduleStep
  PROVE  Outcome
<1>1. PICK b \in Accounts : ScheduleEdit(b) \/ ScheduleImport(b)
  BY DEF ScheduleStep
<1> SUFFICES ASSUME NEW a \in Accounts, NEW q \in Periods
             PROVE  RowOutcome(a, q)
  BY <1>1 DEF Outcome, PaperOutcome, ScheduleEdit, ScheduleImport
<1>2. rows'[a][q] \in {rows[a][q], Reflagged(rows[a][q])}
  BY <1>1 DEF ScheduleEdit, ScheduleImport, TypeOK
<1>3. ~Approved(Reflagged(rows[a][q]))
  BY RowsAreRows DEF Reflagged, Approved, Row
<1> QED BY <1>2, <1>3 DEF RowOutcome

LEMMA LockStepOutcome ==
  ASSUME TypeOK, NEW u \in Users, NEW p \in Periods, LockStep(u, p)
  PROVE  Outcome
<1> SUFFICES ASSUME NEW a \in Accounts, NEW q \in Periods
             PROVE  RowOutcome(a, q)
  BY DEF Outcome, PaperOutcome, LockStep, Close, ReopenPeriod
<1>1. rows'[a][q] \in {rows[a][q], Backfilled(u, a, q)}
  BY WithRowsAt DEF LockStep, Close, ReopenPeriod
<1>2. Approved(Backfilled(u, a, q)) =>
        Approved(rows[a][q]) /\ Backfilled(u, a, q).appr = rows[a][q].appr
  BY RowsAreRows DEF Backfilled, Frozen, Approved, Row
<1> QED BY <1>1, <1>2 DEF RowOutcome

LEMMA Outcomes == TypeOK /\ [Next]_vars => Outcome
<1> SUFFICES ASSUME TypeOK, [Next]_vars PROVE Outcome
  OBVIOUS
<1>1. ASSUME NEW u \in Users, NEW p \in Periods, RowStep(u, p)
      PROVE  Outcome
  <2>1. CASE \E a \in Accounts, s \in Requested : SetStatus(u, a, p, s)
    BY <2>1, SetStatusOutcome
  <2>2. CASE \E S \in SUBSET Accounts \ {{}}, s \in Requested : BulkStatus(u, S, p, s)
    BY <2>2, BulkStatusOutcome
  <2> QED BY <1>1, <2>1, <2>2, OtherRowStepsOutcome DEF RowStep
<1>2. CASE UNCHANGED vars
  BY <1>2 DEF vars, Outcome, RowOutcome, PaperOutcome
<1> QED BY <1>1, <1>2, LockStepOutcome, SyncStepOutcome, PaperStepOutcome,
           ScheduleStepOutcome DEF Next

--------------------------------------------------------------------------------
LEMMA SignedFields ==
  ASSUME TypeOK, NEW u \in Users, NEW a \in Accounts, NEW p \in Periods
  PROVE  /\ SignedRow(u, a, p).appr = u
         /\ SignedRow(u, a, p).sub = Shown(a, p)
         /\ SignedRow(u, a, p).by =
              IF rows[a][p].sub = Shown(a, p) THEN rows[a][p].by ELSE None
BY RowsAreRows DEF SignedRow, Signed, Row

(* An approved row names a reviewer or an admin as its approver, whatever   *)
(* the row went through since.                                              *)
THEOREM ApproversAreReviewers == Spec => []ApproverOnRecord
<1>1. Init => ApproverOnRecord
  BY DEF Init, ApproverOnRecord, AbsentRow, Approved
<1>2. TypeOK /\ ApproverOnRecord /\ [Next]_vars => ApproverOnRecord'
  <2> SUFFICES ASSUME TypeOK, ApproverOnRecord, [Next]_vars,
                      NEW a \in Accounts, NEW p \in Periods, Approved(rows'[a][p])
               PROVE  rows'[a][p].appr # None /\ IsReviewer(rows'[a][p].appr)
    BY DEF ApproverOnRecord
  <2>1. RowOutcome(a, p)
    BY Outcomes DEF Outcome
  <2>2. CASE Approved(rows[a][p]) /\ rows'[a][p].appr = rows[a][p].appr
    BY <2>2 DEF ApproverOnRecord
  <2>3. CASE SignedNow(a, p)
    BY <2>3, SignedFields, ConstantsAssumption DEF SignedNow
  <2> QED BY <2>1, <2>2, <2>3 DEF RowOutcome
<1> QED BY <1>1, <1>2, TypeCorrect, PTL DEF Spec

(* The working paper of an approval ties on its own figures.                *)
THEOREM PapersTie == Spec => []ConclusionTies
<1>1. Init => ConclusionTies
  BY DEF Init, ConclusionTies
<1>2. TypeOK /\ ConclusionTies /\ [Next]_vars => ConclusionTies'
  <2> SUFFICES ASSUME TypeOK, ConclusionTies, [Next]_vars,
                      NEW a \in Accounts, NEW p \in Periods, NEW c \in active'[a][p]
               PROVE  c.sub # None /\ Near(c.gl, c.sub)
    BY DEF ConclusionTies
  <2>1. PaperOutcome(a, p)
    BY Outcomes DEF Outcome
  <2>2. CASE c \in active[a][p]
    BY <2>2 DEF ConclusionTies
  <2>3. ASSUME NEW u \in Users, MayApprove(u, a, p), c = ConclusionOf(u, a, p)
        PROVE  c.sub # None /\ Near(c.gl, c.sub)
    <3>1. c.gl = gl[a][p] /\ c.sub = Shown(a, p)
      BY <2>3, SignedFields DEF ConclusionOf
    <3>2. Shown(a, p) \in Amounts /\ Near(gl[a][p], Shown(a, p))
      BY <2>3, TiesOutFigures DEF MayApprove
    <3>3. None \notin Amounts
      BY ConstantsAssumption
    <3> QED BY <3>1, <3>2, <3>3
  <2> QED BY <2>1, <2>2, <2>3 DEF PaperOutcome
<1> QED BY <1>1, <1>2, TypeCorrect, PTL DEF Spec

(* A row that becomes approved passed every gate with the figures it then   *)
(* carries.                                                                 *)
THEOREM ApprovalsMeetGates == Spec => ApprovalMeetsGates
<1> DEFINE Gates(a, p) ==
      ~Approved(rows[a][p]) /\ Approved(rows'[a][p]) =>
         LET r == rows'[a][p] IN
         /\ r.sub # None /\ gl'[a][p] # None /\ Near(gl'[a][p], r.sub)
         /\ r.by = r.appr => IsAdmin(r.appr)
         /\ Kind[a] = "bank" => <<a, p>> \in evidence'
<1>1. TypeOK /\ [Next]_vars => \A a \in Accounts, p \in Periods : Gates(a, p)
  <2> SUFFICES ASSUME TypeOK, [Next]_vars, NEW a \in Accounts, NEW p \in Periods,
                      ~Approved(rows[a][p]), Approved(rows'[a][p])
               PROVE  Gates(a, p)
    OBVIOUS
  <2>1. PICK u \in Users : /\ MayApprove(u, a, p)
                          /\ rows'[a][p] = SignedRow(u, a, p)
                          /\ UNCHANGED <<gl, evidence>>
    BY Outcomes DEF Outcome, RowOutcome, SignedNow
  <2>2. /\ rows'[a][p].appr = u
        /\ rows'[a][p].sub = Shown(a, p)
        /\ rows'[a][p].by = IF rows[a][p].sub = Shown(a, p) THEN rows[a][p].by ELSE None
    BY <2>1, SignedFields
  <2>3. /\ gl[a][p] \in Amounts /\ Shown(a, p) \in Amounts
        /\ Near(gl[a][p], Shown(a, p))
    BY <2>1, TiesOutFigures DEF MayApprove
  <2>4. None \notin Amounts /\ None \notin Users
    BY ConstantsAssumption
  <2>5. rows'[a][p].by = rows'[a][p].appr => IsAdmin(rows'[a][p].appr)
    BY <2>1, <2>2, <2>3, <2>4 DEF MayApprove, OwnOverride
  <2>6. Kind[a] = "bank" => <<a, p>> \in evidence'
    BY <2>1, <2>3, <2>4 DEF MayApprove, MissingStatement
  <2> QED BY <2>1, <2>2, <2>3, <2>4, <2>5, <2>6
<1>2. TypeOK /\ [Next]_vars => [\A a \in Accounts, p \in Periods : Gates(a, p)]_vars
  BY <1>1
<1> QED BY <1>2, TypeCorrect, PTL DEF Spec, ApprovalMeetsGates

--------------------------------------------------------------------------------
(* Overlapping requests: what a request holds between its read and its     *)
(* commit is sound by itself, whatever happens meanwhile. One that is      *)
(* about to record a working paper holds one that ties and retires those   *)
(* it finds at its commit; no other request touches the papers except to   *)
(* retire them.                                                            *)

AtMostOne(S) == S = {} \/ \E c : S = {c}

(* A working paper that ties on its own figures.                            *)
TiesAsFiled(c) == c.sub # None /\ Near(c.gl, c.sub)

(* A request that writes a row holds rows, and one that records a working   *)
(* paper has one that ties and retires those it finds.                      *)
RowRequest(r) ==
  /\ r.a \in Accounts /\ r.p \in Periods
  /\ r.old \in Row /\ r.new \in Row
  /\ r.con \subseteq Conclusion
  /\ \A c \in r.con : TiesAsFiled(c)
  /\ r.con = {} \/ (r.retire /\ \E c : r.con = {c})

CloseRequest(r) ==
  r.p \in Periods /\ r.old \in [Accounts -> Row] /\ r.new \in [Accounts -> Row]

(* What a request holds between its read and its commit.                    *)
Sound(r) ==
  r # Idle =>
    /\ r.op = "row" => RowRequest(r)
    /\ r.op = "close" => CloseRequest(r)
    /\ r.op \in {"pull", "reflag"} => r.p \in Periods

PaperInv ==
  /\ ConclusionTies
  /\ \A a \in Accounts, p \in Periods : AtMostOne(active[a][p])

ReqInv ==
  /\ req = [w \in Workers |-> req[w]]
  /\ \A w \in Workers : Sound(req[w])

RaceInv == TypeOK /\ PaperInv /\ ReqInv

(* A set with at most one element, counted.                                 *)
LEMMA AtMostOneCounted == ASSUME NEW S, AtMostOne(S) PROVE Cardinality(S) <= 1
<1>1. CASE S = {}
  <2>1. Cardinality(S) = 0
    BY <1>1, FS_EmptySet
  <2> QED BY <2>1
<1>2. CASE \E c : S = {c}
  <2>1. Cardinality(S) = 1
    BY <1>2, FS_Singleton
  <2> QED BY <2>1
<1> QED BY <1>1, <1>2 DEF AtMostOne

(* Writing back the changed columns of a row leaves a row, whatever was     *)
(* written to it since it was loaded.                                       *)
RowColumns == {"status", "sub", "by", "appr", "ai"}

LEMMA RowDomain == ASSUME NEW r \in Row PROVE DOMAIN r = RowColumns
BY DEF Row, RowColumns

LEMMA RowOfColumns ==
  ASSUME NEW f, f = [c \in RowColumns |-> f[c]],
         f["status"] \in Statuses, f["sub"] \in MaybeAmount, f["by"] \in MaybeUser,
         f["appr"] \in MaybeUser, f["ai"] \in BOOLEAN
  PROVE  f \in Row
BY DEF Row, RowColumns

LEMMA MergeType ==
  ASSUME NEW now \in Row, NEW old \in Row, NEW new \in Row
  PROVE  Merge(now, old, new) \in Row
<1> DEFINE f == Merge(now, old, new)
<1>1. f = [c \in RowColumns |-> IF new[c] # old[c] THEN new[c] ELSE now[c]]
  BY RowDomain DEF Merge
<1>2. /\ now["status"] \in Statuses /\ new["status"] \in Statuses
      /\ now["sub"] \in MaybeAmount /\ new["sub"] \in MaybeAmount
      /\ now["by"] \in MaybeUser /\ new["by"] \in MaybeUser
      /\ now["appr"] \in MaybeUser /\ new["appr"] \in MaybeUser
      /\ now["ai"] \in BOOLEAN /\ new["ai"] \in BOOLEAN
  BY DEF Row
<1>3. /\ f["status"] \in Statuses /\ f["sub"] \in MaybeAmount /\ f["by"] \in MaybeUser
      /\ f["appr"] \in MaybeUser /\ f["ai"] \in BOOLEAN
  BY <1>1, <1>2 DEF RowColumns
<1> QED BY <1>1, <1>3, RowOfColumns

(* A step that gives one request a sound record.                            *)
LEMMA SoundKeeps ==
  ASSUME ReqInv, NEW w \in Workers, NEW r, Sound(r), req' = [req EXCEPT ![w] = r]
  PROVE  ReqInv'
<1>1. req' = [v \in Workers |-> IF v = w THEN r ELSE req[v]]
  BY DEF ReqInv
<1>2. \A v \in Workers : Sound(req'[v])
  BY <1>1 DEF ReqInv
<1> QED BY <1>1, <1>2 DEF ReqInv

LEMMA IdleSound == Sound(Idle)
BY DEF Sound

LEMMA BeginKeeps ==
  ASSUME RaceInv, NEW w \in Workers, NEW r, Begin(w, r), Sound(r)
  PROVE  RaceInv'
<1>1. ReqInv'
  BY SoundKeeps DEF Begin, RaceInv
<1> QED BY <1>1 DEF Begin, vars, RaceInv, TypeOK, PaperInv, ConclusionTies

LEMMA RowWriteSound ==
  ASSUME TypeOK, NEW a \in Accounts, NEW p \in Periods, NEW new \in Row, NEW retire, NEW con,
         con \subseteq Conclusion, \A c \in con : TiesAsFiled(c),
         con = {} \/ (retire /\ \E c : con = {c})
  PROVE  Sound(RowWrite(a, p, new, retire, con))
<1>1. rows[a][p] \in Row
  BY RowsAreRows
<1> QED BY <1>1 DEF Sound, RowRequest, RowWrite

LEMMA PlainWriteSound ==
  ASSUME TypeOK, NEW a \in Accounts, NEW p \in Periods, NEW new \in Row, NEW retire
  PROVE  Sound(RowWrite(a, p, new, retire, {}))
BY RowWriteSound

(* The paper of an approval whose gates passed.                             *)
LEMMA PaperOfApproval ==
  ASSUME TypeOK, NEW u \in Users, NEW a \in Accounts, NEW p \in Periods, MayApprove(u, a, p)
  PROVE  /\ SignedRow(u, a, p) \in Row
         /\ ConclusionOf(u, a, p) \in Conclusion
         /\ TiesAsFiled(ConclusionOf(u, a, p))
<1>1. SignedRow(u, a, p) \in Row
  BY RowsAreRows, ShownType, RowEdits DEF SignedRow, Requested
<1>2. gl[a][p] \in Amounts
  BY DEF MayApprove, TiesOut, Synced, TypeOK, MaybeAmount
<1>3. Shown(a, p) \in Amounts /\ Near(gl[a][p], Shown(a, p))
  BY TiesOutFigures DEF MayApprove
<1>4. ConclusionOf(u, a, p) = [gl |-> gl[a][p], sub |-> Shown(a, p), by |-> u]
  BY SignedFields DEF ConclusionOf
<1>5. None \notin Amounts
  BY ConstantsAssumption
<1>6. ConclusionOf(u, a, p) \in Conclusion
  BY <1>2, <1>3, <1>4 DEF Conclusion, MaybeAmount
<1>7. TiesAsFiled(ConclusionOf(u, a, p))
  BY <1>3, <1>4, <1>5 DEF TiesAsFiled
<1> QED BY <1>1, <1>6, <1>7

LEMMA BeginRowKeeps ==
  ASSUME RaceInv, NEW w \in Workers, NEW u \in Users, NEW a \in Accounts, NEW p \in Periods,
         BeginRow(w, u, a, p)
  PROVE  RaceInv'
<1> DEFINE r == rows[a][p]
<1>1. TypeOK /\ r \in Row
  BY RowsAreRows DEF RaceInv
<1>2. CASE BeginApprove(w, u, a, p)
  <2>1. PICK con \in {{ConclusionOf(u, a, p)}, {}} :
          Begin(w, RowWrite(a, p, SignedRow(u, a, p), TRUE, con))
    BY <1>2 DEF BeginApprove
  <2>2. /\ SignedRow(u, a, p) \in Row
        /\ ConclusionOf(u, a, p) \in Conclusion
        /\ TiesAsFiled(ConclusionOf(u, a, p))
    BY <1>1, <1>2, PaperOfApproval DEF BeginApprove
  <2>3. Sound(RowWrite(a, p, SignedRow(u, a, p), TRUE, con))
    BY <1>1, <2>1, <2>2, RowWriteSound
  <2> QED BY <2>1, <2>3, BeginKeeps
<1>3. ASSUME NEW s \in Asked, BeginStatus(w, u, a, p, s)
      PROVE  RaceInv'
  <2>1. PICK new \in IF s = "pending"
                     THEN {Frozen(Restarted(r), FreezeValue(a, p), u),
                           [r EXCEPT !.status = s, !.appr = None]}
                     ELSE {[r EXCEPT !.status = s]} :
          Begin(w, RowWrite(a, p, new, Approved(r), {}))
    BY <1>3 DEF BeginStatus
  <2>2. /\ Frozen(Restarted(r), FreezeValue(a, p), u) \in Row
        /\ [r EXCEPT !.status = s, !.appr = None] \in Row
        /\ [r EXCEPT !.status = s] \in Row
    BY <1>1, FreezeType, RowEdits, RaceAssumption
  <2>3. new \in Row
    BY <2>1, <2>2
  <2> QED BY <1>1, <2>1, <2>3, PlainWriteSound, BeginKeeps
<1>4. ASSUME NEW v \in Entered, BeginSubledger(w, u, a, p, v)
      PROVE  RaceInv'
  <2> DEFINE new == Frozen([r EXCEPT !.status = IF Exists(r) THEN @ ELSE "pending"], v, u)
  <2>1. Begin(w, RowWrite(a, p, new, FALSE, {}))
    BY <1>4 DEF BeginSubledger
  <2>2. new \in Row
    BY <1>1, RowEdits, RaceAssumption DEF Requested
  <2> HIDE DEF new
  <2> QED BY <1>1, <2>1, <2>2, PlainWriteSound, BeginKeeps
<1>5. CASE BeginAgent(w, u, a, p)
  <2>1. PICK x \in Amounts, commented \in BOOLEAN :
          Begin(w, RowWrite(a, p,
            IF AgentTies(a, p, x) THEN AgentPrepared(u, r, x, commented)
                                  ELSE AgentAnalyzed(r, commented), FALSE, {}))
    BY <1>5 DEF BeginAgent
  <2>2. AgentPrepared(u, r, x, commented) \in Row /\ AgentAnalyzed(r, commented) \in Row
    BY <1>1, RowEdits DEF Requested, MaybeAmount
  <2>3. Sound(RowWrite(a, p,
          IF AgentTies(a, p, x) THEN AgentPrepared(u, r, x, commented)
                                ELSE AgentAnalyzed(r, commented), FALSE, {}))
    BY <1>1, <2>2, PlainWriteSound
  <2> QED BY <2>1, <2>3, BeginKeeps
<1> QED BY <1>2, <1>3, <1>4, <1>5 DEF BeginRow

(* The commit of an approval retires what is there before it adds its own.  *)
LEMMA CommitRowKeeps ==
  ASSUME RaceInv, NEW w \in Workers, CommitRow(w)
  PROVE  RaceInv'
<1> DEFINE r == req[w]
<1>1. RowRequest(r) /\ TypeOK /\ PaperInv
  BY DEF CommitRow, RaceInv, ReqInv, Sound
<1>2. ReqInv'
  BY SoundKeeps, IdleSound DEF CommitRow, Finished, RaceInv
<1>3. CASE UNCHANGED <<rows, active>>
  BY <1>1, <1>2, <1>3 DEF CommitRow, RaceInv, TypeOK, PaperInv, ConclusionTies
<1>4. CASE /\ rows' = [rows EXCEPT ![r.a][r.p] = Merge(@, r.old, r.new)]
           /\ active' = [active EXCEPT ![r.a][r.p] = (IF r.retire THEN {} ELSE @) \cup r.con]
  <2> DEFINE kept == IF r.retire THEN {} ELSE active[r.a][r.p]
  <2>1. active' = [active EXCEPT ![r.a][r.p] = kept \cup r.con]
    BY <1>4
  <2>2. AtMostOne(kept \cup r.con)
    <3>1. AtMostOne(active[r.a][r.p])
      BY <1>1 DEF PaperInv, RowRequest
    <3>2. CASE r.con = {}
      BY <3>1, <3>2 DEF AtMostOne
    <3>3. CASE r.retire /\ \E c : r.con = {c}
      <4>1. kept \cup r.con = r.con
        BY <3>3
      <4> QED BY <3>3, <4>1 DEF AtMostOne
    <3> QED BY <1>1, <3>2, <3>3 DEF RowRequest
  <2>3. /\ kept \cup r.con \subseteq Conclusion
        /\ \A c \in kept \cup r.con : TiesAsFiled(c)
    BY <1>1 DEF RowRequest, TypeOK, PaperInv, ConclusionTies, TiesAsFiled
  <2>4. Merge(rows[r.a][r.p], r.old, r.new) \in Row
    BY <1>1, MergeType, RowsAreRows DEF RowRequest
  <2>5. rows' \in [Accounts -> [Periods -> Row]]
    BY <1>1, <1>4, <2>4 DEF TypeOK
  <2> HIDE DEF kept
  <2>6. active' \in [Accounts -> [Periods -> SUBSET Conclusion]]
    BY <1>1, <2>1, <2>3 DEF TypeOK
  <2>7. \A a \in Accounts, p \in Periods :
          active'[a][p] = active[a][p] \/ active'[a][p] = kept \cup r.con
    BY <1>1, <2>1 DEF TypeOK, RowRequest
  <2>8. PaperInv'
    BY <1>1, <2>2, <2>3, <2>7 DEF PaperInv, ConclusionTies, TiesAsFiled
  <2>9. TypeOK'
    BY <1>1, <2>5, <2>6 DEF CommitRow, TypeOK
  <2> QED BY <1>2, <2>8, <2>9 DEF RaceInv
<1> QED BY <1>3, <1>4 DEF CommitRow

(* The close holds the rows it found and the rows it backfills.             *)
LEMMA BeginCloseKeeps ==
  ASSUME RaceInv, NEW w \in Workers, NEW u \in Users, NEW p \in Periods, BeginClose(w, u, p)
  PROVE  RaceInv'
<1> DEFINE old == [a \in Accounts |-> rows[a][p]]
           new == [a \in Accounts |-> IF a \in Existing(p) THEN Backfilled(u, a, p)
                                                           ELSE rows[a][p]]
<1>1. TypeOK
  BY DEF RaceInv
<1>2. \A a \in Accounts : rows[a][p] \in Row /\ Backfilled(u, a, p) \in Row
  BY <1>1, RowsAreRows, FreezeType, RowEdits DEF Backfilled, Requested
<1>3. old \in [Accounts -> Row] /\ new \in [Accounts -> Row]
  BY <1>2
<1>4. Begin(w, [op |-> "close", p |-> p, old |-> old, new |-> new])
  BY DEF BeginClose
<1> HIDE DEF old, new
<1>5. Sound([op |-> "close", p |-> p, old |-> old, new |-> new])
  BY <1>3 DEF Sound, CloseRequest
<1> QED BY <1>4, <1>5, BeginKeeps

LEMMA CommitCloseKeeps ==
  ASSUME RaceInv, NEW w \in Workers, CommitClose(w)
  PROVE  RaceInv'
<1> DEFINE r == req[w]
           new == [a \in Accounts |-> Merge(rows[a][r.p], r.old[a], r.new[a])]
<1>1. CloseRequest(r) /\ TypeOK /\ PaperInv
  BY DEF CommitClose, RaceInv, ReqInv, Sound
<1>2. ReqInv'
  BY SoundKeeps, IdleSound DEF CommitClose, Finished, RaceInv
<1>3. PaperInv'
  BY <1>1 DEF CommitClose, PaperInv, ConclusionTies
<1>4. CASE UNCHANGED <<rows, closed>>
  BY <1>1, <1>2, <1>3, <1>4 DEF CommitClose, RaceInv, TypeOK
<1>5. CASE rows' = WithRows(r.p, new) /\ closed' = closed \cup {r.p}
  <2>1. \A a \in Accounts : new[a] \in Row
    BY <1>1, MergeType, RowsAreRows DEF CloseRequest
  <2> HIDE DEF new
  <2>2. rows' \in [Accounts -> [Periods -> Row]]
    BY <1>1, <1>5, <2>1, WithRowsType DEF CloseRequest
  <2>3. TypeOK'
    BY <1>1, <1>5, <2>2 DEF CommitClose, TypeOK, CloseRequest
  <2> QED BY <1>2, <1>3, <2>3 DEF RaceInv
<1> QED BY <1>4, <1>5 DEF CommitClose

LEMMA StoreBalancesKeeps ==
  ASSUME RaceInv, NEW w \in Workers, StoreBalances(w)
  PROVE  RaceInv'
<1> DEFINE r == req[w]
<1>1. r.p \in Periods /\ TypeOK /\ PaperInv
  BY DEF StoreBalances, RaceInv, ReqInv, Sound
<1>2. PICK s \in [Accounts -> Amounts] \cup {Held(r.p)}, g \in [Accounts -> Amounts] :
        /\ gl' = [a \in Accounts |-> [gl[a] EXCEPT ![r.p] = s[a]]]
        /\ req' = [req EXCEPT ![w] = [op |-> "reflag", p |-> r.p, g |-> g]]
  BY DEF StoreBalances
<1>3. s \in [Accounts -> MaybeAmount]
  BY <1>1, PulledOrHeld
<1>4. gl' \in [Accounts -> [Periods -> MaybeAmount]]
  BY <1>1, <1>2, <1>3 DEF TypeOK
<1>5. Sound([op |-> "reflag", p |-> r.p, g |-> g])
  BY <1>1 DEF Sound
<1>6. ReqInv'
  BY <1>2, <1>5, SoundKeeps DEF RaceInv
<1>7. PaperInv'
  BY <1>1 DEF StoreBalances, PaperInv, ConclusionTies
<1>8. TypeOK'
  BY <1>1, <1>4 DEF StoreBalances, TypeOK
<1> QED BY <1>6, <1>7, <1>8 DEF RaceInv

(* A sync takes back approvals and leaves their papers active.              *)
LEMMA FinishSyncKeeps ==
  ASSUME RaceInv, NEW w \in Workers, FinishSync(w)
  PROVE  RaceInv'
<1> DEFINE r == req[w]
<1>1. r.p \in Periods /\ TypeOK /\ PaperInv
  BY DEF FinishSync, RaceInv, ReqInv, Sound
<1>2. PICK x \in [Aging -> Amounts], t \in {"ok", "off"} :
        /\ tb' = [tb EXCEPT ![r.p] = t]
        /\ ext' = [a \in Accounts |-> IF a \in Aging THEN [ext[a] EXCEPT ![r.p] = x[a]]
                                                     ELSE ext[a]]
        /\ Reflag(IF r.p \in closed THEN {} ELSE Stale(r.p, r.g, x), r.p)
  BY DEF FinishSync
<1>3. rows' \in [Accounts -> [Periods -> Row]] /\ active' = active
  BY <1>1, <1>2, ReflagType DEF Reflag
<1>4. ext' \in [Accounts -> [Periods -> MaybeAmount]]
  BY <1>1, <1>2 DEF TypeOK, MaybeAmount
<1>5. tb' \in [Periods -> {"none", "ok", "off"}]
  BY <1>1, <1>2 DEF TypeOK
<1>6. ReqInv'
  BY SoundKeeps, IdleSound DEF FinishSync, Finished, RaceInv
<1>7. PaperInv'
  BY <1>1, <1>3 DEF PaperInv, ConclusionTies
<1>8. TypeOK'
  BY <1>1, <1>3, <1>4, <1>5 DEF FinishSync, TypeOK
<1> QED BY <1>6, <1>7, <1>8 DEF RaceInv

LEMMA UnsplitKeeps ==
  ASSUME RaceInv, NEW w \in Workers, Unsplit(w)
  PROVE  RaceInv'
<1>1. active' = active /\ req' = req
  BY DEF Unsplit, FluxSignOff, FluxReopen, ReopenPeriod
<1>2. TypeOK'
  BY PaperStepType, LockStepType DEF Unsplit, PaperStep, LockStep, RaceInv
<1> QED BY <1>1, <1>2 DEF RaceInv, PaperInv, ConclusionTies, ReqInv

LEMMA RaceStep == ASSUME RaceInv, [RaceNext]_raceVars PROVE RaceInv'
<1>1. CASE UNCHANGED raceVars
  BY <1>1 DEF raceVars, RaceInv, TypeOK, PaperInv, ConclusionTies, ReqInv
<1>2. ASSUME NEW w \in Workers, RowOrLock(w)
      PROVE  RaceInv'
  BY <1>2, BeginRowKeeps, CommitRowKeeps, BeginCloseKeeps, CommitCloseKeeps, UnsplitKeeps
     DEF RowOrLock
<1>3. ASSUME NEW w \in Workers, SyncSteps(w)
      PROVE  RaceInv'
  <2>1. ASSUME NEW p \in Periods, BeginSync(w, p)
        PROVE  RaceInv'
    <3>1. Sound([op |-> "pull", p |-> p])
      BY DEF Sound
    <3> QED BY <2>1, <3>1, BeginKeeps DEF BeginSync
  <2> QED BY <1>3, <2>1, StoreBalancesKeeps, FinishSyncKeeps DEF SyncSteps
<1> QED BY <1>1, <1>2, <1>3 DEF RaceNext

LEMMA RaceInvariant == RaceSpec => []RaceInv
<1>1. RaceInit => RaceInv
  BY TypeInit, IdleSound DEF RaceInit, Init, RaceInv, PaperInv, ConclusionTies, ReqInv, AtMostOne
<1> QED BY <1>1, RaceStep, PTL DEF RaceSpec

(* Commits that write back the columns of a row loaded long ago leave rows, *)
(* snapshots and working papers well typed.                                 *)
THEOREM RaceTypeCorrect == RaceSpec => []TypeOK
<1>1. RaceInv => TypeOK
  BY DEF RaceInv
<1> QED BY <1>1, RaceInvariant, PTL

(* Requests that read, wait and commit over each other leave an account at  *)
(* most one active working paper for a month: an approval that commits      *)
(* second retires what the first one added (record_conclusion supersedes    *)
(* every active conclusion before it inserts its own).                      *)
THEOREM OnePaperActive == RaceSpec => []OneActiveConclusion
<1>1. RaceInv => OneActiveConclusion
  BY AtMostOneCounted DEF RaceInv, PaperInv, OneActiveConclusion
<1> QED BY <1>1, RaceInvariant, PTL

(* Whatever was pulled, entered or reset while an approval was on its way,  *)
(* the working paper it files ties on the figures its gates looked at.      *)
THEOREM PapersTieInRace == RaceSpec => []ConclusionTies
<1>1. RaceInv => ConclusionTies
  BY DEF RaceInv, PaperInv
<1> QED BY <1>1, RaceInvariant, PTL
================================================================================
