--------------------------- MODULE ReconSignoff_proofs ---------------------------
(***************************************************************************)
(* Theorems of ReconSignoff for every set of accounts, months, members and *)
(* amounts, every tolerance and every assignment of roles and kinds.       *)
(***************************************************************************)
EXTENDS ReconSignoff, WellFoundedInduction, TLAPS

--------------------------------------------------------------------------------
(* Operators.                                                               *)

(* A nonempty set of natural numbers has a least element.                   *)
LEMMA LeastNatural ==
  ASSUME NEW T \in SUBSET Nat, T # {}
  PROVE  \E m \in T : \A k \in T : m <= k
<1> DEFINE R == {ss \in Nat \X Nat : ss[1] < ss[2]}
<1>1. PICK m \in T : \A k \in T : ~(<<k, m>> \in R)
  <2>1. IsWellFoundedOn(R, Nat)
    BY NatLessThanWellFounded DEF OpToRel
  <2> HIDE DEF R
  <2> QED BY <2>1, WFMin
<1>2. \A k \in T : ~(k < m)
  BY <1>1
<1> QED BY <1>2

(* The opening comes from the latest earlier month with a saved balance:    *)
(* there is one, because the months before p are bounded by p.              *)
LEMMA LatestExists ==
  ASSUME NEW a \in Accounts, NEW p \in Periods, Saved(a, p) # {}
  PROVE  /\ Latest(Saved(a, p)) \in Saved(a, p)
         /\ \A r \in Saved(a, p) : r <= Latest(Saved(a, p))
<1> DEFINE S == Saved(a, p)
           T == {p - q : q \in S}
<1>1. S \subseteq Int /\ p \in Int /\ \A q \in S : q < p
  BY ConstantsAssumption DEF Saved
<1>2. T \subseteq Nat /\ T # {}
  BY <1>1
<1>3. PICK m \in T : \A k \in T : m <= k
  <2> HIDE DEF T
  <2> QED BY <1>2, LeastNatural
<1>4. PICK q \in S : m = p - q
  OBVIOUS
<1>5. \A r \in S : r <= q
  <2> TAKE r \in S
  <2>1. p - q <= p - r
    BY <1>3, <1>4
  <2> QED BY <2>1, <1>1, <1>4
<1> QED BY <1>4, <1>5 DEF Latest

(* A figure shown on the dashboard is an amount or missing, and so is what  *)
(* the freeze saves.                                                        *)
LEMMA OpeningType ==
  ASSUME TypeOK, NEW a \in Accounts, NEW p \in Periods
  PROVE  Opening(a, p) \in MaybeAmount
<1>1. CASE Saved(a, p) = {}
  BY <1>1 DEF Opening, MaybeAmount
<1>2. CASE Saved(a, p) # {}
  <2>1. Latest(Saved(a, p)) \in Periods
    BY <1>2, LatestExists DEF Saved
  <2>2. rows[a][Latest(Saved(a, p))] \in Row
    BY <2>1 DEF TypeOK
  <2> QED BY <1>2, <2>2 DEF Opening, Row
<1> QED BY <1>1, <1>2

LEMMA FreezeType ==
  ASSUME TypeOK, NEW a \in Accounts, NEW p \in Periods
  PROVE  FreezeValue(a, p) \in MaybeAmount
BY OpeningType DEF FreezeValue, TypeOK

LEMMA ShownType ==
  ASSUME TypeOK, NEW a \in Accounts, NEW p \in Periods
  PROVE  Shown(a, p) \in MaybeAmount
<1>1. rows[a][p] \in Row /\ gl[a][p] \in MaybeAmount /\ ext[a][p] \in MaybeAmount
  BY DEF TypeOK
<1> QED BY <1>1, OpeningType DEF Shown, ShownWith, DefaultSub, Row

(* A synced account shows an amount.                                        *)
LEMMA ShownIsAmount ==
  ASSUME TypeOK, NEW a \in Accounts, NEW p \in Periods, gl[a][p] # None
  PROVE  Shown(a, p) \in Amounts
<1>1. rows[a][p] \in Row /\ gl[a][p] \in MaybeAmount /\ ext[a][p] \in MaybeAmount
  BY DEF TypeOK
<1>2. Shown(a, p) # None
  BY <1>1 DEF Shown, ShownWith, DefaultSub
<1> QED BY <1>2, ShownType DEF MaybeAmount

(* An amount is near itself.                                                *)
LEMMA NearSelf ==
  ASSUME NEW x \in Amounts
  PROVE  Near(x, x)
BY ConstantsAssumption DEF Near

(* Writing some rows, or some sets of conclusions, of one month.            *)
LEMMA WithRowsAt ==
  ASSUME TypeOK, NEW p \in Periods, NEW new, NEW a \in Accounts, NEW q \in Periods
  PROVE  WithRows(p, new)[a][q] =
           IF a \in DOMAIN new /\ q = p THEN new[a] ELSE rows[a][q]
BY DEF WithRows, TypeOK

LEMMA WithRowsType ==
  ASSUME TypeOK, NEW p \in Periods, NEW new,
         \A a \in Accounts : a \in DOMAIN new => new[a] \in Row
  PROVE  WithRows(p, new) \in [Accounts -> [Periods -> Row]]
BY DEF WithRows, TypeOK

LEMMA WithConclusionsAt ==
  ASSUME TypeOK, NEW p \in Periods, NEW new, NEW a \in Accounts, NEW q \in Periods
  PROVE  WithConclusions(p, new)[a][q] =
           IF a \in DOMAIN new /\ q = p THEN new[a] ELSE active[a][q]
BY DEF WithConclusions, TypeOK

LEMMA WithConclusionsType ==
  ASSUME TypeOK, NEW p \in Periods, NEW new,
         \A a \in Accounts : a \in DOMAIN new => new[a] \subseteq Conclusion
  PROVE  WithConclusions(p, new) \in [Accounts -> [Periods -> SUBSET Conclusion]]
BY DEF WithConclusions, TypeOK

LEMMA RetiredType ==
  ASSUME TypeOK, NEW p \in Periods, NEW S
  PROVE  Retired(S, p) \in [Accounts -> [Periods -> SUBSET Conclusion]]
BY WithConclusionsType DEF Retired

(* The edits of a row.                                                      *)
LEMMA RowEdits ==
  ASSUME NEW r \in Row, NEW v \in MaybeAmount, NEW u \in Users, NEW b \in BOOLEAN,
         NEW s \in Requested
  PROVE  /\ Frozen(r, v, u) \in Row
         /\ Restarted(r) \in Row
         /\ Cleared(r) \in Row
         /\ Reflagged(r) \in Row
         /\ Signed(r, v, u) \in Row
         /\ [r EXCEPT !.status = s] \in Row
         /\ [r EXCEPT !.status = s, !.appr = None] \in Row
         /\ AgentPrepared(u, r, v, b) \in Row
         /\ AgentAnalyzed(r, b) \in Row
         /\ Frozen(Restarted(r), v, u) \in Row
         /\ Frozen([r EXCEPT !.status = IF Exists(r) THEN @ ELSE "pending"], v, u) \in Row
<1> USE DEF Row, Statuses
<1>1. Frozen(r, v, u) \in Row
  BY DEF Frozen, MaybeUser, MaybeAmount
<1>2. Restarted(r) \in Row /\ Cleared(r) \in Row /\ Reflagged(r) \in Row
  BY DEF Restarted, Cleared, Reflagged, MaybeUser, MaybeAmount
<1>3. Signed(r, v, u) \in Row
  BY DEF Signed, MaybeUser
<1>4. /\ [r EXCEPT !.status = s] \in Row
      /\ [r EXCEPT !.status = s, !.appr = None] \in Row
  BY DEF Requested, MaybeUser
<1>5. AgentPrepared(u, r, v, b) \in Row
  BY <1>1 DEF AgentPrepared
<1>6. AgentAnalyzed(r, b) \in Row
  BY DEF AgentAnalyzed
<1>7. Frozen(Restarted(r), v, u) \in Row
  BY <1>2 DEF Frozen, MaybeUser, MaybeAmount
<1>8. Frozen([r EXCEPT !.status = IF Exists(r) THEN @ ELSE "pending"], v, u) \in Row
  BY DEF Frozen, MaybeUser, MaybeAmount
<1> QED BY <1>1, <1>2, <1>3, <1>4, <1>5, <1>6, <1>7, <1>8

--------------------------------------------------------------------------------
(* Type correctness.                                                        *)

LEMMA RowsAreRows ==
  ASSUME TypeOK, NEW a \in Accounts, NEW p \in Periods
  PROVE  rows[a][p] \in Row
BY DEF TypeOK

(* An approval writes rows and papers of the right shape: the gate saw a    *)
(* synced account, so the paper has a ledger balance.                       *)
LEMMA ApproveType ==
  ASSUME TypeOK, NEW u \in Users, NEW p \in Periods, NEW S \in SUBSET Accounts,
         \A a \in S : MayApprove(u, a, p), Approve(u, S, p)
  PROVE  /\ rows' \in [Accounts -> [Periods -> Row]]
         /\ active' \in [Accounts -> [Periods -> SUBSET Conclusion]]
<1>1. ASSUME NEW a \in S
      PROVE  SignedRow(u, a, p) \in Row /\ ConclusionOf(u, a, p) \in Conclusion
  <2>1. SignedRow(u, a, p) \in Row
    BY RowsAreRows, ShownType, RowEdits DEF SignedRow, Requested
  <2>2. gl[a][p] \in Amounts
    BY <1>1 DEF MayApprove, TiesOut, Synced, TypeOK, MaybeAmount
  <2> QED BY <2>1, <2>2 DEF ConclusionOf, Conclusion, Row
<1>2. rows' \in [Accounts -> [Periods -> Row]]
  BY <1>1, WithRowsType DEF Approve
<1>3. PICK kept \in SUBSET S :
        active' = WithConclusions(p,
                    [a \in S |-> IF a \in kept THEN {ConclusionOf(u, a, p)} ELSE {}])
  BY DEF Approve
<1>4. active' \in [Accounts -> [Periods -> SUBSET Conclusion]]
  BY <1>1, <1>3, WithConclusionsType
<1> QED BY <1>2, <1>4

LEMMA SetStatusType ==
  ASSUME TypeOK, NEW u \in Users, NEW a \in Accounts, NEW p \in Periods,
         NEW s \in Requested, SetStatus(u, a, p, s)
  PROVE  TypeOK'
<1>1. CASE s = "approved" /\ MayApprove(u, a, p) /\ Approve(u, {a}, p)
  <2> DEFINE S == {a}
  <2>1. S \in SUBSET Accounts /\ (\A b \in S : MayApprove(u, b, p)) /\ Approve(u, S, p)
    BY <1>1
  <2> HIDE DEF S
  <2>2. /\ rows' \in [Accounts -> [Periods -> Row]]
        /\ active' \in [Accounts -> [Periods -> SUBSET Conclusion]]
    BY <2>1, ApproveType
  <2> QED BY <2>2 DEF SetStatus, TypeOK
<1>2. CASE /\ s \in {"reviewed", "flagged"}
           /\ rows' = WithRows(p, [b \in {a} |-> [rows[a][p] EXCEPT !.status = s]])
           /\ active' = IF Approved(rows[a][p]) THEN Retired({a}, p) ELSE active
  <2>1. rows' \in [Accounts -> [Periods -> Row]]
    BY <1>2, RowsAreRows, WithRowsType DEF Row, Statuses
  <2>2. active' \in [Accounts -> [Periods -> SUBSET Conclusion]]
    BY <1>2, RetiredType DEF TypeOK
  <2> QED BY <2>1, <2>2 DEF SetStatus, TypeOK
<1>3. CASE /\ s = "pending"
           /\ \/ rows' = WithRows(p, [b \in {a} |->
                            Frozen(Restarted(rows[a][p]), FreezeValue(a, p), u)])
              \/ rows' = WithRows(p, [b \in {a} |->
                            [rows[a][p] EXCEPT !.status = s, !.appr = None]])
           /\ active' = IF Approved(rows[a][p]) THEN Retired({a}, p) ELSE active
  <2>1. /\ Frozen(Restarted(rows[a][p]), FreezeValue(a, p), u) \in Row
        /\ [rows[a][p] EXCEPT !.status = s, !.appr = None] \in Row
    BY RowsAreRows, FreezeType, RowEdits
  <2>2. rows' \in [Accounts -> [Periods -> Row]]
    BY <1>3, <2>1, WithRowsType
  <2>3. active' \in [Accounts -> [Periods -> SUBSET Conclusion]]
    BY <1>3, RetiredType DEF TypeOK
  <2> QED BY <2>2, <2>3 DEF SetStatus, TypeOK
<1> QED BY <1>1, <1>2, <1>3 DEF SetStatus

LEMMA BulkStatusType ==
  ASSUME TypeOK, NEW u \in Users, NEW S \in SUBSET Accounts, NEW p \in Periods,
         NEW s \in Requested, BulkStatus(u, S, p, s)
  PROVE  TypeOK'
<1>1. CASE s = "approved" /\ Approve(u, {a \in S : MayApprove(u, a, p)}, p)
  <2> DEFINE R == {a \in S : MayApprove(u, a, p)}
  <2>1. R \in SUBSET Accounts /\ (\A b \in R : MayApprove(u, b, p)) /\ Approve(u, R, p)
    BY <1>1
  <2> HIDE DEF R
  <2>2. /\ rows' \in [Accounts -> [Periods -> Row]]
        /\ active' \in [Accounts -> [Periods -> SUBSET Conclusion]]
    BY <2>1, ApproveType
  <2> QED BY <2>2 DEF BulkStatus, TypeOK
<1>2. CASE /\ s # "approved"
           /\ rows' = WithRows(p, [a \in S |->
                        IF s = "pending" THEN Restarted(rows[a][p])
                                         ELSE [rows[a][p] EXCEPT !.status = s]])
           /\ active' = Retired(S \cap ApprovedIn(p), p)
  <2>1. \A a \in S : Restarted(rows[a][p]) \in Row /\ [rows[a][p] EXCEPT !.status = s] \in Row
    BY RowsAreRows DEF Restarted, Row, Statuses, Requested, MaybeAmount, MaybeUser
  <2>2. rows' \in [Accounts -> [Periods -> Row]]
    BY <1>2, <2>1, WithRowsType
  <2>3. active' \in [Accounts -> [Periods -> SUBSET Conclusion]]
    BY <1>2, RetiredType
  <2> QED BY <2>2, <2>3 DEF BulkStatus, TypeOK
<1> QED BY <1>1, <1>2 DEF BulkStatus

LEMMA SetSubledgerType ==
  ASSUME TypeOK, NEW u \in Users, NEW a \in Accounts, NEW p \in Periods,
         NEW v \in MaybeAmount, SetSubledger(u, a, p, v)
  PROVE  TypeOK'
<1>1. Frozen([rows[a][p] EXCEPT !.status = IF Exists(rows[a][p]) THEN @ ELSE "pending"], v, u)
        \in Row
  BY RowsAreRows, RowEdits DEF Requested
<1>2. rows' \in [Accounts -> [Periods -> Row]]
  BY <1>1, WithRowsType DEF SetSubledger
<1> QED BY <1>2 DEF SetSubledger, TypeOK

LEMMA AgentPrepareType ==
  ASSUME TypeOK, NEW u \in Users, NEW a \in Accounts, NEW p \in Periods,
         AgentPrepare(u, a, p)
  PROVE  TypeOK'
<1>1. PICK x \in Amounts, commented \in BOOLEAN :
        rows' = WithRows(p, [b \in {a} |->
          IF AgentTies(a, p, x) THEN AgentPrepared(u, rows[a][p], x, commented)
                                ELSE AgentAnalyzed(rows[a][p], commented)])
  BY DEF AgentPrepare
<1>2. /\ AgentPrepared(u, rows[a][p], x, commented) \in Row
      /\ AgentAnalyzed(rows[a][p], commented) \in Row
  BY RowsAreRows, RowEdits DEF Requested, MaybeAmount
<1>3. rows' \in [Accounts -> [Periods -> Row]]
  BY <1>1, <1>2, WithRowsType
<1> QED BY <1>3 DEF AgentPrepare, TypeOK

LEMMA ResetAgenticType ==
  ASSUME TypeOK, NEW p \in Periods, ResetAgentic(p)
  PROVE  TypeOK'
<1>1. \A a \in Accounts : Cleared(rows[a][p]) \in Row
  BY RowsAreRows DEF Cleared, Restarted, Row, Statuses, MaybeAmount, MaybeUser
<1>2. rows' \in [Accounts -> [Periods -> Row]]
  BY <1>1, WithRowsType DEF ResetAgentic
<1> QED BY <1>2 DEF ResetAgentic, TypeOK

(* What a pull stores, and the approvals it sends back to review.           *)
LEMMA StoreType ==
  ASSUME TypeOK, NEW p \in Periods, NEW g \in [Accounts -> MaybeAmount],
         NEW x \in [Aging -> Amounts], NEW t \in {"ok", "off"}, Store(p, g, x, t)
  PROVE  /\ gl' \in [Accounts -> [Periods -> MaybeAmount]]
         /\ ext' \in [Accounts -> [Periods -> MaybeAmount]]
         /\ tb' \in [Periods -> {"none", "ok", "off"}]
<1>1. gl' \in [Accounts -> [Periods -> MaybeAmount]]
  BY DEF Store, TypeOK
<1>2. ext' \in [Accounts -> [Periods -> MaybeAmount]]
  BY DEF Store, TypeOK, MaybeAmount
<1>3. tb' \in [Periods -> {"none", "ok", "off"}]
  BY DEF Store, TypeOK
<1> QED BY <1>1, <1>2, <1>3

LEMMA ReflagType ==
  ASSUME TypeOK, NEW p \in Periods, NEW S, Reflag(S, p)
  PROVE  rows' \in [Accounts -> [Periods -> Row]]
<1> DEFINE new == [a \in S |-> Reflagged(rows[a][p])]
<1>1. \A a \in Accounts : a \in DOMAIN new => new[a] \in Row
  BY RowsAreRows DEF Reflagged, Row, Statuses, MaybeUser
<1>2. rows' = WithRows(p, new)
  BY DEF Reflag
<1> HIDE DEF new
<1> QED BY <1>1, <1>2, WithRowsType

LEMMA PulledOrHeld ==
  ASSUME TypeOK, NEW p \in Periods, NEW s \in [Accounts -> Amounts] \cup {Held(p)}
  PROVE  s \in [Accounts -> MaybeAmount]
BY DEF Held, TypeOK, MaybeAmount

LEMMA SyncStepType ==
  ASSUME TypeOK, NEW p \in Periods, SyncStep(p)
  PROVE  TypeOK'
<1>1. CASE Sync(p)
  <2>1. PICK g \in [Accounts -> Amounts], x \in [Aging -> Amounts], t \in {"ok", "off"} :
          Store(p, g, x, t) /\ Reflag(Stale(p, g, x), p)
    BY <1>1 DEF Sync
  <2>2. g \in [Accounts -> MaybeAmount]
    BY DEF MaybeAmount
  <2>3. /\ gl' \in [Accounts -> [Periods -> MaybeAmount]]
        /\ ext' \in [Accounts -> [Periods -> MaybeAmount]]
        /\ tb' \in [Periods -> {"none", "ok", "off"}]
    BY <2>1, <2>2, StoreType
  <2>4. rows' \in [Accounts -> [Periods -> Row]] /\ UNCHANGED active
    BY <2>1, ReflagType DEF Reflag
  <2> QED BY <1>1, <2>3, <2>4 DEF Sync, TypeOK
<1>2. CASE SyncRepulled(p)
  <2>1. PICK s \in [Accounts -> Amounts] \cup {Held(p)}, g \in [Accounts -> Amounts],
             x \in [Aging -> Amounts], t \in {"ok", "off"} :
          Store(p, s, x, t) /\ Reflag(Stale(p, g, x), p)
    BY <1>2 DEF SyncRepulled
  <2>2. s \in [Accounts -> MaybeAmount]
    BY PulledOrHeld
  <2>3. /\ gl' \in [Accounts -> [Periods -> MaybeAmount]]
        /\ ext' \in [Accounts -> [Periods -> MaybeAmount]]
        /\ tb' \in [Periods -> {"none", "ok", "off"}]
    BY <2>1, <2>2, StoreType
  <2>4. rows' \in [Accounts -> [Periods -> Row]] /\ UNCHANGED active
    BY <2>1, ReflagType DEF Reflag
  <2> QED BY <1>2, <2>3, <2>4 DEF SyncRepulled, TypeOK
<1>3. ASSUME NEW a \in Accounts, SyncOne(a, p)
      PROVE  TypeOK'
  <2> DEFINE S == {a} \cap ApprovedIn(p)
  <2>1. /\ rows' = WithRows(p, [b \in S |-> Reflagged(rows[b][p])])
        /\ active' = Retired(S, p)
        /\ \E v \in Amounts : gl' = [gl EXCEPT ![a][p] = v]
        /\ UNCHANGED <<ext, tb, evidence, fluxed, closed>>
    BY <1>3 DEF SyncOne
  <2>2. \A b \in S : Reflagged(rows[b][p]) \in Row
    BY RowsAreRows DEF Reflagged, Row, Statuses, MaybeUser
  <2>3. rows' \in [Accounts -> [Periods -> Row]]
    BY <2>1, <2>2, WithRowsType
  <2>4. active' \in [Accounts -> [Periods -> SUBSET Conclusion]]
    BY <2>1, RetiredType
  <2>5. gl' \in [Accounts -> [Periods -> MaybeAmount]]
    BY <2>1 DEF TypeOK, MaybeAmount
  <2> QED BY <2>1, <2>3, <2>4, <2>5 DEF TypeOK
<1>4. CASE AutopilotSync(p)
  <2>1. PICK s \in [Accounts -> Amounts] \cup {Held(p)}, x \in [Aging -> Amounts],
             t \in {"ok", "off"} : Store(p, s, x, t)
    BY <1>4 DEF AutopilotSync
  <2>2. s \in [Accounts -> MaybeAmount]
    BY PulledOrHeld
  <2> QED BY <1>4, <2>1, <2>2, StoreType DEF AutopilotSync, TypeOK
<1> QED BY <1>1, <1>2, <1>3, <1>4 DEF SyncStep

LEMMA PaperStepType ==
  ASSUME TypeOK, NEW p \in Periods, PaperStep(p)
  PROVE  TypeOK'
<1>1. ASSUME NEW a \in Accounts, AttachEvidence(a, p) \/ ClientUpload(a, p) \/ RemoveEvidence(a, p)
      PROVE  TypeOK'
  BY <1>1 DEF AttachEvidence, ClientUpload, RemoveEvidence, TypeOK
<1>2. CASE FluxSignOff(p) \/ FluxReopen(p)
  BY <1>2 DEF FluxSignOff, FluxReopen, TypeOK
<1>3. ASSUME NEW S \in SUBSET Accounts, ReopenAfterPosting(S, p)
      PROVE  TypeOK'
  <2> DEFINE worked == {a \in S \cap Existing(p) : rows[a][p].status # "pending"}
  <2>1. rows' = WithRows(p, [a \in worked |-> Cleared(rows[a][p])])
    BY <1>3 DEF ReopenAfterPosting
  <2>2. \A a \in worked : Cleared(rows[a][p]) \in Row
    BY RowsAreRows DEF Cleared, Restarted, Row, Statuses, MaybeAmount, MaybeUser
  <2>3. rows' \in [Accounts -> [Periods -> Row]]
    BY <2>1, <2>2, WithRowsType
  <2> QED BY <1>3, <2>3 DEF ReopenAfterPosting, TypeOK
<1> QED BY <1>1, <1>2, <1>3 DEF PaperStep

LEMMA ScheduleStepType ==
  ASSUME TypeOK, ScheduleStep
  PROVE  TypeOK'
<1>1. PICK a \in Accounts : ScheduleEdit(a) \/ ScheduleImport(a)
  BY DEF ScheduleStep
<1>2. ext' \in [Accounts -> [Periods -> MaybeAmount]]
  BY <1>1 DEF ScheduleEdit, ScheduleImport, TypeOK, MaybeAmount
<1>3. CASE ScheduleEdit(a)
  <2>1. \A p \in Periods : Reflagged(rows[a][p]) \in Row
    BY RowsAreRows DEF Reflagged, Row, Statuses, MaybeUser
  <2>2. rows' \in [Accounts -> [Periods -> Row]]
    BY <1>3, <2>1 DEF ScheduleEdit, TypeOK
  <2> QED BY <1>2, <1>3, <2>2 DEF ScheduleEdit, TypeOK
<1>4. CASE ScheduleImport(a)
  BY <1>2, <1>4 DEF ScheduleImport, TypeOK
<1> QED BY <1>1, <1>3, <1>4

LEMMA LockStepType ==
  ASSUME TypeOK, NEW u \in Users, NEW p \in Periods, LockStep(u, p)
  PROVE  TypeOK'
<1>1. CASE Close(u, p)
  <2>1. \A a \in Accounts : Backfilled(u, a, p) \in Row
    BY RowsAreRows, FreezeType, RowEdits DEF Backfilled, Requested
  <2>2. rows' \in [Accounts -> [Periods -> Row]]
    BY <1>1, <2>1, WithRowsType DEF Close
  <2> QED BY <1>1, <2>2 DEF Close, TypeOK
<1>2. CASE ReopenPeriod(u, p)
  BY <1>2 DEF ReopenPeriod, TypeOK
<1> QED BY <1>1, <1>2 DEF LockStep

LEMMA TypeInit == Init => TypeOK
BY DEF Init, TypeOK, AbsentRow, Row, Statuses, MaybeAmount, MaybeUser

LEMMA TypeStep == TypeOK /\ [Next]_vars => TypeOK'
<1> SUFFICES ASSUME TypeOK, [Next]_vars PROVE TypeOK'
  OBVIOUS
<1>1. ASSUME NEW u \in Users, NEW p \in Periods, RowStep(u, p)
      PROVE  TypeOK'
  BY <1>1, SetStatusType, BulkStatusType, SetSubledgerType, AgentPrepareType,
     ResetAgenticType DEF RowStep
<1>2. CASE UNCHANGED vars
  BY <1>2 DEF vars, TypeOK
<1> QED BY <1>1, <1>2, LockStepType, SyncStepType, PaperStepType, ScheduleStepType DEF Next

(* Type correctness of the rows, snapshots and working papers in every      *)
(* reachable state.                                                         *)
THEOREM TypeCorrect == Spec => []TypeOK
BY TypeInit, TypeStep, PTL DEF Spec

--------------------------------------------------------------------------------
(* The lock.                                                                *)

SameBook(a, p) ==
  /\ rows'[a][p] = rows[a][p]
  /\ gl'[a][p] = gl[a][p]
  /\ active'[a][p] = active[a][p]

LockKept == closed' = closed /\ \A a \in Accounts, q \in closed : SameBook(a, q)

(* No handler but the close and the reopen touches a closed month.          *)
LEMMA RowStepKeepsLock ==
  ASSUME TypeOK, NEW u \in Users, NEW p \in Periods, RowStep(u, p)
  PROVE  LockKept
<1>1. closed \subseteq Periods
  BY DEF TypeOK
<1>2. ASSUME NEW a \in Accounts, NEW s \in Requested, SetStatus(u, a, p, s)
      PROVE  LockKept
  <2>1. p \notin closed /\ UNCHANGED <<gl, evidence, closed>>
    BY <1>2 DEF SetStatus
  <2>2. \E new : rows' = WithRows(p, new)
    BY <1>2 DEF SetStatus, Approve
  <2>3. active' = active \/ \E new : active' = WithConclusions(p, new)
    BY <1>2 DEF SetStatus, Approve, Retired
  <2> QED BY <1>1, <2>1, <2>2, <2>3, WithRowsAt, WithConclusionsAt DEF LockKept, SameBook
<1>3. ASSUME NEW S \in SUBSET Accounts \ {{}}, NEW s \in Requested, BulkStatus(u, S, p, s)
      PROVE  LockKept
  <2>1. p \notin closed /\ UNCHANGED <<gl, evidence, closed>>
    BY <1>3 DEF BulkStatus
  <2>2. \E new : rows' = WithRows(p, new)
    BY <1>3 DEF BulkStatus, Approve
  <2>3. \E new : active' = WithConclusions(p, new)
    BY <1>3 DEF BulkStatus, Approve, Retired
  <2> QED BY <1>1, <2>1, <2>2, <2>3, WithRowsAt, WithConclusionsAt DEF LockKept, SameBook
<1>4. ASSUME NEW a \in Accounts, NEW v \in MaybeAmount, SetSubledger(u, a, p, v)
      PROVE  LockKept
  BY <1>1, <1>4, WithRowsAt DEF SetSubledger, LockKept, SameBook
<1>5. ASSUME NEW a \in Accounts, AgentPrepare(u, a, p)
      PROVE  LockKept
  BY <1>1, <1>5, WithRowsAt DEF AgentPrepare, LockKept, SameBook
<1>6. CASE ResetAgentic(p)
  BY <1>1, <1>6, WithRowsAt DEF ResetAgentic, LockKept, SameBook
<1> QED BY <1>2, <1>3, <1>4, <1>5, <1>6 DEF RowStep

LEMMA SyncStepKeepsLock ==
  ASSUME TypeOK, NEW p \in Periods, SyncStep(p)
  PROVE  LockKept
<1>1. closed \subseteq Periods
  BY DEF TypeOK
<1>2. ASSUME NEW g, NEW x, NEW t, Store(p, g, x, t), NEW a \in Accounts, NEW q \in Periods,
             q # p
      PROVE  gl'[a][q] = gl[a][q]
  BY <1>2 DEF Store, TypeOK
<1>3. ASSUME NEW S, Reflag(S, p), NEW a \in Accounts, NEW q \in Periods, q # p
      PROVE  rows'[a][q] = rows[a][q] /\ active' = active
  BY <1>3, WithRowsAt DEF Reflag
<1>4. CASE Sync(p)
  BY <1>1, <1>2, <1>3, <1>4 DEF Sync, LockKept, SameBook
<1>5. CASE SyncRepulled(p)
  BY <1>1, <1>2, <1>3, <1>5 DEF SyncRepulled, LockKept, SameBook
<1>6. ASSUME NEW b \in Accounts, SyncOne(b, p)
      PROVE  LockKept
  <2> SUFFICES ASSUME NEW a \in Accounts, NEW q \in closed
               PROVE  SameBook(a, q) /\ closed' = closed
    BY <1>6 DEF LockKept, SyncOne
  <2>1. q \in Periods /\ q # p
    BY <1>1, <1>6 DEF SyncOne
  <2>2. rows'[a][q] = rows[a][q] /\ active'[a][q] = active[a][q]
    BY <1>6, <2>1, WithRowsAt, WithConclusionsAt DEF SyncOne, Retired
  <2>3. gl'[a][q] = gl[a][q]
    BY <1>6, <2>1 DEF SyncOne, TypeOK
  <2> QED BY <1>6, <2>2, <2>3 DEF SyncOne, SameBook
<1>7. CASE AutopilotSync(p)
  BY <1>1, <1>2, <1>7 DEF AutopilotSync, LockKept, SameBook
<1> QED BY <1>4, <1>5, <1>6, <1>7 DEF SyncStep

LEMMA OtherStepsKeepLock ==
  ASSUME TypeOK, ScheduleStep \/ \E p \in Periods : PaperStep(p)
  PROVE  LockKept
<1>1. closed \subseteq Periods
  BY DEF TypeOK
<1>2. CASE ScheduleStep
  <2>1. PICK b \in Accounts : ScheduleEdit(b) \/ ScheduleImport(b)
    BY <1>2 DEF ScheduleStep
  <2>2. \A a \in Accounts, q \in closed : rows'[a][q] = rows[a][q]
    BY <1>1, <2>1 DEF ScheduleEdit, ScheduleImport, TypeOK
  <2> QED BY <2>1, <2>2 DEF ScheduleEdit, ScheduleImport, LockKept, SameBook
<1>3. ASSUME NEW p \in Periods, PaperStep(p)
      PROVE  LockKept
  <2>1. ASSUME NEW b \in Accounts,
               AttachEvidence(b, p) \/ ClientUpload(b, p) \/ RemoveEvidence(b, p)
        PROVE  LockKept
    BY <2>1 DEF AttachEvidence, ClientUpload, RemoveEvidence, LockKept, SameBook
  <2>2. CASE FluxSignOff(p) \/ FluxReopen(p)
    BY <2>2 DEF FluxSignOff, FluxReopen, LockKept, SameBook
  <2>3. ASSUME NEW S \in SUBSET Accounts, ReopenAfterPosting(S, p)
        PROVE  LockKept
    BY <1>1, <2>3, WithRowsAt DEF ReopenAfterPosting, LockKept, SameBook
  <2> QED BY <1>3, <2>1, <2>2, <2>3 DEF PaperStep
<1> QED BY <1>2, <1>3

LEMMA OnlyLockStepsTouchClosed ==
  ASSUME TypeOK, Next, ~\E u \in Users, p \in Periods : LockStep(u, p)
  PROVE  LockKept
BY RowStepKeepsLock, SyncStepKeepsLock, OtherStepsKeepLock DEF Next

(* What an approval gate that let an account through says of its figures.   *)
LEMMA TiesOutFigures ==
  ASSUME TypeOK, NEW a \in Accounts, NEW p \in Periods, TiesOut(a, p)
  PROVE  gl[a][p] \in Amounts /\ Shown(a, p) \in Amounts /\ Near(gl[a][p], Shown(a, p))
<1>1. gl[a][p] \in Amounts
  BY DEF TiesOut, Synced, TypeOK, MaybeAmount
<1>2. gl[a][p] # None
  BY DEF TiesOut, Synced
<1> QED BY <1>1, <1>2, ShownIsAmount DEF TiesOut

(* The backfill of a row that passed the gate: a stored balance is what the *)
(* gate compared, and a missing one becomes the opening, which the gate     *)
(* compared too, or the ledger balance itself.                              *)
LEMMA BackfillSettles ==
  ASSUME TypeOK, NEW u \in Users, NEW a \in Accounts, NEW p \in Periods,
         Approved(rows[a][p]), TiesOut(a, p)
  PROVE  /\ Approved(Backfilled(u, a, p))
         /\ Backfilled(u, a, p).sub # None
         /\ gl[a][p] # None
         /\ Near(gl[a][p], Backfilled(u, a, p).sub)
<1>1. rows[a][p] \in Row
  BY RowsAreRows
<1>2. gl[a][p] \in Amounts /\ Near(gl[a][p], Shown(a, p)) /\ gl[a][p] # None
  BY TiesOutFigures DEF TiesOut, Synced
<1>3. CASE rows[a][p].sub # None
  <2>1. Shown(a, p) = rows[a][p].sub
    BY <1>3 DEF Shown, ShownWith
  <2> QED BY <1>2, <1>3, <2>1 DEF Backfilled
<1>4. CASE rows[a][p].sub = None
  <2>1. Backfilled(u, a, p) = Frozen(rows[a][p], FreezeValue(a, p), u)
    BY <1>4 DEF Backfilled
  <2>2. /\ Approved(Backfilled(u, a, p))
        /\ Backfilled(u, a, p).sub = FreezeValue(a, p)
    BY <1>1, <2>1 DEF Frozen, Approved, Row
  <2>3. CASE Opening(a, p) # None
    <3>1. Shown(a, p) = Opening(a, p)
      BY <1>4, <2>3 DEF Shown, ShownWith
    <3> QED BY <1>2, <2>2, <2>3, <3>1 DEF FreezeValue
  <2>4. CASE Opening(a, p) = None
    BY <1>2, <2>2, <2>4, NearSelf DEF FreezeValue
  <2> QED BY <2>3, <2>4
<1> QED BY <1>3, <1>4

LEMMA CloseSettles ==
  ASSUME TypeOK, NEW u \in Users, NEW p \in Periods, Close(u, p)
  PROVE  /\ Existing(p)' # {}
         /\ \A a \in Existing(p)' : RowSettled(a, p)'
<1>1. ASSUME NEW a \in Existing(p)
      PROVE  a \in Accounts /\ Exists(rows'[a][p]) /\ RowSettled(a, p)'
  <2>1. a \in Accounts /\ Approved(rows[a][p]) /\ TiesOut(a, p)
    BY DEF Close, CloseGate, Existing, ApprovedIn
  <2>2. rows'[a][p] = Backfilled(u, a, p)
    BY <2>1, WithRowsAt DEF Close
  <2>3. gl' = gl
    BY DEF Close
  <2> QED BY <2>1, <2>2, <2>3, BackfillSettles DEF RowSettled, Exists, Approved
<1>2. \A a \in Accounts \ Existing(p) : rows'[a][p] = rows[a][p]
  BY WithRowsAt DEF Close
<1>3. Existing(p)' = Existing(p)
  BY <1>1, <1>2 DEF Existing
<1>4. Existing(p) # {}
  BY DEF Close, CloseGate
<1> QED BY <1>1, <1>3, <1>4

LEMMA CloseKeepsOthers ==
  ASSUME TypeOK, NEW u \in Users, NEW p \in Periods, LockStep(u, p),
         NEW a \in Accounts, NEW q \in Periods, q # p
  PROVE  SameBook(a, q)
BY WithRowsAt DEF LockStep, Close, ReopenPeriod, SameBook

LEMMA SameBookSettled ==
  ASSUME NEW a \in Accounts, NEW q \in Periods, SameBook(a, q)
  PROVE  /\ Exists(rows'[a][q]) <=> Exists(rows[a][q])
         /\ RowSettled(a, q) => RowSettled(a, q)'
BY DEF SameBook, RowSettled

LEMMA ClosedStep == TypeOK /\ ClosedBooksTie /\ [Next]_vars => ClosedBooksTie'
<1> SUFFICES ASSUME TypeOK, ClosedBooksTie, [Next]_vars, NEW q \in closed'
             PROVE  (Existing(q) # {} /\ \A a \in Existing(q) : RowSettled(a, q))'
  BY DEF ClosedBooksTie
<1>1. closed \subseteq Periods
  BY DEF TypeOK
<1>2. ASSUME q \in closed, \A a \in Accounts : SameBook(a, q)
      PROVE  (Existing(q) # {} /\ \A a \in Existing(q) : RowSettled(a, q))'
  <2>1. Existing(q)' = Existing(q)
    BY <1>1, <1>2, SameBookSettled DEF Existing
  <2>2. \A a \in Existing(q) : RowSettled(a, q)'
    BY <1>1, <1>2, SameBookSettled DEF ClosedBooksTie, Existing
  <2>3. Existing(q) # {}
    BY <1>2 DEF ClosedBooksTie
  <2> QED BY <2>1, <2>2, <2>3
<1>3. ASSUME NEW u \in Users, NEW p \in Periods, LockStep(u, p)
      PROVE  (Existing(q) # {} /\ \A a \in Existing(q) : RowSettled(a, q))'
  <2>1. CASE Close(u, p) /\ q = p
    BY <2>1, CloseSettles
  <2>2. CASE Close(u, p) /\ q # p
    <3>1. q \in closed /\ q \in Periods
      BY <1>1, <2>2 DEF Close
    <3> QED BY <1>2, <1>3, <2>2, <3>1, CloseKeepsOthers
  <2>3. CASE ReopenPeriod(u, p)
    <3>1. q \in closed
      BY <2>3 DEF ReopenPeriod
    <3>2. \A a \in Accounts : SameBook(a, q)
      BY <2>3 DEF ReopenPeriod, SameBook
    <3> QED BY <1>2, <3>1, <3>2
  <2> QED BY <1>3, <2>1, <2>2, <2>3 DEF LockStep
<1>4. CASE UNCHANGED vars
  BY <1>2, <1>4 DEF vars, SameBook
<1>5. CASE LockKept
  BY <1>2, <1>5 DEF LockKept
<1> QED BY <1>3, <1>4, <1>5, OnlyLockStepsTouchClosed

(* Close => every account ties: in every reachable state a closed month has *)
(* rows, all approved, each with a saved balance within tolerance of the    *)
(* ledger balance of the last pull.                                         *)
THEOREM ClosedTies == Spec => []ClosedBooksTie
<1>1. Init => ClosedBooksTie
  BY DEF Init, ClosedBooksTie
<1> QED BY <1>1, TypeCorrect, ClosedStep, PTL DEF Spec

(* Roll-forward: the month after a closed one opens from the balance the    *)
(* closed one was settled at.                                               *)
LEMMA RollForwardOfTies == TypeOK /\ ClosedBooksTie => RollForwardFromClose
<1> SUFFICES ASSUME TypeOK, ClosedBooksTie, NEW q \in closed, NEW p \in Periods, q < p,
                    \A r \in Periods : ~(q < r /\ r < p), NEW a \in Existing(q)
             PROVE  Opening(a, p) = rows[a][q].sub /\ Near(gl[a][q], Opening(a, p))
  BY DEF RollForwardFromClose
<1>1. q \in Periods /\ a \in Accounts
  BY DEF TypeOK, Existing
<1>2. rows[a][q].sub # None /\ Near(gl[a][q], rows[a][q].sub)
  BY DEF ClosedBooksTie, RowSettled
<1>3. q \in Saved(a, p)
  BY <1>1, <1>2 DEF Saved
<1>4. Latest(Saved(a, p)) = q
  <2> DEFINE l == Latest(Saved(a, p))
  <2>1. l \in Periods /\ l < p /\ q <= l
    BY <1>1, <1>3, LatestExists DEF Saved
  <2>2. ~(q < l)
    BY <2>1
  <2> HIDE DEF l
  <2>3. q \in Int /\ l \in Int
    BY <1>1, <2>1, ConstantsAssumption
  <2>4. q = l
    BY <2>1, <2>2, <2>3
  <2> QED BY <2>4 DEF l
<1> QED BY <1>2, <1>3, <1>4 DEF Opening

(* The opening of a month is what the month before it was closed with.      *)
THEOREM RollsForward == Spec => []RollForwardFromClose
BY TypeCorrect, ClosedTies, RollForwardOfTies, PTL

--------------------------------------------------------------------------------
(* The reconciliation handlers implement BooksLock: initial states map to  *)
(* initial states, the close and the reopen to Close and Reopen, and every *)
(* other handler to Work in open periods.                                  *)
AllBooks == [p \in Periods |-> Book(p)]

LEMMA BooksType ==
  TypeOK => AllBooks \in [Periods -> [Accounts -> AccountBook]]
<1> SUFFICES ASSUME TypeOK, NEW p \in Periods, NEW a \in Accounts
             PROVE  [row |-> rows[a][p], gl |-> gl[a][p], active |-> active[a][p]]
                    \in AccountBook
  BY DEF AllBooks, Book
<1>1. /\ rows[a][p] \in Row
      /\ gl[a][p] \in MaybeAmount
      /\ active[a][p] \in SUBSET Conclusion
  BY DEF TypeOK
<1> QED BY <1>1 DEF AccountBook

LEMMA SameBookSame ==
  ASSUME NEW q \in Periods, \A a \in Accounts : SameBook(a, q)
  PROVE  AllBooks'[q] = AllBooks[q]
<1>1. \A a \in Accounts :
        /\ rows'[a][q] = rows[a][q] /\ gl'[a][q] = gl[a][q]
        /\ active'[a][q] = active[a][q]
  BY DEF SameBook
<1>2. Book(q)' = Book(q)
  BY <1>1 DEF Book
<1> QED BY <1>2 DEF AllBooks

LEMMA BooksTypeNext == TypeOK' => AllBooks' \in [Periods -> [Accounts -> AccountBook]]
<1>1. (TypeOK => AllBooks \in [Periods -> [Accounts -> AccountBook]])'
  BY BooksType, PTL
<1> QED BY <1>1

LEMMA CloseRefines ==
  ASSUME TypeOK, TypeOK', NEW u \in Users, NEW p \in Periods, Close(u, p)
  PROVE  Lock!Close(p)
<1>1. AllBooks' \in [Periods -> [Accounts -> AccountBook]]
  BY BooksTypeNext
<1>2. \A q \in Periods \ {p} : AllBooks'[q] = AllBooks[q]
  BY CloseKeepsOthers, SameBookSame DEF LockStep
<1>3. AllBooks'[p] \in SettledBooks
  <2>1. AllBooks'[p] \in [Accounts -> AccountBook]
    BY <1>1
  <2>2. \A a \in Accounts : /\ AllBooks'[p][a].row = rows'[a][p]
                            /\ AllBooks'[p][a].gl = gl'[a][p]
    BY DEF AllBooks, Book
  <2>3. \E a \in Accounts : Exists(rows'[a][p])
    BY CloseSettles DEF Existing
  <2>4. \A a \in Accounts : Exists(rows'[a][p]) => RowSettled(a, p)'
    BY CloseSettles DEF Existing
  <2> QED BY <2>1, <2>2, <2>3, <2>4 DEF SettledBooks, RowSettled
<1>4. p \notin closed /\ closed' = closed \cup {p}
  BY DEF Close, CloseGate
<1> QED BY <1>1, <1>2, <1>3, <1>4 DEF Lock!Close, AllBooks

LEMMA ReopenRefines ==
  ASSUME NEW u \in Users, NEW p \in Periods, ReopenPeriod(u, p)
  PROVE  Lock!Reopen(p)
<1>1. AllBooks' = AllBooks
  BY DEF ReopenPeriod, AllBooks, Book
<1> QED BY <1>1 DEF ReopenPeriod, Lock!Reopen, AllBooks

LEMMA WorkRefines ==
  ASSUME TypeOK, TypeOK', LockKept
  PROVE  Lock!Work
<1>1. AllBooks' \in [Periods -> [Accounts -> AccountBook]]
  BY BooksTypeNext
<1>2. \A q \in closed : AllBooks'[q] = AllBooks[q]
  BY SameBookSame DEF LockKept, TypeOK
<1> QED BY <1>1, <1>2 DEF Lock!Work, LockKept, AllBooks

(* The handlers implement the lock: a month is closed over settled books    *)
(* only, and from then until it is reopened nothing in them moves.          *)
THEOREM HandlersKeepTheLock == Spec => LockSpec
<1>1. Init => Lock!Init
  BY TypeInit, BooksType DEF Init, Lock!Init, AllBooks
<1>2. TypeOK /\ TypeOK' /\ [Next]_vars => [Lock!Next]_(Lock!vars)
  <2> SUFFICES ASSUME TypeOK, TypeOK', [Next]_vars
               PROVE  [Lock!Next]_(Lock!vars)
    OBVIOUS
  <2>1. ASSUME NEW u \in Users, NEW p \in Periods, LockStep(u, p)
        PROVE  [Lock!Next]_(Lock!vars)
    BY <2>1, CloseRefines, ReopenRefines DEF LockStep, Lock!Next
  <2>2. CASE LockKept
    BY <2>2, WorkRefines DEF Lock!Next
  <2>3. CASE UNCHANGED vars
    <3>1. AllBooks' = AllBooks
      BY <2>3 DEF vars, AllBooks, Book
    <3> QED BY <2>3, <3>1 DEF vars, Lock!vars, AllBooks
  <2> QED BY <2>1, <2>2, <2>3, OnlyLockStepsTouchClosed
<1> QED BY <1>1, <1>2, TypeCorrect, PTL DEF Spec, LockSpec, Lock!Spec
================================================================================
