------------------------------ MODULE ReconSignoff ------------------------------
(***************************************************************************)
(* Reconciliation sign-off and the month-end close, with every request     *)
(* handled by itself from its first read to its commit.  ReconRace splits  *)
(* the same handlers at their awaits and lets them overlap.                *)
(*                                                                         *)
(* One row of account_review_status per account and period carries the     *)
(* workflow state; gl_balance_snapshots holds the balance last pulled from *)
(* QuickBooks; period_sync says whether the trial balance tied; a row in   *)
(* closed_periods locks a month; recon_conclusion keeps the frozen working *)
(* paper of each approval.                                                 *)
(*                                                                         *)
(* Amounts are integers.  The unit is arbitrary: what matters is whether   *)
(* two amounts lie within RECON_TOLERANCE (Tol) of each other.  Stamps no  *)
(* decision reads (prepared_by, reviewed_by, dates, notes, labels) and the *)
(* reconciling items, whose only effect is the saved total, are left out.  *)
(* An "aging" account is the workspace's only receivables, or its only     *)
(* payables, account: its share of the aging report is all of it.          *)
(***************************************************************************)
EXTENDS Integers, FiniteSets

CONSTANTS
  Accounts,       (* balance-sheet accounts                                 *)
  Periods,        (* month ends since books_start, as consecutive numbers   *)
  Users,          (* members of the workspace                               *)
  Amounts,        (* the amounts QuickBooks, schedules and people come with *)
  Tol,            (* RECON_TOLERANCE                                        *)
  Role,           (* Role[u]: "preparer", "reviewer" or "admin"             *)
  Lockers,        (* members with the period_lock capability                *)
  Kind,           (* Kind[a]: what the subledger of a is                    *)
  None            (* SQL NULL                                               *)

Roles == {"preparer", "reviewer", "admin"}
Kinds == {"plain", "aging", "schedule", "bank"}
Statuses == {"absent", "pending", "reviewed", "approved", "flagged"}

ASSUME ConstantsAssumption ==
  /\ Periods \subseteq Int
  /\ Amounts \subseteq Int
  /\ 0 \in Amounts
  /\ Tol \in Nat
  /\ Role \in [Users -> Roles]
  /\ Lockers \subseteq Users
  /\ Kind \in [Accounts -> Kinds]
  /\ None \notin Int
  /\ None \notin Users

VARIABLES
  rows,           (* rows[a][p]: the account_review_status row              *)
  gl,             (* gl[a][p]: the snapshot balance, None before a sync     *)
  ext,            (* ext[a][p]: aging share at the sync, or live schedule   *)
  tb,             (* tb[p]: period_sync - "none", "ok" or "off" (tb_balanced) *)
  evidence,       (* <<a, p>> with a bank statement or a file attached      *)
  fluxed,         (* periods with flux analyses, all of them approved       *)
  closed,         (* periods with a closed_periods row                      *)
  active          (* active[a][p]: the conclusions with status 'active'     *)

vars == <<rows, gl, ext, tb, evidence, fluxed, closed, active>>

MaybeAmount == Amounts \cup {None}
MaybeUser == Users \cup {None}

Row == [status : Statuses, sub : MaybeAmount, by : MaybeUser,
        appr : MaybeUser, ai : BOOLEAN]

Conclusion == [gl : Amounts, sub : MaybeAmount, by : Users]

AbsentRow == [status |-> "absent", sub |-> None, by |-> None,
              appr |-> None, ai |-> FALSE]

Exists(r) == r.status # "absent"
Approved(r) == r.status = "approved"
IsReviewer(u) == Role[u] \in {"reviewer", "admin"}
IsAdmin(u) == Role[u] = "admin"

Near(x, y) == x - y <= Tol /\ y - x <= Tol

--------------------------------------------------------------------------------
(* What the dashboard shows.                                                *)

(* Defect: the row's own month counts as an earlier one.                    *)
SavedUpTo(a, p) == {q \in Periods : q <= p /\ rows[a][q].sub # None}

(* The earlier periods whose row has a saved subledger, and the latest one: *)
(* where the roll-forward opening comes from.                               *)
Saved(a, p) == {q \in Periods : q < p /\ rows[a][q].sub # None}

Latest(S) == CHOOSE q \in S : \A r \in S : r <= q

Opening(a, p) ==
  IF Saved(a, p) = {} THEN None ELSE rows[a][Latest(Saved(a, p))].sub

(* With nothing saved and nothing to roll from: receivables and payables    *)
(* show their aging share, everything else matches the ledger.              *)
DefaultSub(a, g, x) == IF Kind[a] = "aging" /\ x # None THEN x ELSE g

(* The subledger balance shown for a, given the ledger and aging figures in *)
(* hand.  A schedule is read live until the account is approved.            *)
ShownWith(a, p, g, x) ==
  LET r == rows[a][p] IN
  IF Kind[a] = "schedule" /\ x # None /\ ~Approved(r) THEN x
  ELSE IF r.sub # None THEN r.sub
  ELSE IF Opening(a, p) # None THEN Opening(a, p)
  ELSE DefaultSub(a, g, x)

Shown(a, p) == ShownWith(a, p, gl[a][p], ext[a][p])

Synced(a, p) == tb[p] # "none" /\ gl[a][p] # None

(* _unreconciled_accounts has nothing to say about a.                       *)
TiesOut(a, p) == Synced(a, p) /\ Near(gl[a][p], Shown(a, p))

(* _bank_acct_missing_statement, whose account type comes from the latest   *)
(* snapshot and is unknown while the account was never synced.              *)
MissingStatement(a, p) ==
  /\ Kind[a] = "bank"
  /\ \E q \in Periods : gl[a][q] # None
  /\ <<a, p>> \notin evidence

(* What _freeze_displayed_subledger saves.                                  *)
FreezeValue(a, p) == IF Opening(a, p) # None THEN Opening(a, p) ELSE gl[a][p]

--------------------------------------------------------------------------------
(* The fields one handler writes, as a new version of the row.              *)

Frozen(r, v, u) == [r EXCEPT !.sub = v, !.by = IF v = None THEN None ELSE u]

(* Reset to pending: subledger and stamps go, the AI commentary stays.      *)
Restarted(r) ==
  [r EXCEPT !.status = "pending", !.sub = None, !.by = None, !.appr = None]

(* The agentic reset and the post-adjustment reopen clear the commentary    *)
(* as well.                                                                 *)
Cleared(r) == [Restarted(r) EXCEPT !.ai = FALSE]

(* Un-approval by a sync or by a schedule edit.                             *)
Reflagged(r) == [r EXCEPT !.status = "reviewed", !.appr = None]

(* Defect: the figure on the screen is approved without being saved.        *)
SignedUnfrozen(r, shown, u) == [r EXCEPT !.status = "approved", !.appr = u]

(* Approval freezes the figure the gate looked at; a stored value that      *)
(* already agrees keeps its maker.                                          *)
Signed(r, shown, u) ==
  LET s == [r EXCEPT !.status = "approved", !.appr = u]
  IN  IF r.sub = shown THEN s ELSE [s EXCEPT !.sub = shown, !.by = None]

WithRows(p, new) ==
  [a \in Accounts |-> IF a \in DOMAIN new THEN [rows[a] EXCEPT ![p] = new[a]]
                                         ELSE rows[a]]

WithConclusions(p, new) ==
  [a \in Accounts |-> IF a \in DOMAIN new THEN [active[a] EXCEPT ![p] = new[a]]
                                         ELSE active[a]]

Retired(S, p) == WithConclusions(p, [a \in S |-> {}])

Existing(p) == {a \in Accounts : Exists(rows[a][p])}
ApprovedIn(p) == {a \in Accounts : Approved(rows[a][p])}

--------------------------------------------------------------------------------
(* Review status.                                                           *)

(* Defect: approving needs no role.                                         *)
RoleAllowsApproval(u, s) == s = "flagged" => IsReviewer(u)

RoleAllows(u, s) == s \in {"approved", "flagged"} => IsReviewer(u)

(* Leaving approved is a reviewer's decision.                               *)
ReopenAllows(u, S, p, s) ==
  s \in {"pending", "reviewed"} /\ S \cap ApprovedIn(p) # {} => IsReviewer(u)

OwnOverride(u, a, p) ==
  ~IsAdmin(u) /\ rows[a][p].sub # None /\ rows[a][p].by = u

(* The gates of an approval: maker/checker, bank statement, tie-out.        *)
MayApprove(u, a, p) ==
  /\ ~OwnOverride(u, a, p)
  /\ ~MissingStatement(a, p)
  /\ TiesOut(a, p)

SignedRow(u, a, p) == Signed(rows[a][p], Shown(a, p), u)

(* Defect: the working paper holds the balance before the freeze.           *)
ConclusionBeforeFreeze(u, a, p) ==
  [gl |-> gl[a][p], sub |-> rows[a][p].sub, by |-> u]

(* The working paper of an approval, written from the row after the freeze. *)
ConclusionOf(u, a, p) ==
  [gl |-> gl[a][p], sub |-> SignedRow(u, a, p).sub, by |-> u]

(* Approvals of S at p.  Recording is best-effort: for the accounts outside *)
(* kept the old paper is retired and the new one could not be built.        *)
Approve(u, S, p) ==
  /\ rows' = WithRows(p, [a \in S |-> SignedRow(u, a, p)])
  /\ \E kept \in SUBSET S :
       active' = WithConclusions(p,
                   [a \in S |-> IF a \in kept THEN {ConclusionOf(u, a, p)} ELSE {}])

SetStatus(u, a, p, s) ==
  LET r == rows[a][p] IN
  /\ p \notin closed
  /\ RoleAllows(u, s)
  /\ ReopenAllows(u, {a}, p, s)
  /\ \/ s = "approved" /\ MayApprove(u, a, p) /\ Approve(u, {a}, p)
     \/ /\ s \in {"reviewed", "flagged"}
        /\ rows' = WithRows(p, [b \in {a} |-> [r EXCEPT !.status = s]])
        /\ active' = IF Approved(r) THEN Retired({a}, p) ELSE active
     \/ /\ s = "pending"
        /\ \/ rows' = WithRows(p, [b \in {a} |-> Frozen(Restarted(r), FreezeValue(a, p), u)])
           \/ rows' = WithRows(p, [b \in {a} |-> [r EXCEPT !.status = s, !.appr = None]])
        /\ active' = IF Approved(r) THEN Retired({a}, p) ELSE active
  /\ UNCHANGED <<gl, ext, tb, evidence, fluxed, closed>>

(* The batch form skips the accounts that fail an approval gate, blocks the *)
(* whole batch when a preparer would reopen one, and resets without the     *)
(* freeze.                                                                  *)
BulkStatus(u, S, p, s) ==
  /\ p \notin closed
  /\ RoleAllows(u, s)
  /\ ReopenAllows(u, S, p, s)
  /\ \/ s = "approved" /\ Approve(u, {a \in S : MayApprove(u, a, p)}, p)
     \/ /\ s # "approved"
        /\ rows' = WithRows(p, [a \in S |->
                     IF s = "pending" THEN Restarted(rows[a][p])
                                      ELSE [rows[a][p] EXCEPT !.status = s]])
        /\ active' = Retired(S \cap ApprovedIn(p), p)
  /\ UNCHANGED <<gl, ext, tb, evidence, fluxed, closed>>

(* Saving or clearing a manual subledger looks at the lock and at nothing   *)
(* else.                                                                    *)
SetSubledger(u, a, p, v) ==
  LET r == rows[a][p] IN
  /\ p \notin closed
  /\ rows' = WithRows(p, [b \in {a} |->
       Frozen([r EXCEPT !.status = IF Exists(r) THEN @ ELSE "pending"], v, u)])
  /\ UNCHANGED <<gl, ext, tb, evidence, fluxed, closed, active>>

--------------------------------------------------------------------------------
(* The agentic preparer.                                                    *)

(* Approved rows are left alone, and so is a saved balance that nothing     *)
(* earlier could have rolled into.                                          *)
AgentMayTouch(a, p) ==
  LET r == rows[a][p]
  IN  ~Approved(r) /\ (r.sub # None => Saved(a, p) # {})

ScheduleBacked(a, p) == Kind[a] = "schedule" /\ ext[a][p] # None

(* Opening plus the period's transactions comes to x.  A schedule is its    *)
(* own figure.  The agent ties strictly within a dollar, the gates at most. *)
AgentTies(a, p, x) == x - gl[a][p] < Tol /\ gl[a][p] - x < Tol

AgentPrepared(u, r, x, commented) ==
  [Frozen(r, x, u) EXCEPT !.status = "reviewed", !.ai = commented]

AgentAnalyzed(r, commented) ==
  [r EXCEPT !.status = IF Exists(r) THEN @ ELSE "pending", !.ai = commented]

(* One account of a run; every account commits on its own.  Commentary may  *)
(* be missing: nothing to narrate, or the model call failed.                *)
AgentPrepare(u, a, p) ==
  /\ p \notin closed
  /\ gl[a][p] # None
  /\ AgentMayTouch(a, p)
  /\ \E x \in Amounts, commented \in BOOLEAN :
       /\ ScheduleBacked(a, p) => x = ext[a][p] /\ commented
       /\ rows' = WithRows(p, [b \in {a} |->
            IF AgentTies(a, p, x) THEN AgentPrepared(u, rows[a][p], x, commented)
                                  ELSE AgentAnalyzed(rows[a][p], commented)])
  /\ UNCHANGED <<gl, ext, tb, evidence, fluxed, closed, active>>

(* Any member may throw the run's work away, approvals included.            *)
ResetAgentic(p) ==
  LET touched == {a \in Accounts : rows[a][p].ai}
  IN
  /\ p \notin closed
  /\ touched # {}
  /\ rows' = WithRows(p, [a \in touched |-> Cleared(rows[a][p])])
  /\ UNCHANGED <<gl, ext, tb, evidence, fluxed, closed, active>>

--------------------------------------------------------------------------------
(* QuickBooks.                                                              *)

Aging == {a \in Accounts : Kind[a] = "aging"}

(* A pull that brought balances g and aging shares x.                       *)
Store(p, g, x, t) ==
  /\ gl' = [a \in Accounts |-> [gl[a] EXCEPT ![p] = g[a]]]
  /\ ext' = [a \in Accounts |-> IF a \in Aging THEN [ext[a] EXCEPT ![p] = x[a]]
                                               ELSE ext[a]]
  /\ tb' = [tb EXCEPT ![p] = t]

Held(p) == [a \in Accounts |-> gl[a][p]]

ExtAfter(a, p, x) == IF a \in Aging THEN x[a] ELSE ext[a][p]

(* Approved accounts that the overview built from the pull shows untied.    *)
Stale(p, g, x) ==
  {a \in ApprovedIn(p) : ~Near(g[a], ShownWith(a, p, g[a], ExtAfter(a, p, x)))}

(* They go back to review; their working papers are not retired.            *)
Reflag(S, p) ==
  /\ rows' = WithRows(p, [a \in S |-> Reflagged(rows[a][p])])
  /\ UNCHANGED active

(* Defect: the sync does not look at the lock.                              *)
SyncUnlocked(p) ==
  /\ \E g \in [Accounts -> Amounts], x \in [Aging -> Amounts], t \in {"ok", "off"} :
       /\ Store(p, g, x, t)
       /\ Reflag(Stale(p, g, x), p)
  /\ UNCHANGED <<evidence, fluxed, closed>>

Sync(p) ==
  /\ p \notin closed
  /\ \E g \in [Accounts -> Amounts], x \in [Aging -> Amounts], t \in {"ok", "off"} :
       /\ Store(p, g, x, t)
       /\ Reflag(Stale(p, g, x), p)
  /\ UNCHANGED <<evidence, fluxed, closed>>

(* The shared pull failed, so the snapshot and the overview each pulled     *)
(* again and may have seen different balances.  A snapshot that fails keeps *)
(* the ones it had; an overview that fails reads zero everywhere.           *)
SyncRepulled(p) ==
  /\ p \notin closed
  /\ \E s \in [Accounts -> Amounts] \cup {Held(p)}, g \in [Accounts -> Amounts],
        x \in [Aging -> Amounts], t \in {"ok", "off"} :
       /\ Store(p, s, x, t)
       /\ Reflag(Stale(p, g, x), p)
  /\ UNCHANGED <<evidence, fluxed, closed>>

(* The per-row button: always un-approves, and retires the paper.           *)
SyncOne(a, p) ==
  LET S == {a} \cap ApprovedIn(p) IN
  /\ p \notin closed
  /\ \E v \in Amounts : gl' = [gl EXCEPT ![a][p] = v]
  /\ rows' = WithRows(p, [b \in S |-> Reflagged(rows[b][p])])
  /\ active' = Retired(S, p)
  /\ UNCHANGED <<ext, tb, evidence, fluxed, closed>>

(* The autopilot pulls the oldest open month, without the reflag.           *)
AutopilotSync(p) ==
  /\ p \notin closed
  /\ \A q \in Periods : q < p => q \in closed
  /\ \E s \in [Accounts -> Amounts] \cup {Held(p)}, x \in [Aging -> Amounts],
        t \in {"ok", "off"} : Store(p, s, x, t)
  /\ UNCHANGED <<rows, evidence, fluxed, closed, active>>

--------------------------------------------------------------------------------
(* Schedules, supporting documents and flux.                                *)

(* The items of a schedule changed, and with them its balance at every      *)
(* month end; approvals of open months go back to review.                   *)
ScheduleEdit(a) ==
  /\ Kind[a] = "schedule"
  /\ \E x \in [Periods -> Amounts] : ext' = [ext EXCEPT ![a] = x]
  /\ rows' = [rows EXCEPT ![a] = [p \in Periods |->
       IF p \notin closed /\ Approved(rows[a][p]) THEN Reflagged(rows[a][p])
                                                 ELSE rows[a][p]]]
  /\ UNCHANGED <<gl, tb, evidence, fluxed, closed, active>>

(* The QuickBooks imports create items without touching approvals.          *)
ScheduleImport(a) ==
  /\ Kind[a] = "schedule"
  /\ \E x \in [Periods -> Amounts] : ext' = [ext EXCEPT ![a] = x]
  /\ UNCHANGED <<rows, gl, tb, evidence, fluxed, closed, active>>

(* Kept for bank accounts only: no gate asks for it elsewhere.              *)
AttachEvidence(a, p) ==
  /\ Kind[a] = "bank"
  /\ p \notin closed
  /\ evidence' = evidence \cup {<<a, p>>}
  /\ UNCHANGED <<rows, gl, ext, tb, fluxed, closed, active>>

(* A client answers a document request through its magic link, which no     *)
(* lock looks at.                                                           *)
ClientUpload(a, p) ==
  /\ Kind[a] = "bank"
  /\ evidence' = evidence \cup {<<a, p>>}
  /\ UNCHANGED <<rows, gl, ext, tb, fluxed, closed, active>>

RemoveEvidence(a, p) ==
  /\ p \notin closed
  /\ <<a, p>> \in evidence
  /\ evidence' = evidence \ {<<a, p>>}
  /\ UNCHANGED <<rows, gl, ext, tb, fluxed, closed, active>>

(* The month's flux analyses exist and are all signed, or not.              *)
FluxSignOff(p) ==
  /\ p \notin closed
  /\ fluxed' = fluxed \cup {p}
  /\ UNCHANGED <<rows, gl, ext, tb, evidence, closed, active>>

FluxReopen(p) ==
  /\ p \notin closed
  /\ p \in fluxed
  /\ fluxed' = fluxed \ {p}
  /\ UNCHANGED <<rows, gl, ext, tb, evidence, closed, active>>

(* Every saved adjusting entry was found in QuickBooks: whatever work the   *)
(* accounts S it hits had is thrown away, and their flux lines with it.     *)
ReopenAfterPosting(S, p) ==
  LET worked == {a \in S \cap Existing(p) : rows[a][p].status # "pending"} IN
  /\ p \notin closed
  /\ rows' = WithRows(p, [a \in worked |-> Cleared(rows[a][p])])
  /\ \/ UNCHANGED fluxed
     \/ fluxed' = fluxed \ {p}
  /\ UNCHANGED <<gl, ext, tb, evidence, closed, active>>

--------------------------------------------------------------------------------
(* Closing and reopening the month.                                         *)

(* An earlier month is no obstacle once closed, or once it has rows and all *)
(* of them are approved.                                                    *)
PriorSettled(p) ==
  \A q \in Periods : q < p =>
    q \in closed \/ (Existing(q) # {} /\ Existing(q) = ApprovedIn(q))

(* Defect: approved rows are taken to tie.                                  *)
CloseGateOnStatus(p) ==
  /\ p \notin closed
  /\ PriorSettled(p)
  /\ Existing(p) # {}
  /\ Existing(p) = ApprovedIn(p)
  /\ tb[p] # "off"
  /\ p \in fluxed

CloseGate(p) ==
  /\ p \notin closed
  /\ PriorSettled(p)
  /\ Existing(p) # {}
  /\ Existing(p) = ApprovedIn(p)
  /\ \A a \in Existing(p) : TiesOut(a, p)
  /\ tb[p] # "off"
  /\ p \in fluxed

(* A row still without a saved balance gets one, so that it rolls forward.  *)
Backfilled(u, a, p) ==
  IF rows[a][p].sub = None THEN Frozen(rows[a][p], FreezeValue(a, p), u)
                           ELSE rows[a][p]

Close(u, p) ==
  /\ u \in Lockers
  /\ CloseGate(p)
  /\ rows' = WithRows(p, [a \in Existing(p) |-> Backfilled(u, a, p)])
  /\ closed' = closed \cup {p}
  /\ UNCHANGED <<gl, ext, tb, evidence, fluxed, active>>

ReopenPeriod(u, p) ==
  /\ u \in Lockers
  /\ p \in closed
  /\ closed' = closed \ {p}
  /\ UNCHANGED <<rows, gl, ext, tb, evidence, fluxed, active>>

--------------------------------------------------------------------------------
Init ==
  /\ rows = [a \in Accounts |-> [p \in Periods |-> AbsentRow]]
  /\ gl = [a \in Accounts |-> [p \in Periods |-> None]]
  /\ ext = [a \in Accounts |-> [p \in Periods |-> None]]
  /\ tb = [p \in Periods |-> "none"]
  /\ evidence = {}
  /\ fluxed = {}
  /\ closed = {}
  /\ active = [a \in Accounts |-> [p \in Periods |-> {}]]

Requested == {"pending", "reviewed", "approved", "flagged"}

(* What members do to the rows of a month.                                  *)
RowStep(u, p) ==
  \/ \E a \in Accounts, s \in Requested : SetStatus(u, a, p, s)
  \/ \E S \in SUBSET Accounts \ {{}}, s \in Requested : BulkStatus(u, S, p, s)
  \/ \E a \in Accounts, v \in MaybeAmount : SetSubledger(u, a, p, v)
  \/ \E a \in Accounts : AgentPrepare(u, a, p)
  \/ ResetAgentic(p)

SyncStep(p) ==
  \/ Sync(p)
  \/ SyncRepulled(p)
  \/ \E a \in Accounts : SyncOne(a, p)
  \/ AutopilotSync(p)

PaperStep(p) ==
  \/ \E a \in Accounts :
       AttachEvidence(a, p) \/ ClientUpload(a, p) \/ RemoveEvidence(a, p)
  \/ FluxSignOff(p)
  \/ FluxReopen(p)
  \/ \E S \in SUBSET Accounts : ReopenAfterPosting(S, p)

ScheduleStep == \E a \in Accounts : ScheduleEdit(a) \/ ScheduleImport(a)

LockStep(u, p) == Close(u, p) \/ ReopenPeriod(u, p)

Next ==
  \/ \E u \in Users, p \in Periods : RowStep(u, p) \/ LockStep(u, p)
  \/ \E p \in Periods : SyncStep(p) \/ PaperStep(p)
  \/ ScheduleStep

Spec == Init /\ [][Next]_vars

--------------------------------------------------------------------------------
(* Properties.                                                              *)

(* Type correctness of the stored rows, snapshots and papers.               *)
TypeOK ==
  /\ rows \in [Accounts -> [Periods -> Row]]
  /\ gl \in [Accounts -> [Periods -> MaybeAmount]]
  /\ ext \in [Accounts -> [Periods -> MaybeAmount]]
  /\ tb \in [Periods -> {"none", "ok", "off"}]
  /\ evidence \subseteq Accounts \X Periods
  /\ fluxed \subseteq Periods
  /\ closed \subseteq Periods
  /\ active \in [Accounts -> [Periods -> SUBSET Conclusion]]

RowSettled(a, p) ==
  /\ Approved(rows[a][p])
  /\ rows[a][p].sub # None
  /\ gl[a][p] # None
  /\ Near(gl[a][p], rows[a][p].sub)

(* Close => every account ties: while a month is closed it has rows, and    *)
(* every one of them is approved and carries a saved balance within         *)
(* tolerance of the stored ledger balance.                                  *)
ClosedBooksTie ==
  \A p \in closed : Existing(p) # {} /\ \A a \in Existing(p) : RowSettled(a, p)

(* The month after a closed one opens, for every account reconciled in the  *)
(* closed month, from the balance it was closed with.                       *)
RollForwardFromClose ==
  \A q \in closed, p \in Periods :
    q < p /\ (\A r \in Periods : ~(q < r /\ r < p)) =>
      \A a \in Existing(q) :
        Opening(a, p) = rows[a][q].sub /\ Near(gl[a][q], Opening(a, p))

(* An approved row names a reviewer or an admin as its approver, however    *)
(* its status was reached.                                                  *)
ApproverOnRecord ==
  \A a \in Accounts, p \in Periods :
    Approved(rows[a][p]) => rows[a][p].appr # None /\ IsReviewer(rows[a][p].appr)

(* The frozen working paper of an approval ties on its own figures: it      *)
(* holds the balance the gate looked at and not the one it superseded.      *)
ConclusionTies ==
  \A a \in Accounts, p \in Periods : \A c \in active[a][p] :
    c.sub # None /\ Near(c.gl, c.sub)

(* A row that becomes approved carries, after the freeze, a saved balance   *)
(* that ties and that its non-admin approver did not enter; a bank account  *)
(* has a statement or a file.                                               *)
ApprovalMeetsGates ==
  [][\A a \in Accounts, p \in Periods :
       ~Approved(rows[a][p]) /\ Approved(rows'[a][p]) =>
         LET r == rows'[a][p] IN
         /\ r.sub # None /\ gl'[a][p] # None /\ Near(gl'[a][p], r.sub)
         /\ r.by = r.appr => IsAdmin(r.appr)
         /\ Kind[a] = "bank" => <<a, p>> \in evidence']_vars

(* The books of a month as the lock sees them: the supporting documents are *)
(* not among them, because a client can add one to a closed month.          *)
Book(p) == [a \in Accounts |->
  [row |-> rows[a][p], gl |-> gl[a][p], active |-> active[a][p]]]

AccountBook == [row : Row, gl : MaybeAmount, active : SUBSET Conclusion]

SettledBooks ==
  {b \in [Accounts -> AccountBook] :
     /\ \E a \in Accounts : Exists(b[a].row)
     /\ \A a \in Accounts : Exists(b[a].row) =>
          /\ Approved(b[a].row)
          /\ b[a].row.sub # None
          /\ b[a].gl # None
          /\ Near(b[a].gl, b[a].row.sub)}

Lock == INSTANCE BooksLock WITH
  Contents <- [Accounts -> AccountBook],
  Settled <- SettledBooks,
  books <- [p \in Periods |-> Book(p)]

(* The handlers together keep the promise of the lock: a month is closed    *)
(* over settled books only and nothing in them moves until it is reopened.  *)
LockSpec == Lock!Spec
================================================================================
