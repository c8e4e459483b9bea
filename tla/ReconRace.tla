-------------------------------- MODULE ReconRace -------------------------------
(***************************************************************************)
(* The handlers of ReconSignoff as they really run: a request reads and    *)
(* checks (closed period, role, row, overview) when it begins, and writes  *)
(* when it commits, with other requests in between.  No handler locks the  *)
(* rows it read.  The session writes back the columns whose value differs  *)
(* from the one it loaded and leaves the others to whoever wrote them; a   *)
(* new row or a new lock fails on its unique index if somebody else was    *)
(* first.  The UPDATE of the row takes its lock before the conclusions of  *)
(* the account are touched, so the writes of one commit are one step.      *)
(*                                                                         *)
(* The requests are the five whose overlap matters to the sign-off:        *)
(* status, manual subledger, the agentic preparer, the QuickBooks sync and *)
(* the close.  Reading and checking is one step, although the statements   *)
(* of a request can see different commits; the sync is three, because it   *)
(* commits the balances seconds before it looks at the approvals.          *)
(***************************************************************************)
EXTENDS ReconSignoff

CONSTANTS Workers,        (* requests that can be in flight at once          *)
          Idle,           (* the request of a worker that has none           *)
          Asked,          (* bound: statuses requested besides approval      *)
          Entered         (* bound: manual balances entered                  *)

ASSUME RaceAssumption == Asked \subseteq Requested /\ Entered \subseteq MaybeAmount

VARIABLE req              (* req[w]: what worker w read and is about to write *)

raceVars == <<rows, gl, ext, tb, evidence, fluxed, closed, active, req>>

(* A write of one row: the row as loaded and as the handler left it, the    *)
(* conclusion to record, whether the active ones are retired.               *)
RowWrite(a, p, new, retire, con) ==
  [op |-> "row", a |-> a, p |-> p, old |-> rows[a][p], new |-> new,
   retire |-> retire, con |-> con]

(* What the database holds after writing back the changed columns.          *)
Merge(now, old, new) ==
  [c \in DOMAIN now |-> IF new[c] # old[c] THEN new[c] ELSE now[c]]

Begin(w, r) ==
  /\ req[w] = Idle
  /\ req' = [req EXCEPT ![w] = r]
  /\ UNCHANGED vars

Finished(w) == req' = [req EXCEPT ![w] = Idle]

--------------------------------------------------------------------------------
(* Defect: the conclusions are retired only if the row was read approved.   *)
BeginFirstApproval(w, u, a, p) ==
  /\ p \notin closed
  /\ IsReviewer(u)
  /\ MayApprove(u, a, p)
  /\ \E con \in {{ConclusionOf(u, a, p)}, {}} :
       Begin(w, RowWrite(a, p, SignedRow(u, a, p), Approved(rows[a][p]), con))

BeginApprove(w, u, a, p) ==
  /\ p \notin closed
  /\ IsReviewer(u)
  /\ MayApprove(u, a, p)
  /\ \E con \in {{ConclusionOf(u, a, p)}, {}} :
       Begin(w, RowWrite(a, p, SignedRow(u, a, p), TRUE, con))

BeginStatus(w, u, a, p, s) ==
  LET r == rows[a][p] IN
  /\ p \notin closed
  /\ RoleAllows(u, s)
  /\ ReopenAllows(u, {a}, p, s)
  /\ s # "approved"
  /\ \E new \in IF s = "pending"
                THEN {Frozen(Restarted(r), FreezeValue(a, p), u),
                      [r EXCEPT !.status = s, !.appr = None]}
                ELSE {[r EXCEPT !.status = s]} :
       Begin(w, RowWrite(a, p, new, Approved(r), {}))

BeginSubledger(w, u, a, p, v) ==
  LET r == rows[a][p] IN
  /\ p \notin closed
  /\ Begin(w, RowWrite(a, p,
       Frozen([r EXCEPT !.status = IF Exists(r) THEN @ ELSE "pending"], v, u), FALSE, {}))

(* The run loads every row before it processes the first account.           *)
BeginAgent(w, u, a, p) ==
  LET r == rows[a][p] IN
  /\ p \notin closed
  /\ gl[a][p] # None
  /\ AgentMayTouch(a, p)
  /\ \E x \in Amounts, commented \in BOOLEAN :
       /\ ScheduleBacked(a, p) => x = ext[a][p] /\ commented
       /\ Begin(w, RowWrite(a, p,
            IF AgentTies(a, p, x) THEN AgentPrepared(u, r, x, commented)
                                  ELSE AgentAnalyzed(r, commented), FALSE, {}))

(* Someone inserted the row this request found missing.                     *)
Collides(r) == ~Exists(r.old) /\ Exists(rows[r.a][r.p])

CommitRow(w) ==
  LET r == req[w] IN
  /\ r # Idle
  /\ r.op = "row"
  /\ IF Collides(r)
     THEN UNCHANGED <<rows, active>>
     ELSE /\ rows' = [rows EXCEPT ![r.a][r.p] = Merge(@, r.old, r.new)]
          /\ active' = [active EXCEPT ![r.a][r.p] = (IF r.retire THEN {} ELSE @) \cup r.con]
  /\ Finished(w)
  /\ UNCHANGED <<gl, ext, tb, evidence, fluxed, closed>>

--------------------------------------------------------------------------------
BeginClose(w, u, p) ==
  /\ u \in Lockers
  /\ CloseGate(p)
  /\ Begin(w, [op |-> "close", p |-> p, old |-> [a \in Accounts |-> rows[a][p]],
               new |-> [a \in Accounts |-> IF a \in Existing(p) THEN Backfilled(u, a, p)
                                                                ELSE rows[a][p]]])

CommitClose(w) ==
  LET r == req[w] IN
  /\ r # Idle
  /\ r.op = "close"
  /\ IF r.p \in closed
     THEN UNCHANGED <<rows, closed>>
     ELSE /\ rows' = WithRows(r.p, [a \in Accounts |->
                        Merge(rows[a][r.p], r.old[a], r.new[a])])
          /\ closed' = closed \cup {r.p}
  /\ Finished(w)
  /\ UNCHANGED <<gl, ext, tb, evidence, fluxed, active>>

BeginSync(w, p) ==
  /\ p \notin closed
  /\ Begin(w, [op |-> "pull", p |-> p])

(* capture_snapshot commits the balances it pulled, or none; the overview   *)
(* may pull its own.                                                        *)
StoreBalances(w) ==
  LET r == req[w] IN
  /\ r # Idle
  /\ r.op = "pull"
  /\ \E s \in [Accounts -> Amounts] \cup {Held(r.p)}, g \in [Accounts -> Amounts] :
       /\ gl' = [a \in Accounts |-> [gl[a] EXCEPT ![r.p] = s[a]]]
       /\ req' = [req EXCEPT ![w] = [op |-> "reflag", p |-> r.p, g |-> g]]
  /\ UNCHANGED <<rows, ext, tb, evidence, fluxed, closed, active>>

(* period_sync is committed, the overview built from what this request      *)
(* pulled, the lock looked at again, and the approvals that no longer tie   *)
(* go back to review.                                                       *)
FinishSync(w) ==
  LET r == req[w] IN
  /\ r # Idle
  /\ r.op = "reflag"
  /\ \E x \in [Aging -> Amounts], t \in {"ok", "off"} :
       /\ tb' = [tb EXCEPT ![r.p] = t]
       /\ ext' = [a \in Accounts |-> IF a \in Aging THEN [ext[a] EXCEPT ![r.p] = x[a]]
                                                    ELSE ext[a]]
       /\ Reflag(IF r.p \in closed THEN {} ELSE Stale(r.p, r.g, x), r.p)
  /\ Finished(w)
  /\ UNCHANGED <<gl, evidence, fluxed, closed>>

--------------------------------------------------------------------------------
RaceInit == Init /\ req = [w \in Workers |-> Idle]

BeginRow(w, u, a, p) ==
  \/ BeginApprove(w, u, a, p)
  \/ \E s \in Asked : BeginStatus(w, u, a, p, s)
  \/ \E v \in Entered : BeginSubledger(w, u, a, p, v)
  \/ BeginAgent(w, u, a, p)

(* Reopening a month and signing its flux touch nothing they did not just   *)
(* read.                                                                    *)
Unsplit(w) ==
  /\ req[w] = Idle
  /\ \E p \in Periods :
       FluxSignOff(p) \/ FluxReopen(p) \/ \E u \in Users : ReopenPeriod(u, p)
  /\ UNCHANGED req

RowOrLock(w) ==
  \/ \E u \in Users, a \in Accounts, p \in Periods : BeginRow(w, u, a, p)
  \/ CommitRow(w)
  \/ \E u \in Users, p \in Periods : BeginClose(w, u, p)
  \/ CommitClose(w)
  \/ Unsplit(w)

SyncSteps(w) ==
  \/ \E p \in Periods : BeginSync(w, p)
  \/ StoreBalances(w)
  \/ FinishSync(w)

RaceNext == \E w \in Workers : RowOrLock(w) \/ SyncSteps(w)

RaceSpec == RaceInit /\ [][RaceNext]_raceVars

--------------------------------------------------------------------------------
(* Properties.                                                              *)

(* However two approvals of the same account overlap, at most one working   *)
(* paper stays active: the later one retires what the earlier one added.    *)
OneActiveConclusion ==
  \A a \in Accounts, p \in Periods : Cardinality(active[a][p]) <= 1
================================================================================
