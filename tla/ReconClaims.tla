------------------------------- MODULE ReconClaims ------------------------------
(***************************************************************************)
(* What the comments and docstrings of the reconciliation code say about   *)
(* it, where the handlers of ReconSignoff do otherwise: the statement is   *)
(* the property of a run, and TLC answers with the shortest way there.     *)
(***************************************************************************)
EXTENDS MCReconSignoff

(* "a sign-off must always match the live books" (_reflag_stale_approvals,  *)
(* and sync_one_account_from_qbo: "the only path that pulls QBO for an      *)
(* approved account"): an approved row ties to the stored ledger balance.   *)
SignoffMatchesBooks ==
  \A a \in Accounts, p \in Periods :
    Approved(rows[a][p]) => gl[a][p] # None /\ Near(gl[a][p], Shown(a, p))

--------------------------------------------------------------------------------
(* The approval and the pulls alone, for SignoffMatchesBooks: no manual     *)
(* balance is ever entered.                                                 *)
PullNext ==
  \/ \E u \in Users, a \in Accounts, p \in Periods, s \in Requested : SetStatus(u, a, p, s)
  \/ \E p \in Periods : Sync(p) \/ AutopilotSync(p) \/ \E a \in Accounts : SyncOne(a, p)

PullSpec == Init /\ [][PullNext]_vars
================================================================================
