----------------------------- MODULE MCReconSignoff -----------------------------
(***************************************************************************)
(* Instances of ReconSignoff for TLC.  Pat prepares, Rae reviews, Ada is   *)
(* the admin.  Each specification below bounds the instance by leaving out *)
(* the actions that do not bear on what its run asks.                      *)
(***************************************************************************)
EXTENDS ReconSignoff

RoleOf == [u \in Users |-> CASE u = "Pat" -> "preparer" [] u = "Rae" -> "reviewer"
                              [] OTHER -> "admin"]

PlainKinds == [a \in Accounts |-> "plain"]
AgingKinds == [a \in Accounts |-> "aging"]
MixedKinds == [a \in Accounts |-> IF a = "prepaid" THEN "schedule" ELSE "bank"]

(* Two months of one account: rows, pulls, flux signed, locking.            *)
RollInit ==
  /\ rows = [a \in Accounts |-> [p \in Periods |-> AbsentRow]]
  /\ gl = [a \in Accounts |-> [p \in Periods |-> None]]
  /\ ext = [a \in Accounts |-> [p \in Periods |-> None]]
  /\ tb = [p \in Periods |-> "none"]
  /\ evidence = {}
  /\ fluxed = Periods
  /\ closed = {}
  /\ active = [a \in Accounts |-> [p \in Periods |-> {}]]

RollNext ==
  \/ \E u \in Users, p \in Periods :
       \/ \E a \in Accounts, s \in Requested : SetStatus(u, a, p, s)
       \/ \E a \in Accounts, v \in MaybeAmount : SetSubledger(u, a, p, v)
       \/ LockStep(u, p)
  \/ \E p \in Periods : Sync(p) \/ AutopilotSync(p)

RollSpec == RollInit /\ [][RollNext]_vars

(* Two accounts of one month, after a first sync that brought zero          *)
(* everywhere: batches, manual balances, later pulls of one account,        *)
(* documents and schedule edits.                                            *)
BatchInit ==
  /\ rows = [a \in Accounts |-> [p \in Periods |-> AbsentRow]]
  /\ gl = [a \in Accounts |-> [p \in Periods |-> 0]]
  /\ ext = [a \in Accounts |-> [p \in Periods |-> None]]
  /\ tb = [p \in Periods |-> "ok"]
  /\ evidence = {}
  /\ fluxed = Periods
  /\ closed = {}
  /\ active = [a \in Accounts |-> [p \in Periods |-> {}]]

BatchNext ==
  \/ \E u \in Users, p \in Periods :
       \/ \E S \in SUBSET Accounts \ {{}}, s \in Requested : BulkStatus(u, S, p, s)
       \/ \E a \in Accounts, v \in MaybeAmount : SetSubledger(u, a, p, v)
       \/ LockStep(u, p)
  \/ \E a \in Accounts, p \in Periods :
       SyncOne(a, p) \/ AttachEvidence(a, p) \/ ClientUpload(a, p) \/ RemoveEvidence(a, p)
  \/ ScheduleStep

BatchSpec == BatchInit /\ [][BatchNext]_vars
================================================================================
