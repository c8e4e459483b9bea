----------------------------- MODULE AllocationRuns -----------------------------
(***************************************************************************)
(* The runs of the cost allocation: a preparer computes a month's run,     *)
(* which retires the one before it, and a second person approves it.  A    *)
(* run that cannot be computed is kept as a blocked draft.  A partial      *)
(* unique index allows one run per month that is not superseded.           *)
(*                                                                         *)
(* A request reads, pulls from QuickBooks and commits; two may overlap.    *)
(* What is computed is modelled in Apportionment, and the entry a run      *)
(* files in AdjustingEntries; that the posting check found it is a remark  *)
(* on the run that nothing here reads.                                     *)
(***************************************************************************)
EXTENDS Naturals, FiniteSetsExt, NoneValue

CONSTANTS
  MaxAllocRuns,   (* bound: run rows ever inserted                          *)
  AllocMonths,    (* periods that are allocated                             *)
  AllocWorkers,   (* requests in progress at a time                         *)
  AllocMembers,   (* members, preparers at least                            *)
  AllocReviewers  (* those of them who may approve                          *)

VARIABLES
  alloc,          (* alloc[i]: the committed run i, or None                 *)
  task            (* task[w]: the request worker w serves                   *)

allocVars == <<alloc, task>>

AllocIds == 1..MaxAllocRuns     (* run rows, numbered as they are inserted *)

AllocRow == [month : AllocMonths, status : {"draft", "approved", "superseded"},
             blocked : BOOLEAN, by : AllocMembers,
             approver : AllocReviewers \cup {None}]

ASSUME AllocAssumption ==
  /\ MaxAllocRuns \in Nat
  /\ AllocReviewers \subseteq AllocMembers
  /\ None \notin AllocMembers \cup AllocRow

NoTask == [op |-> "none"]
CreateJob == [op : {"create"}, at : {"computed", "waiting", "superseded"}, row : AllocRow,
                  held : SUBSET AllocIds]
ApproveJob == [op : {"approve"}, id : AllocIds, by : AllocReviewers]

AllocTypeOK ==
  /\ alloc \in [AllocIds -> AllocRow \cup {None}]
  /\ task \in [AllocWorkers -> {NoTask} \cup CreateJob \cup ApproveJob]

AllocInit ==
  /\ alloc = [i \in AllocIds |-> None]
  /\ task = [w \in AllocWorkers |-> NoTask]

Runs(m) == {i \in AllocIds : alloc[i] # None /\ alloc[i].month = m}
LiveOf(a, m) == {i \in AllocIds : a[i] # None /\ a[i].month = m /\ a[i].status # "superseded"}

(* Defect: the index is on drafts.                                          *)
DraftCollision(a, m) ==
  Cardinality({i \in LiveOf(a, m) : a[i].status = "draft"}) > 1

(* uq_alloc_run_live_period.                                                *)
LiveCollision(a, m) == Cardinality(LiveOf(a, m)) > 1

LockedByOthers(w) ==
  UNION {task[v].held : v \in {u \in AllocWorkers \ {w} :
                                 task[u].op = "create" /\ task[u].at = "superseded"}}

--------------------------------------------------------------------------------
(* run_allocation: the configuration is read and QuickBooks is asked; what  *)
(* is unsound makes the run a blocked one.                                  *)
Compute(w, u, m) ==
  /\ task[w] = NoTask
  /\ \E blocked \in BOOLEAN :
       task' = [task EXCEPT ![w] =
         [op |-> "create", at |-> "computed", held |-> {},
          row |-> [month |-> m, status |-> "draft", blocked |-> blocked,
                   by |-> u, approver |-> None]]]
  /\ UNCHANGED alloc

(* _supersede_live_runs: the UPDATE takes its snapshot of the live runs ... *)
SupersedeLive(w) ==
  /\ task[w].op = "create" /\ task[w].at = "computed"
  /\ ~task[w].row.blocked
  /\ task' = [task EXCEPT ![w].at = "waiting",
                          ![w].held = LiveOf(alloc, task[w].row.month)]
  /\ UNCHANGED alloc

(* ... waits for those others are updating, and looks at them again.        *)
Superseded(w) ==
  /\ task[w].op = "create" /\ task[w].at = "waiting"
  /\ task[w].held \cap LockedByOthers(w) = {}
  /\ task' = [task EXCEPT ![w].at = "superseded",
                          ![w].held = @ \cap LiveOf(alloc, task[w].row.month)]
  /\ UNCHANGED alloc

(* The row is inserted; a second live run of the month fails the request,   *)
(* and nothing of it stays.                                                 *)
CreateCommit(w, i) ==
  LET j == task[w]
      after == [k \in AllocIds |-> IF k = i THEN j.row
                                   ELSE IF k \in j.held THEN [alloc[k] EXCEPT !.status = "superseded"]
                                   ELSE alloc[k]]
  IN
  /\ j.op = "create"
  /\ j.at = (IF j.row.blocked THEN "computed" ELSE "superseded")
  /\ alloc[i] = None /\ \A k \in AllocIds : k < i => alloc[k] # None
  /\ alloc' = IF LiveCollision(after, j.row.month) THEN alloc ELSE after
  /\ task' = [task EXCEPT ![w] = NoTask]

MaySignRun(u, row) ==
  /\ u \in AllocReviewers
  /\ row.status = "draft" /\ ~row.blocked
  /\ u # row.by

ApproveRun(w, u, i) ==
  /\ task[w] = NoTask
  /\ alloc[i] # None
  /\ MaySignRun(u, alloc[i])
  /\ task' = [task EXCEPT ![w] = [op |-> "approve", id |-> i, by |-> u]]
  /\ UNCHANGED alloc

(* The status is written over whatever it became, if the index allows.      *)
ApproveRunCommit(w) ==
  LET j == task[w]
      after == [alloc EXCEPT ![j.id].status = "approved", ![j.id].approver = j.by]
  IN
  /\ j.op = "approve"
  /\ j.id \notin LockedByOthers(w)
  /\ alloc' = IF LiveCollision(after, alloc[j.id].month) THEN alloc ELSE after
  /\ task' = [task EXCEPT ![w] = NoTask]

AllocNext ==
  \E w \in AllocWorkers :
    \/ \E u \in AllocMembers :
         \/ \E m \in AllocMonths : Compute(w, u, m)
         \/ \E i \in AllocIds : ApproveRun(w, u, i)
    \/ SupersedeLive(w) \/ Superseded(w)
    \/ \E i \in AllocIds : CreateCommit(w, i)
    \/ ApproveRunCommit(w)

AllocSpec == AllocInit /\ [][AllocNext]_allocVars

--------------------------------------------------------------------------------
(* A month that was ever run has one live run and it is the latest, however *)
(* runs and approvals overlap: the annual figure counts each month once and *)
(* never an earlier version ("adding them would double count").             *)
LatestRunIsLive ==
  \A m \in AllocMonths : Runs(m) # {} => LiveOf(alloc, m) = {Max(Runs(m))}

(* A superseded run stays superseded: an approval that read it while it was *)
(* live does not bring it back.                                             *)
SupersededStays ==
  [][\A i \in AllocIds : alloc[i] # None /\ alloc[i].status = "superseded"
       => alloc'[i].status = "superseded"]_allocVars

(* Whoever approved a run is not who prepared it, and what was approved was *)
(* computed: also for runs superseded since.                                *)
SecondPerson ==
  \A i \in AllocIds : alloc[i] # None /\ alloc[i].approver # None
    => alloc[i].approver # alloc[i].by /\ ~alloc[i].blocked
================================================================================
