---------------------------- MODULE Engines_proofs -----------------------------
(***************************************************************************)
(* Theorems of AllocationRuns, AutopilotRuns and AiBudget for any number   *)
(* of months, members, runs, slots and calls, of Apportionment for any     *)
(* lines, amounts and rates, and of their composition in MCEngines.        *)
(*                                                                         *)
(* Allocation: that a month has one live run, and that it is the latest    *)
(* one, rests on the unique index alone: a computation inserts the latest  *)
(* row and keeps it only if it is the one live row then, and an approval   *)
(* cannot bring back an older one beside it.                               *)
(*                                                                         *)
(* Autopilot: either one worker waits to start or one run executes, and    *)
(* the row of a run that executes is live. The months are closed in order, *)
(* so the month a sweep is about to start on stays the focus until it is   *)
(* closed.                                                                 *)
(*                                                                         *)
(* Budget: the spend that is not recorded yet is a sum over the requests   *)
(* in progress. A sum is stated as the number of the units that make it    *)
(* up, a set of pairs, so that one request's share changes by adding or    *)
(* removing a set of pairs and no induction over the slots is needed.      *)
(*                                                                         *)
(* Arithmetic: the sums are the fold of the community modules over the     *)
(* lines of a pool. What they satisfy is proved by the least               *)
(* counterexample, a finite set that has a property as soon as its parts   *)
(* with one element less have it, which needs no operator as a parameter.  *)
(* The lines are served in a strict total order, so that as many get a     *)
(* cent as there are cents left; those that dropped something come first,  *)
(* and there are at least as many of them.                                 *)
(***************************************************************************)
EXTENDS MCEngines, FiniteSetTheorems, WellFoundedInduction, TLAPS

(* The cost allocation.                                                    *)

(* Rows are numbered without gaps.                                          *)
NoGaps == \A i, k \in AllocIds : k < i /\ alloc[i] # None => alloc[k] # None

(* A computation makes a draft and retires rows of its month, and what an   *)
(* approval signs was computed by someone else.                             *)
TasksSound ==
  \A w \in AllocWorkers :
    /\ task[w].op = "create" =>
         /\ task[w].row.status = "draft" /\ task[w].row.approver = None
         /\ \A k \in task[w].held : alloc[k] # None /\ alloc[k].month = task[w].row.month
    /\ task[w].op = "approve" =>
         LET read == alloc[task[w].id] IN read # None /\ task[w].by # read.by /\ ~read.blocked

(* A live run of a month is the latest of the month.                        *)
LiveIsLast ==
  \A m \in AllocMonths : Runs(m) # {} =>
    \E i \in Runs(m) : LiveOf(alloc, m) = {i} /\ \A k \in Runs(m) : k <= i

AllocInv == AllocTypeOK /\ NoGaps /\ TasksSound /\ LiveIsLast /\ SecondPerson

----------------------------------------
(* The index: without a collision, a live run is the only one.              *)
LEMMA OnlyLive ==
  ASSUME NEW a, NEW m, ~LiveCollision(a, m), NEW i \in LiveOf(a, m)
  PROVE  LiveOf(a, m) = {i}
<1> DEFINE L == LiveOf(a, m)
<1>0. IsFiniteSet(AllocIds)
  BY AllocAssumption, FS_Interval DEF AllocIds
<1>1. IsFiniteSet(AllocIds) /\ L \in SUBSET AllocIds
  BY <1>0 DEF LiveOf
<1>2. IsFiniteSet(L) /\ Cardinality(L) \in Nat
  BY <1>1, FS_Subset, FS_CardinalityType
<1>3. Cardinality(L) <= 1
  BY <1>2 DEF LiveCollision
<1>4. Cardinality({i}) = 1
  BY FS_Singleton
<1>5. Cardinality({i}) <= Cardinality(L) /\ (Cardinality(L) = Cardinality({i}) => L = {i})
  BY <1>2, FS_Subset
<1> HIDE DEF L
<1> QED BY <1>2, <1>3, <1>4, <1>5 DEF L

(* Two live runs collide.                                                   *)
LEMMA TwoCollide ==
  ASSUME NEW a, NEW m, NEW i \in LiveOf(a, m), NEW k \in LiveOf(a, m), i # k
  PROVE  LiveCollision(a, m)
BY OnlyLive

LEMMA TaskKinds ==
  ASSUME AllocTypeOK, NEW w \in AllocWorkers
  PROVE  /\ task[w].op = "create" => task[w] \in CreateJob
         /\ task[w].op = "approve" => task[w] \in ApproveJob
BY DEF AllocTypeOK, NoTask, CreateJob, ApproveJob

(* Requests that only read keep the invariant.                              *)
LEMMA ReadStep ==
  ASSUME AllocInv, UNCHANGED alloc, NEW w \in AllocWorkers,
         NEW j \in {NoTask} \cup CreateJob \cup ApproveJob, task' = [task EXCEPT ![w] = j],
         j.op = "create" => /\ j.row.status = "draft" /\ j.row.approver = None
                            /\ \A k \in j.held : alloc[k] # None /\ alloc[k].month = j.row.month,
         j.op = "approve" => /\ alloc[j.id] # None
                             /\ j.by # alloc[j.id].by /\ ~alloc[j.id].blocked
  PROVE  AllocInv'
<1>1. task'[w] = j /\ \A v \in AllocWorkers \ {w} : task'[v] = task[v]
  BY DEF AllocInv, AllocTypeOK
<1>2. AllocTypeOK'
  BY DEF AllocInv, AllocTypeOK
<1>3. TasksSound'
  BY <1>1 DEF AllocInv, TasksSound
<1> QED BY <1>2, <1>3 DEF AllocInv, NoGaps, LiveIsLast, LiveOf, Runs, SecondPerson

LEMMA ComputeKeeps ==
  ASSUME AllocInv, NEW w \in AllocWorkers, NEW u \in AllocMembers, NEW m \in AllocMonths,
         Compute(w, u, m)
  PROVE  AllocInv'
<1>1. PICK b \in BOOLEAN : task' = [task EXCEPT ![w] =
         [op |-> "create", at |-> "computed", held |-> {},
          row |-> [month |-> m, status |-> "draft", blocked |-> b,
                   by |-> u, approver |-> None]]]
  BY DEF Compute
<1> DEFINE j == [op |-> "create", at |-> "computed", held |-> {},
                 row |-> [month |-> m, status |-> "draft", blocked |-> b,
                          by |-> u, approver |-> None]]
<1>2. j \in CreateJob /\ j.op = "create" /\ j.held = {}
      /\ j.row.status = "draft" /\ j.row.approver = None
  BY DEF CreateJob, AllocRow
<1> HIDE DEF j
<1> QED BY <1>1, <1>2, ReadStep DEF Compute, j

LEMMA SupersedeKeeps ==
  ASSUME AllocInv, NEW w \in AllocWorkers, SupersedeLive(w) \/ Superseded(w)
  PROVE  AllocInv'
<1> DEFINE j == task'[w]
<1>1. task[w] \in CreateJob /\ task[w].op = "create"
  BY TaskKinds DEF SupersedeLive, Superseded, AllocInv
<1>2. LiveOf(alloc, task[w].row.month) \in SUBSET AllocIds
  BY DEF LiveOf
<1>3. /\ UNCHANGED alloc
      /\ task' = [task EXCEPT ![w] = j]
      /\ j \in CreateJob /\ j.op = "create" /\ j.row = task[w].row
      /\ j.held \subseteq LiveOf(alloc, task[w].row.month)
  BY <1>1, <1>2 DEF SupersedeLive, Superseded, AllocInv, AllocTypeOK, CreateJob
<1>4. task[w].row.status = "draft" /\ task[w].row.approver = None
  BY <1>1 DEF AllocInv, TasksSound
<1> HIDE DEF j
<1> QED BY <1>3, <1>4, ReadStep DEF LiveOf

LEMMA ApproveReadKeeps ==
  ASSUME AllocInv, NEW w \in AllocWorkers, NEW u \in AllocMembers, NEW i \in AllocIds,
         ApproveRun(w, u, i)
  PROVE  AllocInv'
<1> DEFINE j == [op |-> "approve", id |-> i, by |-> u]
<1>1. j \in ApproveJob /\ j.op = "approve" /\ j.id = i /\ j.by = u
  BY DEF ApproveJob, ApproveRun, MaySignRun
<1>2. task' = [task EXCEPT ![w] = j] /\ UNCHANGED alloc
  BY DEF ApproveRun
<1>3. alloc[i] # None /\ u # alloc[i].by /\ ~alloc[i].blocked
  BY DEF ApproveRun, MaySignRun
<1> HIDE DEF j
<1> QED BY <1>1, <1>2, <1>3, ReadStep

----------------------------------------
(* A request that ends and leaves the rows as they are.                     *)
LEMMA EndKeeps ==
  ASSUME AllocInv, NEW w \in AllocWorkers, UNCHANGED alloc, task' = [task EXCEPT ![w] = NoTask]
  PROVE  AllocInv'
<1>1. NoTask.op = "none"
  BY DEF NoTask
<1> QED BY <1>1, ReadStep

(* The row a computation inserts is the live one, and the last.             *)
LEMMA CreateKeeps ==
  ASSUME AllocInv, NEW w \in AllocWorkers, NEW i \in AllocIds, CreateCommit(w, i)
  PROVE  /\ AllocInv'
         /\ \A k \in AllocIds : alloc[k] # None /\ alloc[k].status = "superseded"
              => alloc'[k].status = "superseded"
<1> DEFINE j == task[w]
           m == j.row.month
           after == [k \in AllocIds |-> IF k = i THEN j.row
                                ELSE IF k \in j.held THEN [alloc[k] EXCEPT !.status = "superseded"]
                                ELSE alloc[k]]
<1>1. j \in CreateJob /\ j.op = "create" /\ j.row \in AllocRow /\ j.row # None /\ m \in AllocMonths
  BY TaskKinds, AllocAssumption DEF CreateCommit, AllocInv, CreateJob, AllocRow
<1>2. /\ alloc[i] = None /\ \A k \in AllocIds : k < i => alloc[k] # None
      /\ alloc' = IF LiveCollision(after, m) THEN alloc ELSE after
      /\ task' = [task EXCEPT ![w] = NoTask]
  BY DEF CreateCommit
<1>3. CASE LiveCollision(after, m)
  BY <1>2, <1>3, EndKeeps
<1>4. CASE ~LiveCollision(after, m)
  <2>1. alloc' = after
    BY <1>2, <1>4
  <2>2. \A k \in j.held : k \in AllocIds /\ k # i /\ alloc[k] \in AllocRow /\ alloc[k].month = m
    BY <1>1, <1>2 DEF AllocInv, TasksSound, AllocTypeOK, CreateJob
  <2>3. ASSUME NEW k \in AllocIds \ {i}
        PROVE  /\ alloc[k] = None => alloc'[k] = None
               /\ alloc[k] # None =>
                    /\ alloc'[k] \in AllocRow /\ alloc'[k] # None
                    /\ alloc'[k].month = alloc[k].month /\ alloc'[k].by = alloc[k].by
                    /\ alloc'[k].blocked = alloc[k].blocked /\ alloc'[k].approver = alloc[k].approver
                    /\ alloc[k].status = "superseded" => alloc'[k].status = "superseded"
                    /\ alloc[k].month # m => alloc'[k] = alloc[k]
    <3>1. CASE k \in j.held
      <4>1. alloc'[k] = [alloc[k] EXCEPT !.status = "superseded"]
        BY <2>1, <3>1
      <4>2. alloc[k] \in AllocRow /\ alloc[k].month = m
        BY <2>2, <3>1
      <4>3. alloc'[k] \in AllocRow /\ alloc[k] # None
        BY <4>1, <4>2, AllocAssumption DEF AllocRow
      <4> QED BY <4>1, <4>2, <4>3, AllocAssumption DEF AllocRow
    <3>2. CASE k \notin j.held
      <4>1. alloc'[k] = alloc[k]
        BY <2>1, <3>2
      <4> QED BY <4>1 DEF AllocInv, AllocTypeOK
    <3> QED BY <3>1, <3>2
  <2>4. alloc'[i] = j.row
    BY <2>1
  <2>5. AllocTypeOK'
    <3>1. \A k \in AllocIds : alloc'[k] \in AllocRow \cup {None}
      BY <1>1, <2>3, <2>4
    <3>2. alloc' \in [AllocIds -> AllocRow \cup {None}]
      BY <2>1, <3>1
    <3> QED BY <1>2, <3>2 DEF AllocInv, AllocTypeOK
  <2>6. NoGaps'
    BY <1>1, <1>2, <2>3, <2>4 DEF AllocInv, NoGaps, AllocIds
  <2>7. TasksSound'
    <3> SUFFICES ASSUME NEW v \in AllocWorkers
                 PROVE  /\ task'[v].op = "create" =>
                             /\ task'[v].row.status = "draft" /\ task'[v].row.approver = None
                             /\ \A k \in task'[v].held : alloc'[k] # None /\ alloc'[k].month = task'[v].row.month
                        /\ task'[v].op = "approve" =>
                             /\ alloc'[task'[v].id] # None
                             /\ task'[v].by # alloc'[task'[v].id].by /\ ~alloc'[task'[v].id].blocked
      BY DEF TasksSound
    <3>1. CASE v = w
      BY <1>2, <3>1 DEF NoTask, AllocInv, AllocTypeOK
    <3>2. CASE v # w
      <4>1. task'[v] = task[v]
        BY <1>2, <3>2 DEF AllocInv, AllocTypeOK
      <4>2. CASE task[v].op = "create"
        <5>1. \A k \in task[v].held : k \in AllocIds /\ alloc[k] # None /\ alloc[k].month = task[v].row.month
          BY <4>2, TaskKinds DEF CreateJob, AllocInv, TasksSound
        <5>2. task[v].row.status = "draft" /\ task[v].row.approver = None
          BY <4>2 DEF AllocInv, TasksSound
        <5> QED BY <1>2, <2>3, <4>1, <4>2, <5>1, <5>2
      <4>3. CASE task[v].op = "approve"
        <5>1. task[v].id \in AllocIds /\ alloc[task[v].id] # None
              /\ task[v].by # alloc[task[v].id].by /\ ~alloc[task[v].id].blocked
          BY <4>3, TaskKinds DEF ApproveJob, AllocInv, TasksSound
        <5> QED BY <1>2, <2>3, <4>1, <4>3, <5>1
      <4> QED BY <4>1, <4>2, <4>3
    <3> QED BY <3>1, <3>2
  <2>8. LiveIsLast'
    <3> SUFFICES ASSUME NEW n \in AllocMonths, Runs(n)' # {}
                 PROVE  \E k \in Runs(n)' : LiveOf(alloc', n) = {k} /\ \A l \in Runs(n)' : l <= k
      BY DEF LiveIsLast, LiveOf
    <3>1. CASE n = m
      <4>0. j.row.status = "draft"
        BY <1>1 DEF AllocInv, TasksSound
      <4>1. i \in Runs(n)' /\ \A l \in Runs(n)' : l <= i
        BY <1>1, <1>2, <2>3, <2>4, <3>1 DEF Runs, AllocInv, NoGaps, AllocIds
      <4>2. i \in LiveOf(alloc', n)
        BY <1>1, <2>4, <3>1, <4>0 DEF LiveOf
      <4>3. LiveOf(alloc', n) = {i}
        BY <1>4, <2>1, <3>1, <4>2, OnlyLive
      <4> QED BY <4>1, <4>2, <4>3
    <3>2. CASE n # m
      <4>0. ASSUME NEW k \in AllocIds
            PROVE  /\ alloc'[k] # None /\ alloc'[k].month = n <=> alloc[k] # None /\ alloc[k].month = n
                   /\ alloc[k] # None /\ alloc[k].month = n => alloc'[k] = alloc[k]
        <5>1. CASE k = i
          BY <1>1, <1>2, <2>4, <3>2, <5>1
        <5>2. CASE k # i
          BY <2>3, <3>2, <5>2
        <5> QED BY <5>1, <5>2
      <4>1. Runs(n)' = Runs(n)
        BY <4>0 DEF Runs
      <4>2. LiveOf(alloc', n) = LiveOf(alloc, n)
        BY <4>0 DEF LiveOf
      <4> QED BY <4>1, <4>2 DEF AllocInv, LiveIsLast
    <3> QED BY <3>1, <3>2
  <2>9. SecondPerson'
    <3>1. j.row.approver = None
      BY <1>1 DEF AllocInv, TasksSound
    <3> QED BY <2>3, <2>4, <3>1 DEF AllocInv, SecondPerson
  <2> QED BY <1>2, <2>3, <2>5, <2>6, <2>7, <2>8, <2>9 DEF AllocInv
<1> QED BY <1>3, <1>4

(* An approval of a run that was superseded meanwhile meets the live run of *)
(* its month in the index, and fails; any other only names the approver.    *)
LEMMA ApproveKeeps ==
  ASSUME AllocInv, NEW w \in AllocWorkers, ApproveRunCommit(w)
  PROVE  /\ AllocInv'
         /\ \A k \in AllocIds : alloc[k] # None /\ alloc[k].status = "superseded"
              => alloc'[k].status = "superseded"
<1> DEFINE i == task[w].id
           u == task[w].by
           m == alloc[i].month
           after == [alloc EXCEPT ![i].status = "approved", ![i].approver = u]
<1>1. /\ i \in AllocIds /\ u \in AllocReviewers /\ alloc[i] \in AllocRow /\ alloc[i] # None
      /\ u # alloc[i].by /\ ~alloc[i].blocked /\ m \in AllocMonths
  BY TaskKinds DEF ApproveRunCommit, AllocInv, AllocTypeOK, TasksSound, ApproveJob, AllocRow
<1>2. /\ alloc' = IF LiveCollision(after, m) THEN alloc ELSE after
      /\ task' = [task EXCEPT ![w] = NoTask]
  BY DEF ApproveRunCommit
<1>3. CASE LiveCollision(after, m)
  BY <1>2, <1>3, EndKeeps
<1>4. CASE ~LiveCollision(after, m)
  <2>1. /\ alloc'[i] \in AllocRow /\ alloc'[i] # None
        /\ alloc'[i].month = m /\ alloc'[i].status = "approved" /\ alloc'[i].approver = u
        /\ alloc'[i].by = alloc[i].by /\ alloc'[i].blocked = alloc[i].blocked
    <3> DEFINE r == [alloc[i] EXCEPT !.status = "approved", !.approver = u]
    <3>1. alloc'[i] = r
      BY <1>1, <1>2, <1>4 DEF AllocInv, AllocTypeOK, AllocRow
    <3>2. r \in AllocRow
      BY <1>1 DEF AllocRow
    <3>3. r.month = m /\ r.status = "approved" /\ r.approver = u /\ r.by = alloc[i].by
          /\ r.blocked = alloc[i].blocked
      BY <1>1 DEF AllocRow
    <3> HIDE DEF r
    <3> QED BY <3>1, <3>2, <3>3, AllocAssumption
  <2>2. \A k \in AllocIds \ {i} : alloc'[k] = alloc[k]
    BY <1>1, <1>2, <1>4 DEF AllocInv, AllocTypeOK
  <2>3. alloc' \in [AllocIds -> AllocRow \cup {None}]
    <3>1. \A k \in AllocIds : alloc'[k] \in AllocRow \cup {None}
      BY <2>1, <2>2 DEF AllocInv, AllocTypeOK
    <3>2. alloc' = [k \in AllocIds |-> alloc'[k]]
      BY <1>2, <1>4 DEF AllocInv, AllocTypeOK
    <3> QED BY <3>1, <3>2
  <2>4. LiveOf(alloc', m) = {i}
    <3>1. i \in LiveOf(alloc', m)
      BY <1>1, <2>1 DEF LiveOf
    <3> QED BY <1>2, <1>4, <3>1, OnlyLive
  <2>5. LiveOf(alloc, m) = {i} /\ \A k \in Runs(m) : k <= i
    <3>1. i \in Runs(m)
      BY <1>1 DEF Runs
    <3>2. PICK l \in Runs(m) : LiveOf(alloc, m) = {l} /\ \A k \in Runs(m) : k <= l
      BY <1>1, <3>1 DEF AllocInv, LiveIsLast
    <3>3. l \in AllocIds /\ l \in LiveOf(alloc, m)
      BY <3>2 DEF Runs
    <3>4. l # i => l \in LiveOf(alloc', m)
      BY <2>2, <3>3 DEF LiveOf
    <3>5. l = i
      BY <2>4, <3>4
    <3> QED BY <3>2, <3>5
  <2>6. alloc[i].status # "superseded"
    BY <2>5 DEF LiveOf
  <2>7. AllocTypeOK' /\ NoGaps'
    <3>1. AllocTypeOK'
      BY <1>2, <2>3 DEF AllocInv, AllocTypeOK
    <3>2. \A k \in AllocIds : alloc'[k] # None <=> alloc[k] # None
      BY <1>1, <2>1, <2>2
    <3>3. NoGaps'
      BY <3>2 DEF AllocInv, NoGaps
    <3> QED BY <3>1, <3>3
  <2>8. TasksSound'
    <3> SUFFICES ASSUME NEW v \in AllocWorkers
                 PROVE  /\ task'[v].op = "create" =>
                             /\ task'[v].row.status = "draft" /\ task'[v].row.approver = None
                             /\ \A k \in task'[v].held : alloc'[k] # None /\ alloc'[k].month = task'[v].row.month
                        /\ task'[v].op = "approve" =>
                             /\ alloc'[task'[v].id] # None
                             /\ task'[v].by # alloc'[task'[v].id].by /\ ~alloc'[task'[v].id].blocked
      BY DEF TasksSound
    <3>1. CASE v = w
      BY <1>2, <3>1 DEF NoTask, AllocInv, AllocTypeOK
    <3>2. CASE v # w
      <4>1. task'[v] = task[v]
        BY <1>2, <3>2 DEF AllocInv, AllocTypeOK
      <4>2. CASE task[v].op = "create"
        <5>1. \A k \in task[v].held : k \in AllocIds /\ alloc[k] # None /\ alloc[k].month = task[v].row.month
          BY <4>2, TaskKinds DEF CreateJob, AllocInv, TasksSound
        <5>2. task[v].row.status = "draft" /\ task[v].row.approver = None
          BY <4>2 DEF AllocInv, TasksSound
        <5> QED BY <2>1, <2>2, <4>1, <4>2, <5>1, <5>2
      <4>3. CASE task[v].op = "approve"
        <5>1. task[v].id \in AllocIds /\ alloc[task[v].id] # None
              /\ task[v].by # alloc[task[v].id].by /\ ~alloc[task[v].id].blocked
          BY <4>3, TaskKinds DEF ApproveJob, AllocInv, TasksSound
        <5> QED BY <2>1, <2>2, <4>1, <4>3, <5>1
      <4> QED BY <4>1, <4>2, <4>3
    <3> QED BY <3>1, <3>2
  <2>9. LiveIsLast'
    <3> SUFFICES ASSUME NEW n \in AllocMonths, Runs(n)' # {}
                 PROVE  \E k \in Runs(n)' : LiveOf(alloc', n) = {k} /\ \A l \in Runs(n)' : l <= k
      BY DEF LiveIsLast, LiveOf
    <3>1. Runs(n)' = Runs(n)
      BY <1>1, <2>1, <2>2 DEF Runs
    <3>2. LiveOf(alloc', n) = LiveOf(alloc, n)
      <4>1. CASE n = m
        BY <2>4, <2>5, <4>1
      <4>2. CASE n # m
        BY <1>1, <2>1, <2>2, <4>2 DEF LiveOf
      <4> QED BY <4>1, <4>2
    <3> QED BY <3>1, <3>2 DEF AllocInv, LiveIsLast
  <2>10. SecondPerson'
    BY <1>1, <2>1, <2>2 DEF AllocInv, SecondPerson
  <2> QED BY <2>2, <2>6, <2>7, <2>8, <2>9, <2>10 DEF AllocInv
<1> QED BY <1>3, <1>4

----------------------------------------
LEMMA InitAllocInv == AllocInit => AllocInv
<1> SUFFICES ASSUME AllocInit PROVE AllocInv
  OBVIOUS
<1>1. \A w \in AllocWorkers : task[w] = NoTask /\ task[w].op = "none"
  BY DEF AllocInit, NoTask
<1>2. \A m : Runs(m) = {}
  BY DEF AllocInit, Runs
<1>3. AllocTypeOK /\ NoGaps /\ SecondPerson
  BY DEF AllocInit, AllocTypeOK, NoGaps, SecondPerson
<1>4. TasksSound /\ LiveIsLast
  BY <1>1, <1>2 DEF TasksSound, LiveIsLast
<1> QED BY <1>3, <1>4 DEF AllocInv

LEMMA NothingMoves ==
  ASSUME AllocInv, UNCHANGED allocVars
  PROVE  AllocInv'
BY DEF allocVars, AllocInv, AllocTypeOK, NoGaps, TasksSound, LiveIsLast, LiveOf, Runs, SecondPerson

LEMMA NextAllocInv ==
  ASSUME AllocInv, [AllocNext]_allocVars
  PROVE  AllocInv'
BY ComputeKeeps, ApproveReadKeeps, SupersedeKeeps, CreateKeeps, ApproveKeeps, NothingMoves DEF AllocNext

LEMMA AllocInvariant == AllocSpec => []AllocInv
BY InitAllocInv, NextAllocInv, PTL DEF AllocSpec

----------------------------------------
(* Overlapping computations and approvals keep the run rows well typed.     *)
THEOREM AllocTypeCorrect == AllocSpec => []AllocTypeOK
BY AllocInvariant, PTL DEF AllocInv

(* Whoever approved a run is not who prepared it, and the run was computed, *)
(* for any number of overlapping requests.                                  *)
THEOREM TwoPeople == AllocSpec => []SecondPerson
BY AllocInvariant, PTL DEF AllocInv

(* _supersede_live_runs with the unique index: however computations and     *)
(* approvals overlap, a month that was ever run has one live run, and it is *)
(* the latest.                                                              *)
THEOREM OneLiveRun == AllocSpec => []LatestRunIsLive
<1>1. AllocInv => LatestRunIsLive
  <2> SUFFICES ASSUME AllocInv, NEW m \in AllocMonths, Runs(m) # {}
               PROVE  LiveOf(alloc, m) = {Max(Runs(m))}
    BY DEF LatestRunIsLive
  <2>1. PICK i \in Runs(m) : LiveOf(alloc, m) = {i} /\ \A k \in Runs(m) : k <= i
    BY DEF AllocInv, LiveIsLast
  <2>2. Runs(m) \subseteq Nat
    BY DEF Runs, AllocIds
  <2>3. Max(Runs(m)) = i
    <3>1. \A k \in Runs(m) : i >= k
      BY <2>1, <2>2
    <3>2. \A x \in Runs(m) : (\A k \in Runs(m) : x >= k) => x = i
      BY <2>1, <2>2
    <3> QED BY <3>1, <3>2 DEF Max
  <2> QED BY <2>1, <2>3
<1> QED BY <1>1, AllocInvariant, PTL

(* An approval that read a run while it was live does not bring it back     *)
(* once it is superseded (approve_run).                                     *)
THEOREM SupersededForGood == AllocSpec => SupersededStays
<1> DEFINE Stays == \A i \in AllocIds : alloc[i] # None /\ alloc[i].status = "superseded"
                      => alloc'[i].status = "superseded"
<1>1. ASSUME AllocInv, AllocNext
      PROVE  Stays
  <2>1. ASSUME NEW w \in AllocWorkers, NEW i \in AllocIds, CreateCommit(w, i) PROVE Stays
    BY <1>1, <2>1, CreateKeeps
  <2>2. ASSUME NEW w \in AllocWorkers, ApproveRunCommit(w) PROVE Stays
    BY <1>1, <2>2, ApproveKeeps
  <2>3. CASE UNCHANGED alloc
    BY <2>3
  <2> QED
    BY <1>1, <2>1, <2>2, <2>3 DEF AllocNext, Compute, ApproveRun, SupersedeLive, Superseded
<1>2. AllocInv /\ [AllocNext]_allocVars => [Stays]_allocVars
  BY <1>1
<1> QED BY <1>2, AllocInvariant, PTL DEF AllocSpec, SupersededStays

----------------------------------------
(* The autopilot.                                                          *)

(* The months are closed in order.                                          *)
ClosedInOrder == \E k \in 0..LastMonth : closed = 1..k

(* A run that executes has its row, and a live one until it is slow.        *)
RowsOfRuns ==
  \A i \in Executing : run[i] # None /\ (~slow => IsLive(i))

(* Either one worker waits to start or one run executes.                    *)
OneStart ==
  \/ Executing = {} /\ \A v, w \in Pending : v = w
  \/ Pending = {} /\ \A i, k \in Executing : i = k

(* The sweep is about to start on a month that still wants a run.           *)
SweepWanted == queued[Sweep] # None => ~Settled(queued[Sweep])

AutoInv ==
  /\ AutoTypeOK /\ ClosedInOrder /\ RowsOfRuns
  /\ ~slow /\ ~doubled => OneStart /\ SweepWanted
  /\ ScheduledOnce

LEMMA AutoRows ==
  ASSUME AutoTypeOK, NEW i \in RunIds, run[i] # None
  PROVE  /\ run[i] \in RunRow
         /\ run[i].month \in Months /\ run[i].old \in BOOLEAN
         /\ run[i].status \in {"running", "completed", "partial", "failed"}
         /\ run[i].by \in {"manual", "schedule"}
<1>1. run[i] \in RunRow
  BY DEF AutoTypeOK
<1> QED BY <1>1 DEF RunRow

LEMMA NotNone == \A r \in RunRow : r # None
BY AutopilotAssumption

LEMMA StatusChanges ==
  ASSUME NEW r \in RunRow, NEW s \in {"completed", "partial", "failed"}
  PROVE  /\ [r EXCEPT !.status = s] \in RunRow
         /\ [r EXCEPT !.status = s].month = r.month /\ [r EXCEPT !.status = s].by = r.by
         /\ [r EXCEPT !.status = s].status = s
BY DEF RunRow

LEMMA Grows ==
  ASSUME NEW r \in RunRow
  PROVE  /\ [r EXCEPT !.old = TRUE] \in RunRow
         /\ [r EXCEPT !.old = TRUE].month = r.month /\ [r EXCEPT !.old = TRUE].by = r.by
         /\ [r EXCEPT !.old = TRUE].status = r.status
BY DEF RunRow

(* The focus is the month after the ones that are closed.                   *)
LEMMA FocusMonth ==
  ASSUME ClosedInOrder
  PROVE  /\ Focus \in Months \cup {None}
         /\ Months \ closed # {} =>
              \E k \in 1..LastMonth : /\ closed = 1..(k - 1) /\ Oldest(Months \ closed) = k
                                      /\ closed \cup {k} = 1..k
<1>1. LastMonth \in Nat
  BY AutopilotAssumption
<1>2. PICK k \in 0..LastMonth : closed = 1..k
  BY DEF ClosedInOrder
<1>3. Months \ closed = (k + 1)..LastMonth
  BY <1>1, <1>2 DEF Months
<1>4. CASE k = LastMonth
  <2>1. Months \ closed = {}
    BY <1>1, <1>3, <1>4
  <2> QED BY <2>1 DEF Focus
<1>5. CASE k # LastMonth
  <2>1. k + 1 \in (k + 1)..LastMonth /\ k + 1 \in 1..LastMonth
    BY <1>1, <1>2, <1>5
  <2>2. Oldest((k + 1)..LastMonth) = k + 1
    <3> DEFINE m == CHOOSE m \in (k + 1)..LastMonth : \A n \in (k + 1)..LastMonth : m <= n
    <3>1. m \in (k + 1)..LastMonth /\ \A n \in (k + 1)..LastMonth : m <= n
      <4>1. \A n \in (k + 1)..LastMonth : k + 1 <= n
        BY <1>1, <1>2
      <4> QED BY <2>1, <4>1
    <3> HIDE DEF m
    <3>2. m = k + 1
      BY <1>1, <1>2, <2>1, <3>1
    <3> QED BY <3>2 DEF m, Oldest
  <2>3. closed = 1..((k + 1) - 1) /\ closed \cup {k + 1} = 1..(k + 1)
    BY <1>1, <1>2
  <2> QED BY <1>3, <2>1, <2>2, <2>3 DEF Focus, Months
<1> QED BY <1>4, <1>5

LEMMA StartersHaveSweep == Sweep \in Starters /\ Callers \subseteq Starters
BY DEF Starters

(* Whether a month is settled depends on what its rows say.                 *)
LEMMA SettledSame ==
  ASSUME NEW m,
         \A i \in RunIds : run'[i] # None => 
            /\ run[i] # None /\ run'[i].month = run[i].month
            /\ run'[i].status \in {"completed", "partial", "running"} =>
                 run[i].status \in {"completed", "partial", "running"},
         ~Settled(m)
  PROVE  ~Settled(m)'
BY DEF Settled

(* Rows that only change by failing, or by finishing from running, keep the *)
(* sweep's runs apart.                                                      *)
LEMMA ScheduledSame ==
  ASSUME ScheduledOnce, ~slow' /\ ~doubled' => ~slow /\ ~doubled,
         \A i \in RunIds : run'[i] # None =>
            /\ run[i] # None /\ run'[i].month = run[i].month /\ run'[i].by = run[i].by
            /\ run[i].status = "failed" => run'[i].status = "failed"
  PROVE  ScheduledOnce'
<1> SUFFICES ASSUME ~slow', ~doubled', NEW i \in RunIds, NEW k \in RunIds,
                    run'[i] # None, run'[k] # None, i # k,
                    run'[i].by = "schedule", run'[k].by = "schedule",
                    run'[i].month = run'[k].month
             PROVE  "failed" \in {run'[i].status, run'[k].status}
  BY DEF ScheduledOnce
<1>1. "failed" \in {run[i].status, run[k].status}
  BY DEF ScheduledOnce
<1> QED BY <1>1

----------------------------------------
LEMMA RunNowKeeps ==
  ASSUME AutoInv, NEW w \in Callers, RunNow(w)
  PROVE  AutoInv'
<1> USE DEF AutoInv
<1>1. /\ Focus \in Months /\ \A i \in Running : ~IsLive(i)
      /\ run' = Reclaimed
      /\ queued[w] = None /\ queued' = [queued EXCEPT ![w] = Focus]
      /\ doubled' = (doubled \/ Pending # {})
      /\ UNCHANGED <<closed, work, slow>>
  BY FocusMonth DEF RunNow
<1>2. \A i \in RunIds :
        /\ run[i] # None => run[i] \in RunRow
        /\ run'[i] = IF i \in Running THEN [run[i] EXCEPT !.status = "failed"] ELSE run[i]
  BY <1>1, AutoRows DEF Reclaimed
<1>3. \A i \in RunIds :
        /\ run'[i] \in RunRow \cup {None}
        /\ run[i] # None <=> run'[i] # None
        /\ run'[i] # None =>
             /\ run[i] # None /\ run'[i].month = run[i].month /\ run'[i].by = run[i].by
             /\ run[i].status = "failed" => run'[i].status = "failed"
  <2> SUFFICES ASSUME NEW i \in RunIds
               PROVE  /\ run'[i] \in RunRow \cup {None}
                      /\ run[i] # None <=> run'[i] # None
                      /\ run'[i] # None =>
                           /\ run[i] # None /\ run'[i].month = run[i].month
                           /\ run'[i].by = run[i].by
                           /\ run[i].status = "failed" => run'[i].status = "failed"
    OBVIOUS
  <2>1. CASE i \in Running
    <3>1. run[i] \in RunRow /\ run'[i] = [run[i] EXCEPT !.status = "failed"]
      BY <1>2, <2>1 DEF Running
    <3> DEFINE new == [run[i] EXCEPT !.status = "failed"]
    <3>2. /\ new \in RunRow /\ new.month = run[i].month /\ new.by = run[i].by
          /\ new.status = "failed"
      BY <3>1, StatusChanges
    <3>3. run'[i] = new /\ run[i] # None
      BY <2>1, <3>1 DEF Running
    <3> HIDE DEF new
    <3> QED BY <3>2, <3>3, NotNone
  <2>2. CASE i \notin Running
    BY <1>2, <2>2, Zenon
  <2> QED BY <2>1, <2>2
<1>4. AutoTypeOK'
  <2>1. run' \in [RunIds -> RunRow \cup {None}]
    BY <1>1, <1>3 DEF Reclaimed
  <2>2. doubled' \in BOOLEAN
    BY <1>1, Zenon DEF AutoTypeOK
  <2> QED BY <1>1, <2>1, <2>2, StartersHaveSweep DEF AutoTypeOK
<1>5. ClosedInOrder'
  BY <1>1 DEF ClosedInOrder
<1>6. ~slow => Executing = {}
  BY <1>1 DEF RowsOfRuns, IsLive, Executing
<1>7. RowsOfRuns'
  BY <1>1, <1>3, <1>6 DEF RowsOfRuns, Executing
<1>8. ~slow' /\ ~doubled' => ~slow /\ ~doubled /\ Pending = {}
  BY <1>1
<1>9. ASSUME ~slow', ~doubled' PROVE OneStart' /\ SweepWanted'
  <2>1. Executing' = {}
    BY <1>1, <1>6, <1>9 DEF Executing
  <2>2. \A v \in Starters : v # w => queued'[v] = None
    BY <1>1, <1>8, <1>9 DEF Pending, AutoTypeOK
  <2>3. \A v \in Pending' : v = w
    BY <2>2 DEF Pending
  <2>4. queued'[Sweep] = None
    BY <2>2, StartersHaveSweep, AutopilotAssumption
  <2> QED BY <2>1, <2>3, <2>4 DEF OneStart, SweepWanted
<1>10. ScheduledOnce'
  BY <1>3, <1>8, ScheduledSame
<1> QED BY <1>4, <1>5, <1>7, <1>9, <1>10

LEMMA SweepKeeps ==
  ASSUME AutoInv, SweepDue
  PROVE  AutoInv'
<1> USE DEF AutoInv
<1>1. /\ Focus \in Months /\ ~Settled(Focus)
      /\ queued' = [queued EXCEPT ![Sweep] = Focus]
      /\ doubled' = (doubled \/ Pending # {} \/ \E i \in Executing : run[i].month # Focus)
      /\ UNCHANGED <<closed, run, work, slow>>
  BY FocusMonth DEF SweepDue
<1>2. AutoTypeOK'
  <2>1. doubled' \in BOOLEAN
    BY <1>1, Zenon DEF AutoTypeOK
  <2> QED BY <1>1, <2>1, StartersHaveSweep DEF AutoTypeOK
<1>3. ClosedInOrder' /\ RowsOfRuns'
  BY <1>1 DEF ClosedInOrder, RowsOfRuns, Executing, IsLive, Running
<1>4. ~slow' /\ ~doubled' => ~slow /\ ~doubled /\ Pending = {}
  BY <1>1
<1>5. ASSUME ~slow', ~doubled' PROVE OneStart' /\ SweepWanted'
  <2>1. Executing = {}
    <3> SUFFICES ASSUME NEW i \in Executing PROVE FALSE
      OBVIOUS
    <3>1. i \in RunIds /\ run[i] # None /\ run[i].status = "running"
      BY <1>1, <1>5 DEF RowsOfRuns, IsLive, Running, Executing
    <3>2. run[i].month = Focus
      BY <1>1, <1>5
    <3> QED BY <1>1, <3>1, <3>2 DEF Settled
  <2>2. Executing' = {}
    BY <1>1, <2>1 DEF Executing
  <2>3. \A v \in Starters : v # Sweep => queued'[v] = None
    BY <1>1, <1>4, <1>5 DEF Pending, AutoTypeOK
  <2>4. \A v \in Pending' : v = Sweep
    BY <2>3 DEF Pending
  <2>5. queued'[Sweep] = Focus
    BY <1>1, StartersHaveSweep DEF AutoTypeOK
  <2>6. ~Settled(Focus)'
    <3>1. ~ \E i \in RunIds : /\ run[i] # None /\ run[i].month = Focus
                              /\ run[i].status \in {"completed", "partial", "running"}
      BY <1>1 DEF Settled
    <3>2. Focus' = Focus
      BY <1>1 DEF Focus, Oldest
    <3> QED BY <1>1, <3>1, <3>2 DEF Settled
  <2>7. Focus' = Focus
    BY <1>1 DEF Focus, Oldest
  <2>8. SweepWanted'
    BY <2>5, <2>6, <2>7 DEF SweepWanted
  <2> QED BY <2>2, <2>4, <2>8 DEF OneStart
<1>6. ScheduledOnce'
  BY <1>1, <1>4 DEF ScheduledOnce
<1> QED BY <1>2, <1>3, <1>5, <1>6

LEMMA BeginKeeps ==
  ASSUME AutoInv, NEW w \in Starters, NEW i \in RunIds, Begin(w, i)
  PROVE  AutoInv'
<1> USE DEF AutoInv
<1>1. PICK actor \in BOOLEAN :
        /\ run' = [run EXCEPT ![i] =
             [month |-> queued[w], status |-> IF actor THEN "running" ELSE "failed",
              old |-> FALSE, by |-> IF w = Sweep THEN "schedule" ELSE "manual"]]
        /\ work' = [work EXCEPT ![i] = IF actor THEN "ok" ELSE None]
  BY DEF Begin
<1>2. /\ queued[w] # None /\ run[i] = None
      /\ queued' = [queued EXCEPT ![w] = None]
      /\ UNCHANGED <<closed, slow, doubled>>
  BY DEF Begin
<1> DEFINE new == [month |-> queued[w], status |-> IF actor THEN "running" ELSE "failed",
                   old |-> FALSE, by |-> IF w = Sweep THEN "schedule" ELSE "manual"]
<1>3. /\ new \in RunRow /\ new.month = queued[w] /\ ~new.old
      /\ new.status = IF actor THEN "running" ELSE "failed"
      /\ new.by = IF w = Sweep THEN "schedule" ELSE "manual"
  BY <1>2 DEF AutoTypeOK, RunRow
<1>4. run' = [run EXCEPT ![i] = new]
  BY <1>1
<1> HIDE DEF new
<1>5. /\ run'[i] = new /\ new # None
      /\ \A k \in RunIds : k # i => run'[k] = run[k]
  BY <1>3, <1>4, NotNone DEF AutoTypeOK
<1>6. /\ work'[i] = IF actor THEN "ok" ELSE None
      /\ \A k \in RunIds : k # i => work'[k] = work[k]
  BY <1>1 DEF AutoTypeOK
<1>7. AutoTypeOK'
  <2>1. work' \in [RunIds -> {"ok", "erred", None}]
    BY <1>1 DEF AutoTypeOK
  <2> QED BY <1>2, <1>3, <1>4, <2>1 DEF AutoTypeOK
<1>8. ClosedInOrder'
  BY <1>2 DEF ClosedInOrder
<1>9. Executing' \subseteq Executing \cup {i} /\ (~actor => i \notin Executing')
  BY <1>6 DEF Executing
<1>10. RowsOfRuns'
  <2> SUFFICES ASSUME NEW k \in Executing'
               PROVE  run'[k] # None /\ (~slow' => IsLive(k)')
    BY DEF RowsOfRuns
  <2>1. CASE k = i
    BY <1>3, <1>5, <1>9, <2>1 DEF IsLive, Running
  <2>2. CASE k # i
    <3>1. k \in Executing /\ k \in RunIds /\ run'[k] = run[k]
      BY <1>5, <1>9, <2>2 DEF Executing
    <3> QED BY <1>2, <3>1 DEF RowsOfRuns, IsLive, Running
  <2> QED BY <2>1, <2>2
<1>11. ASSUME ~slow, ~doubled
       PROVE  Executing = {} /\ \A v \in Starters : queued'[v] = None
  BY <1>2, <1>11 DEF OneStart, Pending, AutoTypeOK
<1>12. ASSUME ~slow', ~doubled' PROVE OneStart' /\ SweepWanted'
  BY <1>2, <1>9, <1>11, <1>12, StartersHaveSweep DEF OneStart, SweepWanted, Pending
<1>13. ScheduledOnce'
  <2> SUFFICES ASSUME ~slow, ~doubled, NEW j \in RunIds, NEW k \in RunIds,
                      run'[j] # None, run'[k] # None, j # k,
                      run'[j].by = "schedule", run'[k].by = "schedule",
                      run'[j].month = run'[k].month
               PROVE  "failed" \in {run'[j].status, run'[k].status}
    BY <1>2 DEF ScheduledOnce
  <2>1. ASSUME NEW l \in RunIds, l # i, run[l] # None, run[l].month = new.month,
               new.by = "schedule"
        PROVE  run[l].status = "failed"
    <3>1. w = Sweep /\ ~Settled(queued[Sweep])
      BY <1>2, <1>3, <2>1 DEF SweepWanted
    <3>2. run[l].status \notin {"completed", "partial", "running"}
      BY <1>3, <2>1, <3>1 DEF Settled
    <3> QED BY <2>1, <3>2, AutoRows
  <2>2. CASE j # i /\ k # i
    BY <1>5, <2>2 DEF ScheduledOnce
  <2>3. CASE j = i
    BY <1>5, <2>1, <2>3
  <2>4. CASE k = i
    BY <1>5, <2>1, <2>4
  <2> QED BY <2>2, <2>3, <2>4
<1> QED BY <1>7, <1>8, <1>10, <1>12, <1>13

(* A step of the run, or its end.                                           *)
LEMMA WorkKeeps ==
  ASSUME AutoInv, NEW i \in RunIds, StepFails(i) \/ Finish(i)
  PROVE  AutoInv'
<1> USE DEF AutoInv
<1>1. i \in Executing /\ run[i] # None /\ (~slow => IsLive(i))
  BY AutopilotAssumption DEF StepFails, Finish, Executing, RowsOfRuns
<1>2. run[i] \in RunRow
  BY <1>1, AutoRows
<1>3. Executing' \subseteq Executing /\ UNCHANGED <<closed, queued, slow, doubled>>
  BY <1>1 DEF StepFails, Finish, Executing, AutoTypeOK
<1>4. /\ run' \in [RunIds -> RunRow \cup {None}]
      /\ \A k \in RunIds : run'[k] # run[k] =>
           /\ k = i /\ i \notin Executing'
           /\ run'[i] # None /\ run'[i].month = run[i].month /\ run'[i].by = run[i].by
           /\ run'[i].status # "failed"
  <2>1. CASE StepFails(i)
    BY <2>1 DEF StepFails, AutoTypeOK
  <2>2. CASE Finish(i)
    <3>1. PICK s \in {"completed", "partial", "failed"} : s # "failed" /\ Outcome(i) = s
      BY DEF Outcome
    <3> DEFINE new == [run[i] EXCEPT !.status = s]
    <3>2. /\ new \in RunRow /\ new.month = run[i].month /\ new.by = run[i].by
          /\ new.status = s
      BY <1>2, <3>1, StatusChanges
    <3>3. run' = [run EXCEPT ![i] = new] /\ work' = [work EXCEPT ![i] = None]
      BY <2>2, <3>1 DEF Finish, AutoTypeOK
    <3> HIDE DEF new
    <3> QED BY <3>1, <3>2, <3>3, NotNone DEF AutoTypeOK, Executing
  <2> QED BY <2>1, <2>2
<1>5. AutoTypeOK'
  <2>1. work' \in [RunIds -> {"ok", "erred", None}]
    BY DEF StepFails, Finish, AutoTypeOK
  <2> QED BY <1>3, <1>4, <2>1 DEF AutoTypeOK
<1>6. ClosedInOrder'
  BY <1>3 DEF ClosedInOrder
<1>7. RowsOfRuns'
  <2> SUFFICES ASSUME NEW k \in Executing'
               PROVE  run'[k] # None /\ (~slow' => IsLive(k)')
    BY DEF RowsOfRuns
  <2>1. k \in Executing /\ k \in RunIds /\ run'[k] = run[k]
    BY <1>3, <1>4 DEF Executing
  <2> QED BY <1>3, <2>1 DEF RowsOfRuns, IsLive, Running
<1>8. ASSUME ~slow', ~doubled' PROVE OneStart' /\ SweepWanted'
  <2>1. Pending = {} /\ Pending' = {} /\ \A j, k \in Executing : j = k
    BY <1>1, <1>3, <1>8 DEF OneStart, Pending
  <2>2. queued'[Sweep] = None
    BY <2>1, StartersHaveSweep DEF Pending
  <2> QED BY <1>3, <2>1, <2>2 DEF OneStart, SweepWanted
<1>9. ScheduledOnce'
  <2> SUFFICES ASSUME ~slow, ~doubled, NEW j \in RunIds, NEW k \in RunIds,
                      run'[j] # None, run'[k] # None, j # k,
                      run'[j].by = "schedule", run'[k].by = "schedule",
                      run'[j].month = run'[k].month
               PROVE  "failed" \in {run'[j].status, run'[k].status}
    BY <1>3 DEF ScheduledOnce
  <2>1. run[i].status # "failed"
    BY <1>1 DEF IsLive, Running
  <2>2. \A l \in RunIds : run'[l] # None =>
          /\ run[l] # None /\ run'[l].by = run[l].by /\ run'[l].month = run[l].month
          /\ run[l].status = "failed" => run'[l].status = "failed"
    BY <1>1, <1>4, <2>1
  <2>3. "failed" \in {run[j].status, run[k].status}
    BY <2>2 DEF ScheduledOnce
  <2> QED BY <2>2, <2>3
<1> QED BY <1>5, <1>6, <1>7, <1>8, <1>9

LEMMA AgesKeeps ==
  ASSUME AutoInv, NEW i \in RunIds, Ages30(i)
  PROVE  AutoInv'
<1> USE DEF AutoInv
<1>1. run[i] # None /\ run[i] \in RunRow
  BY AutoRows DEF Ages30, IsLive, Running
<1> DEFINE new == [run[i] EXCEPT !.old = TRUE]
<1>2. /\ new \in RunRow /\ new # None /\ new.month = run[i].month
      /\ new.status = run[i].status /\ new.by = run[i].by
  BY <1>1, Grows, NotNone
<1>3. /\ run' = [run EXCEPT ![i] = new] /\ slow' = (slow \/ work[i] # None)
      /\ UNCHANGED <<closed, queued, work, doubled>>
  BY DEF Ages30, AutoTypeOK
<1> HIDE DEF new
<1>4. \A k \in RunIds : /\ k # i => run'[k] = run[k]
                        /\ run'[k] # None =>
                             /\ run[k] # None /\ run'[k].month = run[k].month
                             /\ run'[k].by = run[k].by /\ run'[k].status = run[k].status
  BY <1>1, <1>2, <1>3 DEF AutoTypeOK
<1>5. AutoTypeOK'
  <2>1. slow' \in BOOLEAN
    BY <1>3, Zenon DEF AutoTypeOK
  <2> QED BY <1>2, <1>3, <2>1 DEF AutoTypeOK
<1>6. ClosedInOrder'
  BY <1>3 DEF ClosedInOrder
<1>7. RowsOfRuns'
  <2> SUFFICES ASSUME NEW k \in Executing'
               PROVE  run'[k] # None /\ (~slow' => IsLive(k)')
    BY DEF RowsOfRuns
  <2>1. k \in Executing /\ k \in RunIds
    BY <1>3 DEF Executing
  <2>2. CASE k = i
    BY <1>2, <1>3, <2>1, <2>2 DEF Executing, AutoTypeOK
  <2>3. CASE k # i
    BY <1>3, <1>4, <2>1, <2>3 DEF RowsOfRuns, IsLive, Running
  <2> QED BY <2>2, <2>3
<1>8. ~slow' /\ ~doubled' => ~slow /\ ~doubled
  BY <1>3
<1>9. ASSUME ~slow', ~doubled' PROVE OneStart' /\ SweepWanted'
  <2>1. OneStart' /\ queued' = queued
    BY <1>3, <1>8, <1>9 DEF OneStart, Executing, Pending
  <2>2. queued[Sweep] # None => ~Settled(queued[Sweep])'
    <3> SUFFICES ASSUME queued[Sweep] # None, NEW k \in RunIds, run'[k] # None,
                        run'[k].month = queued'[Sweep],
                        run'[k].status \in {"completed", "partial", "running"}
                 PROVE  FALSE
      BY DEF Settled
    <3> QED BY <1>4, <1>8, <1>9, <2>1 DEF SweepWanted, Settled
  <2> QED BY <2>1, <2>2 DEF SweepWanted
<1>10. ScheduledOnce'
  BY <1>4, <1>8, ScheduledSame
<1> QED BY <1>5, <1>6, <1>7, <1>9, <1>10

(* A restart, a closed month, nothing at all.                               *)
LEMMA RestKeeps ==
  ASSUME AutoInv, Crash \/ CloseMonth \/ UNCHANGED autoVars
  PROVE  AutoInv'
<1> USE DEF AutoInv
<1>1. CASE Crash
  <2>1. /\ work' = [i \in RunIds |-> None] /\ queued' = [w \in Starters |-> None]
        /\ UNCHANGED <<closed, run, slow, doubled>>
    BY <1>1 DEF Crash
  <2>2. Executing' = {} /\ Pending' = {} /\ queued'[Sweep] = None
    BY <2>1, StartersHaveSweep DEF Executing, Pending
  <2>3. AutoTypeOK' /\ ClosedInOrder' /\ RowsOfRuns'
    BY <2>1, <2>2 DEF AutoTypeOK, ClosedInOrder, RowsOfRuns
  <2>4. OneStart' /\ SweepWanted'
    BY <2>2 DEF OneStart, SweepWanted
  <2>5. ScheduledOnce'
    BY <2>1 DEF ScheduledOnce
  <2> QED BY <2>3, <2>4, <2>5
<1>2. CASE CloseMonth \/ UNCHANGED autoVars
  <2>1. UNCHANGED <<run, queued, work, slow, doubled>>
    BY <1>2 DEF CloseMonth, autoVars
  <2>2. closed' \subseteq Months /\ ClosedInOrder'
    <3>1. CASE CloseMonth
      <4>1. Months \ closed # {} /\ closed' = closed \cup {Oldest(Months \ closed)}
        BY <3>1 DEF CloseMonth
      <4>2. PICK k \in 1..LastMonth : closed' = 1..k
        BY <4>1, FocusMonth
      <4>3. LastMonth \in Nat
        BY AutopilotAssumption
      <4> QED BY <4>2, <4>3 DEF ClosedInOrder, Months
    <3>2. CASE UNCHANGED autoVars
      BY <3>2 DEF autoVars, AutoTypeOK, ClosedInOrder
    <3> QED BY <1>2, <3>1, <3>2
  <2>3. AutoTypeOK'
    BY <2>1, <2>2 DEF AutoTypeOK
  <2>4. RowsOfRuns' /\ (~slow' /\ ~doubled' => OneStart' /\ SweepWanted') /\ ScheduledOnce'
    BY <2>1 DEF RowsOfRuns, OneStart, SweepWanted, ScheduledOnce, Executing, Pending, IsLive,
                Running, Settled
  <2> QED BY <2>2, <2>3, <2>4
<1> QED BY <1>1, <1>2

LEMMA AutoStart == AutoInit => AutoInv
<1> SUFFICES ASSUME AutoInit PROVE AutoInv
  OBVIOUS
<1>1. AutoTypeOK
  BY DEF AutoInit, AutoTypeOK
<1>2. ClosedInOrder
  <2>1. 0 \in 0..LastMonth /\ 1..0 = {}
    BY AutopilotAssumption
  <2> QED BY <2>1 DEF AutoInit, ClosedInOrder
<1>3. Executing = {} /\ Pending = {} /\ queued[Sweep] = None /\ \A i \in RunIds : run[i] = None
  BY StartersHaveSweep DEF AutoInit, Executing, Pending
<1> QED BY <1>1, <1>2, <1>3 DEF AutoInv, RowsOfRuns, OneStart, SweepWanted, ScheduledOnce

LEMMA AutoStep ==
  ASSUME AutoInv, [AutoNext]_autoVars
  PROVE  AutoInv'
BY RunNowKeeps, SweepKeeps, BeginKeeps, WorkKeeps, AgesKeeps, RestKeeps DEF AutoNext

LEMMA AutoInvariant == AutoSpec => []AutoInv
BY AutoStart, AutoStep, PTL DEF AutoSpec

(* The rows of the runs, the requests for one and the months that are      *)
(* closed stay well typed.                                                 *)
THEOREM AutoTypeCorrect == AutoSpec => []AutoTypeOK
<1>1. AutoInv => AutoTypeOK
  BY DEF AutoInv
<1> QED BY <1>1, AutoInvariant, PTL

(* At most one run of the autopilot starts or works at a time, crashes,    *)
(* reclaimed rows and the sweep included, unless a run outlived the stale  *)
(* window or two starts were decided side by side (start_run, _live_run).  *)
THEOREM OneRunInWorkspace == AutoSpec => []OneRunAtATime
<1>1. AutoInv => OneRunAtATime
  <2> SUFFICES ASSUME AutoInv, ~slow, ~doubled
               PROVE  Cardinality(Executing \cup Pending) <= 1
    BY DEF OneRunAtATime
  <2>1. OneStart
    BY DEF AutoInv
  <2>2. CASE Executing \cup Pending = {}
    <3>1. Cardinality(Executing \cup Pending) = 0
      BY <2>2, FS_EmptySet, Zenon
    <3> QED BY <3>1
  <2>3. CASE Executing \cup Pending # {}
    <3>1. PICK x : Executing \cup Pending = {x}
      BY <2>1, <2>3 DEF OneStart
    <3>2. Cardinality({x}) = 1
      BY FS_Singleton
    <3> QED BY <3>1, <3>2
  <2> QED BY <2>2, <2>3
<1> QED BY <1>1, AutoInvariant, PTL

(* Of two scheduled runs of one month one has failed: the sweep looks for  *)
(* a settled run of its month, and while it waits to start nobody else     *)
(* settles it.                                                             *)
THEOREM ScheduledMonthsRunOnce == AutoSpec => []ScheduledOnce
<1>1. AutoInv => ScheduledOnce
  BY DEF AutoInv
<1> QED BY <1>1, AutoInvariant, PTL

----------------------------------------
(* The AI budget.                                                          *)

(* A sum over the slots, as the number of the units that make it up.        *)
Amounts == [AiSlots -> 0..PerRequest]
Units(f) == {p \in AiSlots \X (1..PerRequest) : p[2] <= f[p[1]]}
TotalOf(f) == Cardinality(Units(f))

(* What the requests in progress have noted, and with it all that they can  *)
(* still add.                                                               *)
Due(j) == j.buffer + (MaxCalls - j.calls) * MaxCost
Buffered(a) == [s \in AiSlots |-> IF a[s] = NoRequest THEN 0 ELSE a[s].buffer]
Owed(a) == [s \in AiSlots |-> IF a[s] = NoRequest THEN 0 ELSE Due(a[s])]

(* The requests in progress, each with no more noted than its calls cost.   *)
Requests ==
  {a \in [AiSlots -> {NoRequest} \cup AiJob] :
     \A s \in AiSlots : a[s] # NoRequest => a[s].buffer <= a[s].calls * MaxCost}

BudgetInv ==
  /\ BudgetTypeOK /\ ai \in Requests
  /\ ~soft =>
       /\ spent - uncounted <= recorded + TotalOf(Buffered(ai))
       /\ recorded + TotalOf(Owed(ai)) < Cap + Cardinality(AiSlots) * PerRequest

LEMMA PerRequestNat ==
  /\ PerRequest \in Nat \ {0} /\ MaxCalls \in Nat \ {0} /\ MaxCost \in Nat \ {0}
  /\ Cap \in Nat \ {0} /\ MaxSpent \in Nat
  /\ IsFiniteSet(AiSlots) /\ Cardinality(AiSlots) \in Nat
<1>1. MaxCalls * MaxCost \in Nat \ {0}
  BY BudgetAssumption
<1>2. Cardinality(AiSlots) \in Nat
  BY BudgetAssumption, FS_CardinalityType
<1> QED BY <1>1, <1>2, BudgetAssumption DEF PerRequest

LEMMA AllUnits ==
  /\ IsFiniteSet(AiSlots \X (1..PerRequest))
  /\ Cardinality(AiSlots \X (1..PerRequest)) = Cardinality(AiSlots) * PerRequest
<1>1. PerRequest \in Nat \ {0} /\ IsFiniteSet(AiSlots)
  BY PerRequestNat
<1>2. IsFiniteSet(1..PerRequest) /\ Cardinality(1..PerRequest) = PerRequest
  BY <1>1, FS_Interval
<1> QED BY <1>1, <1>2, FS_Product

LEMMA TotalBound ==
  ASSUME NEW f \in Amounts
  PROVE  /\ IsFiniteSet(Units(f)) /\ TotalOf(f) \in Nat
         /\ TotalOf(f) <= Cardinality(AiSlots) * PerRequest
<1>1. Units(f) \in SUBSET (AiSlots \X (1..PerRequest))
  BY DEF Units
<1>2. /\ IsFiniteSet(Units(f))
      /\ Cardinality(Units(f)) <= Cardinality(AiSlots \X (1..PerRequest))
  BY <1>1, AllUnits, FS_Subset
<1> QED BY <1>2, AllUnits, FS_CardinalityType DEF TotalOf

LEMMA TotalGrows ==
  ASSUME NEW f \in Amounts, NEW g \in Amounts, \A s \in AiSlots : f[s] <= g[s]
  PROVE  TotalOf(f) <= TotalOf(g)
<1>1. Units(f) \in SUBSET Units(g)
  <2> SUFFICES ASSUME NEW p \in Units(f) PROVE p \in Units(g)
    OBVIOUS
  <2>1. p \in AiSlots \X (1..PerRequest) /\ p[2] <= f[p[1]]
    BY DEF Units
  <2>2. p[1] \in AiSlots /\ p[2] \in Int /\ f[p[1]] \in Int /\ g[p[1]] \in Int
    BY <2>1, PerRequestNat DEF Amounts
  <2>3. p[2] <= g[p[1]]
    BY <2>1, <2>2
  <2> QED BY <2>1, <2>3 DEF Units
<1>2. IsFiniteSet(Units(g))
  BY TotalBound
<1> QED BY <1>1, <1>2, FS_Subset DEF TotalOf

LEMMA TotalNothing ==
  ASSUME NEW f \in Amounts, \A s \in AiSlots : f[s] = 0
  PROVE  TotalOf(f) = 0
<1>1. Units(f) = {}
  <2> SUFFICES ASSUME NEW p \in Units(f) PROVE FALSE
    OBVIOUS
  <2>1. p[1] \in AiSlots /\ p[2] \in 1..PerRequest /\ p[2] <= f[p[1]]
    BY DEF Units
  <2> QED BY <2>1, PerRequestNat
<1>2. Cardinality({}) = 0
  BY FS_EmptySet
<1> QED BY <1>1, <1>2, Zenon DEF TotalOf

(* The units of one slot.                                                   *)
LEMMA SlotUnits ==
  ASSUME NEW s \in AiSlots, NEW n \in 0..PerRequest
  PROVE  IsFiniteSet({s} \X (1..n)) /\ Cardinality({s} \X (1..n)) = n
<1>1. n \in Nat
  BY PerRequestNat
<1>2. IsFiniteSet(1..n) /\ Cardinality(1..n) = n
  BY <1>1, FS_Interval
<1>3. IsFiniteSet({s}) /\ Cardinality({s}) = 1
  BY FS_Singleton
<1>4. IsFiniteSet({s} \X (1..n)) /\ Cardinality({s} \X (1..n)) = 1 * n
  <2> HIDE DEF PerRequest
  <2> QED BY <1>2, <1>3, FS_Product
<1> QED BY <1>1, <1>4

LEMMA SplitUnits ==
  ASSUME NEW f \in Amounts, NEW s \in AiSlots, NEW rest,
         rest = {p \in Units(f) : p[1] # s}
  PROVE  TotalOf(f) = Cardinality(rest) + f[s] /\ IsFiniteSet(rest) /\ Cardinality(rest) \in Nat
<1> DEFINE own == {s} \X (1..f[s])
<1>1. f[s] \in 0..PerRequest
  BY DEF Amounts
<1>2. IsFiniteSet(own) /\ Cardinality(own) = f[s]
  BY <1>1, SlotUnits
<1>3. rest \in SUBSET Units(f)
  OBVIOUS
<1>4. IsFiniteSet(rest) /\ Cardinality(rest) \in Nat
  BY <1>3, TotalBound, FS_Subset, FS_CardinalityType
<1>5. rest \cap own = {}
  OBVIOUS
<1>6. Units(f) = rest \cup own
  <2>1. ASSUME NEW p \in Units(f) PROVE p \in rest \cup own
    <3>1. p \in AiSlots \X (1..PerRequest) /\ p[2] <= f[p[1]]
      BY DEF Units
    <3>2. CASE p[1] # s
      BY <3>2
    <3>3. CASE p[1] = s
      <4>1. p[2] \in 1..f[s] /\ p = <<s, p[2]>>
        BY <1>1, <3>1, <3>3, PerRequestNat
      <4> QED BY <4>1
    <3> QED BY <3>2, <3>3
  <2>2. ASSUME NEW p \in own PROVE p \in Units(f)
    <3>1. p[1] = s /\ p[2] \in 1..f[s] /\ p = <<p[1], p[2]>>
      OBVIOUS
    <3>2. p[2] \in 1..PerRequest /\ p[2] <= f[s]
      BY <1>1, <3>1, PerRequestNat
    <3> QED BY <3>1, <3>2 DEF Units
  <2> QED BY <1>3, <2>1, <2>2
<1>7. Cardinality({}) = 0
  BY FS_EmptySet
<1>8. Cardinality(rest \cup own) = Cardinality(rest) + Cardinality(own) - Cardinality(rest \cap own)
  <2> HIDE DEF own
  <2> QED BY <1>2, <1>4, FS_Union
<1>9. Cardinality(rest \cap own) = 0
  BY <1>5, <1>7, Zenon
<1>10. Cardinality(Units(f)) = Cardinality(rest \cup own)
  BY <1>6, Zenon
<1> HIDE DEF own
<1> QED BY <1>1, <1>2, <1>4, <1>8, <1>9, <1>10, PerRequestNat DEF TotalOf

(* One slot changes.                                                        *)
LEMMA TotalUpdate ==
  ASSUME NEW f \in Amounts, NEW g \in Amounts, NEW s \in AiSlots,
         \A t \in AiSlots : t # s => g[t] = f[t]
  PROVE  TotalOf(g) - g[s] = TotalOf(f) - f[s]
<1> DEFINE rest == {p \in Units(f) : p[1] # s}
<1>1. rest = {p \in Units(g) : p[1] # s}
  BY DEF Units
<1> HIDE DEF rest
<1>2. TotalOf(f) = Cardinality(rest) + f[s] /\ Cardinality(rest) \in Nat
  BY SplitUnits DEF rest
<1>3. TotalOf(g) = Cardinality(rest) + g[s]
  BY <1>1, SplitUnits
<1>4. f[s] \in Int /\ g[s] \in Int
  BY PerRequestNat DEF Amounts
<1> QED BY <1>2, <1>3, <1>4

----------------------------------------
LEMMA JobFields ==
  ASSUME NEW j \in AiJob
  PROVE  /\ j # NoRequest /\ j.kind \in Kinds /\ j.calls \in 0..MaxCalls
         /\ j.buffer \in 0..PerRequest /\ j.calls \in Nat /\ j.buffer \in Nat
         /\ MaxCalls - j.calls \in Nat
BY PerRequestNat DEF AiJob, NoRequest, Kinds, PerRequest

(* A request never owes more than the work of one.                          *)
LEMMA DueBound ==
  ASSUME NEW j \in AiJob, j.buffer <= j.calls * MaxCost
  PROVE  Due(j) \in 0..PerRequest /\ j.buffer <= Due(j)
<1>1. /\ MaxCalls \in Nat /\ MaxCost \in Nat /\ j.calls \in Nat /\ j.buffer \in Nat
      /\ MaxCalls - j.calls \in Nat
  BY JobFields, PerRequestNat
<1>2. (MaxCalls - j.calls) * MaxCost = MaxCalls * MaxCost - j.calls * MaxCost
  BY <1>1
<1>3. (MaxCalls - j.calls) * MaxCost \in Nat /\ j.calls * MaxCost \in Nat
  BY <1>1
<1> QED BY <1>1, <1>2, <1>3, PerRequestNat DEF Due, PerRequest

LEMMA SlotAmounts ==
  ASSUME NEW a \in Requests
  PROVE  /\ Buffered(a) \in Amounts /\ Owed(a) \in Amounts
         /\ \A s \in AiSlots :
              /\ Buffered(a)[s] = IF a[s] = NoRequest THEN 0 ELSE a[s].buffer
              /\ Owed(a)[s] = IF a[s] = NoRequest THEN 0 ELSE Due(a[s])
              /\ Buffered(a)[s] <= Owed(a)[s]
<1>1. ASSUME NEW s \in AiSlots, a[s] # NoRequest
      PROVE  /\ a[s] \in AiJob /\ a[s].buffer \in 0..PerRequest
             /\ Due(a[s]) \in 0..PerRequest /\ a[s].buffer <= Due(a[s])
  <2>1. a[s] \in AiJob /\ a[s].buffer <= a[s].calls * MaxCost
    BY <1>1 DEF Requests
  <2> QED BY <2>1, JobFields, DueBound
<1>2. \A s \in AiSlots :
        /\ Buffered(a)[s] = IF a[s] = NoRequest THEN 0 ELSE a[s].buffer
        /\ Owed(a)[s] = IF a[s] = NoRequest THEN 0 ELSE Due(a[s])
  BY DEF Buffered, Owed
<1>3. 0 \in 0..PerRequest
  BY PerRequestNat
<1>4. \A s \in AiSlots : Buffered(a)[s] \in 0..PerRequest /\ Owed(a)[s] \in 0..PerRequest
  BY <1>1, <1>2, <1>3
<1>5. Buffered(a) = [s \in AiSlots |-> Buffered(a)[s]] /\ Owed(a) = [s \in AiSlots |-> Owed(a)[s]]
  BY DEF Buffered, Owed
<1>6. Buffered(a) \in Amounts /\ Owed(a) \in Amounts
  BY <1>4, <1>5 DEF Amounts
<1> QED BY <1>1, <1>2, <1>6

(* One request changes: the sums move by what that request adds.            *)
LEMMA SlotStep ==
  ASSUME NEW a \in Requests, NEW b \in Requests, NEW s \in AiSlots,
         \A t \in AiSlots : t # s => b[t] = a[t]
  PROVE  /\ TotalOf(Buffered(b)) - Buffered(b)[s] = TotalOf(Buffered(a)) - Buffered(a)[s]
         /\ TotalOf(Owed(b)) - Owed(b)[s] = TotalOf(Owed(a)) - Owed(a)[s]
         /\ Buffered(a)[s] \in Nat /\ Buffered(b)[s] \in Nat
         /\ Owed(a)[s] \in Nat /\ Owed(b)[s] \in Nat
         /\ TotalOf(Buffered(a)) \in Nat /\ TotalOf(Buffered(b)) \in Nat
         /\ TotalOf(Owed(a)) \in Nat /\ TotalOf(Owed(b)) \in Nat
<1>1. /\ Buffered(a) \in Amounts /\ Owed(a) \in Amounts
      /\ Buffered(b) \in Amounts /\ Owed(b) \in Amounts
  BY SlotAmounts
<1>2. \A t \in AiSlots : t # s => /\ Buffered(b)[t] = Buffered(a)[t]
                                  /\ Owed(b)[t] = Owed(a)[t]
  BY SlotAmounts
<1>3. /\ TotalOf(Buffered(b)) - Buffered(b)[s] = TotalOf(Buffered(a)) - Buffered(a)[s]
      /\ TotalOf(Owed(b)) - Owed(b)[s] = TotalOf(Owed(a)) - Owed(a)[s]
  BY <1>1, <1>2, TotalUpdate
<1>4. /\ TotalOf(Buffered(a)) \in Nat /\ TotalOf(Buffered(b)) \in Nat
      /\ TotalOf(Owed(a)) \in Nat /\ TotalOf(Owed(b)) \in Nat
  BY <1>1, TotalBound
<1> QED BY <1>1, <1>3, <1>4, PerRequestNat DEF Amounts

(* The steps below the guard: what is recorded and owed together does not   *)
(* grow, and what is spent is recorded or noted.                            *)
LEMMA SlotKeeps ==
  ASSUME BudgetInv, BudgetTypeOK', ai' \in Requests, NEW s \in AiSlots,
         \A t \in AiSlots : t # s => ai'[t] = ai[t],
         ~soft' =>
           /\ ~soft
           /\ recorded' + Owed(ai')[s] <= recorded + Owed(ai)[s]
           /\ (spent' - uncounted') - (spent - uncounted) <=
                (recorded' + Buffered(ai')[s]) - (recorded + Buffered(ai)[s])
  PROVE  BudgetInv'
<1> USE DEF BudgetInv
<1>1. ai \in Requests /\ ai' \in Requests
  OBVIOUS
<1>2. /\ TotalOf(Buffered(ai')) - Buffered(ai')[s] = TotalOf(Buffered(ai)) - Buffered(ai)[s]
      /\ TotalOf(Owed(ai')) - Owed(ai')[s] = TotalOf(Owed(ai)) - Owed(ai)[s]
      /\ Buffered(ai)[s] \in Nat /\ Buffered(ai')[s] \in Nat
      /\ Owed(ai)[s] \in Nat /\ Owed(ai')[s] \in Nat
      /\ TotalOf(Buffered(ai)) \in Nat /\ TotalOf(Buffered(ai')) \in Nat
      /\ TotalOf(Owed(ai)) \in Nat /\ TotalOf(Owed(ai')) \in Nat
  BY <1>1, SlotStep
<1>3. /\ recorded \in Nat /\ recorded' \in Nat /\ spent \in Nat /\ spent' \in Nat
      /\ uncounted \in Nat /\ uncounted' \in Nat
      /\ Cap + Cardinality(AiSlots) * PerRequest \in Nat
  BY PerRequestNat DEF BudgetTypeOK
<1> QED BY <1>2, <1>3

LEMMA RequestFields ==
  ASSUME BudgetInv, NEW s \in AiSlots, ai[s] # NoRequest
  PROVE  /\ ai[s] \in AiJob /\ ai[s].buffer <= ai[s].calls * MaxCost
         /\ Buffered(ai)[s] = ai[s].buffer /\ Owed(ai)[s] = Due(ai[s])
         /\ ai[s].buffer \in Nat /\ Due(ai[s]) \in Nat /\ ai[s].buffer <= Due(ai[s])
<1>1. ai[s] \in AiJob /\ ai[s].buffer <= ai[s].calls * MaxCost /\ ai \in Requests
  BY DEF BudgetInv, BudgetTypeOK, Requests
<1> QED BY <1>1, SlotAmounts, JobFields, DueBound

(* A request that goes on as job j, or has ended.                           *)
LEMMA SlotChanges ==
  ASSUME BudgetInv, NEW s \in AiSlots, NEW j \in {NoRequest} \cup AiJob,
         j # NoRequest => j.buffer <= j.calls * MaxCost,
         ai' = [ai EXCEPT ![s] = j]
  PROVE  /\ ai' \in Requests
         /\ \A t \in AiSlots : t # s => ai'[t] = ai[t]
         /\ Buffered(ai')[s] = IF j = NoRequest THEN 0 ELSE j.buffer
         /\ Owed(ai')[s] = IF j = NoRequest THEN 0 ELSE Due(j)
<1>1. ai \in [AiSlots -> {NoRequest} \cup AiJob]
  BY DEF BudgetInv, BudgetTypeOK
<1>2. ai' \in [AiSlots -> {NoRequest} \cup AiJob] /\ ai'[s] = j
  BY <1>1
<1>3. \A t \in AiSlots : t # s => ai'[t] = ai[t]
  BY <1>1
<1>4. ai' \in Requests
  BY <1>2, <1>3 DEF BudgetInv, Requests
<1> QED BY <1>2, <1>3, <1>4, SlotAmounts

----------------------------------------
(* Who is let in finds less than the cap recorded, and the slots bound what *)
(* may come on top.                                                         *)
LEMMA AskKeeps ==
  ASSUME BudgetInv, NEW s \in AiSlots, NEW kind \in Kinds, Ask(s, kind)
  PROVE  BudgetInv'
<1> DEFINE j == [kind |-> kind, calls |-> 0, buffer |-> 0]
<1>1. j \in AiJob /\ j # NoRequest /\ j.buffer = 0 /\ j.buffer <= j.calls * MaxCost
  BY PerRequestNat DEF AiJob, NoRequest, Kinds
<1>2. /\ ai[s] = NoRequest /\ ai' = [ai EXCEPT ![s] = j]
      /\ UNCHANGED <<recorded, spent, uncounted>> /\ soft' \in BOOLEAN
      /\ ~soft' => ~soft /\ ~Exceeded
  BY DEF Ask, BudgetInv, BudgetTypeOK
<1> HIDE DEF j
<1>3. /\ ai' \in Requests /\ \A t \in AiSlots : t # s => ai'[t] = ai[t]
      /\ Buffered(ai')[s] = 0
  BY <1>1, <1>2, SlotChanges
<1>4. ai \in Requests /\ Buffered(ai)[s] = 0
  BY <1>2, SlotAmounts DEF BudgetInv
<1>5. BudgetTypeOK'
  BY <1>2, <1>3 DEF BudgetInv, BudgetTypeOK, Requests
<1>6. /\ TotalOf(Buffered(ai')) = TotalOf(Buffered(ai))
      /\ TotalOf(Owed(ai')) \in Nat
      /\ TotalOf(Owed(ai')) <= Cardinality(AiSlots) * PerRequest
  <2>1. Owed(ai') \in Amounts
    BY <1>3, SlotAmounts
  <2>2. TotalOf(Buffered(ai')) - Buffered(ai')[s] = TotalOf(Buffered(ai)) - Buffered(ai)[s]
    BY <1>3, <1>4, SlotStep
  <2>3. TotalOf(Buffered(ai')) \in Nat /\ TotalOf(Buffered(ai)) \in Nat
    BY <1>3, <1>4, SlotStep
  <2> QED BY <1>3, <1>4, <2>1, <2>2, <2>3, TotalBound
<1>7. ASSUME ~soft'
      PROVE  /\ spent' - uncounted' <= recorded' + TotalOf(Buffered(ai'))
             /\ recorded' + TotalOf(Owed(ai')) < Cap + Cardinality(AiSlots) * PerRequest
  <2>1. recorded < Cap /\ recorded \in Nat
    BY <1>2, <1>7, PerRequestNat DEF Exceeded, BudgetInv, BudgetTypeOK
  <2>2. Cardinality(AiSlots) * PerRequest \in Nat /\ Cap \in Nat
    BY PerRequestNat
  <2> QED BY <1>2, <1>6, <1>7, <2>1, <2>2 DEF BudgetInv
<1> QED BY <1>3, <1>5, <1>7 DEF BudgetInv

LEMMA CallKeeps ==
  ASSUME BudgetInv, NEW s \in AiSlots, NEW cost \in 1..MaxCost, ModelCall(s, cost)
  PROVE  BudgetInv'
<1> DEFINE old == ai[s]
           noted == Noted(old, cost)
           new == [old EXCEPT !.calls = old.calls + 1, !.buffer = old.buffer + noted]
<1>1. /\ old \in AiJob /\ old.buffer <= old.calls * MaxCost /\ old # NoRequest
      /\ Buffered(ai)[s] = old.buffer /\ Owed(ai)[s] = Due(old)
      /\ old.buffer \in Nat /\ Due(old) \in Nat
  BY RequestFields DEF ModelCall
<1>2. cost \in Nat /\ cost <= MaxCost /\ MaxCost \in Nat /\ MaxCalls \in Nat
  BY PerRequestNat
<1>3. old.calls \in Nat /\ old.calls < MaxCalls
  BY <1>1, JobFields DEF ModelCall
<1>4. noted \in {0, cost}
  BY DEF Noted
<1>5. /\ spent' = spent + cost /\ uncounted' = uncounted + (cost - noted)
      /\ UNCHANGED <<recorded, soft>>
  <2>1. uncounted' = uncounted + (IF old.kind \in Captured THEN 0 ELSE cost)
    BY DEF ModelCall
  <2>2. (IF old.kind \in Captured THEN 0 ELSE cost) = cost - noted
    BY <1>2 DEF Noted
  <2> QED BY <2>1, <2>2 DEF ModelCall
<1>6. ai' = [ai EXCEPT ![s] = new]
  BY DEF ModelCall, BudgetInv, BudgetTypeOK
<1>7. (old.calls + 1) * MaxCost = old.calls * MaxCost + MaxCost
  BY <1>2, <1>3
<1>8. (MaxCalls - (old.calls + 1)) * MaxCost = (MaxCalls - old.calls) * MaxCost - MaxCost
  BY <1>2, <1>3
<1>9. /\ old.calls * MaxCost \in Nat /\ (MaxCalls - old.calls) * MaxCost \in Int
      /\ (old.calls + 1) * MaxCost <= PerRequest
  <2>1. (MaxCalls - old.calls) * MaxCost = MaxCalls * MaxCost - old.calls * MaxCost
    BY <1>2, <1>3
  <2>2. (MaxCalls - (old.calls + 1)) * MaxCost \in Nat
    <3>1. MaxCalls - (old.calls + 1) \in Nat
      BY <1>2, <1>3
    <3> QED BY <1>2, <3>1
  <2>3. old.calls * MaxCost \in Nat /\ MaxCalls * MaxCost \in Nat
    BY <1>2, <1>3
  <2> QED BY <1>2, <1>7, <1>8, <2>1, <2>2, <2>3 DEF PerRequest
<1>10. /\ new.calls = old.calls + 1 /\ new.buffer = old.buffer + noted /\ new.kind = old.kind
  BY <1>1 DEF AiJob
<1>11. new.buffer \in Nat /\ new.buffer <= new.calls * MaxCost
  BY <1>1, <1>2, <1>4, <1>7, <1>9, <1>10
<1>12. new \in AiJob /\ new # NoRequest
  <2>1. old.buffer + noted \in 0..MaxCalls * MaxCost /\ old.calls + 1 \in 0..MaxCalls
    BY <1>2, <1>3, <1>9, <1>10, <1>11, PerRequestNat DEF PerRequest
  <2>2. new \in AiJob
    <3> HIDE DEF noted, old
    <3> QED BY <1>1, <2>1 DEF AiJob
  <2> QED BY <2>2, JobFields
<1> HIDE DEF new, old, noted
<1>13. /\ ai' \in Requests /\ \A t \in AiSlots : t # s => ai'[t] = ai[t]
       /\ Buffered(ai')[s] = new.buffer /\ Owed(ai')[s] = Due(new)
  BY <1>6, <1>11, <1>12, SlotChanges
<1>14. spent \in Nat /\ uncounted \in 0..spent /\ uncounted \in Nat /\ recorded \in Nat
  BY DEF BudgetInv, BudgetTypeOK
<1>15. BudgetTypeOK'
  <2>1. spent' \in Nat /\ uncounted' \in 0..spent'
    BY <1>2, <1>4, <1>5, <1>14
  <2> QED BY <1>5, <1>13, <2>1 DEF BudgetInv, BudgetTypeOK, Requests
<1>16. Due(new) <= Due(old)
  <2>1. Due(new) = (old.buffer + noted) + ((MaxCalls - old.calls) * MaxCost - MaxCost)
    BY <1>8, <1>10 DEF Due
  <2> QED BY <1>1, <1>2, <1>4, <1>9, <2>1 DEF Due
<1>17. (spent' - uncounted') - (spent - uncounted) <=
         (recorded' + Buffered(ai')[s]) - (recorded + Buffered(ai)[s])
  BY <1>1, <1>2, <1>4, <1>5, <1>10, <1>13, <1>14
<1>18. recorded' + Owed(ai')[s] <= recorded + Owed(ai)[s]
  <2>1. Due(new) \in Nat
    BY <1>11, <1>12, DueBound, PerRequestNat
  <2> QED BY <1>1, <1>5, <1>13, <1>14, <1>16, <2>1
<1> QED BY <1>5, <1>13, <1>15, <1>17, <1>18, SlotKeeps

(* A buffer is flushed, with the request or before its next call.           *)
LEMMA FlushKeeps ==
  ASSUME BudgetInv, NEW s \in AiSlots, NEW j \in {NoRequest} \cup AiJob, ai[s] # NoRequest,
         j = NoRequest \/ j = Drained(ai[s]),
         \/ recorded' = recorded + ai[s].buffer /\ UNCHANGED soft
         \/ UNCHANGED recorded /\ soft' = TRUE,
         ai' = [ai EXCEPT ![s] = j], UNCHANGED <<spent, uncounted>>
  PROVE  BudgetInv'
<1>1. /\ ai[s] \in AiJob /\ ai[s].buffer <= ai[s].calls * MaxCost
      /\ Buffered(ai)[s] = ai[s].buffer /\ Owed(ai)[s] = Due(ai[s])
      /\ ai[s].buffer \in Nat /\ Due(ai[s]) \in Nat /\ ai[s].buffer <= Due(ai[s])
  BY RequestFields
<1>2. ai[s].calls \in Nat /\ MaxCost \in Nat /\ MaxCalls \in Nat /\ MaxCalls - ai[s].calls \in Nat
  BY <1>1, JobFields, PerRequestNat
<1>3. j # NoRequest => /\ j.buffer = 0 /\ j.calls = ai[s].calls
                       /\ j.buffer <= j.calls * MaxCost
                       /\ Due(j) = Due(ai[s]) - ai[s].buffer
  <2> SUFFICES ASSUME j # NoRequest
               PROVE  /\ j.buffer = 0 /\ j.calls = ai[s].calls
                      /\ j.buffer <= j.calls * MaxCost
                      /\ Due(j) = Due(ai[s]) - ai[s].buffer
    OBVIOUS
  <2>1. j.buffer = 0 /\ j.calls = ai[s].calls
    BY <1>1 DEF Drained, AiJob
  <2>2. ai[s].calls * MaxCost \in Nat /\ (MaxCalls - ai[s].calls) * MaxCost \in Nat
    BY <1>2
  <2> QED BY <1>1, <2>1, <2>2 DEF Due
<1>4. /\ ai' \in Requests /\ \A t \in AiSlots : t # s => ai'[t] = ai[t]
      /\ Buffered(ai')[s] = 0
      /\ Owed(ai')[s] = IF j = NoRequest THEN 0 ELSE Due(j)
  BY <1>3, SlotChanges
<1>5. spent \in Nat /\ uncounted \in Nat /\ recorded \in Nat /\ soft \in BOOLEAN
  BY DEF BudgetInv, BudgetTypeOK
<1>6. BudgetTypeOK'
  <2>1. recorded' \in Nat
    BY <1>1, <1>5
  <2>2. soft' \in BOOLEAN
    BY <1>5, Zenon
  <2> QED BY <1>4, <2>1, <2>2 DEF BudgetInv, BudgetTypeOK, Requests
<1>7. ASSUME ~soft'
      PROVE  /\ ~soft
             /\ recorded' + Owed(ai')[s] <= recorded + Owed(ai)[s]
             /\ (spent' - uncounted') - (spent - uncounted) <=
                  (recorded' + Buffered(ai')[s]) - (recorded + Buffered(ai)[s])
  <2>1. recorded' = recorded + ai[s].buffer /\ ~soft
    BY <1>7
  <2> QED BY <1>1, <1>3, <1>4, <1>5, <2>1
<1> QED BY <1>4, <1>6, <1>7, SlotKeeps

LEMMA BudgetStart == BudgetInit => BudgetInv
<1> SUFFICES ASSUME BudgetInit PROVE BudgetInv
  OBVIOUS
<1>1. BudgetTypeOK /\ ai \in Requests
  <2>1. spent = 0 /\ uncounted = 0 /\ recorded = 0 /\ soft = FALSE
    BY DEF BudgetInit
  <2>2. ai \in Requests
    BY DEF BudgetInit, Requests
  <2>3. soft \in BOOLEAN
    BY <2>1, Zenon
  <2> QED BY <2>1, <2>2, <2>3 DEF BudgetTypeOK, Requests
<1>2. \A s \in AiSlots : Owed(ai)[s] = 0 /\ Buffered(ai)[s] = 0
  BY <1>1, SlotAmounts DEF BudgetInit
<1>3. TotalOf(Owed(ai)) = 0 /\ TotalOf(Buffered(ai)) = 0
  BY <1>1, <1>2, SlotAmounts, TotalNothing
<1>4. Cap \in Nat \ {0} /\ Cardinality(AiSlots) * PerRequest \in Nat
  BY PerRequestNat
<1> QED BY <1>1, <1>3, <1>4 DEF BudgetInit, BudgetInv

LEMMA BudgetStep ==
  ASSUME BudgetInv, [BudgetNext]_aiVars
  PROVE  BudgetInv'
<1>1. ASSUME NEW s \in AiSlots, FlushOne(s) PROVE BudgetInv'
  <2>1. /\ ai[s] # NoRequest
        /\ \/ recorded' = recorded + ai[s].buffer /\ UNCHANGED soft
           \/ UNCHANGED recorded /\ soft' = TRUE
        /\ UNCHANGED <<spent, uncounted>>
    BY <1>1 DEF FlushOne, NoRequest
  <2>2. ai' = [ai EXCEPT ![s] = Drained(ai[s])]
    BY <1>1 DEF FlushOne
  <2>3. Drained(ai[s]) \in AiJob
    <3>1. ai[s] \in AiJob /\ 0 \in 0..MaxCalls * MaxCost
      BY <2>1, RequestFields, PerRequestNat DEF PerRequest
    <3> QED BY <3>1 DEF Drained, AiJob
  <2> QED BY <2>1, <2>2, <2>3, FlushKeeps
<1>2. ASSUME NEW s \in AiSlots, Answered(s) PROVE BudgetInv'
  <2>1. /\ ai[s] # NoRequest
        /\ \/ recorded' = recorded + ai[s].buffer /\ UNCHANGED soft
           \/ UNCHANGED recorded /\ soft' = TRUE
        /\ ai' = [ai EXCEPT ![s] = NoRequest]
        /\ UNCHANGED <<spent, uncounted>>
    BY <1>2 DEF Answered
  <2> QED BY <2>1, FlushKeeps
<1>3. CASE MonthTurns
  <2>1. BudgetTypeOK' /\ ai' \in Requests
    BY <1>3 DEF MonthTurns, BudgetInv, BudgetTypeOK
  <2>2. /\ TotalOf(Owed(ai)) \in Nat /\ TotalOf(Buffered(ai)) \in Nat
        /\ recorded \in Nat /\ Cap + Cardinality(AiSlots) * PerRequest \in Nat
    BY SlotAmounts, TotalBound, PerRequestNat DEF BudgetInv, BudgetTypeOK
  <2> QED BY <1>3, <2>1, <2>2 DEF MonthTurns, BudgetInv
<1>4. CASE UNCHANGED aiVars
  BY <1>4 DEF aiVars, BudgetInv, BudgetTypeOK
<1> QED BY <1>1, <1>2, <1>3, <1>4, AskKeeps, CallKeeps DEF BudgetNext

LEMMA BudgetInvariant == BudgetSpec => []BudgetInv
BY BudgetStart, BudgetStep, PTL DEF BudgetSpec

(* While lookups and flushes succeed the counted spend of a month passes   *)
(* the cap by less than what the requests in progress can still add, for   *)
(* any number of slots, calls and costs (check_budget, record).            *)
THEOREM OvershootIsBounded == BudgetSpec => []OvershootBounded
<1>1. BudgetInv => OvershootBounded
  <2> SUFFICES ASSUME BudgetInv, ~soft
               PROVE  spent - uncounted < Cap + Cardinality(AiSlots) * PerRequest
    BY DEF OvershootBounded
  <2>1. TotalOf(Buffered(ai)) <= TotalOf(Owed(ai))
    BY SlotAmounts, TotalGrows DEF BudgetInv
  <2>2. TotalOf(Buffered(ai)) \in Nat /\ TotalOf(Owed(ai)) \in Nat
    BY SlotAmounts, TotalBound DEF BudgetInv
  <2>3. recorded \in Nat /\ spent \in Nat /\ uncounted \in Nat
        /\ Cap + Cardinality(AiSlots) * PerRequest \in Nat
    BY PerRequestNat DEF BudgetInv, BudgetTypeOK
  <2> QED BY <2>1, <2>2, <2>3 DEF BudgetInv
<1> QED BY <1>1, BudgetInvariant, PTL

----------------------------------------
(* Sums over finite sets.                                                   *)

(* A nonempty set of natural numbers has a least element.                   *)
LEMMA LeastNumber ==
  ASSUME NEW T \in SUBSET Nat, T # {}
  PROVE  \E m \in T : \A k \in T : m <= k
<1> DEFINE R == {ss \in Nat \X Nat : ss[1] < ss[2]}
<1>1. PICK m \in T : \A k \in T : ~(<<k, m>> \in R)
  <2>1. IsWellFoundedOn(R, Nat)
    BY NatLessThanWellFounded DEF OpToRel
  <2> HIDE DEF R
  <2> QED BY <2>1, WFMin
<1>2. \A k \in T : ~(k < m)
  BY <1>1
<1> QED BY <1>2

(* What holds of the empty set, and of every subset as soon as it holds     *)
(* with one element less, holds of a finite set.  X is the set of the       *)
(* subsets it holds of.                                                     *)
LEMMA ByOneLess ==
  ASSUME NEW S, IsFiniteSet(S), NEW X, {} \in X,
         \A T \in SUBSET S : T # {} /\ (\A x \in T : T \ {x} \in X) => T \in X
  PROVE  \A T \in SUBSET S : T \in X
<1> SUFFICES ASSUME NEW B \in SUBSET S, B \notin X PROVE FALSE
  OBVIOUS
<1> DEFINE Sizes == {n \in Nat : \E T \in SUBSET S : T \notin X /\ Cardinality(T) = n}
<1>1. \A T \in SUBSET S : IsFiniteSet(T) /\ Cardinality(T) \in Nat
  BY FS_Subset, FS_CardinalityType
<1>2. Cardinality(B) \in Sizes
  BY <1>1
<1>3. PICK m \in Sizes : \A k \in Sizes : m <= k
  <2>1. Sizes \in SUBSET Nat /\ Sizes # {}
    BY <1>2
  <2> HIDE DEF Sizes
  <2> QED BY <2>1, LeastNumber
<1>4. PICK T \in SUBSET S : T \notin X /\ Cardinality(T) = m
  BY <1>3
<1>5. ASSUME NEW x \in T
      PROVE  T \ {x} \in X
  <2>1. Cardinality(T \ {x}) = m - 1 /\ Cardinality(T \ {x}) \in Nat
    BY <1>1, <1>4, FS_RemoveElement
  <2>2. ~(m <= m - 1)
    BY <1>3
  <2>3. T \ {x} \notin X => m - 1 \in Sizes
    BY <2>1
  <2> QED BY <1>3, <2>2, <2>3
<1> QED BY <1>4, <1>5

(* The element the fold takes first.                                        *)
Pick(T) == CHOOSE x \in T : TRUE

(* The sums of f over the subsets of S, as the fold computes them.          *)
Adds(it, f, S) ==
  it = [T \in SUBSET S |-> IF T = {} THEN 0 ELSE f[Pick(T)] + it[T \ {Pick(T)}]]

SumOf(f, S) == Total(LAMBDA i : f[i], S)

Numbers(f, S) == \A i \in S : f[i] \in Int

LEMMA PickIn == ASSUME NEW T, T # {} PROVE Pick(T) \in T
BY DEF Pick

(* What the fold of the community modules says, as a table.                 *)
LEMMA SumIsTable ==
  ASSUME NEW f, NEW S
  PROVE  SumOf(f, S) = (CHOOSE it : Adds(it, f, S))[S]
BY DEF SumOf, Total, MapThenSumSet, MapThenFoldSet, Adds, Pick

(* A table of sums is one of numbers.                                       *)
LEMMA TableOfNumbers ==
  ASSUME NEW S, IsFiniteSet(S), NEW f, Numbers(f, S), NEW it, Adds(it, f, S)
  PROVE  \A T \in SUBSET S : it[T] \in Int
<1> DEFINE X == {T \in SUBSET S : it[T] \in Int}
<1>1. {} \in X
  BY DEF Adds
<1>2. ASSUME NEW T \in SUBSET S, T # {}, \A x \in T : T \ {x} \in X
      PROVE  T \in X
  <2>1. Pick(T) \in T
    BY <1>2, PickIn
  <2>2. it[T] = f[Pick(T)] + it[T \ {Pick(T)}]
    BY <1>2 DEF Adds
  <2>3. it[T \ {Pick(T)}] \in Int /\ f[Pick(T)] \in Int
    BY <1>2, <2>1 DEF Numbers
  <2> QED BY <2>2, <2>3
<1>3. \A T \in SUBSET S : T \in X
  <2> HIDE DEF X
  <2> QED BY <1>1, <1>2, ByOneLess
<1> QED BY <1>3

(* Two tables agree where their sets do.                                    *)
LEMMA TablesAgree ==
  ASSUME NEW S, IsFiniteSet(S), NEW R, S \subseteq R, NEW f, NEW g, \A i \in S : f[i] = g[i],
         NEW it, Adds(it, f, S), NEW jt, Adds(jt, g, R)
  PROVE  \A T \in SUBSET S : it[T] = jt[T]
<1> DEFINE X == {T \in SUBSET S : it[T] = jt[T]}
<1>1. {} \in X
  BY DEF Adds
<1>2. ASSUME NEW T \in SUBSET S, T # {}, \A x \in T : T \ {x} \in X
      PROVE  T \in X
  <2>1. Pick(T) \in T
    BY <1>2, PickIn
  <2>2. it[T] = f[Pick(T)] + it[T \ {Pick(T)}]
    BY <1>2 DEF Adds
  <2>3. jt[T] = g[Pick(T)] + jt[T \ {Pick(T)}]
    BY <1>2 DEF Adds
  <2>4. it[T \ {Pick(T)}] = jt[T \ {Pick(T)}] /\ f[Pick(T)] = g[Pick(T)]
    BY <1>2, <2>1
  <2> QED BY <2>2, <2>3, <2>4
<1>3. \A T \in SUBSET S : T \in X
  <2> HIDE DEF X
  <2> QED BY <1>1, <1>2, ByOneLess
<1> QED BY <1>3

(* A table that is filled in for the subsets of up to n elements.           *)
Filled(it, f, S, n) ==
  \A T \in SUBSET S : Cardinality(T) <= n =>
    it[T] = IF T = {} THEN 0 ELSE f[Pick(T)] + it[T \ {Pick(T)}]

IsTable(it, S) == it = [T \in SUBSET S |-> it[T]]

(* There is a table: it is filled in for one size of subsets after the      *)
(* other.                                                                   *)
LEMMA FillOne ==
  ASSUME NEW S, IsFiniteSet(S), NEW f, NEW n \in Nat, NEW it, Filled(it, f, S, n),
         IsTable(it, S)
  PROVE  \E jt : Filled(jt, f, S, n + 1) /\ IsTable(jt, S)
<1> DEFINE jt == [T \in SUBSET S |-> IF Cardinality(T) = n + 1
                                     THEN f[Pick(T)] + it[T \ {Pick(T)}] ELSE it[T]]
<1>1. \A T \in SUBSET S : IsFiniteSet(T) /\ Cardinality(T) \in Nat
  BY FS_Subset, FS_CardinalityType
<1>2. ASSUME NEW T \in SUBSET S, Cardinality(T) <= n + 1
      PROVE  jt[T] = IF T = {} THEN 0 ELSE f[Pick(T)] + jt[T \ {Pick(T)}]
  <2>1. CASE T = {}
    <3>1. Cardinality(T) = 0
      BY <2>1, FS_EmptySet
    <3>2. it[T] = 0
      <4>1. Cardinality(T) <= n
        BY <3>1
      <4> QED BY <2>1, <4>1 DEF Filled
    <3>3. jt[T] = it[T]
      BY <3>1
    <3> QED BY <2>1, <3>2, <3>3
  <2>2. CASE T # {}
    <3> DEFINE U == T \ {Pick(T)}
    <3>1. U \in SUBSET S /\ Cardinality(U) = Cardinality(T) - 1
      BY <1>1, <2>2, PickIn, FS_RemoveElement
    <3>2. jt[U] = it[U]
      BY <1>1, <1>2, <3>1
    <3>3. CASE Cardinality(T) = n + 1
      BY <2>2, <3>2, <3>3
    <3>4. CASE Cardinality(T) <= n
      <4>1. jt[T] = it[T]
        BY <1>1, <3>4
      <4>2. it[T] = f[Pick(T)] + it[U]
        BY <2>2, <3>4 DEF Filled
      <4> QED BY <2>2, <3>2, <4>1, <4>2
    <3> QED BY <1>1, <1>2, <3>3, <3>4
  <2> QED BY <2>1, <2>2
<1>3. Filled(jt, f, S, n + 1)
  <2> HIDE DEF jt
  <2> QED BY <1>2 DEF Filled
<1>4. IsTable(jt, S)
  BY DEF IsTable
<1> HIDE DEF jt
<1> QED BY <1>3, <1>4

LEMMA TableExists ==
  ASSUME NEW S, IsFiniteSet(S), NEW f
  PROVE  \E it : Adds(it, f, S)
<1> DEFINE Good(n) == \E it : Filled(it, f, S, n) /\ IsTable(it, S)
           Bad == {n \in Nat : ~Good(n)}
<1>1. \A T \in SUBSET S : IsFiniteSet(T) /\ Cardinality(T) \in Nat
  BY FS_Subset, FS_CardinalityType
<1>2. Good(0)
  <2> DEFINE it == [T \in SUBSET S |-> 0]
  <2>1. ASSUME NEW T \in SUBSET S, Cardinality(T) <= 0
        PROVE  it[T] = IF T = {} THEN 0 ELSE f[Pick(T)] + it[T \ {Pick(T)}]
    <3>1. T = {}
      BY <1>1, <2>1, FS_EmptySet
    <3> QED BY <3>1
  <2>2. IsTable(it, S)
    BY DEF IsTable
  <2> HIDE DEF it
  <2> QED BY <2>1, <2>2 DEF Filled
<1>3. ASSUME NEW n \in Nat, Good(n) PROVE Good(n + 1)
  <2>1. PICK it : Filled(it, f, S, n) /\ IsTable(it, S)
    BY <1>3
  <2>2. \E jt : Filled(jt, f, S, n + 1) /\ IsTable(jt, S)
    BY <2>1, FillOne
  <2> QED BY <2>2
<1>4. \A n \in Nat : Good(n)
  <2> HIDE DEF Good
  <2> SUFFICES ASSUME Bad # {} PROVE FALSE
    OBVIOUS
  <2>1. PICK m \in Bad : \A k \in Bad : m <= k
    <3>1. Bad \in SUBSET Nat
      OBVIOUS
    <3> HIDE DEF Bad
    <3> QED BY <3>1, LeastNumber
  <2>2. m # 0
    BY <1>2
  <2>3. m - 1 \in Nat /\ ~(m <= m - 1) /\ (m - 1) + 1 = m
    BY <2>2
  <2>4. Good(m - 1)
    BY <2>1, <2>3
  <2> QED BY <1>3, <2>3, <2>4
<1>5. PICK it : Filled(it, f, S, Cardinality(S)) /\ IsTable(it, S)
  BY <1>1, <1>4
<1>6. \A T \in SUBSET S : it[T] = IF T = {} THEN 0 ELSE f[Pick(T)] + it[T \ {Pick(T)}]
  BY <1>5, FS_Subset DEF Filled
<1>7. Adds(it, f, S)
  BY <1>5, <1>6 DEF Adds, IsTable
<1> QED BY <1>7

(* The sum is what any table says.                                          *)
LEMMA SumFromTable ==
  ASSUME NEW S, IsFiniteSet(S), NEW R, S \subseteq R, NEW f, NEW g, \A i \in S : f[i] = g[i],
         NEW jt, Adds(jt, g, R)
  PROVE  SumOf(f, S) = jt[S]
<1> DEFINE it == CHOOSE it : Adds(it, f, S)
<1>1. Adds(it, f, S)
  BY TableExists
<1>2. SumOf(f, S) = it[S]
  BY SumIsTable
<1> HIDE DEF it
<1> QED BY <1>1, <1>2, TablesAgree

LEMMA SumInt ==
  ASSUME NEW S, IsFiniteSet(S), NEW f, Numbers(f, S)
  PROVE  SumOf(f, S) \in Int
<1>1. PICK it : Adds(it, f, S)
  BY TableExists
<1>2. it[S] \in Int
  BY <1>1, TableOfNumbers
<1>3. SumOf(f, S) = it[S]
  BY <1>1, SumFromTable
<1> QED BY <1>2, <1>3

LEMMA SumEmpty == ASSUME NEW f PROVE SumOf(f, {}) = 0
<1>1. IsFiniteSet({})
  BY FS_EmptySet
<1>2. PICK it : Adds(it, f, {})
  BY <1>1, TableExists
<1>3. it[{}] = 0
  BY <1>2 DEF Adds
<1>4. SumOf(f, {}) = it[{}]
  BY <1>1, <1>2, SumFromTable
<1> QED BY <1>3, <1>4

LEMMA SumSame ==
  ASSUME NEW S, IsFiniteSet(S), NEW f, NEW g, \A i \in S : f[i] = g[i]
  PROVE  SumOf(f, S) = SumOf(g, S)
<1>1. PICK it : Adds(it, g, S)
  BY TableExists
<1>2. SumOf(f, S) = it[S] /\ SumOf(g, S) = it[S]
  BY <1>1, SumFromTable
<1> QED BY <1>2

LEMMA SumPick ==
  ASSUME NEW S, IsFiniteSet(S), S # {}, NEW f
  PROVE  SumOf(f, S) = f[Pick(S)] + SumOf(f, S \ {Pick(S)})
<1>1. PICK it : Adds(it, f, S)
  BY TableExists
<1>2. it[S] = f[Pick(S)] + it[S \ {Pick(S)}]
  BY <1>1 DEF Adds
<1>3. IsFiniteSet(S \ {Pick(S)}) /\ S \ {Pick(S)} \subseteq S
  BY FS_RemoveElement
<1>4. SumOf(f, S \ {Pick(S)}) = it[S \ {Pick(S)}]
  BY <1>1, <1>3, SumFromTable
<1>5. SumOf(f, S) = it[S]
  BY <1>1, SumFromTable
<1> QED BY <1>2, <1>4, <1>5

(* The order in which the fold takes the elements does not matter.          *)
LEMMA SumRemove ==
  ASSUME NEW S, IsFiniteSet(S), NEW f, Numbers(f, S), NEW x \in S
  PROVE  SumOf(f, S) = f[x] + SumOf(f, S \ {x})
<1> DEFINE X == {T \in SUBSET S : \A y \in T : SumOf(f, T) = f[y] + SumOf(f, T \ {y})}
<1>1. {} \in X
  OBVIOUS
<1>2. ASSUME NEW T \in SUBSET S, T # {}, \A y \in T : T \ {y} \in X
      PROVE  T \in X
  <2> SUFFICES ASSUME NEW y \in T PROVE SumOf(f, T) = f[y] + SumOf(f, T \ {y})
    OBVIOUS
  <2> DEFINE p == Pick(T)
             U == (T \ {p}) \ {y}
  <2>1. p \in T /\ IsFiniteSet(T)
    BY <1>2, PickIn, FS_Subset
  <2>2. SumOf(f, T) = f[p] + SumOf(f, T \ {p})
    BY <1>2, <2>1, SumPick
  <2>3. CASE y = p
    BY <2>2, <2>3
  <2>4. CASE y # p
    <3>1. SumOf(f, T \ {p}) = f[y] + SumOf(f, U)
      <4>1. T \ {p} \in X
        BY <1>2, <2>1
      <4>2. y \in T \ {p}
        BY <2>4
      <4> QED BY <4>1, <4>2
    <3>2. SumOf(f, T \ {y}) = f[p] + SumOf(f, U)
      <4>1. T \ {y} \in X
        BY <1>2
      <4>2. p \in T \ {y}
        BY <2>1, <2>4
      <4>3. (T \ {y}) \ {p} = U
        OBVIOUS
      <4> QED BY <4>1, <4>2, <4>3
    <3>3. SumOf(f, U) \in Int /\ f[p] \in Int /\ f[y] \in Int
      <4>1. IsFiniteSet(U) /\ U \subseteq S
        BY <2>1, FS_Subset
      <4> QED BY <2>1, <4>1, SumInt DEF Numbers
    <3> QED BY <2>2, <3>1, <3>2, <3>3
  <2> QED BY <2>3, <2>4
<1>3. \A T \in SUBSET S : T \in X
  <2> HIDE DEF X
  <2> QED BY <1>1, <1>2, ByOneLess
<1> QED BY <1>3

(* Sums are linear.                                                         *)
LEMMA SumPlus ==
  ASSUME NEW S, IsFiniteSet(S), NEW f, NEW g, NEW h, Numbers(f, S), Numbers(g, S),
         \A i \in S : h[i] = f[i] + g[i]
  PROVE  SumOf(h, S) = SumOf(f, S) + SumOf(g, S)
<1> DEFINE X == {T \in SUBSET S : SumOf(h, T) = SumOf(f, T) + SumOf(g, T)}
<1>1. {} \in X
  BY SumEmpty
<1>2. ASSUME NEW T \in SUBSET S, T # {}, \A y \in T : T \ {y} \in X
      PROVE  T \in X
  <2>1. PICK p \in T : TRUE
    BY <1>2
  <2>2. IsFiniteSet(T) /\ IsFiniteSet(T \ {p})
    BY FS_Subset
  <2>3. /\ Numbers(f, T) /\ Numbers(g, T) /\ Numbers(h, T)
        /\ Numbers(f, T \ {p}) /\ Numbers(g, T \ {p})
    BY DEF Numbers
  <2>4. /\ SumOf(f, T) = f[p] + SumOf(f, T \ {p})
        /\ SumOf(g, T) = g[p] + SumOf(g, T \ {p})
        /\ SumOf(h, T) = h[p] + SumOf(h, T \ {p})
    BY <2>1, <2>2, <2>3, SumRemove
  <2>5. SumOf(h, T \ {p}) = SumOf(f, T \ {p}) + SumOf(g, T \ {p})
    BY <1>2, <2>1
  <2>6. SumOf(f, T \ {p}) \in Int /\ SumOf(g, T \ {p}) \in Int
    BY <2>2, <2>3, SumInt
  <2>7. f[p] \in Int /\ g[p] \in Int /\ h[p] = f[p] + g[p]
    BY <2>1 DEF Numbers
  <2> QED BY <2>4, <2>5, <2>6, <2>7
<1>3. \A T \in SUBSET S : T \in X
  <2> HIDE DEF X
  <2> QED BY <1>1, <1>2, ByOneLess
<1> QED BY <1>3

Scaled(h, f, k, S) == \A i \in S : h[i] = f[i] * k

LEMMA SumTimes ==
  ASSUME NEW S, IsFiniteSet(S), NEW f, NEW h, NEW k \in Int, Numbers(f, S),
         Scaled(h, f, k, S)
  PROVE  SumOf(h, S) = SumOf(f, S) * k
<1> DEFINE X == {T \in SUBSET S : SumOf(h, T) = SumOf(f, T) * k}
<1>1. {} \in X
  BY SumEmpty
<1>2. ASSUME NEW T \in SUBSET S, T # {}, \A y \in T : T \ {y} \in X
      PROVE  T \in X
  <2>1. PICK p \in T : TRUE
    BY <1>2
  <2>2. IsFiniteSet(T) /\ IsFiniteSet(T \ {p})
    BY FS_Subset
  <2>3. Numbers(f, T) /\ Numbers(h, T) /\ Numbers(f, T \ {p})
    BY DEF Numbers, Scaled
  <2>4. /\ SumOf(f, T) = f[p] + SumOf(f, T \ {p})
        /\ SumOf(h, T) = h[p] + SumOf(h, T \ {p})
    BY <2>1, <2>2, <2>3, SumRemove
  <2>5. SumOf(h, T \ {p}) = SumOf(f, T \ {p}) * k
    BY <1>2, <2>1
  <2>6. SumOf(f, T \ {p}) \in Int /\ f[p] \in Int /\ h[p] = f[p] * k
    BY <2>1, <2>2, <2>3, SumInt DEF Numbers, Scaled
  <2>7. \A a, b \in Int : a * k + b * k = (a + b) * k
    OBVIOUS
  <2> QED BY <2>4, <2>5, <2>6, <2>7
<1>3. \A T \in SUBSET S : T \in X
  <2> HIDE DEF X
  <2> QED BY <1>1, <1>2, ByOneLess
<1> QED BY <1>3

(* A sum of ones and zeros counts the ones.                                 *)
LEMMA SumCounts ==
  ASSUME NEW S, IsFiniteSet(S), NEW U \in SUBSET S, NEW f,
         \A i \in S : f[i] = IF i \in U THEN 1 ELSE 0
  PROVE  SumOf(f, S) = Cardinality(U)
<1> DEFINE X == {T \in SUBSET S : SumOf(f, T) = Cardinality(T \cap U)}
<1>1. {} \in X
  BY SumEmpty, FS_EmptySet
<1>2. ASSUME NEW T \in SUBSET S, T # {}, \A y \in T : T \ {y} \in X
      PROVE  T \in X
  <2>1. PICK p \in T : TRUE
    BY <1>2
  <2>2. IsFiniteSet(T) /\ IsFiniteSet(T \cap U)
    BY FS_Subset
  <2>3. SumOf(f, T) = f[p] + SumOf(f, T \ {p})
    BY <2>1, <2>2, SumRemove DEF Numbers
  <2>4. SumOf(f, T \ {p}) = Cardinality((T \cap U) \ {p})
    <3>1. (T \ {p}) \cap U = (T \cap U) \ {p}
      OBVIOUS
    <3> QED BY <1>2, <2>1, <3>1
  <2>5. /\ Cardinality((T \cap U) \ {p}) = IF p \in T \cap U THEN Cardinality(T \cap U) - 1
                                                            ELSE Cardinality(T \cap U)
        /\ Cardinality(T \cap U) \in Nat
    BY <2>2, FS_RemoveElement, FS_CardinalityType
  <2> QED BY <2>1, <2>3, <2>4, <2>5
<1>3. \A T \in SUBSET S : T \in X
  <2> HIDE DEF X
  <2> QED BY <1>1, <1>2, ByOneLess
<1>4. S \cap U = U
  OBVIOUS
<1> QED BY <1>3, <1>4

(* Numbers of at most k, found in U only, add up to at most k for each      *)
(* element of U.                                                            *)
LEMMA SumBound ==
  ASSUME NEW S, IsFiniteSet(S), NEW U \in SUBSET S, NEW f, NEW k \in Nat, Numbers(f, S),
         \A i \in S : 0 <= f[i] /\ f[i] <= (IF i \in U THEN k ELSE 0)
  PROVE  0 <= SumOf(f, S) /\ SumOf(f, S) <= k * Cardinality(U)
<1> DEFINE X == {T \in SUBSET S : /\ 0 <= SumOf(f, T)
                                  /\ SumOf(f, T) <= k * Cardinality(T \cap U)}
<1>1. {} \in X
  BY SumEmpty, FS_EmptySet
<1>2. ASSUME NEW T \in SUBSET S, T # {}, \A y \in T : T \ {y} \in X
      PROVE  T \in X
  <2>1. PICK p \in T : TRUE
    BY <1>2
  <2>2. IsFiniteSet(T) /\ IsFiniteSet(T \cap U) /\ IsFiniteSet(T \ {p})
    BY FS_Subset
  <2>3. Numbers(f, T) /\ Numbers(f, T \ {p})
    BY DEF Numbers
  <2>4. SumOf(f, T) = f[p] + SumOf(f, T \ {p}) /\ SumOf(f, T \ {p}) \in Int
    BY <2>1, <2>2, <2>3, SumRemove, SumInt
  <2>5. /\ 0 <= SumOf(f, T \ {p})
        /\ SumOf(f, T \ {p}) <= k * Cardinality((T \cap U) \ {p})
    <3>1. (T \ {p}) \cap U = (T \cap U) \ {p}
      OBVIOUS
    <3> QED BY <1>2, <2>1, <3>1
  <2>6. /\ Cardinality((T \cap U) \ {p}) = IF p \in T \cap U THEN Cardinality(T \cap U) - 1
                                                            ELSE Cardinality(T \cap U)
        /\ Cardinality(T \cap U) \in Nat
    BY <2>2, FS_RemoveElement, FS_CardinalityType
  <2>7. /\ f[p] \in Int /\ 0 <= f[p]
        /\ f[p] <= (IF p \in T \cap U THEN k ELSE 0)
    BY <2>1 DEF Numbers
  <2>8. \A c \in Int : k * (c - 1) = k * c - k
    OBVIOUS
  <2> DEFINE c == Cardinality(T \cap U)
  <2>9. c \in Nat /\ k * c \in Int
    BY <2>6
  <2> HIDE DEF c
  <2>10. SumOf(f, T) <= k * c
    <3>1. CASE p \in T \cap U
      <4>1. SumOf(f, T \ {p}) <= k * c - k
        BY <2>5, <2>6, <2>8, <3>1 DEF c
      <4> QED BY <2>4, <2>7, <2>9, <3>1, <4>1
    <3>2. CASE p \notin T \cap U
      <4>1. SumOf(f, T \ {p}) <= k * c
        BY <2>5, <2>6, <3>2 DEF c
      <4> QED BY <2>4, <2>7, <2>9, <3>2, <4>1
    <3> QED BY <3>1, <3>2
  <2> QED BY <2>4, <2>5, <2>7, <2>10 DEF c
<1>3. \A T \in SUBSET S : T \in X
  <2> HIDE DEF X
  <2> QED BY <1>1, <1>2, ByOneLess
<1>4. S \cap U = U
  OBVIOUS
<1> QED BY <1>3, <1>4

(* Zeros add nothing.                                                       *)
LEMMA SumOfNonzero ==
  ASSUME NEW S, IsFiniteSet(S), NEW f, Numbers(f, S)
  PROVE  SumOf(f, {i \in S : f[i] # 0}) = SumOf(f, S)
<1> DEFINE Seen(T) == {i \in T : f[i] # 0}
           X == {T \in SUBSET S : SumOf(f, Seen(T)) = SumOf(f, T)}
<1>1. {} \in X
  <2>1. Seen({}) = {}
    OBVIOUS
  <2> QED BY <2>1
<1>2. ASSUME NEW T \in SUBSET S, T # {}, \A y \in T : T \ {y} \in X
      PROVE  T \in X
  <2>1. PICK p \in T : TRUE
    BY <1>2
  <2>2. IsFiniteSet(T) /\ IsFiniteSet(T \ {p}) /\ IsFiniteSet(Seen(T))
    BY FS_Subset
  <2>3. Numbers(f, T) /\ Numbers(f, T \ {p}) /\ Numbers(f, Seen(T)) /\ f[p] \in Int
    BY <2>1 DEF Numbers
  <2>4. SumOf(f, T) = f[p] + SumOf(f, T \ {p}) /\ SumOf(f, T \ {p}) \in Int
    BY <2>1, <2>2, <2>3, SumRemove, SumInt
  <2>5. SumOf(f, Seen(T \ {p})) = SumOf(f, T \ {p})
    BY <1>2, <2>1
  <2>6. CASE f[p] = 0
    <3>1. Seen(T \ {p}) = Seen(T)
      BY <2>6
    <3>2. SumOf(f, Seen(T)) = SumOf(f, T)
      <4> HIDE DEF Seen
      <4> QED BY <2>4, <2>5, <2>6, <3>1
    <3> QED BY <3>2
  <2>7. CASE f[p] # 0
    <3>1. p \in Seen(T) /\ Seen(T \ {p}) = Seen(T) \ {p}
      BY <2>1, <2>7
    <3>2. SumOf(f, Seen(T)) = f[p] + SumOf(f, Seen(T) \ {p})
      <4> HIDE DEF Seen
      <4> QED BY <2>2, <2>3, <3>1, SumRemove
    <3> QED BY <2>4, <2>5, <3>1, <3>2
  <2> QED BY <2>6, <2>7
<1>3. \A T \in SUBSET S : T \in X
  <2> HIDE DEF X
  <2> QED BY <1>1, <1>2, ByOneLess
<1> QED BY <1>3

----------------------------------------
(* The arithmetic of an allocation.                                        *)

(* What may be allocated by hand in a line.                                 *)
ByHand == [amount : Cents, share : Rates]

PoolTypeOK ==
  /\ Pooled \subseteq Lines
  /\ gross \in [Pooled -> Cents]
  /\ rate \in Rates
  /\ reviewed \in [Lines -> {None} \cup ByHand]

LEMMA PoolStart == PoolInit => PoolTypeOK
BY ApportionmentAssumption DEF PoolInit, PoolTypeOK, Pooled

(* A line that is repulled or leaves changes the amounts only.              *)
LEMMA AmountsTyped ==
  PoolTypeOK /\ (\E i \in Lines : LeavePool(i) \/ \E c \in Cents : Repull(i, c)) => PoolTypeOK'
<1> HAVE PoolTypeOK /\ \E i \in Lines : LeavePool(i) \/ \E c \in Cents : Repull(i, c)
<1>1. PICK i \in Lines : LeavePool(i) \/ \E c \in Cents : Repull(i, c)
  OBVIOUS
<1>2. Pooled' \subseteq Lines /\ gross' \in [Pooled' -> Cents]
  BY <1>1 DEF LeavePool, Repull, PoolTypeOK, Pooled
<1>3. UNCHANGED <<rate, reviewed>>
  BY <1>1 DEF LeavePool, Repull
<1> QED BY <1>2, <1>3 DEF PoolTypeOK

(* A transaction is reviewed or no longer so; the lines stay.               *)
LEMMA ReviewsTyped ==
  ASSUME PoolTypeOK,
         \/ \E i \in Lines : ClearReview(i)
         \/ \E i \in Lines, c \in Cents, r \in Rates : ReviewTransaction(i, c, r)
  PROVE  PoolTypeOK'
<1>1. PICK i \in Lines, v \in {None} \cup ByHand :
        reviewed' = [reviewed EXCEPT ![i] = v] /\ UNCHANGED <<gross, rate>>
  <2>1. \A c \in Cents, r \in Rates : [amount |-> c, share |-> r] \in ByHand
    BY DEF ByHand
  <2> QED BY <2>1 DEF ClearReview, ReviewTransaction
<1>2. reviewed' \in [Lines -> {None} \cup ByHand]
  BY <1>1 DEF PoolTypeOK
<1> QED BY <1>1, <1>2 DEF PoolTypeOK, Pooled

(* A change of the driver, or none at all.                                  *)
LEMMA DriverTyped ==
  ASSUME PoolTypeOK, UNCHANGED <<gross, reviewed>>, rate' \in Rates
  PROVE  PoolTypeOK'
BY DEF PoolTypeOK, Pooled

LEMMA PoolStep ==
  ASSUME PoolTypeOK, [PoolNext]_poolVars
  PROVE  PoolTypeOK'
<1>1. CASE UNCHANGED poolVars
  <2>1. rate \in Rates
    BY DEF PoolTypeOK
  <2> QED BY <1>1, <2>1, DriverTyped DEF poolVars
<1>2. CASE \E r \in Rates : SetDriver(r)
  BY <1>2, DriverTyped DEF SetDriver
<1> QED BY <1>1, <1>2, AmountsTyped, ReviewsTyped DEF PoolNext

(* The lines of the pool have amounts in cents, and a reviewed transaction  *)
(* has an amount and a share.                                               *)
THEOREM PoolTypeCorrect == PoolSpec => []PoolTypeOK
BY PoolStart, PoolStep, PTL DEF PoolSpec

----------------------------------------
(* Rounding.                                                                *)
LEMMA MillionInt == Million \in Int /\ Million = 1000000
BY SMT DEF Million

LEMMA FloorParts ==
  ASSUME NEW x \in Int
  PROVE  /\ FloorCent(x) \in Int
         /\ 0 <= x - Million * FloorCent(x) /\ x - Million * FloorCent(x) <= Million - 1
BY DEF FloorCent, Million

LEMMA HalfUpInt == ASSUME NEW x \in Int PROVE HalfUp(x) \in Int
BY DEF HalfUp, Million

(* Rounding a sum of whole cents and of what k floors dropped adds at most  *)
(* k cents to the whole ones.                                               *)
LEMMA HalfUpBetween ==
  ASSUME NEW q \in Int, NEW k \in Nat, NEW d \in Int, 0 <= d, d <= (Million - 1) * k
  PROVE  q <= HalfUp(Million * q + d) /\ HalfUp(Million * q + d) <= q + k
<1> DEFINE x == Million * q + d
<1>0. x \in Int /\ x >= 1000000 * q /\ x <= 1000000 * q + 999999 * k
  BY DEF Million
<1> HIDE DEF x
<1>1. CASE x >= 0
  <2>1. HalfUp(x) = (x + 500000) \div 1000000
    BY <1>0, <1>1 DEF HalfUp, Million
  <2> QED BY <1>0, <2>1 DEF x
<1>2. CASE x < 0
  <2>1. HalfUp(x) = -((-x + 500000) \div 1000000)
    BY <1>0, <1>2 DEF HalfUp, Million
  <2> QED BY <1>0, <2>1 DEF x
<1> QED BY <1>0, <1>1, <1>2

----------------------------------------
(* Ranks.                                                                   *)

(* As many elements have a rank below r as there are ranks below r.         *)
LEMMA RanksBelow ==
  ASSUME NEW S, IsFiniteSet(S), NEW n \in Nat, Cardinality(S) = n,
         NEW f \in [S -> 0..(n - 1)], \A i, j \in S : f[i] = f[j] => i = j,
         NEW r \in 0..n
  PROVE  Cardinality({i \in S : f[i] < r}) = r
<1> DEFINE B == {i \in S : f[i] < r}
           g == [i \in B |-> f[i]]
<1>1. IsFiniteSet(0..(n - 1)) /\ Cardinality(0..(n - 1)) = n
  BY FS_Interval
<1>2. f \in Injection(S, 0..(n - 1))
  BY DEF Injection, IsInjective
<1>3. f \in Surjection(S, 0..(n - 1))
  BY <1>1, <1>2, FS_Injection
<1>4. \A v \in 0..(n - 1) : \E i \in S : f[i] = v
  BY <1>3 DEF Surjection
<1>5. g \in [B -> 0..(r - 1)]
  OBVIOUS
<1>6. g \in Injection(B, 0..(r - 1))
  <2>1. \A i, j \in B : g[i] = g[j] => i = j
    OBVIOUS
  <2> HIDE DEF g
  <2> QED BY <1>5, <2>1 DEF Injection, IsInjective
<1>7. g \in Surjection(B, 0..(r - 1))
  <2>1. \A v \in 0..(r - 1) : \E i \in B : g[i] = v
    <3> TAKE v \in 0..(r - 1)
    <3>1. PICK i \in S : f[i] = v
      BY <1>4
    <3>2. i \in B /\ g[i] = v
      BY <3>1
    <3> HIDE DEF B, g
    <3> QED BY <3>2
  <2> HIDE DEF B, g
  <2> QED BY <1>5, <2>1 DEF Surjection
<1>8. IsFiniteSet(0..(r - 1)) /\ Cardinality(0..(r - 1)) = r
  BY FS_Interval
<1> HIDE DEF B, g
<1>9. Cardinality(B) = Cardinality(0..(r - 1))
  BY <1>6, <1>7, <1>8, FS_Injection
<1> QED BY <1>8, <1>9 DEF B

(* The rank of a line: how many are served before it.                       *)
Served(i) == {j \in Plain : Ahead(j, i)}
Rank == [i \in Plain |-> Cardinality(Served(i))]
Odd == {i \in Plain : Dropped(i) # 0}

LEMMA PlainFacts ==
  ASSUME PoolTypeOK
  PROVE  /\ IsFiniteSet(Pooled) /\ IsFiniteSet(Plain) /\ Cardinality(Plain) \in Nat
         /\ Plain \subseteq Nat /\ Plain \subseteq Pooled
         /\ rate \in Int
         /\ \A i \in Pooled : gross[i] \in Int
<1>1. Plain \subseteq Pooled /\ Pooled \subseteq Lines
  BY DEF Plain, PoolTypeOK
<1>2. IsFiniteSet(Pooled) /\ IsFiniteSet(Plain) /\ Plain \subseteq Nat
  BY <1>1, ApportionmentAssumption, FS_Subset
<1>3. rate \in Int
  BY ApportionmentAssumption DEF PoolTypeOK
<1>4. \A i \in Pooled : gross[i] \in Int
  BY ApportionmentAssumption DEF PoolTypeOK
<1> QED BY <1>1, <1>2, <1>3, <1>4, FS_CardinalityType

LEMMA LineParts ==
  ASSUME PoolTypeOK, NEW i \in Plain
  PROVE  /\ Exact(i) \in Int /\ FloorCent(Exact(i)) \in Int /\ Dropped(i) \in Int
         /\ Exact(i) = Million * FloorCent(Exact(i)) + Dropped(i)
         /\ 0 <= Dropped(i) /\ Dropped(i) <= Million - 1
<1>1. gross[i] \in Int /\ rate \in Int
  BY PlainFacts
<1>2. Exact(i) \in Int
  BY <1>1 DEF Exact
<1> DEFINE x == Exact(i)
           q == FloorCent(x)
<1>3. q \in Int /\ 0 <= x - Million * q /\ x - Million * q <= Million - 1
  BY <1>2, FloorParts
<1>4. Dropped(i) = x - Million * q
  BY DEF Dropped
<1>5. Million * q \in Int /\ x \in Int /\ Million \in Int
  BY <1>2, <1>3, MillionInt
<1>6. \A m \in Int : x = m + (x - m)
  BY <1>5
<1> HIDE DEF x, q
<1> QED BY <1>2, <1>3, <1>4, <1>5, <1>6 DEF x, q

(* Lines are served in a strict total order.                                *)
LEMMA RankRises ==
  ASSUME PoolTypeOK, NEW i \in Plain, NEW j \in Plain, Ahead(j, i)
  PROVE  Rank[j] < Rank[i]
<1>1. IsFiniteSet(Served(i)) /\ IsFiniteSet(Served(j))
  BY PlainFacts, FS_Subset DEF Served
<1>2. \A k \in Plain : Dropped(k) \in Int /\ k \in Nat
  BY LineParts, PlainFacts
<1>3. Served(j) \subseteq Served(i)
  BY <1>2 DEF Served, Ahead
<1>4. j \in Served(i) /\ j \notin Served(j)
  BY <1>2 DEF Served, Ahead
<1>5. /\ Cardinality(Served(j)) <= Cardinality(Served(i))
      /\ Cardinality(Served(j)) # Cardinality(Served(i))
  BY <1>1, <1>3, <1>4, FS_Subset
<1>6. Cardinality(Served(j)) \in Nat /\ Cardinality(Served(i)) \in Nat
  BY <1>1, FS_CardinalityType
<1> QED BY <1>5, <1>6 DEF Rank

LEMMA RanksDiffer ==
  ASSUME PoolTypeOK
  PROVE  /\ Rank \in [Plain -> 0..(Cardinality(Plain) - 1)]
         /\ \A i, j \in Plain : Rank[i] = Rank[j] => i = j
<1>0. IsFiniteSet(Plain) /\ Cardinality(Plain) \in Nat
  BY PlainFacts
<1>1. ASSUME NEW i \in Plain PROVE Rank[i] \in 0..(Cardinality(Plain) - 1)
  <2>1. Served(i) \subseteq Plain /\ i \notin Served(i)
    <3>1. Dropped(i) \in Int /\ i \in Nat
      BY LineParts, PlainFacts
    <3> QED BY <3>1 DEF Served, Ahead
  <2>2. IsFiniteSet(Served(i)) /\ Cardinality(Served(i)) \in Nat
    BY <1>0, <2>1, FS_Subset, FS_CardinalityType
  <2>3. /\ Cardinality(Served(i)) <= Cardinality(Plain)
        /\ Cardinality(Served(i)) # Cardinality(Plain)
    BY <1>0, <2>1, FS_Subset
  <2> QED BY <1>0, <2>2, <2>3 DEF Rank
<1>2. ASSUME NEW i \in Plain, NEW j \in Plain, i # j
      PROVE  Rank[i] # Rank[j]
  <2>1. Dropped(i) \in Int /\ Dropped(j) \in Int /\ i \in Nat /\ j \in Nat
    BY LineParts, PlainFacts
  <2>2. Ahead(i, j) \/ Ahead(j, i)
    BY <1>2, <2>1 DEF Ahead
  <2>3. Rank[i] \in Int /\ Rank[j] \in Int
    BY <1>1
  <2> QED BY <2>2, <2>3, RankRises
<1>3. Rank = [i \in Plain |-> Rank[i]]
  BY DEF Rank
<1> QED BY <1>1, <1>2, <1>3

(* A line that drops nothing comes after all those that do.                 *)
LEMMA OddFirst ==
  ASSUME PoolTypeOK, NEW i \in Plain, i \notin Odd
  PROVE  Cardinality(Odd) <= Rank[i]
<1>1. Odd \subseteq Served(i)
  <2> SUFFICES ASSUME NEW j \in Odd PROVE j \in Served(i)
    OBVIOUS
  <2>1. j \in Plain /\ Dropped(j) # 0 /\ Dropped(i) = 0
    BY DEF Odd
  <2>2. Dropped(j) \in Int /\ 0 <= Dropped(j)
    BY <2>1, LineParts
  <2>3. Dropped(j) > Dropped(i)
    BY <2>1, <2>2
  <2> QED BY <2>1, <2>3 DEF Served, Ahead
<1>2. IsFiniteSet(Served(i))
  BY PlainFacts, FS_Subset DEF Served
<1> QED BY <1>1, <1>2, FS_Subset DEF Rank

----------------------------------------
(* The split.                                                               *)
(* The floors, what they drop, the exact shares and the floors in           *)
(* millionths of a cent.                                                    *)
Floors == [i \in Plain |-> FloorCent(Exact(i))]
Drops == [i \in Plain |-> Dropped(i)]
Exacts == [i \in Plain |-> Exact(i)]
Wholes == [i \in Plain |-> FloorCent(Exact(i)) * Million]

(* The sum of the floors, as Residual writes it.                            *)
LEMMA FloorTotal ==
  ASSUME PoolTypeOK
  PROVE  Total(LAMBDA i : FloorCent(Exact(i)), Plain) = SumOf(Floors, Plain)
<1> DEFINE E(it) == it = [T \in SUBSET Plain |-> IF T = {} THEN 0
                             ELSE FloorCent(Exact(Pick(T))) + it[T \ {Pick(T)}]]
<1>1. Total(LAMBDA i : FloorCent(Exact(i)), Plain) = (CHOOSE it : E(it))[Plain]
  BY DEF Total, MapThenSumSet, MapThenFoldSet, Pick
<1>2. ASSUME NEW it PROVE E(it) <=> Adds(it, Floors, Plain)
  <2>1. \A T \in SUBSET Plain : T # {} => Floors[Pick(T)] = FloorCent(Exact(Pick(T)))
    BY PickIn DEF Floors
  <2> QED BY <2>1 DEF Adds
<1> HIDE DEF E
<1>3. \E it : E(it)
  BY <1>2, PlainFacts, TableExists
<1> DEFINE it == CHOOSE it : E(it)
<1>4. Adds(it, Floors, Plain)
  BY <1>2, <1>3
<1> HIDE DEF it
<1>5. SumOf(Floors, Plain) = it[Plain]
  BY <1>4, PlainFacts, SumFromTable
<1> QED BY <1>1, <1>5 DEF it

(* The cents the floors leave are at most one for each line that dropped    *)
(* something.                                                               *)
LEMMA CentsLeft ==
  ASSUME PoolTypeOK
  PROVE  /\ SumOf(Floors, Plain) \in Int /\ Target \in Int
         /\ Residual = Target - SumOf(Floors, Plain)
         /\ Residual \in 0..Cardinality(Plain)
         /\ Residual <= Cardinality(Odd)
<1>1. IsFiniteSet(Plain) /\ Odd \in SUBSET Plain /\ rate \in Int
  BY PlainFacts DEF Odd
<1>2. /\ Cardinality(Odd) \in Nat /\ Cardinality(Plain) \in Nat
      /\ Cardinality(Odd) <= Cardinality(Plain)
  BY <1>1, FS_Subset, FS_CardinalityType
<1>3. /\ Numbers(gross, Plain) /\ Numbers(Floors, Plain) /\ Numbers(Drops, Plain)
      /\ Numbers(Exacts, Plain) /\ Numbers(Wholes, Plain)
  <2>1. Numbers(gross, Plain)
    BY PlainFacts DEF Numbers
  <2>2. Numbers(Floors, Plain) /\ Numbers(Drops, Plain) /\ Numbers(Exacts, Plain)
    BY LineParts DEF Numbers, Floors, Drops, Exacts
  <2>3. ASSUME NEW i \in Plain PROVE Wholes[i] \in Int
    BY LineParts, MillionInt DEF Wholes
  <2> QED BY <2>1, <2>2, <2>3 DEF Numbers
<1>4. SumOf(Exacts, Plain) = SumOf(gross, Plain) * rate
  <2>1. Scaled(Exacts, gross, rate, Plain)
    BY DEF Scaled, Exacts, Exact
  <2> QED BY <1>1, <1>3, <2>1, SumTimes
<1>5. SumOf(Wholes, Plain) = SumOf(Floors, Plain) * Million
  <2>1. Scaled(Wholes, Floors, Million, Plain)
    BY DEF Scaled, Wholes, Floors
  <2> QED BY <1>1, <1>3, <2>1, SumTimes, MillionInt
<1>6. SumOf(Exacts, Plain) = SumOf(Wholes, Plain) + SumOf(Drops, Plain)
  <2>1. ASSUME NEW i \in Plain PROVE Exacts[i] = Wholes[i] + Drops[i]
    <3>1. Exact(i) = FloorCent(Exact(i)) * Million + Dropped(i)
      <4>1. \A a \in Int : Million * a = a * Million
        BY MillionInt
      <4> QED BY <4>1, LineParts
    <3> QED BY <3>1 DEF Exacts, Wholes, Drops
  <2> QED BY <1>1, <1>3, <2>1, SumPlus
<1>7. 0 <= SumOf(Drops, Plain) /\ SumOf(Drops, Plain) <= (Million - 1) * Cardinality(Odd)
  <2>1. ASSUME NEW i \in Plain
        PROVE  0 <= Drops[i] /\ Drops[i] <= (IF i \in Odd THEN Million - 1 ELSE 0)
    <3>1. Drops[i] = Dropped(i) /\ (i \notin Odd => Dropped(i) = 0)
      BY DEF Drops, Odd
    <3> QED BY <3>1, LineParts
  <2>2. Million - 1 \in Nat
    BY MillionInt
  <2> QED BY <1>1, <1>3, <2>1, <2>2, SumBound
<1> DEFINE q == SumOf(Floors, Plain)
           d == SumOf(Drops, Plain)
           k == Cardinality(Odd)
<1>8. q \in Int /\ d \in Int /\ k \in Nat
  BY <1>1, <1>2, <1>3, SumInt
<1>9. SumOf(gross, Plain) * rate = Million * q + d
  <2> HIDE DEF d
  <2>1. q * Million = Million * q
    <3> HIDE DEF q
    <3> QED BY <1>8, MillionInt
  <2> QED BY <1>4, <1>5, <1>6, <2>1 DEF d
<1>10. Target = HalfUp(Million * q + d)
  BY <1>9 DEF Target, SumOf
<1>11. Target \in Int
  <2>1. Million * q + d \in Int
    <3> HIDE DEF q, d
    <3> QED BY <1>8, MillionInt
  <2> QED BY <1>10, <2>1, HalfUpInt
<1>12. q <= Target /\ Target <= q + k
  <2> HIDE DEF q, d, k
  <2> QED BY <1>7, <1>8, <1>10, HalfUpBetween DEF d, k
<1>13. Residual = Target - q
  <2>1. Residual = LET left == Target - q
                   IN  IF left < 0 THEN 0
                       ELSE IF left > Cardinality(Plain) THEN Cardinality(Plain) ELSE left
    BY FloorTotal DEF Residual
  <2> HIDE DEF q
  <2> QED BY <1>2, <1>8, <1>11, <1>12, <2>1
<1> HIDE DEF q
<1>14. Residual \in 0..Cardinality(Plain) /\ Residual <= Cardinality(Odd)
  BY <1>2, <1>8, <1>11, <1>12, <1>13
<1> QED BY <1>8, <1>11, <1>13, <1>14 DEF q

(* What the floors leave is within the number of lines, credits and         *)
(* reversals included: the clamp of the code is never needed ("the residual *)
(* can never exceed the line count", engine.py).                            *)
ClampIdle == Residual = Target - SumOf(Floors, Plain)

THEOREM ClampIsIdle == PoolSpec => []ClampIdle
<1>1. PoolTypeOK => ClampIdle
  BY CentsLeft DEF ClampIdle
<1> QED BY <1>1, PoolTypeCorrect, PTL

(* The cent a line gets.                                                    *)
Extra == [i \in Plain |-> IF Rank[i] < Residual THEN 1 ELSE 0]

LEMMA Parts ==
  ASSUME NEW i \in Plain
  PROVE  LargestRemainder[i] = Floors[i] + Extra[i]
BY DEF LargestRemainder, Floors, Extra, Rank, Served

(* The parts of the lines come to the target, and no line is a cent off.    *)
LEMMA SplitFair == PoolTypeOK => PoolSplitsFairly
<1> SUFFICES ASSUME PoolTypeOK PROVE PoolSplitsFairly
  OBVIOUS
<1>1. /\ Residual = Target - SumOf(Floors, Plain) /\ Target \in Int
      /\ Residual \in 0..Cardinality(Plain) /\ Residual <= Cardinality(Odd)
      /\ SumOf(Floors, Plain) \in Int
  BY CentsLeft
<1>2. IsFiniteSet(Plain) /\ Cardinality(Plain) \in Nat
  BY PlainFacts
<1> DEFINE U == {i \in Plain : Rank[i] < Residual}
<1>3. Cardinality(U) = Residual
  BY <1>1, <1>2, RanksDiffer, RanksBelow
<1>4. SumOf(Extra, Plain) = Cardinality(U)
  <2>1. \A i \in Plain : Extra[i] = IF i \in U THEN 1 ELSE 0
    BY DEF Extra
  <2>2. U \in SUBSET Plain
    OBVIOUS
  <2> HIDE DEF U
  <2> QED BY <1>2, <2>1, <2>2, SumCounts
<1>5. SumOf(LargestRemainder, Plain) = SumOf(Floors, Plain) + SumOf(Extra, Plain)
  <2>1. Numbers(Floors, Plain) /\ Numbers(Extra, Plain)
    BY LineParts DEF Numbers, Floors, Extra
  <2> QED BY <1>2, <2>1, Parts, SumPlus
<1>6. Total(LAMBDA i : LargestRemainder[i], Plain) = Target
  <2>1. SumOf(LargestRemainder, Plain) = Target
    BY <1>1, <1>3, <1>4, <1>5
  <2> QED BY <2>1 DEF SumOf
<1>7. ASSUME NEW i \in Plain
      PROVE  /\ -Million < Million * LargestRemainder[i] - Exact(i)
             /\ Million * LargestRemainder[i] - Exact(i) < Million
  <2> DEFINE a == FloorCent(Exact(i))
             x == Exact(i)
             b == Dropped(i)
             e == Extra[i]
  <2>1. a \in Int /\ x = Million * a + b /\ b \in Int /\ 0 <= b /\ b <= Million - 1
    BY LineParts
  <2>2. LargestRemainder[i] = a + e
    BY Parts DEF Floors
  <2>3. e \in {0, 1} /\ (b = 0 => e = 0)
    <3>1. ASSUME b = 0 PROVE e = 0
      <4>1. Cardinality(Odd) <= Rank[i]
        BY <3>1, OddFirst DEF Odd
      <4>2. Rank[i] \in Int /\ Cardinality(Odd) \in Nat
        <5>1. IsFiniteSet(Odd)
          BY <1>2, FS_Subset DEF Odd
        <5> QED BY <5>1, RanksDiffer, FS_CardinalityType
      <4>3. ~(Rank[i] < Residual)
        BY <1>1, <4>1, <4>2
      <4> QED BY <4>3 DEF Extra
    <3> QED BY <3>1 DEF Extra
  <2> HIDE DEF a, x, b, e
  <2>3a. Million * (a + e) - x = Million * e - b
    BY <2>1, <2>3, MillionInt
  <2>4. /\ -Million < Million * (a + e) - x
        /\ Million * (a + e) - x < Million
    BY <2>1, <2>3, <2>3a, MillionInt
  <2> QED BY <2>2, <2>4 DEF x
<1> QED BY <1>6, <1>7 DEF PoolSplitsFairly

(* The parts of a pool add up to its rounded total to the cent, and no line *)
(* is a cent away from its exact share, for any lines, amounts and rates    *)
(* (_largest_remainder, engine.py).                                          *)
THEOREM PoolSplits == PoolSpec => []PoolSplitsFairly
BY PoolTypeCorrect, SplitFair, PTL

----------------------------------------
(* The entry.                                                               *)
LEMMA PartsInt ==
  ASSUME PoolTypeOK, NEW i \in Pooled
  PROVE  Capitalized[i] \in Int
<1>1. rate \in Int /\ gross[i] \in Int
  BY PlainFacts
<1>2. CASE i \in Plain
  <2>1. Floors[i] \in Int /\ Extra[i] \in Int
    BY <1>2, LineParts DEF Floors, Extra
  <2> QED BY <1>2, <2>1, Parts DEF Capitalized
<1>3. CASE i \notin Plain
  <2>1. reviewed[i] \in ByHand
    BY <1>3 DEF PoolTypeOK, Plain
  <2>2. reviewed[i].amount \in Int /\ reviewed[i].share \in Int
    <3>1. \A e \in ByHand : e.amount \in Cents /\ e.share \in Rates
      BY DEF ByHand
    <3>2. \A c \in Cents : c \in Int
      BY ApportionmentAssumption
    <3>3. \A r \in Rates : r \in Int
      BY ApportionmentAssumption
    <3> QED BY <2>1, <3>1, <3>2, <3>3
  <2> DEFINE m == reviewed[i].amount
             s == reviewed[i].share
             g == gross[i]
  <2>3. m * s + (g - m) * rate \in Int
    <3>1. m \in Int /\ s \in Int /\ g \in Int
      BY <1>1, <2>2
    <3> HIDE DEF m, s, g
    <3> QED BY <1>1, <3>1
  <2>4. WithOverride(i) \in Int
    BY <2>3, HalfUpInt DEF WithOverride
  <2> QED BY <1>3, <2>4 DEF Capitalized
<1> QED BY <1>2, <1>3

(* The pair of an account moves its amount, credit or debit.                *)
LEMMA PairMoves ==
  ASSUME NEW a \in Int
  PROVE  Normalized(Pair(a)).debit - Normalized(Pair(a)).credit = a
<1>1. CASE a > 0
  BY <1>1 DEF Normalized, Pair
<1>2. CASE a <= 0
  BY <1>2 DEF Normalized, Pair
<1> QED BY <1>1, <1>2

(* What an entry moves is a sum of what its pairs move.                     *)
LEMMA MovedTotal ==
  ASSUME NEW entry, NEW g, IsFiniteSet(DOMAIN entry),
         \A i \in DOMAIN entry : entry[i].debit - entry[i].credit = g[i]
  PROVE  Moved(entry) = SumOf(g, DOMAIN entry)
<1> DEFINE D == DOMAIN entry
           E(it) == it = [T \in SUBSET D |-> IF T = {} THEN 0
              ELSE (entry[Pick(T)].debit - entry[Pick(T)].credit) + it[T \ {Pick(T)}]]
<1>1. Moved(entry) = (CHOOSE it : E(it))[D]
  BY DEF Moved, Total, MapThenSumSet, MapThenFoldSet, Pick
<1>2. ASSUME NEW it PROVE E(it) <=> Adds(it, g, D)
  <2>1. \A T \in SUBSET D : T # {} =>
          entry[Pick(T)].debit - entry[Pick(T)].credit = g[Pick(T)]
    BY PickIn
  <2> QED BY <2>1 DEF Adds
<1> HIDE DEF E
<1>3. \E it : E(it)
  BY <1>2, TableExists
<1> DEFINE it == CHOOSE it : E(it)
<1>4. Adds(it, g, D)
  BY <1>2, <1>3
<1> HIDE DEF it
<1>5. SumOf(g, D) = it[D]
  BY <1>4, SumFromTable
<1> QED BY <1>1, <1>5 DEF it

LEMMA EntryTotal == PoolTypeOK => EntryMovesTotal
<1> SUFFICES ASSUME PoolTypeOK PROVE EntryMovesTotal
  OBVIOUS
<1> DEFINE parts == Capitalized
           entry == ReclassEntry(parts)
           D == {j \in Pooled : parts[j] # 0}
<1>1. \A i \in Pooled : parts[i] \in Int
  BY PartsInt
<1>2. DOMAIN entry = D /\ \A i \in D : entry[i] = Normalized(Pair(parts[i]))
  BY DEF ReclassEntry
<1> HIDE DEF parts, entry
<1>3. IsFiniteSet(Pooled) /\ IsFiniteSet(D)
  BY PlainFacts, FS_Subset
<1>4. Moved(entry) = SumOf(parts, D)
  <2>1. \A i \in D : entry[i].debit - entry[i].credit = parts[i]
    BY <1>1, <1>2, PairMoves
  <2> QED BY <1>2, <1>3, <2>1, MovedTotal
<1>5. SumOf(parts, D) = SumOf(parts, Pooled)
  BY <1>1, <1>3, SumOfNonzero DEF Numbers
<1>6. Moved(entry) = Total(LAMBDA i : parts[i], Pooled)
  BY <1>4, <1>5 DEF SumOf
<1> QED BY <1>6 DEF EntryMovesTotal, parts, entry

(* The entry moves the total of the allocation to COGS, credits and lines   *)
(* allocated by hand among it (build_reclass_lines, normalize_lines).       *)
THEOREM EntryMoves == PoolSpec => []EntryMovesTotal
BY PoolTypeCorrect, EntryTotal, PTL

----------------------------------------
(* The composition: every step of MCEngines is a step of one component and *)
(* leaves the variables of the others alone.                               *)

(* Whichever piece is at work, a behaviour of the engines is one of each of *)
(* the six, so that what is proved of a piece holds of the engines.         *)
THEOREM EnginesAreTheirParts ==
  EnginesSpec => /\ AutoSpec /\ BudgetSpec /\ AllocSpec
                 /\ PoolSpec /\ ListSpec /\ DrawerSpec
<1>1. EnginesInit => /\ AutoInit /\ BudgetInit /\ AllocInit
                     /\ PoolInit /\ ListInit /\ DrawerInit
  BY DEF EnginesInit
<1>2. [EnginesNext]_engineVars => [AutoNext]_autoVars
  BY DEF EnginesNext, engineVars
<1>3. [EnginesNext]_engineVars => [BudgetNext]_aiVars
  BY DEF EnginesNext, engineVars
<1>4. [EnginesNext]_engineVars => [AllocNext]_allocVars
  BY DEF EnginesNext, engineVars
<1>5. [EnginesNext]_engineVars => [PoolNext]_poolVars
  BY DEF EnginesNext, engineVars
<1>6. [EnginesNext]_engineVars => [ListNext]_listVars
  BY DEF EnginesNext, engineVars
<1>7. [EnginesNext]_engineVars => [DrawerNext]_drawerVars
  BY DEF EnginesNext, engineVars
<1> QED
  BY <1>1, <1>2, <1>3, <1>4, <1>5, <1>6, <1>7, PTL
     DEF EnginesSpec, AutoSpec, BudgetSpec, AllocSpec, PoolSpec, ListSpec, DrawerSpec

(* The autopilot, the AI budget and the allocation runs stay well typed.    *)
THEOREM EnginesTypeCorrect == EnginesSpec => []EnginesTypeOK
<1>1. BudgetInv => BudgetTypeOK
  BY DEF BudgetInv
<1>2. AutoTypeOK /\ BudgetTypeOK /\ AllocTypeOK => EnginesTypeOK
  BY DEF EnginesTypeOK
<1> QED
  BY <1>1, <1>2, EnginesAreTheirParts, AutoTypeCorrect, BudgetInvariant, AllocTypeCorrect, PTL
========================================
