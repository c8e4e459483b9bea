------------------------------ MODULE Desk_proofs ------------------------------
(***************************************************************************)
(* Theorems of Tasks and PbcRequests for any number of members, series,    *)
(* requests and uploads, and of the composition in MCDesk.                 *)
(*                                                                         *)
(* Tasks: the rows are numbered without gaps and a follow-on points back   *)
(* into its series, which makes the month ends inductive; a request that   *)
(* loaded a task still finds it open when it rolls it forward, unless its  *)
(* series is marked as muddled.                                            *)
(*                                                                         *)
(* Requests for documents: an upload in progress that is alone on its      *)
(* request holds the list as it stands, and the file it is about to record *)
(* is nobody else's.                                                       *)
(***************************************************************************)
EXTENDS MCDesk, Close_proofs

(* Tasks.                                                                  *)

(* Rows are numbered without a gap.                                         *)
Numbered == \E n \in 0..MaxTasks : Rows = 1..n

(* A follow-on stands in its series after the row it came from.             *)
Descends(i) ==
  /\ tasks[i].series \in Rows
  /\ tasks[i].from # None =>
       /\ tasks[i].from \in Rows
       /\ tasks[i].period # None =>
            LET before == tasks[tasks[i].from].period IN
            /\ tasks[i].period.month > before.month
            /\ IsMonthEnd(before) => IsMonthEnd(tasks[i].period)

Has(c, i) == call[c] # NoCall /\ call[c].loaded[i] # None

(* What a request has read of a row that cannot have changed since.         *)
LoadedRow(c, i) ==
  /\ i \in Rows
  /\ call[c].loaded[i].period = tasks[i].period
  /\ call[c].loaded[i].series = tasks[i].series

(* ... and, unless the series is muddled, what it has read alone: a row it  *)
(* will roll forward is open still.                                         *)
ReadAlone(c, i) ==
  /\ ~call[c].loaded[i].done => ~tasks[i].done
  /\ call[c].op = "complete" => ~call[c].loaded[i].done
  /\ \A d \in Clerks : d # c => ~Has(d, i)

TaskInv ==
  /\ TaskTypeOK
  /\ Numbered
  /\ \A i \in Rows : Descends(i)
  /\ \A c \in Clerks, i \in TaskIds : Has(c, i) =>
       LoadedRow(c, i) /\ (tasks[i].series \notin muddled => ReadAlone(c, i))
  /\ OneOpenOccurrence

--------------------------------------------------------------------------------
(* The calendar.                                                            *)

LEMMA MonthLengths == \A m \in Nat : DaysInMonth(m) \in 28..31
BY DEF DaysInMonth, LeapYear

LEMMA DateFields == \A m, d : Date(m, d).month = m /\ Date(m, d).day = d
BY DEF Date

LEMMA AddMonthsDate ==
  ASSUME NEW date \in Dates, NEW n \in Nat
  PROVE  /\ AddMonths(date, n) \in Dates
         /\ AddMonths(date, n).month = date.month + n
<1>1. /\ date.month \in Nat /\ date.day \in 1..31
      /\ date = [month |-> date.month, day |-> date.day]
  BY DEF Dates
<1>2. DaysInMonth(date.month + n) \in 28..31
  BY <1>1, MonthLengths
<1> QED BY <1>1, <1>2 DEF AddMonths, Date, Dates

(* A month end rolls to a month end, later by the step.                     *)
LEMMA NextPeriodDate ==
  ASSUME NEW date \in Dates, NEW n \in Nat
  PROVE  /\ NextPeriod(date, n) \in Dates
         /\ NextPeriod(date, n).month = date.month + n
         /\ IsMonthEnd(date) => IsMonthEnd(NextPeriod(date, n))
<1> DEFINE next == AddMonths(date, n)
           last == [next EXCEPT !.day = DaysInMonth(next.month)]
<1>1. next \in Dates /\ next.month = date.month + n
  BY AddMonthsDate
<1>2. last \in Dates /\ last.month = next.month /\ last.day = DaysInMonth(last.month)
  BY <1>1, MonthLengths DEF Dates
<1> QED BY <1>1, <1>2 DEF NextPeriod, IsMonthEnd

LEMMA TaskFields ==
  ASSUME NEW t \in Task
  PROVE  /\ t # None
         /\ t.period \in Dates \cup {None} /\ t.due \in Dates \cup {None}
         /\ t.every \in Steps \cup {None} /\ t.done \in BOOLEAN
         /\ t.from \in TaskIds \cup {None} /\ t.series \in TaskIds
BY TaskAssumption DEF Task

LEMMA FollowOnFields ==
  ASSUME NEW i \in TaskIds, NEW t \in Task, t.every # None
  PROVE  /\ FollowOn(i, t) \in Task
         /\ FollowOn(i, t).series = t.series /\ FollowOn(i, t).from = i
         /\ ~FollowOn(i, t).done
         /\ FollowOn(i, t).period # None =>
              /\ t.period \in Dates
              /\ FollowOn(i, t).period.month > t.period.month
              /\ IsMonthEnd(t.period) => IsMonthEnd(FollowOn(i, t).period)
<1>1. t.every \in Nat \ {0}
  <2>1. t.every \in Steps
    BY TaskFields
  <2>2. Steps \subseteq {1, 3, 12}
    BY TaskAssumption
  <2>3. t.every = 1 \/ t.every = 3 \/ t.every = 12
    BY <2>1, <2>2
  <2> QED BY <2>3
<1>2. t.period # None => /\ NextPeriod(t.period, t.every) \in Dates
                         /\ NextPeriod(t.period, t.every).month > t.period.month
                         /\ IsMonthEnd(t.period) => IsMonthEnd(NextPeriod(t.period, t.every))
  <2> SUFFICES ASSUME t.period # None
               PROVE  /\ NextPeriod(t.period, t.every) \in Dates
                      /\ NextPeriod(t.period, t.every).month > t.period.month
                      /\ IsMonthEnd(t.period) => IsMonthEnd(NextPeriod(t.period, t.every))
    OBVIOUS
  <2>1. t.period \in Dates
    BY TaskFields
  <2>2. t.period.month \in Nat
    BY <2>1 DEF Dates
  <2>3. NextPeriod(t.period, t.every).month = t.period.month + t.every
    BY <1>1, <2>1, NextPeriodDate
  <2> QED BY <1>1, <2>1, <2>2, <2>3, NextPeriodDate
<1>3. t.due # None => AddMonths(t.due, t.every) \in Dates
  BY <1>1, AddMonthsDate, TaskFields
<1> QED BY <1>1, <1>2, <1>3, TaskFields DEF FollowOn, Task

--------------------------------------------------------------------------------
LEMMA RowTypes ==
  ASSUME TaskTypeOK
  PROVE  /\ \A i \in TaskIds : tasks[i] \in Task \cup {None}
         /\ \A i \in Rows : i \in TaskIds /\ tasks[i] \in Task /\ tasks[i].series \in TaskIds
         /\ \A i \in TaskIds : i \in Rows <=> tasks[i] # None
<1>1. \A i \in Rows : i \in TaskIds /\ tasks[i] \in Task
  BY DEF TaskTypeOK, Rows
<1> QED BY <1>1, TaskFields DEF TaskTypeOK, Rows

LEMMA CallTypes ==
  ASSUME TaskTypeOK, NEW c \in Clerks, call[c] # NoCall
  PROVE  /\ call[c] \in Call /\ call[c].op \in {"complete", "bulk"}
         /\ call[c].loaded \in [TaskIds -> Task \cup {None}]
         /\ \A i \in TaskIds : call[c].loaded[i] # None => call[c].loaded[i] \in Task
<1>1. call[c] \in Call
  BY DEF TaskTypeOK
<1> QED BY <1>1 DEF Call

(* The next row numbers are the ones after the rows there are.              *)
LEMMA RowNumbers ==
  ASSUME Numbered
  PROVE  \E n \in Nat : Rows = 1..n /\ Cardinality(Rows) = n
<1>1. MaxTasks \in Nat
  BY TaskAssumption
<1>2. PICK n \in 0..MaxTasks : Rows = 1..n
  BY DEF Numbered
<1>3. n \in Nat
  BY <1>1, <1>2
<1>4. Cardinality(1..n) = n
  BY <1>3, FS_Interval
<1> QED BY <1>2, <1>3, <1>4

(* A row edited by hand keeps its place in its series, and its stamp unless *)
(* it is reopened.                                                          *)
LEMMA EditKeeps ==
  ASSUME TaskInv, NEW i \in Rows, NEW new \in Task,
         tasks' = [tasks EXCEPT ![i] = new], UNCHANGED call,
         new.period = tasks[i].period, new.from = tasks[i].from, new.series = tasks[i].series,
         \/ muddled' = muddled /\ new.done = tasks[i].done
         \/ muddled' = muddled \cup {tasks[i].series},
         edits' \in 0..MaxEdits
  PROVE  TaskInv'
<1> USE DEF TaskInv
<1>1. TaskTypeOK'
  BY RowTypes DEF TaskTypeOK
<1>2. Rows' = Rows
  BY RowTypes, TaskFields DEF Rows, TaskTypeOK
<1>3. /\ tasks'[i] = new
      /\ \A k \in TaskIds \ {i} : tasks'[k] = tasks[k]
      /\ \A k \in TaskIds : /\ tasks'[k].period = tasks[k].period
                            /\ tasks'[k].from = tasks[k].from
                            /\ tasks'[k].series = tasks[k].series
      /\ muddled \subseteq muddled'
      /\ \A k \in TaskIds : tasks[k].series \notin muddled' => tasks'[k].done = tasks[k].done
  BY RowTypes DEF TaskTypeOK
<1> USE RowTypes
<1>4. Numbered'
  BY <1>2 DEF Numbered
<1>5. \A k \in Rows' : Descends(k)'
  <2> SUFFICES ASSUME NEW k \in Rows PROVE Descends(k)'
    BY <1>2
  <2>1. Descends(k)
    OBVIOUS
  <2>2. tasks'[k].from # None => tasks'[tasks'[k].from].period = tasks[tasks[k].from].period
    BY <1>3, <2>1 DEF Descends
  <2> QED BY <1>2, <1>3, <2>1, <2>2 DEF Descends
<1>6. ASSUME NEW c \in Clerks, NEW k \in TaskIds, Has(c, k)'
      PROVE  LoadedRow(c, k)' /\ (tasks'[k].series \notin muddled' => ReadAlone(c, k)')
  <2>1. Has(c, k) /\ LoadedRow(c, k)
    BY <1>6 DEF Has
  <2>2. LoadedRow(c, k)'
    BY <1>2, <1>3, <2>1 DEF LoadedRow
  <2>3. tasks'[k].series \notin muddled' => ReadAlone(c, k)'
    BY <1>3, <2>1 DEF ReadAlone, Has
  <2> QED BY <2>2, <2>3
<1>7. OneOpenOccurrence'
  BY <1>2, <1>3 DEF OneOpenOccurrence
<1> QED BY <1>1, <1>4, <1>5, <1>6, <1>7

(* A row created by hand starts a series of its own.                        *)
LEMMA CreateKeeps ==
  ASSUME TaskInv, NEW i \in TaskIds, NEW period \in Periods \cup {None},
         NEW due \in Dues \cup {None}, NEW every \in Steps \cup {None},
         CreateTask(i, period, due, every)
  PROVE  TaskInv'
<1> USE DEF TaskInv
<1> DEFINE new == [period |-> period, due |-> due, every |-> every,
                   done |-> FALSE, from |-> None, series |-> i]
<1>1. new \in Task
  BY TaskAssumption DEF Task
<1>2. new # None /\ new.from = None /\ new.series = i /\ ~new.done
  BY <1>1, TaskFields
<1>3. tasks' = [tasks EXCEPT ![i] = new] /\ UNCHANGED <<call, muddled, edits>>
  BY DEF CreateTask
<1>4. i \in NewRows(1)
  BY DEF CreateTask
<1> HIDE DEF new
<1>5. TaskTypeOK'
  BY <1>1, <1>3 DEF TaskTypeOK
<1>6. PICK n \in Nat : Rows = 1..n /\ Cardinality(Rows) = n
  BY RowNumbers
<1>7. i = n + 1 /\ i \notin Rows
  BY <1>4, <1>6 DEF NewRows
<1>8. /\ tasks'[i] = new
      /\ \A k \in TaskIds \ {i} : tasks'[k] = tasks[k]
  BY <1>3 DEF TaskTypeOK
<1>9. Rows' = Rows \cup {i}
  BY <1>2, <1>8 DEF Rows
<1> USE RowTypes
<1>10. Numbered'
  <2>1. n + 1 \in 0..MaxTasks
    BY <1>7, TaskAssumption DEF TaskIds
  <2>2. 1..n \cup {n + 1} = 1..(n + 1)
    OBVIOUS
  <2> QED BY <1>6, <1>7, <1>9, <2>1, <2>2 DEF Numbered
<1>11. \A k \in Rows' : Descends(k)'
  <2>1. Descends(i)'
    BY <1>2, <1>8, <1>9 DEF Descends
  <2>2. ASSUME NEW k \in Rows PROVE Descends(k)'
    <3>1. Descends(k) /\ tasks'[k] = tasks[k]
      BY <1>7, <1>8
    <3>2. tasks[k].from # None => tasks[k].from \in TaskIds \ {i}
      BY <1>7, <3>1 DEF Descends
    <3>3. tasks[k].from # None => tasks'[tasks[k].from] = tasks[tasks[k].from]
      BY <1>8, <3>2
    <3> QED BY <1>9, <3>1, <3>3 DEF Descends
  <2> QED BY <1>9, <2>1, <2>2
<1>12. ASSUME NEW c \in Clerks, NEW k \in TaskIds, Has(c, k)'
       PROVE  LoadedRow(c, k)' /\ (tasks'[k].series \notin muddled' => ReadAlone(c, k)')
  <2>1. Has(c, k) /\ LoadedRow(c, k) /\ k # i
    BY <1>3, <1>7, <1>12 DEF Has, LoadedRow
  <2>2. LoadedRow(c, k)'
    BY <1>3, <1>8, <1>9, <2>1 DEF LoadedRow
  <2>3. tasks'[k].series \notin muddled' => ReadAlone(c, k)'
    BY <1>3, <1>8, <2>1 DEF ReadAlone, Has
  <2> QED BY <2>2, <2>3
<1>13. OneOpenOccurrence'
  <2>1. \A k \in Rows : tasks[k].series # i
    BY <1>7 DEF Descends
  <2> QED BY <1>2, <1>3, <1>7, <1>8, <1>9, <2>1 DEF OneOpenOccurrence
<1> QED BY <1>5, <1>10, <1>11, <1>12, <1>13

(* A request reads one more row.                                            *)
Reading(c, i, new) ==
  /\ call' = [call EXCEPT ![c] = new] /\ UNCHANGED <<tasks, edits>>
  /\ new.loaded[i] = tasks[i]
  /\ \A k \in TaskIds \ {i} : new.loaded[k] # None =>
       /\ call[c] # NoCall /\ call[c].op = new.op
       /\ call[c].loaded[k] = new.loaded[k]
  /\ \/ muddled' = muddled \cup {tasks[i].series}
     \/ /\ muddled' = muddled /\ ~Overlapped(c, i)
        /\ new.op = "complete" => ~tasks[i].done

LEMMA ReadKeeps ==
  ASSUME TaskInv, NEW c \in Clerks, NEW i \in Rows, NEW new \in Call, Reading(c, i, new)
  PROVE  TaskInv'
<1> USE RowTypes DEF TaskInv, Reading
<1>1. TaskTypeOK' /\ Rows' = Rows
  BY DEF TaskTypeOK, Rows
<1>2. Numbered' /\ \A k \in Rows' : Descends(k)'
  BY <1>1 DEF Numbered, Descends
<1>3. OneOpenOccurrence'
  BY <1>1 DEF OneOpenOccurrence
<1>4. /\ call'[c] = new /\ new # NoCall
      /\ \A d \in Clerks \ {c} : call'[d] = call[d]
  BY DEF TaskTypeOK, Call, NoCall
<1>5. ASSUME NEW d \in Clerks, NEW k \in TaskIds, Has(d, k)', d # c \/ k # i
      PROVE  /\ Has(d, k) /\ LoadedRow(d, k) /\ call'[d].op = call[d].op
             /\ call'[d].loaded[k] = call[d].loaded[k]
  <2>1. CASE d # c
    BY <1>4, <1>5, <2>1 DEF Has
  <2>2. CASE d = c
    BY <1>4, <1>5, <2>2 DEF Has
  <2> QED BY <2>1, <2>2
<1>6. ASSUME NEW d \in Clerks, NEW k \in TaskIds, Has(d, k)'
      PROVE  LoadedRow(d, k)' /\ (tasks'[k].series \notin muddled' => ReadAlone(d, k)')
  <2>1. CASE d = c /\ k = i
    <3>1. LoadedRow(d, k)'
      BY <1>1, <1>4, <2>1 DEF LoadedRow
    <3>2. ASSUME tasks'[k].series \notin muddled' PROVE ReadAlone(d, k)'
      <4>1. ~Overlapped(c, i) /\ (new.op = "complete" => ~tasks[i].done)
        BY <2>1, <3>2
      <4> QED BY <1>4, <2>1, <4>1 DEF ReadAlone, Has, Overlapped
    <3> QED BY <3>1, <3>2
  <2>2. CASE d # c \/ k # i
    <3>1. /\ Has(d, k) /\ LoadedRow(d, k) /\ call'[d].op = call[d].op
          /\ call'[d].loaded[k] = call[d].loaded[k]
      BY <1>5, <1>6, <2>2
    <3>2. LoadedRow(d, k)'
      BY <1>1, <3>1 DEF LoadedRow
    <3>3. ASSUME tasks'[k].series \notin muddled' PROVE ReadAlone(d, k)'
      <4>1. ReadAlone(d, k)
        BY <3>1, <3>3
      <4>2. ASSUME NEW e \in Clerks, e # d, Has(e, k)' PROVE FALSE
        <5>1. CASE e = c /\ k = i
          BY <2>2, <3>1, <3>3, <4>2, <5>1 DEF Overlapped, Has
        <5>2. CASE e # c \/ k # i
          BY <1>5, <4>1, <4>2, <5>2 DEF ReadAlone
        <5> QED BY <5>1, <5>2
      <4> QED BY <3>1, <4>1, <4>2 DEF ReadAlone
    <3> QED BY <3>2, <3>3
  <2> QED BY <2>1, <2>2
<1> QED BY <1>1, <1>2, <1>3, <1>6

--------------------------------------------------------------------------------
(* The commit.                                                              *)

(* The new rows fill the numbers after the old ones, one for each row       *)
(* rolled forward.                                                          *)
LEMMA PlacesFilled ==
  ASSUME TaskInv, NEW R \in SUBSET TaskIds,
         NEW place \in [R -> NewRows(Cardinality(R))],
         \A i, k \in R : place[i] = place[k] => i = k,
         NewRows(Cardinality(R)) \subseteq TaskIds
  PROVE  LET N == NewRows(Cardinality(R)) IN
         /\ N \cap Rows = {}
         /\ \E m \in 0..MaxTasks : Rows \cup N = 1..m
         /\ \A t \in N : \E i \in R : place[i] = t
<1> DEFINE N == NewRows(Cardinality(R))
<1>1. PICK n \in Nat : Rows = 1..n /\ Cardinality(Rows) = n
  BY RowNumbers DEF TaskInv
<1>2. MaxTasks \in Nat /\ IsFiniteSet(TaskIds)
  BY TaskAssumption, FS_Interval DEF TaskIds
<1>3. IsFiniteSet(R) /\ Cardinality(R) \in Nat
  BY <1>2, FS_Subset, FS_CardinalityType
<1>4. N = (n + 1)..(n + Cardinality(R))
  BY <1>1 DEF NewRows
<1>5. IsFiniteSet(N) /\ Cardinality(N) = Cardinality(R)
  BY <1>3, <1>4, FS_Interval
<1>6. place \in Injection(R, N)
  BY DEF Injection, IsInjective
<1>7. place \in Surjection(R, N)
  <2> HIDE DEF N
  <2> QED BY <1>5, <1>6, FS_Injection
<1>8. \A t \in N : \E i \in R : place[i] = t
  BY <1>7 DEF Surjection
<1>9. N \cap Rows = {}
  BY <1>1, <1>3, <1>4
<1>10. Rows \cup N = 1..(n + Cardinality(R))
  BY <1>1, <1>3, <1>4
<1>11. n + Cardinality(R) \in 0..MaxTasks
  <2>1. Rows \cup N \subseteq 1..MaxTasks
    BY DEF Rows, TaskIds
  <2>2. CASE n + Cardinality(R) = 0
    BY <1>2, <2>2
  <2>3. CASE n + Cardinality(R) # 0
    <3>1. n + Cardinality(R) \in 1..MaxTasks
      BY <1>3, <1>10, <2>1, <2>3
    <3> QED BY <1>2, <3>1
  <2> QED BY <2>2, <2>3
<1> QED BY <1>8, <1>9, <1>10, <1>11

(* What the commit of request c makes of the rows: R is what it rolls       *)
(* forward, N the numbers of the rows that it adds.                         *)
Committed(c, R, N) ==
  /\ \A t \in N : \E i \in R : tasks'[t] = FollowOn(i, call[c].loaded[i])
  /\ \A t, u \in N, i \in R :
       /\ tasks'[t] = FollowOn(i, call[c].loaded[i])
       /\ tasks'[u] = FollowOn(i, call[c].loaded[i])
       => t = u
  /\ \A t \in TaskIds \ N : tasks'[t] =
       IF t \in Loaded(call[c]) THEN [tasks[t] EXCEPT !.done = TRUE] ELSE tasks[t]

LEMMA RolledRows ==
  ASSUME TaskInv, NEW c \in Clerks, call[c] # NoCall, NEW i \in Rolled(call[c])
  PROVE  /\ i \in Loaded(call[c]) /\ i \in Rows /\ i \in TaskIds /\ Has(c, i)
         /\ call[c].loaded[i] \in Task /\ call[c].loaded[i].every # None
         /\ LoadedRow(c, i)
         /\ tasks[i].series \notin muddled =>
              /\ ~tasks[i].done
              /\ \A d \in Clerks : d # c => ~Has(d, i)
<1>1. /\ i \in TaskIds /\ i \in Loaded(call[c]) /\ Recurs(call[c].loaded[i])
      /\ call[c].op = "bulk" => ~call[c].loaded[i].done
  BY DEF Rolled, Loaded
<1>2. Has(c, i) /\ call[c].op \in {"complete", "bulk"} /\ call[c].loaded[i] \in Task
  BY <1>1, CallTypes DEF Has, Loaded, TaskInv
<1>3. LoadedRow(c, i) /\ (tasks[i].series \notin muddled => ReadAlone(c, i))
  BY <1>1, <1>2 DEF TaskInv
<1> QED BY <1>1, <1>2, <1>3 DEF LoadedRow, ReadAlone, Recurs

LEMMA CommitMakes ==
  ASSUME TaskInv, NEW c \in Clerks, CompletionCommit(c)
  PROVE  LET R == Rolled(call[c])
             N == NewRows(Cardinality(R)) IN
         /\ call[c] # NoCall
         /\ N \subseteq TaskIds /\ N \cap Rows = {}
         /\ \E m \in 0..MaxTasks : Rows \cup N = 1..m
         /\ tasks' = [t \in TaskIds |-> tasks'[t]] /\ Committed(c, R, N)
         /\ call' = [call EXCEPT ![c] = NoCall] /\ UNCHANGED <<muddled, edits>>
<1> DEFINE R == Rolled(call[c])
           N == NewRows(Cardinality(R))
<1>1. /\ call[c] # NoCall /\ N \subseteq TaskIds
      /\ call' = [call EXCEPT ![c] = NoCall] /\ UNCHANGED <<muddled, edits>>
  BY DEF CompletionCommit
<1>2. PICK place \in [R -> N] :
        /\ \A i, k \in R : place[i] = place[k] => i = k
        /\ tasks' = [t \in TaskIds |->
             IF \E i \in R : place[i] = t
             THEN LET i == CHOOSE i \in R : place[i] = t IN FollowOn(i, call[c].loaded[i])
             ELSE IF t \in Loaded(call[c]) THEN [tasks[t] EXCEPT !.done = TRUE]
             ELSE tasks[t]]
  BY DEF CompletionCommit
<1>3. R \subseteq TaskIds
  BY DEF Rolled, Loaded
<1>4. /\ N \cap Rows = {}
      /\ \E m \in 0..MaxTasks : Rows \cup N = 1..m
      /\ \A t \in N : \E i \in R : place[i] = t
  <2> HIDE DEF R
  <2> QED BY <1>1, <1>2, <1>3, PlacesFilled
<1> HIDE DEF R, N
<1>5. ASSUME NEW t \in N, NEW i \in R, place[i] = t
      PROVE  tasks'[t] = FollowOn(i, call[c].loaded[i])
  <2>1. (CHOOSE k \in R : place[k] = t) = i
    BY <1>2, <1>5
  <2>2. t \in TaskIds
    BY <1>1
  <2> QED BY <1>2, <1>5, <2>1, <2>2
<1>6. \A t \in N : \E i \in R : place[i] = t /\ tasks'[t] = FollowOn(i, call[c].loaded[i])
  BY <1>4, <1>5
<1>7. \A i \in R : FollowOn(i, call[c].loaded[i]).from = i
  BY DEF FollowOn
<1>8. ASSUME NEW t \in N, NEW u \in N, NEW i \in R,
             tasks'[t] = FollowOn(i, call[c].loaded[i]),
             tasks'[u] = FollowOn(i, call[c].loaded[i])
      PROVE  t = u
  <2>1. PICK k \in R : place[k] = t /\ tasks'[t] = FollowOn(k, call[c].loaded[k])
    BY <1>6
  <2>2. PICK l \in R : place[l] = u /\ tasks'[u] = FollowOn(l, call[c].loaded[l])
    BY <1>6
  <2> QED BY <1>7, <1>8, <2>1, <2>2
<1>9. ASSUME NEW t \in TaskIds \ N
      PROVE  tasks'[t] = IF t \in Loaded(call[c]) THEN [tasks[t] EXCEPT !.done = TRUE] ELSE tasks[t]
  <2>1. ~ \E i \in R : place[i] = t
    BY <1>2
  <2> QED BY <1>2, <2>1
<1>10. Committed(c, R, N)
  BY <1>6, <1>8, <1>9 DEF Committed
<1>11. tasks' = [t \in TaskIds |-> tasks'[t]]
  BY <1>2
<1> QED BY <1>1, <1>4, <1>10, <1>11 DEF R, N

LEMMA CommitKeeps ==
  ASSUME TaskInv, NEW c \in Clerks, CompletionCommit(c)
  PROVE  TaskInv'
<1> DEFINE R == Rolled(call[c])
           N == NewRows(Cardinality(R))
<1>1. /\ call[c] # NoCall
      /\ N \subseteq TaskIds /\ N \cap Rows = {}
      /\ \E m \in 0..MaxTasks : Rows \cup N = 1..m
      /\ tasks' = [t \in TaskIds |-> tasks'[t]] /\ Committed(c, R, N)
      /\ call' = [call EXCEPT ![c] = NoCall] /\ UNCHANGED <<muddled, edits>>
  BY CommitMakes
<1>2. \A i \in R :
        /\ i \in Loaded(call[c]) /\ i \in Rows /\ i \in TaskIds /\ Has(c, i)
        /\ call[c].loaded[i] \in Task /\ call[c].loaded[i].every # None
        /\ LoadedRow(c, i)
        /\ tasks[i].series \notin muddled =>
              /\ ~tasks[i].done
              /\ \A d \in Clerks : d # c => ~Has(d, i)
  BY <1>1, RolledRows
<1> HIDE DEF R, N
<1>3. \A i \in Loaded(call[c]) : i \in Rows /\ Has(c, i)
  BY <1>1 DEF TaskInv, LoadedRow, Has, Loaded
<1>4. ASSUME NEW t \in N
      PROVE  \E i \in R : /\ tasks'[t] = FollowOn(i, call[c].loaded[i])
                          /\ tasks'[t] \in Task
                          /\ tasks'[t].from = i /\ tasks'[t].series = tasks[i].series
                          /\ ~tasks'[t].done
                          /\ tasks'[t].period # None =>
                               /\ tasks'[t].period.month > tasks[i].period.month
                               /\ IsMonthEnd(tasks[i].period) => IsMonthEnd(tasks'[t].period)
  <2>1. PICK i \in R : tasks'[t] = FollowOn(i, call[c].loaded[i])
    BY <1>1 DEF Committed
  <2>2. /\ i \in TaskIds /\ call[c].loaded[i] \in Task /\ call[c].loaded[i].every # None
        /\ call[c].loaded[i].period = tasks[i].period
        /\ call[c].loaded[i].series = tasks[i].series
    BY <1>2 DEF LoadedRow
  <2> QED BY <2>1, <2>2, FollowOnFields
<1>5. ASSUME NEW t \in Rows
      PROVE  /\ tasks'[t] \in Task
             /\ tasks'[t].period = tasks[t].period /\ tasks'[t].from = tasks[t].from
             /\ tasks'[t].series = tasks[t].series
             /\ tasks'[t].done = (tasks[t].done \/ t \in Loaded(call[c]))
  <2>1. t \in TaskIds \ N /\ tasks[t] \in Task
    BY <1>1, RowTypes DEF TaskInv
  <2>2. tasks'[t] = IF t \in Loaded(call[c]) THEN [tasks[t] EXCEPT !.done = TRUE] ELSE tasks[t]
    BY <1>1, <2>1 DEF Committed
  <2>3. CASE t \in Loaded(call[c])
    BY <2>1, <2>2, <2>3 DEF Task
  <2>4. CASE t \notin Loaded(call[c])
    BY <2>1, <2>2, <2>4, TaskFields, Zenon
  <2> QED BY <2>3, <2>4
<1>6. \A t \in TaskIds : t \notin Rows /\ t \notin N => tasks'[t] = None
  <2> SUFFICES ASSUME NEW t \in TaskIds, t \notin Rows, t \notin N
               PROVE  tasks'[t] = None
    OBVIOUS
  <2>1. tasks[t] = None /\ t \notin Loaded(call[c])
    BY <1>3, RowTypes DEF TaskInv
  <2> QED BY <1>1, <2>1 DEF Committed
<1>7. Rows' = Rows \cup N
  <2>1. \A t \in Rows \cup N : t \in TaskIds /\ tasks'[t] # None
    BY <1>1, <1>4, <1>5, TaskFields, RowTypes DEF TaskInv
  <2> QED BY <1>6, <2>1 DEF Rows
<1>8. /\ \A d \in Clerks \ {c} : call'[d] = call[d]
      /\ call'[c] = NoCall
  BY <1>1 DEF TaskInv, TaskTypeOK
<1>9. TaskTypeOK'
  <2>1. \A t \in TaskIds : tasks'[t] \in Task \cup {None}
    BY <1>4, <1>5, <1>6
  <2>2. tasks' \in [TaskIds -> Task \cup {None}]
    BY <1>1, <2>1
  <2> QED BY <1>1, <2>2 DEF TaskInv, TaskTypeOK
<1>10. Numbered'
  BY <1>1, <1>7 DEF Numbered
<1>11. \A t \in Rows' : Descends(t)'
  <2>1. ASSUME NEW t \in Rows PROVE Descends(t)'
    <3>1. Descends(t)
      BY DEF TaskInv
    <3>2. tasks[t].from # None =>
            tasks'[tasks[t].from].period = tasks[tasks[t].from].period
      BY <1>5, <3>1 DEF Descends
    <3> QED BY <1>5, <1>7, <3>1, <3>2 DEF Descends
  <2>2. ASSUME NEW t \in N PROVE Descends(t)'
    <3>1. PICK i \in R : /\ tasks'[t].from = i /\ tasks'[t].series = tasks[i].series
                         /\ tasks'[t].period # None =>
                              /\ tasks'[t].period.month > tasks[i].period.month
                              /\ IsMonthEnd(tasks[i].period) => IsMonthEnd(tasks'[t].period)
      BY <1>4
    <3>2. i \in Rows /\ tasks[i].series \in Rows /\ tasks'[i].period = tasks[i].period
      BY <1>2, <1>5 DEF TaskInv, Descends
    <3> QED BY <1>7, <3>1, <3>2 DEF Descends
  <2> QED BY <1>7, <2>1, <2>2
<1>12. ASSUME NEW d \in Clerks, NEW k \in TaskIds, Has(d, k)'
       PROVE  LoadedRow(d, k)' /\ (tasks'[k].series \notin muddled' => ReadAlone(d, k)')
  <2>1. d # c /\ call'[d] = call[d] /\ Has(d, k)
    BY <1>8, <1>12 DEF Has
  <2>2. LoadedRow(d, k) /\ (tasks[k].series \notin muddled => ReadAlone(d, k))
    BY <2>1 DEF TaskInv
  <2>3. LoadedRow(d, k)'
    BY <1>5, <1>7, <2>1, <2>2 DEF LoadedRow
  <2>4. ASSUME tasks'[k].series \notin muddled' PROVE ReadAlone(d, k)'
    <3>1. k \in Rows /\ ReadAlone(d, k)
      BY <1>1, <1>5, <2>2, <2>4 DEF LoadedRow
    <3>2. k \notin Loaded(call[c])
      BY <1>3, <2>1, <3>1 DEF ReadAlone
    <3>3. \A e \in Clerks : Has(e, k)' => Has(e, k)
      BY <1>8 DEF Has
    <3> QED BY <1>5, <2>1, <3>1, <3>2, <3>3 DEF ReadAlone
  <2> QED BY <2>3, <2>4
<1>13. OneOpenOccurrence'
  <2> SUFFICES ASSUME NEW i \in Rows', NEW k \in Rows', i # k,
                      tasks'[i].series = tasks'[k].series,
                      ~tasks'[i].done, ~tasks'[k].done, tasks'[i].series \notin muddled
               PROVE  FALSE
    BY <1>1 DEF OneOpenOccurrence
  <2>1. ASSUME NEW t \in Rows, NEW u \in Rows, t # u, tasks[t].series = tasks[u].series,
               tasks[t].series \notin muddled, ~tasks[t].done, ~tasks[u].done
        PROVE  FALSE
    BY <2>1 DEF TaskInv, OneOpenOccurrence
  <2>2. ASSUME NEW t \in N, NEW u \in Rows, tasks'[t].series = tasks'[u].series,
               tasks'[t].series \notin muddled, ~tasks'[u].done
        PROVE  FALSE
    <3>1. PICK r \in R : tasks'[t].series = tasks[r].series
      BY <1>4
    <3>2. r \in Rows /\ r \in Loaded(call[c]) /\ ~tasks[r].done
      BY <1>2, <2>2, <3>1
    <3>3. tasks[u].series = tasks[r].series /\ ~tasks[u].done /\ u # r
      BY <1>5, <2>2, <3>1, <3>2
    <3> QED BY <2>1, <2>2, <3>1, <3>2, <3>3
  <2>3. ASSUME NEW t \in N, NEW u \in N, t # u, tasks'[t].series = tasks'[u].series,
               tasks'[t].series \notin muddled
        PROVE  FALSE
    <3>1. PICK r \in R : /\ tasks'[t] = FollowOn(r, call[c].loaded[r])
                         /\ tasks'[t].series = tasks[r].series
      BY <1>4
    <3>2. PICK q \in R : /\ tasks'[u] = FollowOn(q, call[c].loaded[q])
                         /\ tasks'[u].series = tasks[q].series
      BY <1>4
    <3>3. r \in Rows /\ q \in Rows /\ ~tasks[r].done /\ ~tasks[q].done
      BY <1>2, <2>3, <3>1, <3>2
    <3>4. r = q
      BY <2>1, <2>3, <3>1, <3>2, <3>3
    <3> QED BY <1>1, <2>3, <3>1, <3>2, <3>4 DEF Committed
  <2>4. CASE i \in Rows /\ k \in Rows
    BY <1>5, <2>1, <2>4
  <2>5. CASE i \in N /\ k \in Rows
    BY <2>2, <2>5
  <2>6. CASE i \in Rows /\ k \in N
    BY <2>2, <2>6
  <2>7. CASE i \in N /\ k \in N
    BY <2>3, <2>7
  <2> QED BY <1>7, <2>4, <2>5, <2>6, <2>7
<1> QED BY <1>9, <1>10, <1>11, <1>12, <1>13 DEF TaskInv

--------------------------------------------------------------------------------
LEMMA TaskStart == TaskInit => TaskInv
<1> SUFFICES ASSUME TaskInit PROVE TaskInv
  OBVIOUS
<1>1. Rows = {} /\ \A c \in Clerks : call[c] = NoCall
  BY DEF TaskInit, Rows
<1>2. TaskTypeOK
  BY TaskAssumption DEF TaskInit, TaskTypeOK
<1>3. Numbered
  <2>1. 0 \in 0..MaxTasks /\ 1..0 = {}
    BY TaskAssumption
  <2> QED BY <1>1, <2>1 DEF Numbered
<1> QED BY <1>1, <1>2, <1>3 DEF TaskInv, Has, OneOpenOccurrence

LEMMA TaskStep ==
  ASSUME TaskInv, [TaskNext]_taskVars
  PROVE  TaskInv'
<1> USE RowTypes
<1>1. TaskTypeOK
  BY DEF TaskInv
<1>2. ASSUME NEW i \in TaskIds, CountEdit(i)
      PROVE  i \in Rows /\ tasks[i] \in Task /\ edits' \in 0..MaxEdits
  BY <1>1, <1>2, TaskAssumption DEF CountEdit, TaskTypeOK
<1>3. ASSUME NEW i \in TaskIds, NEW due \in Dues \cup {None}, SetDue(i, due)
      PROVE  TaskInv'
  <2>1. due \in Dates \cup {None}
    BY TaskAssumption
  <2>2. i \in Rows /\ tasks[i] \in Task /\ edits' \in 0..MaxEdits
    BY <1>2, <1>3 DEF SetDue
  <2> DEFINE new == [tasks[i] EXCEPT !.due = due]
  <2>3. /\ new \in Task /\ new.period = tasks[i].period /\ new.from = tasks[i].from
        /\ new.series = tasks[i].series /\ new.done = tasks[i].done
    BY <2>1, <2>2 DEF Task
  <2>4. tasks' = [tasks EXCEPT ![i] = new] /\ UNCHANGED <<call, muddled>>
    BY <1>1, <1>3, <2>2 DEF SetDue, TaskTypeOK
  <2> HIDE DEF new
  <2> QED BY <2>2, <2>3, <2>4, EditKeeps
<1>4. ASSUME NEW i \in TaskIds, NEW due \in Dues \cup {None}, NEW every \in Steps \cup {None},
             SetRecurrence(i, due, every)
      PROVE  TaskInv'
  <2>1. due \in Dates \cup {None}
    BY TaskAssumption
  <2>2. i \in Rows /\ tasks[i] \in Task /\ edits' \in 0..MaxEdits
    BY <1>2, <1>4 DEF SetRecurrence
  <2> DEFINE new == [tasks[i] EXCEPT !.due = due, !.every = every]
  <2>3. /\ new \in Task /\ new.period = tasks[i].period /\ new.from = tasks[i].from
        /\ new.series = tasks[i].series /\ new.done = tasks[i].done
    BY <2>1, <2>2 DEF Task
  <2>4. tasks' = [tasks EXCEPT ![i] = new] /\ UNCHANGED <<call, muddled>>
    BY <1>1, <1>4, <2>2 DEF SetRecurrence, TaskTypeOK
  <2> HIDE DEF new
  <2> QED BY <2>2, <2>3, <2>4, EditKeeps
<1>5. ASSUME NEW i \in TaskIds, Reopen(i)
      PROVE  TaskInv'
  <2>2. i \in Rows /\ tasks[i] \in Task /\ edits' \in 0..MaxEdits
    BY <1>2, <1>5 DEF Reopen
  <2> DEFINE new == [tasks[i] EXCEPT !.done = FALSE]
  <2>3. /\ new \in Task /\ new.period = tasks[i].period /\ new.from = tasks[i].from
        /\ new.series = tasks[i].series
    BY <2>2 DEF Task
  <2>4. /\ tasks' = [tasks EXCEPT ![i] = new] /\ UNCHANGED call
        /\ muddled' = muddled \cup {tasks[i].series}
    BY <1>1, <1>5, <2>2 DEF Reopen, TaskTypeOK
  <2> HIDE DEF new
  <2> QED BY <2>2, <2>3, <2>4, EditKeeps
<1>6. ASSUME NEW i \in TaskIds, tasks[i] # None, NEW op \in {"complete", "bulk"}
      PROVE  LET new == [op |-> op, loaded |->
                           [t \in TaskIds |-> IF t = i THEN tasks[i] ELSE None]] IN
             /\ new \in Call /\ new.op = op /\ new.loaded[i] = tasks[i]
             /\ \A k \in TaskIds \ {i} : new.loaded[k] = None
  BY <1>1, <1>6 DEF Call
<1>7. ASSUME NEW c \in Clerks, NEW i \in TaskIds, CompleteRead(c, i)
      PROVE  TaskInv'
  <2>1. i \in Rows /\ tasks[i] \in Task
    BY <1>1, <1>7 DEF CompleteRead
  <2> DEFINE new == [op |-> "complete", loaded |->
                       [t \in TaskIds |-> IF t = i THEN tasks[i] ELSE None]]
  <2>2. /\ new \in Call /\ new.loaded[i] = tasks[i]
        /\ \A k \in TaskIds \ {i} : new.loaded[k] = None
    BY <1>1, <1>6, <2>1
  <2>3. call' = [call EXCEPT ![c] = new] /\ UNCHANGED <<tasks, edits>>
    BY <1>7 DEF CompleteRead
  <2>4. \/ muddled' = muddled \cup {tasks[i].series}
        \/ muddled' = muddled /\ ~Overlapped(c, i) /\ ~tasks[i].done
    BY <1>7 DEF CompleteRead
  <2> HIDE DEF new
  <2>5. Reading(c, i, new)
    BY <2>2, <2>3, <2>4 DEF Reading
  <2> QED BY <2>1, <2>2, <2>5, ReadKeeps
<1>8. ASSUME NEW c \in Clerks, NEW i \in TaskIds, BulkRead(c, i)
      PROVE  TaskInv'
  <2>1. i \in Rows /\ tasks[i] \in Task
    BY <1>1, <1>8 DEF BulkRead
  <2>2. /\ UNCHANGED <<tasks, edits>>
        /\ \/ muddled' = muddled \cup {tasks[i].series}
           \/ muddled' = muddled /\ ~Overlapped(c, i)
    BY <1>8 DEF BulkRead
  <2>3. CASE call' = [call EXCEPT ![c] = [op |-> "bulk", loaded |->
                       [t \in TaskIds |-> IF t = i THEN tasks[i] ELSE None]]]
    <3> DEFINE new == [op |-> "bulk", loaded |->
                         [t \in TaskIds |-> IF t = i THEN tasks[i] ELSE None]]
    <3>1. /\ new \in Call /\ new.op = "bulk" /\ new.loaded[i] = tasks[i]
          /\ \A k \in TaskIds \ {i} : new.loaded[k] = None
      BY <1>1, <1>6, <2>1
    <3>2. call' = [call EXCEPT ![c] = new]
      BY <2>3
    <3> HIDE DEF new
    <3>3. Reading(c, i, new)
      BY <2>2, <3>1, <3>2 DEF Reading
    <3> QED BY <2>1, <3>1, <3>3, ReadKeeps
  <2>4. CASE call[c].op = "bulk" /\ call' = [call EXCEPT ![c].loaded[i] = tasks[i]]
    <3> DEFINE new == [call[c] EXCEPT !.loaded[i] = tasks[i]]
    <3>1. call[c] # NoCall
      BY <2>4 DEF NoCall
    <3>2. call[c] \in Call
      BY <1>1, <3>1, CallTypes
    <3>3. /\ new \in Call /\ new.op = "bulk" /\ new.loaded[i] = tasks[i]
          /\ \A k \in TaskIds \ {i} : new.loaded[k] = call[c].loaded[k]
      BY <2>1, <2>4, <3>2 DEF Call
    <3>4. call' = [call EXCEPT ![c] = new]
      BY <1>1, <2>4 DEF TaskTypeOK
    <3> HIDE DEF new
    <3>5. Reading(c, i, new)
      BY <2>2, <2>4, <3>1, <3>3, <3>4 DEF Reading
    <3> QED BY <2>1, <3>3, <3>5, ReadKeeps
  <2> QED BY <1>8, <2>3, <2>4 DEF BulkRead
<1>9. CASE UNCHANGED taskVars
  <2>1. TaskTypeOK' /\ Rows' = Rows /\ Numbered' /\ OneOpenOccurrence'
    BY <1>9 DEF taskVars, TaskInv, TaskTypeOK, Rows, Numbered, OneOpenOccurrence
  <2>2. \A i \in Rows' : Descends(i)'
    BY <1>9, <2>1 DEF taskVars, TaskInv, Descends
  <2>3. ASSUME NEW c \in Clerks, NEW i \in TaskIds, Has(c, i)'
        PROVE  LoadedRow(c, i)' /\ (tasks'[i].series \notin muddled' => ReadAlone(c, i)')
    BY <1>9, <2>1, <2>3 DEF taskVars, TaskInv, LoadedRow, ReadAlone, Has
  <2> QED BY <2>1, <2>2, <2>3 DEF TaskInv
<1> QED BY <1>3, <1>4, <1>5, <1>7, <1>8, <1>9, CreateKeeps, CommitKeeps DEF TaskNext

LEMMA TaskInvariant == TaskSpec => []TaskInv
BY TaskStart, TaskStep, PTL DEF TaskSpec

(* Completions, edits, reopenings and the requests in progress that loaded *)
(* a row keep the tasks and what was loaded of them well typed.            *)
THEOREM TaskTypeCorrect == TaskSpec => []TaskTypeOK
<1>1. TaskInv => TaskTypeOK
  BY DEF TaskInv
<1> QED BY <1>1, TaskInvariant, PTL

(* A series anchored to month ends stays on them over any number of        *)
(* follow-ons, through every February, and only walks forward              *)
(* (recurrence.py, next_period_end).                                       *)
THEOREM MonthEndsStay == TaskSpec => []MonthEndsKept
<1>1. TaskInv => MonthEndsKept
  BY DEF TaskInv, MonthEndsKept, Descends
<1> QED BY <1>1, TaskInvariant, PTL

(* One occurrence of a series is open at a time, whoever completes, edits  *)
(* and reopens which of its tasks, as long as none was reopened, completed *)
(* twice at once or completed again with its button.                       *)
THEOREM OneOpenPerSeries == TaskSpec => []OneOpenOccurrence
<1>1. TaskInv => OneOpenOccurrence
  BY DEF TaskInv
<1> QED BY <1>1, TaskInvariant, PTL

--------------------------------------------------------------------------------
(* Requests for documents.                                                 *)

Uploading(h) == handler[h].op = "upload"

(* What the requests in progress have read still holds as far as they need. *)
Serving ==
  \A h \in Handlers :
    /\ handler[h].op \in {"remind", "upload"} => request[handler[h].row] # None
    /\ handler[h].op = "remind" => handler[h].loaded.sends < MaxSends
    /\ Uploading(h) =>
         /\ evidence[handler[h].file] = None
         /\ handler[h].loaded.status # "pending" => request[handler[h].row].status # "pending"
         /\ \A g \in Handlers : g # h /\ Uploading(g) => handler[g].file # handler[h].file

(* An upload that shares its request with no other extends the list as it   *)
(* stands.                                                                  *)
UploadsAlone ==
  \A h \in Handlers : Uploading(h) /\ handler[h].row \notin collided =>
    /\ handler[h].loaded.files = FiledFor(handler[h].row)
    /\ Cardinality(handler[h].loaded.files) < MaxFiles
    /\ \A g \in Handlers : g # h /\ Uploading(g) => handler[g].row # handler[h].row

FiledForRequests == \A f \in Uploads : evidence[f] # None => request[evidence[f]] # None

PbcInv ==
  /\ PbcTypeOK /\ Serving /\ UploadsAlone /\ FiledForRequests /\ FilesMatchEvidence

Jobs == {Resting} \cup RemindJob \cup UploadJob \cup AutoJob

LEMMA JobTypes ==
  ASSUME NEW j \in Jobs
  PROVE  /\ j.op = "remind" => j \in RemindJob
         /\ j.op = "upload" => j \in UploadJob
         /\ j.op = "auto" => j \in AutoJob
         /\ j.op = "rest" => j = Resting
BY DEF Jobs, Resting, RemindJob, UploadJob, AutoJob

LEMMA NotNone ==
  /\ \A row \in PbcRow : row # None
  /\ \A r \in Requests : r # None
BY PbcAssumption DEF Requests

LEMMA NewRequestType == \A a \in BankAccounts : NewRequest(a) \in PbcRow
BY PbcAssumption DEF NewRequest, PbcRow, Ages

LEMMA RowEdits ==
  ASSUME NEW row \in PbcRow
  PROVE  /\ \A age \in Ages : [row EXCEPT !.age = age] \in PbcRow
         /\ [row EXCEPT !.status = "cancelled"] \in PbcRow
         /\ \A n \in 1..MaxSends : [row EXCEPT !.age = "fresh", !.sends = n] \in PbcRow
BY DEF PbcRow, Ages

LEMMA UploadedType ==
  ASSUME NEW row \in PbcRow, NEW j \in UploadJob
  PROVE  /\ Uploaded(row, j) \in PbcRow
         /\ Uploaded(row, j).files = j.loaded.files \cup {j.file}
         /\ Uploaded(row, j).status =
              IF j.loaded.status = "pending" THEN "fulfilled" ELSE row.status
BY DEF PbcRow, UploadJob, Uploaded

LEMMA EndsType == ASSUME PbcTypeOK, NEW h \in Handlers, Ends(h)
                  PROVE  /\ handler' \in [Handlers -> Jobs]
                         /\ \A g \in Handlers : handler'[g] = IF g = h THEN Resting ELSE handler[g]
BY DEF PbcTypeOK, Ends, Jobs

(* The steps that change a row but not what was filed for it.               *)
RowTouched(r, new) ==
  /\ request' = [request EXCEPT ![r] = new]
  /\ IF request[r] = None THEN new.files = {}
     ELSE /\ new.files = request[r].files
          /\ new.status = "pending" => request[r].status = "pending"
  /\ UNCHANGED <<evidence, removed, collided>>
  /\ handler' \in [Handlers -> Jobs]
  /\ \A h \in Handlers : handler'[h] = handler[h] \/ handler'[h].op \notin {"remind", "upload"}

LEMMA TouchKeeps ==
  ASSUME PbcInv, NEW r \in Requests, NEW new \in PbcRow, RowTouched(r, new)
  PROVE  PbcInv'
<1> USE NotNone DEF PbcInv, RowTouched
<1>1. PbcTypeOK'
  BY DEF PbcTypeOK, Jobs
<1>2. \A q \in Requests : request[q] # None => request'[q] # None
  BY DEF PbcTypeOK
<1>3. \A q \in Requests : /\ request'[q] = IF q = r THEN new ELSE request[q]
                          /\ FiledFor(q)' = FiledFor(q)
  BY DEF PbcTypeOK, FiledFor
<1>4. FiledForRequests'
  BY <1>2 DEF PbcTypeOK, FiledForRequests
<1>5. \A h \in Handlers : Uploading(h)' => Uploading(h) /\ handler'[h] = handler[h]
                                           /\ handler[h] \in UploadJob
  BY JobTypes DEF Uploading, PbcTypeOK, Jobs
<1>6. Serving'
  <2> SUFFICES ASSUME NEW h \in Handlers, handler'[h] = handler[h],
                      handler[h].op \in {"remind", "upload"}
               PROVE  /\ request'[handler[h].row] # None
                      /\ handler[h].op = "remind" => handler[h].loaded.sends < MaxSends
                      /\ Uploading(h) =>
                           /\ evidence[handler[h].file] = None
                           /\ handler[h].loaded.status # "pending" =>
                                request'[handler[h].row].status # "pending"
                           /\ \A g \in Handlers : g # h /\ Uploading(g)' =>
                                                  handler[g].file # handler[h].file
    BY <1>5 DEF Serving, Uploading
  <2>1. handler[h].row \in Requests
    BY JobTypes DEF PbcTypeOK, Jobs, RemindJob, UploadJob
  <2> QED BY <1>2, <1>3, <1>5, <2>1 DEF Serving, Uploading
<1>7. UploadsAlone'
  BY <1>3, <1>5 DEF UploadsAlone, Uploading, UploadJob
<1>8. FilesMatchEvidence'
  <2> SUFFICES ASSUME NEW q \in Requests, request'[q] # None
               PROVE  /\ \/ q \in collided
                         \/ /\ request'[q].files = FiledFor(q)
                            /\ Cardinality(FiledFor(q)) <= MaxFiles
                      /\ request'[q].status = "pending" => FiledFor(q) = {}
    BY <1>3 DEF FilesMatchEvidence, Asked
  <2>1. CASE request[q] # None
    BY <1>3, <2>1 DEF FilesMatchEvidence, Asked
  <2>2. CASE request[q] = None
    <3>1. FiledFor(q) = {}
      BY <2>2 DEF FiledFor, FiledForRequests
    <3>2. Cardinality({}) = 0
      BY FS_EmptySet
    <3> QED BY <1>3, <2>2, <3>1, <3>2, PbcAssumption
  <2> QED BY <2>1, <2>2
<1> QED BY <1>1, <1>4, <1>6, <1>7, <1>8

LEMMA RowSteps ==
  ASSUME PbcInv, NEW r \in Requests,
         \/ \E a \in BankAccounts : CreateRequest(r, a)
         \/ LinkAges(r) \/ CancelRequest(r)
         \/ \E h \in Handlers : AutoRequest(h, r) \/ (RemindCommit(h) /\ handler[h].row = r)
  PROVE  PbcInv'
<1> USE NotNone DEF PbcInv
<1>1. handler \in [Handlers -> Jobs]
  BY DEF PbcTypeOK, Jobs
<1>2. ASSUME NEW a \in BankAccounts, CreateRequest(r, a) PROVE PbcInv'
  <2>1. NewRequest(a).files = {} /\ NewRequest(a) \in PbcRow
    BY NewRequestType DEF NewRequest
  <2>2. RowTouched(r, NewRequest(a))
    BY <1>1, <1>2, <2>1 DEF CreateRequest, NextRequest, RowTouched
  <2> QED BY <2>1, <2>2, TouchKeeps
<1>3. ASSUME LinkAges(r) \/ CancelRequest(r) PROVE PbcInv'
  <2>1. request[r] \in PbcRow
    BY <1>3 DEF LinkAges, CancelRequest, Asked, PbcTypeOK
  <2>2. PICK new \in PbcRow : /\ request' = [request EXCEPT ![r] = new]
                              /\ new.files = request[r].files
                              /\ new.status \in {"cancelled", request[r].status}
    <3>1. CASE CancelRequest(r)
      <4>1. /\ [request[r] EXCEPT !.status = "cancelled"] \in PbcRow
            /\ [request[r] EXCEPT !.status = "cancelled"].files = request[r].files
            /\ [request[r] EXCEPT !.status = "cancelled"].status = "cancelled"
        BY <2>1, RowEdits DEF PbcRow
      <4>2. request' = [request EXCEPT ![r] = [request[r] EXCEPT !.status = "cancelled"]]
        BY <3>1 DEF CancelRequest
      <4> QED BY <4>1, <4>2
    <3>2. CASE LinkAges(r)
      <4> DEFINE age == IF request[r].age = "fresh" THEN "cooled" ELSE "expired"
      <4>1. /\ [request[r] EXCEPT !.age = age] \in PbcRow
            /\ [request[r] EXCEPT !.age = age].files = request[r].files
            /\ [request[r] EXCEPT !.age = age].status = request[r].status
        BY <2>1, RowEdits DEF PbcRow, Ages
      <4>2. request' = [request EXCEPT ![r] = [request[r] EXCEPT !.age = age]]
        BY <3>2 DEF LinkAges
      <4> HIDE DEF age
      <4> QED BY <4>1, <4>2
    <3> QED BY <1>3, <3>1, <3>2
  <2>3. RowTouched(r, new)
    BY <1>1, <1>3, <2>1, <2>2 DEF LinkAges, CancelRequest, RowTouched
  <2> QED BY <2>3, TouchKeeps
<1>4. ASSUME NEW h \in Handlers, AutoRequest(h, r) PROVE PbcInv'
  <2>1. handler[h] \in AutoJob
    BY <1>1, <1>4, JobTypes DEF AutoRequest
  <2>2. PICK a \in handler[h].wanted :
          /\ request' = [request EXCEPT ![r] = NewRequest(a)]
          /\ handler' = [handler EXCEPT ![h] = IF handler[h].wanted = {a} THEN Resting
                                               ELSE [handler[h] EXCEPT !.wanted = @ \ {a}]]
    BY <1>4 DEF AutoRequest
  <2>3. [handler[h] EXCEPT !.wanted = @ \ {a}] \in AutoJob
    BY <2>1 DEF AutoJob
  <2>4. handler' \in [Handlers -> Jobs] /\ handler'[h].op \notin {"remind", "upload"}
    BY <1>1, <2>2, <2>3 DEF Jobs, AutoJob, Resting
  <2>5. NewRequest(a).files = {} /\ NewRequest(a) \in PbcRow
    BY <2>1, NewRequestType DEF NewRequest, AutoJob
  <2>6. \A g \in Handlers : g # h => handler'[g] = handler[g]
    BY <1>1, <2>2
  <2>7. RowTouched(r, NewRequest(a))
    BY <1>4, <2>2, <2>4, <2>5, <2>6 DEF AutoRequest, NextRequest, RowTouched
  <2> QED BY <2>5, <2>7, TouchKeeps
<1>5. ASSUME NEW h \in Handlers, RemindCommit(h), handler[h].row = r PROVE PbcInv'
  <2>1. request[r] \in PbcRow /\ handler[h].loaded.sends + 1 \in 1..MaxSends
    BY <1>1, <1>5, JobTypes, PbcAssumption DEF RemindCommit, Serving, PbcTypeOK, RemindJob, PbcRow
  <2> DEFINE new == [request[r] EXCEPT !.age = "fresh", !.sends = handler[h].loaded.sends + 1]
  <2>2. /\ new \in PbcRow /\ new.files = request[r].files /\ new.status = request[r].status
    BY <2>1, RowEdits DEF PbcRow
  <2>3. request' = [request EXCEPT ![r] = new]
    BY <1>5, <2>1 DEF RemindCommit, PbcTypeOK
  <2>4. /\ handler' \in [Handlers -> Jobs]
        /\ \A g \in Handlers : handler'[g] = IF g = h THEN Resting ELSE handler[g]
    BY <1>5, EndsType DEF RemindCommit
  <2> HIDE DEF new
  <2>5. RowTouched(r, new)
    <3>1. Resting.op = "rest"
      BY DEF Resting
    <3>2. \A g \in Handlers : handler'[g] = handler[g] \/ handler'[g].op \notin {"remind", "upload"}
      BY <2>4, <3>1
    <3>3. UNCHANGED <<evidence, removed, collided>>
      BY <1>5 DEF RemindCommit
    <3>4. request[r] # None
      BY <2>1
    <3> QED BY <2>2, <2>3, <2>4, <3>2, <3>3, <3>4, Zenon DEF RowTouched
  <2> QED BY <2>2, <2>5, TouchKeeps
<1> QED BY <1>2, <1>3, <1>4, <1>5

(* Taking up a row.                                                         *)
LEMMA TakeSteps ==
  ASSUME PbcInv, NEW h \in Handlers,
         \/ AutoRead(h)
         \/ \E r \in Requests : RemindRead(h, r) \/ \E f \in Uploads : UploadRead(h, r, f)
  PROVE  PbcInv'
<1> USE NotNone DEF PbcInv
<1>1. handler \in [Handlers -> Jobs] /\ UNCHANGED <<request, evidence, removed>> /\ handler[h] = Resting
  BY DEF PbcTypeOK, Jobs, AutoRead, RemindRead, UploadRead, Takes
<1>2. ASSUME NEW j \in Jobs, handler' = [handler EXCEPT ![h] = j]
      PROVE  /\ handler' \in [Handlers -> Jobs]
             /\ \A g \in Handlers : handler'[g] = IF g = h THEN j ELSE handler[g]
  BY <1>1, <1>2
<1>3. FiledForRequests' /\ \A q \in Requests : FiledFor(q)' = FiledFor(q)
  BY <1>1 DEF FiledForRequests, FiledFor
<1>4. CASE AutoRead(h)
  <2>1. PICK j \in AutoJob : handler' = [handler EXCEPT ![h] = j]
    BY <1>4 DEF AutoRead, AutoJob
  <2>2. j \in Jobs /\ j.op = "auto"
    BY DEF Jobs, AutoJob
  <2>3. UNCHANGED collided
    BY <1>4 DEF AutoRead
  <2>4. \A g \in Handlers : handler'[g].op \in {"remind", "upload"} => handler'[g] = handler[g]
    BY <1>2, <2>1, <2>2
  <2>5. PbcTypeOK'
    BY <1>1, <1>2, <2>1, <2>2, <2>3 DEF PbcTypeOK, Jobs
  <2>6. Serving'
    BY <1>1, <2>4 DEF Serving, Uploading
  <2>7. UploadsAlone'
    BY <1>1, <2>3, <2>4 DEF UploadsAlone, Uploading, FiledFor
  <2>8. FilesMatchEvidence'
    BY <1>1, <2>3 DEF FilesMatchEvidence, FiledFor, Asked
  <2> QED BY <1>3, <2>5, <2>6, <2>7, <2>8
<1>5. ASSUME NEW r \in Requests, RemindRead(h, r) PROVE PbcInv'
  <2> DEFINE j == [op |-> "remind", row |-> r, loaded |-> request[r]]
  <2>1. request[r] \in PbcRow /\ j \in RemindJob /\ request[r].sends < MaxSends
    BY <1>5 DEF RemindRead, MayRemind, Asked, PbcTypeOK, RemindJob
  <2>2. handler' = [handler EXCEPT ![h] = j] /\ collided' \in {collided, collided \cup {r}}
    BY <1>5 DEF RemindRead, Takes
  <2>3. j.op = "remind" /\ j.row = r /\ j.loaded = request[r] /\ j \in Jobs
    BY <2>1 DEF Jobs
  <2> HIDE DEF j
  <2>4. \A g \in Handlers : handler'[g] = IF g = h THEN j ELSE handler[g]
    BY <1>2, <2>2, <2>3
  <2>5. PbcTypeOK'
    BY <1>1, <1>2, <2>2, <2>3 DEF PbcTypeOK, Jobs
  <2>6. Serving'
    BY <1>1, <2>1, <2>3, <2>4 DEF Serving, Uploading
  <2>7. UploadsAlone' /\ FilesMatchEvidence'
    BY <1>1, <1>3, <2>2, <2>3, <2>4 DEF UploadsAlone, Uploading, FilesMatchEvidence, FiledFor, Asked
  <2> QED BY <1>3, <2>5, <2>6, <2>7
<1>6. ASSUME NEW r \in Requests, NEW f \in Uploads, UploadRead(h, r, f) PROVE PbcInv'
  <2> DEFINE j == [op |-> "upload", row |-> r, loaded |-> request[r], file |-> f]
  <2>1. request[r] \in PbcRow /\ j \in UploadJob /\ Cardinality(request[r].files) < MaxFiles
    BY <1>6 DEF UploadRead, MayUpload, Asked, PbcTypeOK, UploadJob
  <2>2. /\ handler' = [handler EXCEPT ![h] = j]
        /\ collided' = IF \E g \in Handlers \ {h} : Uploading(g) /\ handler[g].row = r
                       THEN collided \cup {r} ELSE collided
    BY <1>6 DEF UploadRead, Takes, Uploading
  <2>3. /\ j.op = "upload" /\ j.row = r /\ j.loaded = request[r] /\ j.file = f /\ j \in Jobs
    BY <2>1 DEF Jobs
  <2> HIDE DEF j
  <2>4. \A g \in Handlers : handler'[g] = IF g = h THEN j ELSE handler[g]
    BY <1>2, <2>2, <2>3
  <2>5. PbcTypeOK'
    BY <1>1, <1>2, <2>2, <2>3 DEF PbcTypeOK, Jobs
  <2>6. evidence[f] = None /\ \A g \in Handlers : Uploading(g) => handler[g].file # f
    BY <1>6 DEF UploadRead, Received, Uploading
  <2>7. Serving'
    BY <1>1, <2>1, <2>3, <2>4, <2>6 DEF Serving, Uploading
  <2>8. r \notin collided => request[r].files = FiledFor(r)
    BY <2>1 DEF FilesMatchEvidence, Asked
  <2>9. UploadsAlone'
    <3> SUFFICES ASSUME NEW g \in Handlers, Uploading(g)', handler'[g].row \notin collided'
                 PROVE  /\ handler'[g].loaded.files = FiledFor(handler'[g].row)
                        /\ Cardinality(handler'[g].loaded.files) < MaxFiles
                        /\ \A k \in Handlers : k # g /\ Uploading(k)' => handler'[k].row # handler'[g].row
      BY <1>1 DEF UploadsAlone, FiledFor
    <3>1. CASE g = h
      <4>1. r \notin collided
        BY <2>2, <2>3, <2>4, <3>1
      <4>2. \A k \in Handlers : k # g /\ Uploading(k) => handler[k].row # r
        BY <2>2, <2>3, <2>4, <3>1, <4>1
      <4> QED BY <2>1, <2>3, <2>4, <2>8, <3>1, <4>1, <4>2 DEF Uploading
    <3>2. CASE g # h
      <4>1. handler[g].row \in Requests
        BY <1>1, <2>4, <3>2, JobTypes DEF Uploading, UploadJob
      <4>2. Uploading(g) /\ handler'[g] = handler[g]
        BY <2>4, <3>2 DEF Uploading
      <4>3. handler[g].row # r \/ r \in collided'
        BY <2>2, <3>2, <4>2
      <4>4. handler[g].row \notin collided /\ handler[g].row # r
        BY <2>2, <4>2, <4>3
      <4> QED BY <2>3, <2>4, <4>2, <4>4 DEF Uploading, UploadsAlone
    <3> QED BY <3>1, <3>2
  <2>10. FilesMatchEvidence'
    <3>1. \A q \in Requests : q \in collided => q \in collided'
      BY <2>2
    <3>2. Asked' = Asked
      BY <1>1 DEF Asked
    <3> SUFFICES ASSUME NEW q \in Asked
                 PROVE  /\ \/ q \in collided'
                           \/ /\ request[q].files = FiledFor(q)
                              /\ Cardinality(FiledFor(q)) <= MaxFiles
                        /\ request[q].status = "pending" => FiledFor(q) = {}
      BY <1>1, <3>2 DEF FilesMatchEvidence, FiledFor
    <3> QED BY <3>1 DEF FilesMatchEvidence, Asked
  <2> QED BY <1>3, <2>5, <2>7, <2>9, <2>10
<1> QED BY <1>4, <1>5, <1>6

(* A file arrives: the list it was added to was the one of the row.         *)
LEMMA UploadStep == ASSUME PbcInv, NEW h \in Handlers, UploadCommit(h) PROVE PbcInv'
<1> USE NotNone DEF PbcInv
<1> DEFINE j == handler[h]
           r == handler[h].row
           f == handler[h].file
<1>1. handler \in [Handlers -> Jobs] /\ j \in UploadJob /\ Uploading(h)
  BY JobTypes DEF PbcTypeOK, Jobs, UploadCommit, Uploading
<1>2. r \in Requests /\ f \in Uploads /\ request[r] \in PbcRow /\ evidence[f] = None
  BY <1>1 DEF UploadJob, Serving, Uploading, PbcTypeOK
<1>3. /\ Uploaded(request[r], j) \in PbcRow
      /\ Uploaded(request[r], j).files = j.loaded.files \cup {f}
      /\ Uploaded(request[r], j).status # "pending"
  BY <1>1, <1>2, UploadedType DEF Serving, Uploading
<1>4. /\ \A q \in Requests : request'[q] = IF q = r THEN Uploaded(request[r], j) ELSE request[q]
      /\ \A u \in Uploads : evidence'[u] = IF u = f THEN r ELSE evidence[u]
      /\ UNCHANGED <<removed, collided>>
  BY <1>2 DEF UploadCommit, PbcTypeOK
<1>5. /\ handler' \in [Handlers -> Jobs]
      /\ \A g \in Handlers : handler'[g] = IF g = h THEN Resting ELSE handler[g]
  BY EndsType DEF UploadCommit
<1>6. \A q \in Requests : FiledFor(q)' = IF q = r THEN FiledFor(q) \cup {f} ELSE FiledFor(q)
  BY <1>2, <1>4 DEF FiledFor
<1>7. PbcTypeOK'
  <2>1. request' \in [Requests -> PbcRow \cup {None}]
    BY <1>2, <1>3 DEF UploadCommit, PbcTypeOK
  <2>2. evidence' \in [Uploads -> Requests \cup {None}]
    BY <1>2 DEF UploadCommit, PbcTypeOK
  <2>3. removed' \subseteq {u \in Uploads : evidence'[u] # None}
    BY <1>2, <1>4 DEF PbcTypeOK
  <2>4. collided' \subseteq Requests
    BY <1>4 DEF PbcTypeOK
  <2> QED BY <1>5, <2>1, <2>2, <2>3, <2>4 DEF PbcTypeOK, Jobs
<1>8. \A q \in Requests : /\ request[q] # None => request'[q] # None
                          /\ request[q].status # "pending" => request'[q].status # "pending"
  BY <1>3, <1>4
<1>9. \A g \in Handlers : handler'[g].op \in {"remind", "upload"} =>
        /\ g # h /\ handler'[g] = handler[g] /\ handler[g].row \in Requests
        /\ Uploading(g) => handler[g].file \in Uploads /\ handler[g].file # f
  BY <1>1, <1>5, JobTypes DEF Resting, Serving, Uploading, RemindJob, UploadJob
<1> HIDE DEF j, r, f
<1>10. Serving'
  BY <1>4, <1>8, <1>9 DEF Serving, Uploading
<1>11. FiledForRequests'
  BY <1>2, <1>3, <1>4, <1>8 DEF FiledForRequests, PbcTypeOK
<1>12. r \notin collided => \A g \in Handlers : g # h /\ Uploading(g) => handler[g].row # r
  BY <1>1 DEF UploadsAlone, r
<1>13. UploadsAlone'
  BY <1>4, <1>6, <1>9, <1>12 DEF UploadsAlone, Uploading
<1>14. FilesMatchEvidence'
  <2> SUFFICES ASSUME NEW q \in Requests, request'[q] # None
               PROVE  /\ \/ q \in collided
                         \/ /\ request'[q].files = FiledFor(q)'
                            /\ Cardinality(FiledFor(q)') <= MaxFiles
                      /\ request'[q].status = "pending" => FiledFor(q)' = {}
    BY <1>4 DEF FilesMatchEvidence, Asked
  <2>1. CASE q # r
    BY <1>4, <1>6, <2>1 DEF FilesMatchEvidence, Asked
  <2>2. CASE q = r /\ r \in collided
    BY <1>3, <1>4, <2>2
  <2>3. CASE q = r /\ r \notin collided
    <3>1. j.loaded.files = FiledFor(r) /\ Cardinality(FiledFor(r)) < MaxFiles
      BY <1>1, <2>3 DEF UploadsAlone, j, r
    <3>2. IsFiniteSet(FiledFor(r))
      <4>1. IsFiniteSet(Uploads)
        BY FS_Interval, PbcAssumption DEF Uploads
      <4> QED BY <4>1, FS_Subset DEF FiledFor
    <3>3. Cardinality(FiledFor(r) \cup {f}) <= MaxFiles
      <4>1. Cardinality(FiledFor(r)) \in Nat
        BY <3>2, FS_CardinalityType
      <4>2. Cardinality(FiledFor(r) \cup {f}) \in {Cardinality(FiledFor(r)), Cardinality(FiledFor(r)) + 1}
        BY <3>2, FS_AddElement
      <4> QED BY <3>1, <4>1, <4>2, PbcAssumption
    <3> QED BY <1>3, <1>4, <1>6, <2>3, <3>1, <3>3
  <2> QED BY <2>1, <2>2, <2>3
<1> QED BY <1>7, <1>10, <1>11, <1>13, <1>14

LEMMA PbcStart == PbcInit => PbcInv
<1> SUFFICES ASSUME PbcInit PROVE PbcInv
  OBVIOUS
<1>1. PbcTypeOK
  BY DEF PbcInit, PbcTypeOK
<1> QED
  BY <1>1 DEF PbcInit, PbcInv, Serving, Uploading, UploadsAlone, FiledForRequests,
              FilesMatchEvidence, Asked, Resting

LEMMA PbcStep == PbcInv /\ [PbcNext]_pbcVars => PbcInv'
<1> SUFFICES ASSUME PbcInv, [PbcNext]_pbcVars PROVE PbcInv'
  OBVIOUS
<1>1. ASSUME NEW h \in Handlers, RemindCommit(h) PROVE PbcInv'
  <2>1. handler[h].row \in Requests
    BY <1>1, JobTypes DEF PbcInv, PbcTypeOK, Jobs, RemindCommit, RemindJob
  <2> QED BY <1>1, <2>1, RowSteps
<1>2. CASE UNCHANGED pbcVars
  BY <1>2 DEF pbcVars, PbcInv, PbcTypeOK, Serving, Uploading, UploadsAlone, FiledFor,
              FiledForRequests, FilesMatchEvidence, Asked
<1>3. ASSUME NEW f \in Uploads, RemoveEvidence(f) PROVE PbcInv'
  BY <1>3 DEF RemoveEvidence, PbcInv, PbcTypeOK, Serving, Uploading, UploadsAlone, FiledFor,
              FiledForRequests, FilesMatchEvidence, Asked
<1> QED BY <1>1, <1>2, <1>3, RowSteps, TakeSteps, UploadStep DEF PbcNext

LEMMA PbcInvariant == PbcSpec => []PbcInv
BY PbcStart, PbcStep, PTL DEF PbcSpec

(* The list of files on a request is the evidence it brought in and stays  *)
(* within its limit, unless two uploads to it overlapped; one that waits   *)
(* for its document has none (upload_public, add_document).                *)
THEOREM FilesAndEvidenceAgree == PbcSpec => []FilesMatchEvidence
<1>1. PbcInv => FilesMatchEvidence
  BY DEF PbcInv
<1> QED BY <1>1, PbcInvariant, PTL

--------------------------------------------------------------------------------
(* The composition: every step of MCDesk is a step of one component and    *)
(* leaves the variables of the others alone, so that each invariant holds  *)
(* of the whole.                                                           *)

(* Whichever component is at work, a behaviour of the desk is one of each   *)
(* of the five, so that what is proved of a component holds of the desk.    *)
THEOREM DeskIsItsParts == DeskSpec => ReviewSpec /\ TaskSpec /\ ListSpec /\ PbcSpec /\ Spec
<1>1. DeskInit => ReviewInit /\ TaskInit /\ ListInit /\ PbcInit /\ Init
  BY DEF DeskInit
<1>2. [DeskNext]_deskVars => [ReviewNext]_reviewVars
  BY DEF DeskNext, deskVars
<1>3. [DeskNext]_deskVars => [TaskNext]_taskVars
  BY DEF DeskNext, deskVars
<1>4. [DeskNext]_deskVars => [ListNext]_listVars
  BY DEF DeskNext, deskVars
<1>5. [DeskNext]_deskVars => [PbcNext]_pbcVars
  BY DEF DeskNext, deskVars
<1>6. [DeskNext]_deskVars => [Next]_vars
  BY DEF DeskNext, deskVars
<1> QED
  BY <1>1, <1>2, <1>3, <1>4, <1>5, <1>6, PTL
     DEF DeskSpec, ReviewSpec, TaskSpec, ListSpec, PbcSpec, Spec

(* The review, the tasks, the checklist and the requests for documents stay *)
(* well typed side by side.                                                 *)
THEOREM DeskTypeCorrect == DeskSpec => []DeskTypeOK
<1>1. PbcInv => PbcTypeOK
  BY DEF PbcInv
<1>2. ReviewTypeOK /\ TaskTypeOK /\ ListTypeOK /\ PbcTypeOK => DeskTypeOK
  BY DEF DeskTypeOK
<1> QED
  BY <1>1, <1>2, DeskIsItsParts, ReviewTypeCorrect, TaskTypeCorrect, ChecklistTypeCorrect,
     PbcInvariant, PTL
================================================================================
