---------------------------------- MODULE Tasks ----------------------------------
(***************************************************************************)
(* Manual close tasks and the way a repeating one comes back: completing   *)
(* an occurrence writes the next one, a month, a quarter or a year later.  *)
(* A completion is a transaction that reads the row, or several in the     *)
(* bulk call, and commits later, so two of them may overlap.               *)
(*                                                                         *)
(* Dates are real: a month counted from year 0, as the code counts them,   *)
(* and a day.  Subjects, priorities, notes, assignments and dismissals     *)
(* decide nothing here and are left out.                                   *)
(***************************************************************************)
EXTENDS Integers, FiniteSets, NoneValue

CONSTANTS
  MaxTasks,       (* bound: task rows ever created                          *)
  Clerks,         (* completion requests in progress at a time              *)
  Periods,        (* period ends a task is created for                      *)
  Dues,           (* due dates set by hand                                  *)
  Steps,          (* months per step of the recurrences in use              *)
  MaxSeries,      (* bound: tasks created by hand                           *)
  MaxEdits        (* bound: due dates, recurrences and reopenings asked for *)

VARIABLES
  tasks,          (* tasks[i]: the committed row i, or None                 *)
  call,           (* call[c]: the completion request clerk c is in          *)
  muddled,        (* series completed in a way that may copy their work     *)
  edits           (* edits so far                                           *)

taskVars == <<tasks, call, muddled, edits>>

TaskIds == 1..MaxTasks    (* task rows, numbered as they are created *)

--------------------------------------------------------------------------------
(* The calendar.                                                            *)
LeapYear(y) == y % 4 = 0 /\ (y % 100 # 0 \/ y % 400 = 0)

DaysInMonth(m) ==
  CASE m % 12 = 1 -> IF LeapYear(m \div 12) THEN 29 ELSE 28
    [] m % 12 \in {3, 5, 8, 10} -> 30
    [] OTHER -> 31

Date(m, d) == [month |-> m, day |-> d]

(* Defect: the day is not clamped.                                          *)
AddMonthsUnclamped(date, n) == Date(date.month + n, date.day)

(* Whole months on, clamped to the length of the month reached.             *)
AddMonths(date, n) ==
  LET last == DaysInMonth(date.month + n)
  IN  Date(date.month + n, IF date.day < last THEN date.day ELSE last)

IsMonthEnd(date) == date.day = DaysInMonth(date.month)

(* Defect: the day of the month is kept.                                    *)
NextPeriodSameDay(period, n) == AddMonths(period, n)

(* A month end rolls to a month end.                                        *)
NextPeriod(period, n) ==
  LET next == AddMonths(period, n)
  IN  IF IsMonthEnd(period) THEN [next EXCEPT !.day = DaysInMonth(next.month)] ELSE next

Anchored(period, due) == period # None \/ due # None

Recurs(task) == task.every # None /\ Anchored(task.period, task.due)

(* The occurrence after task: none of its stamp, all of its schedule.       *)
FollowOn(i, task) ==
  [period |-> IF task.period = None THEN None ELSE NextPeriod(task.period, task.every),
   due |-> IF task.due = None THEN None ELSE AddMonths(task.due, task.every),
   every |-> task.every, done |-> FALSE, from |-> i, series |-> task.series]

--------------------------------------------------------------------------------
(* The days there are.                                                      *)
Dates == {d \in [month : Nat, day : 1..31] : d.day <= DaysInMonth(d.month)}

(* series is the row the occurrences descend from, kept for the properties. *)
Task == [period : Dates \cup {None}, due : Dates \cup {None}, every : Steps \cup {None},
         done : BOOLEAN, from : TaskIds \cup {None}, series : TaskIds]

ASSUME TaskAssumption ==
  /\ Periods \cup Dues \subseteq Dates
  /\ Steps \subseteq {1, 3, 12}
  /\ MaxTasks \in Nat /\ MaxEdits \in Nat
  /\ None \notin Nat \cup Dates \cup Task

NoCall == [op |-> "none"]

(* loaded[i] is row i as the request read it, or None.                      *)
Call == [op : {"complete", "bulk"}, loaded : [TaskIds -> Task \cup {None}]]

TaskTypeOK ==
  /\ tasks \in [TaskIds -> Task \cup {None}]
  /\ call \in [Clerks -> {NoCall} \cup Call]
  /\ muddled \subseteq TaskIds
  /\ edits \in 0..MaxEdits

TaskInit ==
  /\ tasks = [i \in TaskIds |-> None]
  /\ call = [c \in Clerks |-> NoCall]
  /\ muddled = {}
  /\ edits = 0

Rows == {i \in TaskIds : tasks[i] # None}
NewRows(n) == Cardinality(Rows) + 1 .. Cardinality(Rows) + n
Loaded(j) == {i \in TaskIds : j.loaded[i] # None}

CreateTask(i, period, due, every) ==
  /\ i \in NewRows(1)
  /\ Cardinality({tasks[k].series : k \in Rows}) < MaxSeries
  /\ every # None => Anchored(period, due)
  /\ tasks' = [tasks EXCEPT ![i] = [period |-> period, due |-> due, every |-> every,
                                    done |-> FALSE, from |-> None, series |-> i]]
  /\ UNCHANGED <<call, muddled, edits>>

CountEdit(i) ==
  /\ tasks[i] # None
  /\ edits < MaxEdits
  /\ edits' = edits + 1

(* The due date alone: the task's own form, or the bulk call of an admin.   *)
SetDue(i, due) ==
  /\ CountEdit(i)
  /\ tasks' = [tasks EXCEPT ![i].due = due]
  /\ UNCHANGED <<call, muddled>>

(* The recurrence, and with it the due date or the one the row has.         *)
SetRecurrence(i, due, every) ==
  /\ CountEdit(i)
  /\ every # None => Anchored(tasks[i].period, due)
  /\ tasks' = [tasks EXCEPT ![i].due = due, ![i].every = every]
  /\ UNCHANGED <<call, muddled>>

(* completed = false of the bulk call.                                      *)
Reopen(i) ==
  /\ CountEdit(i)
  /\ tasks' = [tasks EXCEPT ![i].done = FALSE]
  /\ muddled' = muddled \cup {tasks[i].series}
  /\ UNCHANGED call

--------------------------------------------------------------------------------
Overlapped(c, i) == \E d \in Clerks \ {c} : call[d] # NoCall /\ call[d].loaded[i] # None

CompleteRead(c, i) ==
  /\ call[c] = NoCall
  /\ tasks[i] # None
  /\ call' = [call EXCEPT ![c] = [op |-> "complete", loaded |->
                                    [t \in TaskIds |-> IF t = i THEN tasks[i] ELSE None]]]
  /\ muddled' = IF tasks[i].done \/ Overlapped(c, i) THEN muddled \cup {tasks[i].series}
                ELSE muddled
  /\ UNCHANGED <<tasks, edits>>

(* The bulk call reads its targets one after the other.                     *)
BulkRead(c, i) ==
  /\ tasks[i] # None
  /\ \/ /\ call[c] = NoCall
        /\ call' = [call EXCEPT ![c] = [op |-> "bulk", loaded |->
                                    [t \in TaskIds |-> IF t = i THEN tasks[i] ELSE None]]]
     \/ /\ call[c].op = "bulk"
        /\ call[c].loaded[i] = None
        /\ call' = [call EXCEPT ![c].loaded[i] = tasks[i]]
  /\ muddled' = IF Overlapped(c, i) THEN muddled \cup {tasks[i].series} ELSE muddled
  /\ UNCHANGED <<tasks, edits>>

(* Defect: the bulk call, too, rolls a finished task forward.               *)
RolledAll(j) == {i \in Loaded(j) : Recurs(j.loaded[i])}

(* The rows rolled forward: the task's own button asks nothing, the bulk    *)
(* call only rolls what was open when it read it.                           *)
Rolled(j) ==
  {i \in Loaded(j) : /\ Recurs(j.loaded[i])
                     /\ j.op = "bulk" => ~j.loaded[i].done}

CompletionCommit(c) ==
  LET j == call[c] IN
  /\ j # NoCall
  /\ NewRows(Cardinality(Rolled(j))) \subseteq TaskIds
  /\ \E place \in [Rolled(j) -> NewRows(Cardinality(Rolled(j)))] :
       /\ \A i, k \in Rolled(j) : place[i] = place[k] => i = k
       /\ tasks' = [t \in TaskIds |->
            IF \E i \in Rolled(j) : place[i] = t
            THEN LET i == CHOOSE i \in Rolled(j) : place[i] = t IN FollowOn(i, j.loaded[i])
            ELSE IF t \in Loaded(j) THEN [tasks[t] EXCEPT !.done = TRUE]
            ELSE tasks[t]]
  /\ call' = [call EXCEPT ![c] = NoCall]
  /\ UNCHANGED <<muddled, edits>>

TaskNext ==
  \/ \E i \in TaskIds :
       \/ \E p \in Periods \cup {None}, d \in Dues \cup {None}, n \in Steps \cup {None} :
            CreateTask(i, p, d, n)
       \/ \E d \in Dues \cup {None} :
            \/ SetDue(i, d)
            \/ \E n \in Steps \cup {None} : SetRecurrence(i, d, n)
       \/ Reopen(i)
  \/ \E c \in Clerks :
       \/ \E i \in TaskIds : CompleteRead(c, i) \/ BulkRead(c, i)
       \/ CompletionCommit(c)

TaskSpec == TaskInit /\ [][TaskNext]_taskVars

--------------------------------------------------------------------------------
(* A series anchored to month ends stays on them, past February and past    *)
(* the leap day, and only walks forward (recurrence.py: otherwise "a        *)
(* monthly series started in February drifts off month-end forever").       *)
MonthEndsKept ==
  \A i \in Rows : tasks[i].from # None /\ tasks[i].period # None =>
    LET before == tasks[tasks[i].from].period IN
    /\ tasks[i].period.month > before.month
    /\ IsMonthEnd(before) => IsMonthEnd(tasks[i].period)

(* One occurrence of a series is outstanding at a time ("there is one open  *)
(* task, not three"), unless an occurrence was reopened, completed by two   *)
(* requests at once, or completed again with the button of the task.        *)
OneOpenOccurrence ==
  \A i, k \in Rows :
    /\ i # k
    /\ tasks[i].series = tasks[k].series
    /\ ~tasks[i].done /\ ~tasks[k].done
    => tasks[i].series \in muddled
================================================================================
