------------------------------ MODULE AutopilotRuns ------------------------------
(***************************************************************************)
(* The runs of the close autopilot of one workspace: an admin presses "Run *)
(* now", which checks for a live run, reclaims dead ones and schedules a   *)
(* background worker; a daily sweep starts the run of the focus month when *)
(* its day comes; a worker inserts its row, works through its fenced steps *)
(* and writes the outcome; the process may die under it.                   *)
(*                                                                         *)
(* A row's age has two phases: within the stale window (_STALE_RUN_AFTER)  *)
(* or past it.  What the steps do is modelled elsewhere; here each one     *)
(* only fails or not.                                                      *)
(***************************************************************************)
EXTENDS Integers, FiniteSets, NoneValue

CONSTANTS
  MaxRuns,        (* bound: how many runs there are                         *)
  Callers,        (* background workers of "Run now" waiting to start       *)
  Sweep,          (* the worker of the daily sweep                          *)
  LastMonth       (* the elapsed months are 1..LastMonth                    *)

VARIABLES
  closed,         (* the closed months                                      *)
  run,            (* run[i]: the committed row i, or None                   *)
  queued,         (* queued[w]: the month worker w will start on, or None   *)
  work,           (* work[i]: "ok", "erred" while run i executes, or None   *)
  slow,           (* a run executed past the stale window                   *)
  doubled         (* a start was decided while another one was pending or   *)
                  (* executing unseen                                       *)

autoVars == <<closed, run, queued, work, slow, doubled>>

Months == 1..LastMonth
RunIds == 1..MaxRuns      (* run rows, numbered as they are inserted *)
Starters == Callers \cup {Sweep}

RunRow == [month : Months, status : {"running", "completed", "partial", "failed"},
           old : BOOLEAN, by : {"manual", "schedule"}]

ASSUME AutopilotAssumption ==
  /\ LastMonth \in Nat /\ MaxRuns \in Nat
  /\ Sweep \notin Callers
  /\ None \notin 1..LastMonth \cup RunRow \cup {"ok", "erred"}

AutoTypeOK ==
  /\ closed \subseteq Months
  /\ run \in [RunIds -> RunRow \cup {None}]
  /\ queued \in [Starters -> Months \cup {None}]
  /\ work \in [RunIds -> {"ok", "erred", None}]
  /\ slow \in BOOLEAN /\ doubled \in BOOLEAN

AutoInit ==
  /\ closed = {}
  /\ run = [i \in RunIds |-> None]
  /\ queued = [w \in Starters |-> None]
  /\ work = [i \in RunIds |-> None]
  /\ slow = FALSE /\ doubled = FALSE

--------------------------------------------------------------------------------
Oldest(months) == CHOOSE m \in months : \A n \in months : m <= n

(* Defect: the month in progress counts as elapsed.                         *)
FocusThrough == Oldest((1..LastMonth + 1) \ closed)

(* The oldest elapsed month that is not closed.                             *)
Focus == IF Months \ closed = {} THEN None
         ELSE Oldest(Months \ closed)

Running == {i \in RunIds : run[i] # None /\ run[i].status = "running"}
Executing == {i \in RunIds : work[i] # None}

(* Defect: no row is ever taken for dead.                                   *)
IsLiveForever(i) == i \in Running

(* Defect: the age is compared the wrong way round.                         *)
IsLiveOld(i) == i \in Running /\ run[i].old

IsLive(i) == i \in Running /\ ~run[i].old

Pending == {w \in Starters : queued[w] # None}

(* The watchdog: what is running and not live is marked failed.             *)
Reclaimed == [i \in RunIds |-> IF i \in Running THEN [run[i] EXCEPT !.status = "failed"]
                               ELSE run[i]]

RunNow(w) ==
  /\ w \in Callers
  /\ queued[w] = None
  /\ Focus # None
  /\ \A i \in Running : ~IsLive(i)
  /\ run' = Reclaimed
  /\ queued' = [queued EXCEPT ![w] = Focus]
  /\ doubled' = (doubled \/ Pending # {})
  /\ UNCHANGED <<closed, work, slow>>

(* Defect: only a finished run keeps the sweep from starting another.       *)
SettledFinished(m) == \E i \in RunIds : run[i] # None /\ run[i].month = m
                        /\ run[i].status \in {"completed", "partial"}

(* A run that is finished, or that says it is running, however old.         *)
Settled(m) ==
  \E i \in RunIds : /\ run[i] # None
                    /\ run[i].month = m
                    /\ run[i].status \in {"completed", "partial", "running"}

(* The sweep on the run day of the workspace.  It looks at the focus month  *)
(* only, so a run of a month closed meanwhile is unseen.                    *)
SweepDue ==
  /\ queued[Sweep] = None
  /\ Focus # None
  /\ ~Settled(Focus)
  /\ queued' = [queued EXCEPT ![Sweep] = Focus]
  /\ doubled' = (doubled \/ Pending # {} \/ \E i \in Executing : run[i].month # Focus)
  /\ UNCHANGED <<closed, run, work, slow>>

(* run_autopilot_for_tenant: the row is committed, then the steps run, or   *)
(* fail at once for want of a user to act for.                              *)
Begin(w, i) ==
  /\ queued[w] # None
  /\ run[i] = None /\ \A k \in RunIds : k < i => run[k] # None
  /\ \E actor \in BOOLEAN :
       /\ run' = [run EXCEPT ![i] =
            [month |-> queued[w], status |-> IF actor THEN "running" ELSE "failed",
             old |-> FALSE, by |-> IF w = Sweep THEN "schedule" ELSE "manual"]]
       /\ work' = [work EXCEPT ![i] = IF actor THEN "ok" ELSE None]
  /\ queued' = [queued EXCEPT ![w] = None]
  /\ UNCHANGED <<closed, slow, doubled>>

(* A fenced step fails; the run goes on.                                    *)
StepFails(i) ==
  /\ work[i] = "ok"
  /\ work' = [work EXCEPT ![i] = "erred"]
  /\ UNCHANGED <<closed, run, queued, slow, doubled>>

Outcome(i) == IF work[i] = "erred" THEN "partial" ELSE "completed"

(* The outcome is written whatever the row says by then.                    *)
Finish(i) ==
  /\ work[i] # None
  /\ run' = [run EXCEPT ![i].status = Outcome(i)]
  /\ work' = [work EXCEPT ![i] = None]
  /\ UNCHANGED <<closed, queued, slow, doubled>>

(* A restart of the process: every run, and every worker not started, dies. *)
Crash ==
  /\ Executing \cup Pending # {}
  /\ work' = [i \in RunIds |-> None]
  /\ queued' = [w \in Starters |-> None]
  /\ UNCHANGED <<closed, run, slow, doubled>>

(* Half an hour passes since run i started.                                 *)
Ages30(i) ==
  /\ IsLive(i)
  /\ run' = [run EXCEPT ![i].old = TRUE]
  /\ slow' = (slow \/ work[i] # None)
  /\ UNCHANGED <<closed, queued, work, doubled>>

(* The books of a month are closed, in order.                               *)
CloseMonth ==
  /\ Months \ closed # {}
  /\ closed' = closed \cup {Oldest(Months \ closed)}
  /\ UNCHANGED <<run, queued, work, slow, doubled>>

AutoNext ==
  \/ \E w \in Callers : RunNow(w)
  \/ SweepDue
  \/ \E w \in Starters, i \in RunIds : Begin(w, i)
  \/ \E i \in RunIds : StepFails(i) \/ Finish(i) \/ Ages30(i)
  \/ Crash
  \/ CloseMonth

(* Time passes for a run that nobody works on any more.                     *)
AutoFairness == \A i \in RunIds : WF_autoVars(Ages30(i))

AutoSpec == AutoInit /\ [][AutoNext]_autoVars /\ AutoFairness

--------------------------------------------------------------------------------
(* No two runs work on the workspace at a time, as long as none outlives    *)
(* the stale window and no two starts were decided side by side: crashes,   *)
(* reclaimed rows, the sweep and closed months included.                    *)
OneRunAtATime ==
  ~slow /\ ~doubled => Cardinality(Executing \cup Pending) <= 1

(* The sweep does a month once: of two scheduled runs of a month one is     *)
(* failed ("scheduled runs are idempotent"), whatever admins start, crashes *)
(* and reclaims happen in between.                                          *)
ScheduledOnce ==
  ~slow /\ ~doubled =>
    \A i, k \in RunIds : run[i] # None /\ run[k] # None /\ i # k
      /\ run[i].by = "schedule" /\ run[k].by = "schedule" /\ run[i].month = run[k].month
      => "failed" \in {run[i].status, run[k].status}

(* A crashed run does not lock the workspace out: again and again "Run now" *)
(* is not refused for a live run.                                           *)
NotLockedOut == []<>(\A i \in RunIds : ~IsLive(i))
================================================================================
