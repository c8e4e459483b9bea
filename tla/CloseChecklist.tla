------------------------------ MODULE CloseChecklist ------------------------------
(***************************************************************************)
(* The close checklist of one month: template steps with prerequisites,    *)
(* the month's instance of each step, and the live status of the modules   *)
(* that some steps follow.  A step is blocked until its prerequisite is    *)
(* done or skipped; the page and the gate on ticking a step each work that *)
(* out in their own way.                                                   *)
(*                                                                         *)
(* Changing a prerequisite reads the whole template, walks the chain, and  *)
(* commits later; two admins may overlap there.  Ticking a step reads its  *)
(* instance and the status of its prerequisite, writes the audit event,    *)
(* and commits later too.  The other requests change the rows they name,   *)
(* and their order is that of their commits.                               *)
(* "pending" stands for "in_progress" too: neither satisfies a dependency. *)
(* Titles, order, owners, due dates and notes are left out.                *)
(***************************************************************************)
EXTENDS Naturals, FiniteSets, NoneValue

CONSTANTS
  DefaultSteps,   (* keys of the seeded steps, which cannot be deleted      *)
  CustomSteps,    (* keys of steps an admin may add, one use each           *)
  LinkedSteps,    (* the default steps that follow a module                 *)
  SeededDep,      (* the prerequisite of each default step, or None         *)
  Members         (* bound: each is in one edit or tick at a time           *)

AllSteps == DefaultSteps \cup CustomSteps

(* The keys of S, if any, include one whose prerequisite is not in S.       *)
LeavesTo(dep, S) == \E s \in S : dep[s] \notin S

Acyclic(dep) == \A S \in SUBSET DOMAIN dep : S # {} => LeavesTo(dep, S)

ASSUME ChecklistAssumption ==
  /\ DefaultSteps \cap CustomSteps = {}
  /\ LinkedSteps \subseteq DefaultSteps
  /\ None \notin AllSteps \cup {"pending", "done", "skipped"}
  /\ SeededDep \in [DefaultSteps -> DefaultSteps \cup {None}]
  /\ Acyclic(SeededDep)

VARIABLES
  shown,          (* shown[k]: "unused", "active", "hidden" or "deleted"    *)
  dep,            (* dep[k]: the prerequisite of step k, or None            *)
  inst,           (* inst[k]: status of the month's instance of k, or None  *)
  live,           (* live[k]: what the module of linked step k says         *)
  edit,           (* edit[a]: the edit of a prerequisite member a is in     *)
  crossed,        (* two edits have overlapped                              *)
  tick            (* tick[t]: the tick of a step member t is in             *)

listVars == <<shown, dep, inst, live, edit, crossed, tick>>

StepStatuses == {"pending", "done", "skipped"}

(* Defect: a skipped step satisfies nobody.                                 *)
DepSatisfiedDone == {"done"}

DepSatisfied == {"done", "skipped"}

NoEdit == [key |-> None]
DepEdit == [key : AllSteps, to : AllSteps]

NoTick == [key |-> None]
HandTick == [key : AllSteps \ LinkedSteps, insert : BOOLEAN, to : StepStatuses]

(* Type correctness.  A linked step is never skipped by hand, and only a    *)
(* key nobody has used is sure to have no instance.                         *)
ListTypeOK ==
  /\ shown \in [AllSteps -> {"unused", "active", "hidden", "deleted"}]
  /\ dep \in [AllSteps -> AllSteps \cup {None}]
  /\ inst \in [AllSteps -> StepStatuses \cup {None}]
  /\ live \in [LinkedSteps -> {"pending", "done"}]
  /\ edit \in [Members -> {NoEdit} \cup DepEdit]
  /\ crossed \in BOOLEAN
  /\ tick \in [Members -> {NoTick} \cup HandTick]
  /\ \A k \in LinkedSteps : inst[k] # "skipped"
  /\ \A k \in AllSteps : shown[k] \in {"unused", "deleted"} => dep[k] = None
  /\ \A k \in AllSteps : shown[k] = "unused" => inst[k] = None

ListInit ==
  /\ shown = [k \in AllSteps |-> IF k \in DefaultSteps THEN "active" ELSE "unused"]
  /\ dep = [k \in AllSteps |-> IF k \in DefaultSteps THEN SeededDep[k] ELSE None]
  /\ inst = [k \in AllSteps |-> None]
  /\ live = [k \in LinkedSteps |-> "pending"]
  /\ edit = [a \in Members |-> NoEdit]
  /\ crossed = FALSE
  /\ tick = [t \in Members |-> NoTick]

Exists(k) == k # None /\ shown[k] \in {"active", "hidden"}
IsActive(k) == k # None /\ shown[k] = "active"

--------------------------------------------------------------------------------
(* The gate on ticking: the effective status of the one prerequisite.       *)

EffectiveStatusOf(k) ==
  IF k \in LinkedSteps THEN live[k]
  ELSE IF inst[k] = None THEN "pending" ELSE inst[k]

(* Defect: a hidden prerequisite gates as well.                             *)
BlockedForHidden(k) ==
  Exists(k) /\ Exists(dep[k]) /\ EffectiveStatusOf(dep[k]) \notin DepSatisfied

BlockedFor(k) ==
  /\ Exists(k)
  /\ IsActive(dep[k])
  /\ EffectiveStatusOf(dep[k]) \notin DepSatisfied

(* Opening the page creates the missing instances and writes the live       *)
(* status into the linked ones ...                                          *)
BuiltStatus(k) == IF k \in LinkedSteps THEN live[k]
                  ELSE IF inst[k] = None THEN "pending" ELSE inst[k]

Checklist == [k \in {s \in AllSteps : IsActive(s)} |-> BuiltStatus(k)]

(* ... and its blocked marks come from the statuses listed.                 *)
MarkedBlocked(k) ==
  dep[k] \in DOMAIN Checklist /\ Checklist[dep[k]] \notin DepSatisfied

(* An insert waits for another of the same row to be decided.               *)
Inserting(k) == \E t \in Members : tick[t].key = k /\ tick[t].insert

BuildChecklist ==
  /\ \A k \in AllSteps : IsActive(k) => ~Inserting(k)
  /\ inst' = [k \in AllSteps |-> IF IsActive(k) THEN Checklist[k] ELSE inst[k]]
  /\ UNCHANGED <<shown, dep, live, edit, crossed, tick>>

(* update_step for a step kept by hand: the instance is read, or inserted   *)
(* when missing, and the gate looks at the prerequisite.  A status that is  *)
(* there already is not written ...                                         *)
TickRead(t, k, status) ==
  /\ tick[t] = NoTick /\ edit[t] = NoEdit
  /\ k \notin LinkedSteps
  /\ inst[k] # None \/ (IsActive(k) /\ ~Inserting(k))
  /\ inst[k] # status
  /\ status = "done" => ~BlockedFor(k)
  /\ tick' = [tick EXCEPT ![t] = [key |-> k, insert |-> inst[k] = None, to |-> status]]
  /\ UNCHANGED <<shown, dep, inst, live, edit, crossed>>

(* ... and the commit comes after the audit event.  A row that is gone by   *)
(* then fails the request; an inserted one stays, even of a step that was   *)
(* deleted meanwhile.                                                       *)
TickCommit(t) ==
  LET c == tick[t] IN
  /\ c # NoTick
  /\ inst' = IF c.insert \/ inst[c.key] # None THEN [inst EXCEPT ![c.key] = c.to] ELSE inst
  /\ tick' = [tick EXCEPT ![t] = NoTick]
  /\ UNCHANGED <<shown, dep, live, edit, crossed>>

(* The module of a linked step moves on, or back.                           *)
ModuleMoves(k) ==
  /\ live' = [live EXCEPT ![k] = IF @ = "done" THEN "pending" ELSE "done"]
  /\ UNCHANGED <<shown, dep, inst, edit, crossed, tick>>

--------------------------------------------------------------------------------
(* Defect: the walk ends at a hidden step.                                  *)
ChainOfActive(d) == {k \in AllSteps :
  \A S \in SUBSET AllSteps :
    d \in S /\ (\A s \in S : IsActive(s) /\ dep[s] # None => dep[s] \in S) => k \in S}

(* The keys the walk from d along the prerequisites of existing steps meets: *)
(* those in every set that holds d and is closed under the step.             *)
Chain(d) == {k \in AllSteps :
  \A S \in SUBSET AllSteps :
    d \in S /\ (\A s \in S : Exists(s) /\ dep[s] # None => dep[s] \in S) => k \in S}

(* What _resolve_dependency accepts.                                        *)
MayDependOn(k, d) == IsActive(d) /\ d # k /\ k \notin Chain(d)

(* A new step has a new key, so no chain leads to it.                       *)
AddStep(k, d) ==
  /\ k \in CustomSteps /\ shown[k] = "unused"
  /\ d # None => MayDependOn(k, d)
  /\ shown' = [shown EXCEPT ![k] = "active"]
  /\ dep' = [dep EXCEPT ![k] = d]
  /\ UNCHANGED <<inst, live, edit, crossed, tick>>

(* edit_step with a prerequisite: the template is read and walked ...       *)
EditRead(a, k, d) ==
  /\ edit[a] = NoEdit /\ tick[a] = NoTick
  /\ Exists(k)
  /\ MayDependOn(k, d)
  /\ edit' = [edit EXCEPT ![a] = [key |-> k, to |-> d]]
  /\ crossed' = (crossed \/ \E b \in Members : edit[b] # NoEdit)
  /\ UNCHANGED <<shown, dep, inst, live, tick>>

(* ... and the row is updated, if it is still there.                        *)
EditCommit(a) ==
  LET e == edit[a] IN
  /\ e # NoEdit
  /\ dep' = IF Exists(e.key) THEN [dep EXCEPT ![e.key] = e.to] ELSE dep
  /\ edit' = [edit EXCEPT ![a] = NoEdit]
  /\ UNCHANGED <<shown, inst, live, crossed, tick>>

(* edit_step without: the prerequisite is cleared, the step hidden or shown. *)
ClearDependency(k) ==
  /\ Exists(k)
  /\ dep' = [dep EXCEPT ![k] = None]
  /\ UNCHANGED <<shown, inst, live, edit, crossed, tick>>

SetActive(k, active) ==
  /\ Exists(k)
  /\ shown' = [shown EXCEPT ![k] = IF active THEN "active" ELSE "hidden"]
  /\ UNCHANGED <<dep, inst, live, edit, crossed, tick>>

(* A custom step goes, and with it its instances of every month; steps that *)
(* depended on it keep its key.                                             *)
DeleteStep(k) ==
  /\ Exists(k) /\ k \notin DefaultSteps
  /\ shown' = [shown EXCEPT ![k] = "deleted"]
  /\ dep' = [dep EXCEPT ![k] = None]
  /\ inst' = [inst EXCEPT ![k] = None]
  /\ UNCHANGED <<live, edit, crossed, tick>>

ListNext ==
  \/ BuildChecklist
  \/ \E k \in LinkedSteps : ModuleMoves(k)
  \/ \E k \in AllSteps :
       \/ \E t \in Members, s \in StepStatuses : TickRead(t, k, s)
       \/ \E d \in AllSteps \cup {None} : AddStep(k, d)
       \/ \E a \in Members, d \in AllSteps : EditRead(a, k, d)
       \/ ClearDependency(k) \/ DeleteStep(k)
       \/ \E active \in BOOLEAN : SetActive(k, active)
  \/ \E a \in Members : EditCommit(a)
  \/ \E t \in Members : TickCommit(t)

ListSpec == ListInit /\ [][ListNext]_listVars

--------------------------------------------------------------------------------
(* No chain of prerequisites is circular, hidden steps included, as long as *)
(* no two admins changed prerequisites at the same time: whatever is added, *)
(* rewired, hidden, shown again or deleted in between.                      *)
NoCycle == crossed \/ Acyclic(dep)

(* The checklist never dead-ends: while a step on it is neither done nor    *)
(* skipped, one such step is not blocked (service.py: "a skipped step never *)
(* dead-ends a chain").                                                     *)
NeverStuck ==
  LET unfinished == {k \in DOMAIN Checklist : Checklist[k] \notin {"done", "skipped"}}
  IN  unfinished # {} /\ ~crossed => \E k \in unfinished : ~MarkedBlocked(k)

(* What the page marks blocked is what the gate refuses ("the checklist     *)
(* computes the same thing for display").                                   *)
PageAgreesWithGate == \A k \in DOMAIN Checklist : MarkedBlocked(k) <=> BlockedFor(k)
================================================================================
