-------------------------------- MODULE MCEngines --------------------------------
(***************************************************************************)
(* Six pieces of machinery that share no state, checked side by side: the  *)
(* runs of the autopilot, the AI budget, the runs of the cost allocation   *)
(* and its arithmetic, and, in the browser, the cached lists and the       *)
(* drawer of the reconciliations.  Each behaviour is one of one component, *)
(* the others at rest.                                                     *)
(***************************************************************************)
EXTENDS AutopilotRuns, AiBudget, AllocationRuns, Apportionment, OptimisticLists, ReconDrawer

VARIABLE side

engineVars == <<side, autoVars, aiVars, allocVars, poolVars, listVars, drawerVars>>

(* An amount that leaves a remainder under each rate, its credit, a small   *)
(* one and nothing; a third, a half and two thirds.                         *)
SomeCents == {0, 101, -101, 5}
SomeRates == {0, 333333, 500000, 666667}

(* Bound: of the rows a drawer may start with, those with nothing saved or  *)
(* with everything ticked.                                                  *)
StartRows ==
  LET saved == SavedWith(NewRow, [cleared |-> Entries, open |-> {}])
  IN  {NewRow, MarkedAs(saved, "reviewed", FALSE)}

EnginesInit ==
  /\ side \in {"autopilot", "budget", "runs", "arithmetic", "lists", "drawer"}
  /\ AutoInit /\ BudgetInit /\ AllocInit /\ PoolInit /\ ListInit /\ DrawerInit
  /\ side # "lists" => truth = {}
  /\ IF side = "drawer" THEN row \in StartRows ELSE row = NewRow

EnginesNext ==
  /\ UNCHANGED side
  /\ \/ side = "autopilot" /\ AutoNext
        /\ UNCHANGED <<aiVars, allocVars, poolVars, listVars, drawerVars>>
     \/ side = "budget" /\ BudgetNext
        /\ UNCHANGED <<autoVars, allocVars, poolVars, listVars, drawerVars>>
     \/ side = "runs" /\ AllocNext
        /\ UNCHANGED <<autoVars, aiVars, poolVars, listVars, drawerVars>>
     \/ side = "arithmetic" /\ PoolNext
        /\ UNCHANGED <<autoVars, aiVars, allocVars, listVars, drawerVars>>
     \/ side = "lists" /\ ListNext
        /\ UNCHANGED <<autoVars, aiVars, allocVars, poolVars, drawerVars>>
     \/ side = "drawer" /\ DrawerNext
        /\ UNCHANGED <<autoVars, aiVars, allocVars, poolVars, listVars>>

(* The fairness is the autopilot's; on the other sides no run ever exists.  *)
EnginesSpec == EnginesInit /\ [][EnginesNext]_engineVars /\ AutoFairness

(* The types of the three components with requests or runs in progress.     *)
EnginesTypeOK == AutoTypeOK /\ BudgetTypeOK /\ AllocTypeOK
================================================================================
