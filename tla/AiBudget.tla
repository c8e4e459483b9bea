--------------------------------- MODULE AiBudget ---------------------------------
(***************************************************************************)
(* The monthly AI spend cap of one workspace.  A request passes the guard  *)
(* while the recorded spend of the month is below the cap; its model calls *)
(* cost money as they are made and are noted in a buffer, and a flush      *)
(* writes the buffer to the usage table.  Where the flush happens depends  *)
(* on the kind of work:                                                    *)
(*   inline   the middleware flushes when the handler has answered;        *)
(*   flux     each background commentary captures and flushes on its own;  *)
(*   late     the assistant streams its answer after the middleware has    *)
(*            flushed, and so work a response leaves to run (the preparer  *)
(*            and the review of an autopilot run, a commentary); the sweep *)
(*            has no capture at all.                                       *)
(* The rate limiter in front may turn any request away, so it adds nothing *)
(* here.  Costs are whole units.                                           *)
(***************************************************************************)
EXTENDS Naturals, FiniteSets, NoneValue

CONSTANTS
  AiSlots,        (* AI requests in progress at a time                      *)
  Cap,            (* ai_monthly_cost_cap_usd                                *)
  MaxCost,        (* bound: the cost of one model call                      *)
  MaxCalls,       (* bound: model calls of one request                      *)
  MaxSpent        (* bound: the real spend followed in a month              *)

ASSUME BudgetAssumption ==
  /\ Cap \in Nat \ {0} /\ MaxCost \in Nat \ {0} /\ MaxCalls \in Nat \ {0}
  /\ MaxSpent \in Nat
  /\ IsFiniteSet(AiSlots)

VARIABLES
  recorded,       (* the usage table's sum for this month                   *)
  spent,          (* the real cost of this month's calls                    *)
  uncounted,      (* the part of spent whose usage reaches no flush         *)
  ai,             (* ai[s]: the AI request in slot s                        *)
  soft            (* a lookup or a flush has failed, which is let pass      *)

aiVars == <<recorded, spent, uncounted, ai, soft>>

Kinds == {"inline", "flux", "late"}
Captured == {"inline", "flux"}

NoRequest == [kind |-> "none"]
AiJob == [kind : Kinds, calls : 0..MaxCalls, buffer : 0..MaxCalls * MaxCost]

BudgetTypeOK ==
  /\ recorded \in Nat /\ spent \in Nat /\ uncounted \in 0..spent
  /\ ai \in [AiSlots -> {NoRequest} \cup AiJob]
  /\ soft \in BOOLEAN

BudgetInit ==
  /\ recorded = 0 /\ spent = 0 /\ uncounted = 0
  /\ ai = [s \in AiSlots |-> NoRequest]
  /\ soft = FALSE

(* Defect: the cap is passed before it counts as reached.                   *)
ExceededPast == recorded > Cap

Exceeded == recorded >= Cap

(* enforce_ai_limits; a failing lookup counts as nothing spent.             *)
Ask(s, kind) ==
  /\ ai[s] = NoRequest
  /\ \/ ~Exceeded /\ UNCHANGED soft
     \/ soft' = TRUE
  /\ ai' = [ai EXCEPT ![s] = [kind |-> kind, calls |-> 0, buffer |-> 0]]
  /\ UNCHANGED <<recorded, spent, uncounted>>

Noted(j, cost) == IF j.kind \in Captured THEN cost ELSE 0

(* One model call, noted where its kind of work captures.                   *)
ModelCall(s, cost) ==
  LET j == ai[s] IN
  /\ j # NoRequest
  /\ j.calls < MaxCalls
  /\ spent + cost <= MaxSpent
  /\ spent' = spent + cost
  /\ uncounted' = uncounted + (IF j.kind \in Captured THEN 0 ELSE cost)
  /\ ai' = [ai EXCEPT ![s].calls = @ + 1,
                      ![s].buffer = @ + Noted(j, cost)]
  /\ UNCHANGED <<recorded, soft>>

Drained(j) == [j EXCEPT !.buffer = 0]

(* flux: the commentary just made is flushed before the next one.           *)
FlushOne(s) ==
  /\ ai[s].kind = "flux" /\ ai[s].buffer > 0
  /\ \/ recorded' = recorded + ai[s].buffer /\ UNCHANGED soft
     \/ UNCHANGED recorded /\ soft' = TRUE
  /\ ai' = [ai EXCEPT ![s] = Drained(@)]
  /\ UNCHANGED <<spent, uncounted>>

(* The request ends; what it buffered is flushed in one transaction.        *)
Answered(s) ==
  /\ ai[s] # NoRequest
  /\ \/ recorded' = recorded + ai[s].buffer /\ UNCHANGED soft
     \/ ai[s].buffer > 0 /\ UNCHANGED recorded /\ soft' = TRUE
  /\ ai' = [ai EXCEPT ![s] = NoRequest]
  /\ UNCHANGED <<spent, uncounted>>

(* A new month sums anew; a request in progress is recorded in it.          *)
MonthTurns ==
  /\ recorded' = 0 /\ spent' = 0 /\ uncounted' = 0
  /\ UNCHANGED <<ai, soft>>

BudgetNext ==
  \/ \E s \in AiSlots :
       \/ \E kind \in Kinds : Ask(s, kind)
       \/ \E cost \in 1..MaxCost : ModelCall(s, cost)
       \/ FlushOne(s) \/ Answered(s)
  \/ MonthTurns

BudgetSpec == BudgetInit /\ [][BudgetNext]_aiVars

--------------------------------------------------------------------------------
PerRequest == MaxCalls * MaxCost

(* While lookups and flushes succeed, the month's counted spend passes the  *)
(* cap by less than the work of the requests that can be in progress: each  *)
(* was let in below the cap, and none after the flush that reached it.      *)
OvershootBounded ==
  ~soft => spent - uncounted < Cap + Cardinality(AiSlots) * PerRequest

================================================================================
