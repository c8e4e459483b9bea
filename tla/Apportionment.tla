----------------------------- MODULE Apportionment -----------------------------
(***************************************************************************)
(* The arithmetic of a cost allocation: a pool's expense lines are split   *)
(* by the pool's driver with the largest remainder method, lines with      *)
(* transactions reviewed by hand are computed on their own, and the result *)
(* becomes one journal entry.                                              *)
(*                                                                         *)
(* Amounts are cents, negative for credits; a rate is a whole number of    *)
(* millionths, as the code quantizes it (FACTOR_Q), so exact products are  *)
(* millionths of a cent.  The state is the input: QuickBooks moves a line, *)
(* a preparer changes the driver or reviews a transaction.                 *)
(***************************************************************************)
EXTENDS Integers, FiniteSetsExt, NoneValue

CONSTANTS
  Lines,          (* expense accounts, numbered in their order              *)
  Cents,          (* amounts a line may have                                *)
  Rates,          (* driver rates                                           *)
  MaxReviews      (* bound: lines with a reviewed transaction               *)

Million == 1000000

ASSUME ApportionmentAssumption ==
  /\ Lines \subseteq Nat /\ IsFiniteSet(Lines)
  /\ Cents \subseteq Int /\ 0 \in Cents
  /\ Rates \subseteq 0..Million /\ 0 \in Rates
  /\ MaxReviews \in Nat

VARIABLES
  gross,          (* gross[i]: the expense of line i, one of the pool's     *)
  rate,           (* the driver of the pool                                 *)
  reviewed        (* reviewed[i]: the transaction of line i allocated by    *)
                  (* hand, or None                                          *)

poolVars == <<gross, rate, reviewed>>

Total(f(_), S) == MapThenSumSet(f, S)

(* Half a cent goes away from zero (ROUND_HALF_UP).                         *)
HalfUp(x) == IF x >= 0 THEN (x + Million \div 2) \div Million
                       ELSE -((-x + Million \div 2) \div Million)

FloorCent(x) == x \div Million

--------------------------------------------------------------------------------
Pooled == DOMAIN gross
Plain == {i \in Pooled : reviewed[i] = None}

Exact(i) == gross[i] * rate
Dropped(i) == Exact(i) - Million * FloorCent(Exact(i))

Target == HalfUp(Total(LAMBDA i : gross[i], Plain) * rate)

(* The cents the floors leave; each line takes one at most.                 *)
Residual ==
  LET left == Target - Total(LAMBDA i : FloorCent(Exact(i)), Plain)
  IN  IF left < 0 THEN 0 ELSE IF left > Cardinality(Plain) THEN Cardinality(Plain) ELSE left

(* Defect: the cents go to the first lines.                                 *)
AheadByPosition(j, i) == j < i

(* Line j is served before line i.                                          *)
Ahead(j, i) == Dropped(j) > Dropped(i) \/ (Dropped(j) = Dropped(i) /\ j < i)

LargestRemainder ==
  LET residual == Residual IN
  [i \in Plain |-> FloorCent(Exact(i)) +
     (IF Cardinality({j \in Plain : Ahead(j, i)}) < residual THEN 1 ELSE 0)]

(* capitalize_with_overrides.                                               *)
WithOverride(i) ==
  HalfUp(reviewed[i].amount * reviewed[i].share + (gross[i] - reviewed[i].amount) * rate)

Capitalized ==
  LET parts == LargestRemainder
  IN  [i \in Pooled |-> IF i \in Plain THEN parts[i] ELSE WithOverride(i)]

--------------------------------------------------------------------------------
(* Defect: the pair of a credit is not reversed.                            *)
PairUnreversed(amount) == [debit |-> amount, credit |-> 0]

(* The pair of an account in the entry, seen from its COGS account.         *)
Pair(amount) == IF amount > 0 THEN [debit |-> amount, credit |-> 0]
                              ELSE [debit |-> 0, credit |-> -amount]

(* The queue turns what is not positive into zero (normalize_lines).        *)
Normalized(p) == [debit |-> IF p.debit > 0 THEN p.debit ELSE 0,
                  credit |-> IF p.credit > 0 THEN p.credit ELSE 0]

(* The entry of an allocation whose total is positive, as the queue keeps it. *)
ReclassEntry(parts) ==
  [i \in {j \in Pooled : parts[j] # 0} |-> Normalized(Pair(parts[i]))]

Moved(entry) == Total(LAMBDA i : entry[i].debit - entry[i].credit, DOMAIN entry)

--------------------------------------------------------------------------------
PoolInit ==
  /\ gross = [i \in {} |-> 0]
  /\ rate = 0
  /\ reviewed = [i \in Lines |-> None]

(* The period's expenses are pulled again before a run is computed.         *)
Repull(i, c) ==
  /\ gross' = [j \in Pooled \cup {i} |-> IF j = i THEN c ELSE gross[j]]
  /\ UNCHANGED <<rate, reviewed>>

(* set_account_pool: the account is pointed at another pool.                *)
LeavePool(i) ==
  /\ i \in Pooled
  /\ gross' = [j \in Pooled \ {i} |-> gross[j]]
  /\ UNCHANGED <<rate, reviewed>>

SetDriver(r) ==
  /\ rate' = r
  /\ UNCHANGED <<gross, reviewed>>

ReviewTransaction(i, c, r) ==
  /\ Cardinality({j \in Lines \ {i} : reviewed[j] # None}) < MaxReviews
  /\ reviewed' = [reviewed EXCEPT ![i] = [amount |-> c, share |-> r]]
  /\ UNCHANGED <<gross, rate>>

ClearReview(i) ==
  /\ reviewed[i] # None
  /\ reviewed' = [reviewed EXCEPT ![i] = None]
  /\ UNCHANGED <<gross, rate>>

PoolNext ==
  \/ \E r \in Rates : SetDriver(r)
  \/ \E i \in Lines :
       \/ LeavePool(i) \/ ClearReview(i)
       \/ \E c \in Cents : Repull(i, c) \/ \E r \in Rates : ReviewTransaction(i, c, r)

PoolSpec == PoolInit /\ [][PoolNext]_poolVars

--------------------------------------------------------------------------------
(* The parts of a pool add up to its rounded total to the cent, credits and *)
(* reversals included (engine.py: "the parts sum EXACTLY to the pool        *)
(* total").  No line is a cent or more away from its exact share, and one   *)
(* whose share is a whole number of cents gets just that: the odd cents     *)
(* never go to a line with nothing to round.                                *)
PoolSplitsFairly ==
  LET parts == LargestRemainder
      Off(i) == Million * parts[i] - Exact(i)
  IN  /\ Total(LAMBDA i : parts[i], Plain) = Target
      /\ \A i \in Plain : -Million < Off(i) /\ Off(i) < Million

(* What the entry moves to COGS in the ledger, once the queue has           *)
(* normalized it, is the total of the allocation, with credits among the    *)
(* lines as well.                                                           *)
EntryMovesTotal ==
  LET parts == Capitalized
      total == Total(LAMBDA i : parts[i], Pooled)
  IN  total > 0 => Moved(ReclassEntry(parts)) = total
================================================================================
