------------------------------- MODULE BooksLock -------------------------------
(***************************************************************************)
(* What closing the books promises, and nothing about how it is enforced.  *)
(* Each accounting period has contents (balances, reconciliation rows,     *)
(* working papers).  While a period is open anybody may work on it.  It is *)
(* closed only over settled contents, and from then until it is reopened   *)
(* its contents do not change at all.  This is the contract                *)
(* models/closed_period.py states ("read-only") and the close gate         *)
(* guarantees ("close => every account ties").                             *)
(***************************************************************************)
CONSTANTS
  Periods,        (* the accounting periods of one workspace                *)
  Contents,       (* every value the contents of a period can take          *)
  Settled         (* the contents fit to be closed: approved and tied out   *)

VARIABLES
  books,          (* books[p]: the contents of period p                     *)
  closed          (* the periods that are locked                            *)

vars == <<books, closed>>

Init ==
  /\ books \in [Periods -> Contents]
  /\ closed = {}

(* Work in open periods, any number of them at once.                        *)
Work ==
  /\ books' \in [Periods -> Contents]
  /\ \A p \in closed : books'[p] = books[p]
  /\ UNCHANGED closed

(* Closing may put the finishing touches to the period it closes.           *)
Close(p) ==
  /\ p \notin closed
  /\ books' \in [Periods -> Contents]
  /\ \A q \in Periods \ {p} : books'[q] = books[q]
  /\ books'[p] \in Settled
  /\ closed' = closed \cup {p}

Reopen(p) ==
  /\ p \in closed
  /\ closed' = closed \ {p}
  /\ UNCHANGED books

Next ==
  \/ Work
  \/ \E p \in Periods : Close(p) \/ Reopen(p)

Spec == Init /\ [][Next]_vars
================================================================================
