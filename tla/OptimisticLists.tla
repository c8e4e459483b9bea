----------------------------- MODULE OptimisticLists -----------------------------
(***************************************************************************)
(* A list in the browser's query cache and the edits that repaint it       *)
(* before the server has answered: schedule items, proposed entries,       *)
(* tasks, variances, reconciliation rows.  Every page runs the same three  *)
(* callbacks: onMutate cancels the fetch under way, takes a snapshot and   *)
(* patches; onError restores the snapshot; onSettled (on some pages        *)
(* onSuccess, on others nothing) asks for the list again.                  *)
(*                                                                         *)
(* A list is the set of rows that carry the mark an edit sets or takes     *)
(* away.  An edit of several rows fails when the server refused them all;  *)
(* a batch endpoint may also answer that it skipped some, or all.          *)
(***************************************************************************)
EXTENDS Naturals

CONSTANTS
  ListRows,       (* the rows of the list                                   *)
  Edits,          (* mutations, each run once                               *)
  RefetchOn       (* the outcomes after which the page asks for the list    *)

ASSUME ListAssumption == RefetchOn \subseteq {"done", "failed"}

VARIABLES
  truth,          (* the list in the database                               *)
  shown,          (* the list in the cache                                  *)
  edit,           (* edit[e]: where mutation e stands                       *)
  fetch,          (* the GET of the list                                    *)
  late,           (* writes whose connection is gone and that still run     *)
  behind          (* nothing will tell the list of a write it has missed    *)

listVars == <<truth, shown, edit, fetch, late, behind>>

Idle == [st |-> "idle", rows |-> {}, on |-> FALSE, snap |-> {}, outcome |-> "none"]
NoFetch == [st |-> "none", data |-> {}]
Asked == [st |-> "asked", data |-> {}]

Patched(list, rows, on) == IF on THEN list \cup rows ELSE list \ rows

--------------------------------------------------------------------------------
(* A mutation.                                                              *)

(* onMutate cancels the fetch and waits for that: another may start and     *)
(* land before the patch.                                                   *)
BeginEdit(e) ==
  /\ edit[e].st = "idle"
  /\ \E rows \in SUBSET ListRows \ {{}}, on \in BOOLEAN :
       edit' = [edit EXCEPT ![e] = [@ EXCEPT !.st = "begun", !.rows = rows, !.on = on]]
  /\ fetch' = NoFetch
  /\ UNCHANGED <<truth, shown, late, behind>>

PatchList(e) ==
  /\ edit[e].st = "begun"
  /\ edit' = [edit EXCEPT ![e].st = "sent", ![e].snap = shown]
  /\ shown' = Patched(shown, edit[e].rows, edit[e].on)
  /\ UNCHANGED <<truth, fetch, late, behind>>

(* The server takes some of the rows and refuses or skips the others.       *)
ServeEdit(e) ==
  /\ edit[e].st = "sent"
  /\ \E taken \in SUBSET edit[e].rows :
       /\ truth' = Patched(truth, taken, edit[e].on)
       /\ \E o \in IF taken = {} THEN {"done", "failed"} ELSE {"done"} :
            edit' = [edit EXCEPT ![e].st = "answered", ![e].outcome = o]
  /\ UNCHANGED <<shown, fetch, late, behind>>

(* The connection drops: after the write, with the write still to run, or   *)
(* without it.                                                              *)
DropEdit(e) ==
  /\ edit[e].st = "sent"
  /\ edit' = [edit EXCEPT ![e].st = "answered", ![e].outcome = "failed"]
  /\ \/ truth' = Patched(truth, edit[e].rows, edit[e].on) /\ UNCHANGED late
     \/ late' = late \cup {[rows |-> edit[e].rows, on |-> edit[e].on]} /\ UNCHANGED truth
     \/ UNCHANGED <<truth, late>>
  /\ UNCHANGED <<shown, fetch, behind>>

ServeLate ==
  \E w \in late :
    /\ late' = late \ {w}
    /\ truth' = Patched(truth, w.rows, w.on)
    /\ behind' = TRUE
    /\ UNCHANGED <<shown, edit, fetch>>

Restored(e) == IF edit[e].outcome = "failed" THEN edit[e].snap ELSE shown

(* Defect: a fetch already under way is left to answer for the new one.     *)
SettleJoining(e) ==
  /\ edit[e].st = "answered"
  /\ shown' = Restored(e)
  /\ edit' = [edit EXCEPT ![e] = [Idle EXCEPT !.st = "over"]]
  /\ fetch' = IF edit[e].outcome \in RefetchOn /\ fetch.st = "none" THEN Asked ELSE fetch
  /\ UNCHANGED <<truth, late, behind>>

(* Defect: the list is asked for again only when the edit succeeded.        *)
SettleOnSuccess(e) ==
  /\ edit[e].st = "answered"
  /\ shown' = Restored(e)
  /\ edit' = [edit EXCEPT ![e] = [Idle EXCEPT !.st = "over"]]
  /\ fetch' = IF edit[e].outcome = "done" THEN Asked ELSE fetch
  /\ UNCHANGED <<truth, late, behind>>

(* onError and onSettled: an invalidation cancels the fetch under way.      *)
Settle(e) ==
  /\ edit[e].st = "answered"
  /\ shown' = Restored(e)
  /\ edit' = [edit EXCEPT ![e] = [Idle EXCEPT !.st = "over"]]
  /\ fetch' = IF edit[e].outcome \in RefetchOn THEN Asked ELSE fetch
  /\ UNCHANGED <<truth, late, behind>>

--------------------------------------------------------------------------------
(* The list.                                                                *)

(* A mount after the minute, a reconnect, an invalidation by another page.  *)
Refetch ==
  /\ fetch.st = "none"
  /\ fetch' = Asked
  /\ UNCHANGED <<truth, shown, edit, late, behind>>

ReadList ==
  /\ fetch.st = "asked"
  /\ fetch' = [st |-> "read", data |-> truth]
  /\ behind' = FALSE
  /\ UNCHANGED <<truth, shown, edit, late>>

FetchLands ==
  /\ fetch.st = "read"
  /\ shown' = fetch.data
  /\ fetch' = NoFetch
  /\ UNCHANGED <<truth, edit, late, behind>>

(* The two retries of a query are used up.                                  *)
FetchFails ==
  /\ fetch.st # "none"
  /\ fetch' = NoFetch
  /\ behind' = TRUE
  /\ UNCHANGED <<truth, shown, edit, late>>

--------------------------------------------------------------------------------
ListInit ==
  /\ truth \in SUBSET ListRows /\ shown = truth
  /\ edit = [e \in Edits |-> Idle]
  /\ fetch = NoFetch
  /\ late = {}
  /\ behind = FALSE

ListNext ==
  \/ \E e \in Edits : BeginEdit(e) \/ PatchList(e) \/ ServeEdit(e) \/ DropEdit(e) \/ Settle(e)
  \/ ServeLate
  \/ Refetch \/ ReadList \/ FetchLands \/ FetchFails

ListSpec == ListInit /\ [][ListNext]_listVars

--------------------------------------------------------------------------------
(* Properties.                                                              *)

AtRest == fetch.st = "none" /\ \A e \in Edits : edit[e].st \in {"idle", "over"}

(* "reconcile with the server on settle (and roll back on error)": however  *)
(* overlapping edits patch, restore each other's snapshots and cancel each  *)
(* other's fetches, a list at rest shows what the server holds, unless the  *)
(* last fetch failed or a write ran after its connection was gone.          *)
SettledShowsServer == AtRest /\ ~behind => shown = truth
================================================================================
