------------------------------- MODULE ReconDrawer -------------------------------
(***************************************************************************)
(* One account in the drawer of the reconciliations page: the entries the  *)
(* user ticks, the figures previewed at once in the cached overview, and   *)
(* the autosave that posts the items half a second later.                  *)
(*                                                                         *)
(* Saved items are the ticked entries and, once the period's entries have  *)
(* loaded, the others as open items.  The balance saved with them is the   *)
(* opening plus the ticked entries, and stands as the set of these.  The   *)
(* account has no schedule of its own.                                     *)
(*                                                                         *)
(* The timer of the autosave is set again on every render while the items  *)
(* of the form differ from the cached ones, and cleared when the form goes *)
(* or locks: it has no state of its own, and fires in any state in which   *)
(* they differ, also while an earlier save is still on its way.            *)
(***************************************************************************)
EXTENDS Naturals

CONSTANTS
  Entries,        (* the general-ledger entries of the account's period     *)
  MaxTicks,       (* bound: entries ticked and unticked                     *)
  MaxSaves,       (* bound: posts of the items                              *)
  MaxMarks,       (* bound: changes of the status                           *)
  MaxGets         (* bound: fetches of the overview                         *)

Limit == [tick |-> MaxTicks, save |-> MaxSaves, mark |-> MaxMarks, get |-> MaxGets]
Counted == DOMAIN Limit

ASSUME DrawerAssumption == Limit \in [Counted -> Nat]

VARIABLES
  row,            (* the row in the database                                *)
  cache,          (* the row in the cached overview                         *)
  drawerOpen,     (* the drawer shows the account                           *)
  known,          (* the form's queries that have answered                  *)
  ticks,          (* the entries ticked in the form                         *)
  save,           (* save[s]: the s-th post of the items                    *)
  mark,           (* the post of a status, with the row it restores         *)
  get,            (* the fetch of the overview                              *)
  used,           (* used[k]: how often that was done so far                *)
  overtaken       (* history: an answer put into the cache what the         *)
                  (* database no longer held, or none came for a save       *)

drawerVars == <<row, cache, drawerOpen, known, ticks, save, mark, get, used, overtaken>>

NoItems == [cleared |-> {}, open |-> {}]

NewRow == [items |-> NoItems, manual |-> FALSE, total |-> {}, st |-> "pending"]

SavedWith(r, items) == [r EXCEPT !.items = items, !.manual = TRUE, !.total = items.cleared]
MarkedAs(r, to, wipe) == IF wipe THEN [NewRow EXCEPT !.st = to] ELSE [r EXCEPT !.st = to]

NoSave == [st |-> "none", items |-> NoItems, keep |-> TRUE]
NoMark == [st |-> "none", to |-> "pending", wipe |-> FALSE, snap |-> NewRow]
NoGet == [st |-> "none", data |-> NewRow]

Editable(c) == c.st = "pending"

(* buildSavePayload: the ticked entries, and the others once they are here. *)
Payload(t, k) == [cleared |-> t, open |-> IF "entries" \in k THEN Entries \ t ELSE {}]

Differs == Payload(ticks, known) # cache.items

(* Defect: the preview patches the items as well as the balance.            *)
PreviewedWithItems(c, t, k) ==
  IF Editable(c) /\ "schedule" \in k /\ Payload(t, k) # c.items
  THEN SavedWith(c, Payload(t, k)) ELSE c

(* The effect of the preview, run after a change of what it depends on.     *)
Previewed(c, t, k) ==
  IF Editable(c) /\ "schedule" \in k /\ Payload(t, k) # c.items
  THEN [c EXCEPT !.manual = TRUE, !.total = t] ELSE c

(* The cached row becomes c: the form is painted again, with the ticks of   *)
(* the row when its status has changed.                                     *)
Painted(c) ==
  LET t == IF drawerOpen /\ c.st # cache.st THEN c.items.cleared ELSE ticks
  IN  /\ ticks' = t
      /\ cache' = IF drawerOpen THEN Previewed(c, t, known) ELSE c

Counts(kinds) ==
  /\ \A k \in kinds : used[k] < Limit[k]
  /\ used' = [k \in Counted |-> IF k \in kinds THEN used[k] + 1 ELSE used[k]]

Overtaken(items) == overtaken' = (overtaken \/ items # row.items)

--------------------------------------------------------------------------------
(* The form.                                                                *)

OpenDrawer ==
  /\ ~drawerOpen
  /\ drawerOpen' = TRUE
  /\ \E k \in SUBSET {"schedule", "entries"} :
       /\ known' = k
       /\ ticks' = cache.items.cleared
       /\ cache' = Previewed(cache, cache.items.cleared, k)
  /\ UNCHANGED <<row, save, mark, get, used, overtaken>>

CloseDrawer ==
  /\ drawerOpen
  /\ drawerOpen' = FALSE /\ known' = {} /\ ticks' = {}
  /\ UNCHANGED <<row, cache, save, mark, get, used, overtaken>>

ScheduleKnown ==
  /\ drawerOpen /\ "schedule" \notin known
  /\ known' = known \cup {"schedule"}
  /\ cache' = Previewed(cache, ticks, known')
  /\ UNCHANGED <<row, drawerOpen, ticks, save, mark, get, used, overtaken>>

(* The preview does not depend on the entries, the autosave does.           *)
EntriesKnown ==
  /\ drawerOpen /\ "entries" \notin known
  /\ known' = known \cup {"entries"}
  /\ UNCHANGED <<row, cache, drawerOpen, ticks, save, mark, get, used, overtaken>>

(* toggleItem.                                                              *)
Toggle(e) ==
  /\ drawerOpen /\ Editable(cache) /\ "entries" \in known
  /\ Counts({"tick"})
  /\ ticks' = IF e \in ticks THEN ticks \ {e} ELSE ticks \cup {e}
  /\ cache' = Previewed(cache, ticks', known)
  /\ UNCHANGED <<row, drawerOpen, known, save, mark, get, overtaken>>

--------------------------------------------------------------------------------
(* Saving.                                                                  *)

Saves == 1..MaxSaves

Post(posted, keep) ==
  save' = [save EXCEPT ![used.save + 1] = [st |-> "sent", items |-> posted, keep |-> keep]]

(* The timer fires.                                                         *)
AutoSave ==
  /\ drawerOpen /\ Editable(cache) /\ "schedule" \in known
  /\ Differs
  /\ Counts({"save"}) /\ Post(Payload(ticks, known), TRUE)
  /\ UNCHANGED <<row, cache, drawerOpen, known, ticks, mark, get, overtaken>>

(* set_account_subledger_override, in whatever order the posts arrive.      *)
ServeSave(s) ==
  /\ save[s].st = "sent"
  /\ row' = SavedWith(row, save[s].items)
  /\ save' = [save EXCEPT ![s].st = "served"]
  /\ UNCHANGED <<cache, drawerOpen, known, ticks, mark, get, used, overtaken>>

(* onSuccess paints what was posted; an explicit save closes the drawer.    *)
SaveLands(s) ==
  /\ save[s].st = "served"
  /\ save' = [save EXCEPT ![s] = NoSave]
  /\ LET c == SavedWith(cache, save[s].items)
     IN  IF save[s].keep
         THEN Painted(c) /\ UNCHANGED <<drawerOpen, known>>
         ELSE cache' = c /\ drawerOpen' = FALSE /\ known' = {} /\ ticks' = {}
  /\ Overtaken(save[s].items)
  /\ UNCHANGED <<row, mark, get, used>>

(* There is no onError.  A save that was carried out may be told as failed. *)
SaveFails(s) ==
  /\ save[s].st # "none"
  /\ save' = [save EXCEPT ![s] = NoSave]
  /\ overtaken' = (overtaken \/ save[s].st = "served")
  /\ UNCHANGED <<row, cache, drawerOpen, known, ticks, mark, get, used>>

--------------------------------------------------------------------------------
(* The status, flipped here or from the row's menu.                         *)

(* setStatusMut, one at a time: onMutate patches the row and keeps it to    *)
(* restore.  Back to pending, the work is kept or wiped.  That onMutate     *)
(* waits for the cancelled fetch before it patches is left out, and so are  *)
(* flagged, approved and closed rows, which lock the form as reviewed does. *)
Mark(to, wipe) ==
  /\ mark.st = "none" /\ cache.st # to
  /\ wipe => to = "pending"
  /\ Counts({"mark"})
  /\ mark' = [st |-> "sent", to |-> to, wipe |-> wipe, snap |-> cache]
  /\ get' = NoGet
  /\ Painted(MarkedAs(cache, to, wipe))
  /\ UNCHANGED <<row, drawerOpen, known, save, overtaken>>

(* The form is submitted: the ticked entries are posted, without the open   *)
(* items, and then the status.                                              *)
SaveAndMark ==
  /\ drawerOpen /\ Editable(cache)
  /\ Counts({"save", "mark"}) /\ Post([cleared |-> ticks, open |-> {}], FALSE)
  /\ mark.st = "none"
  /\ mark' = [st |-> "sent", to |-> "reviewed", wipe |-> FALSE, snap |-> cache]
  /\ get' = NoGet
  /\ Painted([cache EXCEPT !.st = "reviewed"])
  /\ UNCHANGED <<row, drawerOpen, known, overtaken>>

ServeMark ==
  /\ mark.st = "sent"
  /\ row' = MarkedAs(row, mark.to, mark.wipe)
  /\ mark' = [mark EXCEPT !.st = "served"]
  /\ UNCHANGED <<cache, drawerOpen, known, ticks, save, get, used, overtaken>>

MarkLands ==
  /\ mark.st = "served"
  /\ mark' = NoMark
  /\ overtaken' = (overtaken \/ (mark.wipe /\ cache.items # row.items))
  /\ UNCHANGED <<row, cache, drawerOpen, known, ticks, save, get, used>>

(* onError restores the whole row, with what was saved since.               *)
MarkFails ==
  /\ mark.st # "none"
  /\ Painted(mark.snap)
  /\ Overtaken(mark.snap.items)
  /\ mark' = NoMark
  /\ UNCHANGED <<row, drawerOpen, known, save, get, used>>

--------------------------------------------------------------------------------
(* The overview.                                                            *)

GetOverview ==
  /\ get.st = "none"
  /\ Counts({"get"})
  /\ get' = [st |-> "asked", data |-> NewRow]
  /\ UNCHANGED <<row, cache, drawerOpen, known, ticks, save, mark, overtaken>>

ReadOverview ==
  /\ get.st = "asked"
  /\ get' = [st |-> "read", data |-> row]
  /\ UNCHANGED <<row, cache, drawerOpen, known, ticks, save, mark, used, overtaken>>

OverviewLands ==
  /\ get.st = "read"
  /\ Painted(get.data)
  /\ Overtaken(get.data.items)
  /\ get' = NoGet
  /\ UNCHANGED <<row, drawerOpen, known, save, mark, used>>

--------------------------------------------------------------------------------
(* A row nobody has touched, or one whose items were saved and reviewed.    *)
DrawerInit ==
  /\ row \in {NewRow} \cup
       {MarkedAs(SavedWith(NewRow, [cleared |-> t, open |-> Entries \ t]), "reviewed", FALSE) :
          t \in SUBSET Entries}
  /\ cache = row
  /\ drawerOpen = FALSE /\ known = {} /\ ticks = {}
  /\ save = [s \in Saves |-> NoSave]
  /\ mark = NoMark
  /\ get = NoGet
  /\ used = [k \in Counted |-> 0]
  /\ overtaken = FALSE

DrawerNext ==
  \/ OpenDrawer \/ CloseDrawer \/ ScheduleKnown \/ EntriesKnown
  \/ \E e \in Entries : Toggle(e)
  \/ AutoSave \/ SaveAndMark
  \/ \E s \in Saves : ServeSave(s) \/ SaveLands(s) \/ SaveFails(s)
  \/ \E to \in {"pending", "reviewed"}, wipe \in BOOLEAN : Mark(to, wipe)
  \/ ServeMark \/ MarkLands \/ MarkFails
  \/ GetOverview \/ ReadOverview \/ OverviewLands

DrawerSpec == DrawerInit /\ [][DrawerNext]_drawerVars

--------------------------------------------------------------------------------
(* Properties.                                                              *)

Saving == \E s \in Saves : save[s].st # "none"

(* "the real persist still fires a beat later": in an open, editable form   *)
(* with no save armed or under way, every tick is in the database, unless   *)
(* an answer was overtaken or lost.                                         *)
NothingLeftUnsaved ==
  drawerOpen /\ Editable(cache) /\ "schedule" \in known /\ ~Differs /\ ~Saving
    /\ mark.st = "none" /\ ~overtaken
    => row.items.cleared = ticks

(* "merely OPENING the drawer never flips a row": a pending row of which    *)
(* nothing was ever ticked or marked has no manual balance.                 *)
OpeningFlipsNothing ==
  row.st = "pending" /\ used.tick = 0 /\ used.mark = 0 => ~row.manual
================================================================================
