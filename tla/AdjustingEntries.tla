---------------------------- MODULE AdjustingEntries ----------------------------
(***************************************************************************)
(* The queue of proposed adjusting entries of one month, one request at a  *)
(* time.                                                                   *)
(*                                                                         *)
(* Producers draft entries (bank matching, the agents, the assistant, risk *)
(* findings); members edit, approve, dismiss and save them as a batch; a   *)
(* person books them in QuickBooks by hand, and the posting check looks    *)
(* for them there.  Once every saved entry is in the books, the            *)
(* reconciliations and flux analyses of the accounts they touch start      *)
(* over.                                                                   *)
(*                                                                         *)
(* An entry's lines are the set of accounts they touch; amounts, memos,    *)
(* stamps and the evidence of a posting decide nothing and are left out.   *)
(***************************************************************************)
EXTENDS FiniteSets

CONSTANTS
  Rows,           (* bound: the rows of proposed_entries                    *)
  Accounts,
  Drafts,         (* the lines a draft may have: nonempty sets of accounts  *)
  Producers,      (* origins whose open drafts are replaced at every run    *)
  BankPulls,      (* those of them that do not ask whether the month is open *)
  Filers,         (* origins that file one entry each: findings, threads    *)
  Users,
  Role,           (* Role[u]: "preparer", "reviewer" or "admin"             *)
  None            (* SQL NULL                                               *)

ASSUME EntriesAssumption ==
  /\ Drafts \subseteq SUBSET Accounts \ {{}}
  /\ BankPulls \subseteq Producers
  /\ Producers \cap Filers = {}
  /\ Role \in [Users -> {"preparer", "reviewer", "admin"}]
  /\ None \notin Users
  /\ None \notin Producers \cup Filers

VARIABLES
  entry,          (* entry[e]: a row of proposed_entries                    *)
  booked,         (* the lines of the journal entries in QuickBooks         *)
  worked,         (* accounts whose reconciliation or flux is not pending   *)
  closed          (* the month is locked                                    *)

entryVars == <<entry, booked, worked, closed>>

Origins == Producers \cup Filers
Statuses == {"none", "open", "accepted", "posted", "dismissed"}

Entry == [status : Statuses, origin : Origins \cup {None}, lines : Drafts \cup {{}},
          prep : Users \cup {None}, appr : Users \cup {None}, saved : BOOLEAN]

NoEntry == [status |-> "none", origin |-> None, lines |-> {},
            prep |-> None, appr |-> None, saved |-> FALSE]

Draft(o, d) == [NoEntry EXCEPT !.status = "open", !.origin = o, !.lines = d]

Exists(e) == entry[e].status # "none"
IsReviewer(u) == Role[u] \in {"reviewer", "admin"}
IsAdmin(u) == Role[u] = "admin"

--------------------------------------------------------------------------------
(* Producers.                                                               *)

(* The rows a run of producer o may write: its open drafts and new ones.    *)
Replaceable(o) ==
  {e \in Rows : ~Exists(e) \/ (entry[e].status = "open" /\ entry[e].origin = o)}

Regenerate(o) ==
  /\ closed => o \in BankPulls
  /\ \E new \in SUBSET Replaceable(o) : \E lines \in [new -> Drafts] :
       entry' = [e \in Rows |-> IF e \in new THEN Draft(o, lines[e])
                                ELSE IF e \in Replaceable(o) THEN NoEntry
                                ELSE entry[e]]
  /\ UNCHANGED <<booked, worked, closed>>

(* One new row for each origin of F, at[o] being the row of o.              *)
FileAt(F, at, lines) ==
  /\ \A o \in F : ~Exists(at[o])
  /\ \A o, q \in F : at[o] = at[q] => o = q
  /\ entry' = [e \in Rows |-> IF \E o \in F : at[o] = e
                              THEN LET o == CHOOSE q \in F : at[q] = e IN Draft(o, lines[o])
                              ELSE entry[e]]
  /\ UNCHANGED <<booked, worked, closed>>

File(F) == \E at \in [F -> Rows], lines \in [F -> Drafts] : FileAt(F, at, lines)

--------------------------------------------------------------------------------
(* Members.                                                                 *)

BlocksSelfApproval(prep, u) == prep = u /\ ~IsAdmin(u)

(* The status the entry is in is not looked at.                             *)
Accept(u, e) ==
  /\ Exists(e)
  /\ ~closed
  /\ IsReviewer(u)
  /\ ~BlocksSelfApproval(entry[e].prep, u)
  /\ entry' = [entry EXCEPT ![e].status = "accepted", ![e].appr = u]
  /\ UNCHANGED <<booked, worked, closed>>

Dismiss(u, e) ==
  /\ Exists(e)
  /\ ~closed
  /\ IsReviewer(u)
  /\ ~entry[e].saved
  /\ entry' = [entry EXCEPT ![e].status = "dismissed"]
  /\ UNCHANGED <<booked, worked, closed>>

MarkPosted(u, e) ==
  /\ Exists(e)
  /\ ~closed
  /\ IsReviewer(u)
  /\ entry' = [entry EXCEPT ![e].status = "posted"]
  /\ UNCHANGED <<booked, worked, closed>>

(* Defect: the approval is not withdrawn.                                   *)
ReopenApproved(u, e) ==
  /\ entry[e].status = "accepted"
  /\ ~closed
  /\ IsReviewer(u)
  /\ entry' = [entry EXCEPT ![e].status = "open", ![e].saved = FALSE]
  /\ UNCHANGED <<booked, worked, closed>>

Reopen(u, e) ==
  /\ entry[e].status = "accepted"
  /\ ~closed
  /\ IsReviewer(u)
  /\ entry' = [entry EXCEPT ![e].status = "open", ![e].appr = None, ![e].saved = FALSE]
  /\ UNCHANGED <<booked, worked, closed>>

(* Whoever edits becomes the maker, also when only the memo changes.        *)
Edit(u, e, d) ==
  /\ entry[e].status = "open"
  /\ ~closed
  /\ entry' = [entry EXCEPT ![e].lines = d, ![e].prep = u]
  /\ UNCHANGED <<booked, worked, closed>>

Active == {e \in Rows : entry[e].status \notin {"none", "dismissed"}}

(* Defect: a batch with open entries in it is saved.                        *)
SaveUnreviewed(u) ==
  /\ ~closed
  /\ IsReviewer(u)
  /\ Active # {}
  /\ entry' = [e \in Rows |-> IF e \in Active THEN [entry[e] EXCEPT !.saved = TRUE]
                              ELSE entry[e]]
  /\ UNCHANGED <<booked, worked, closed>>

SaveBatch(u) ==
  /\ ~closed
  /\ IsReviewer(u)
  /\ Active # {}
  /\ \A e \in Active : entry[e].status # "open"
  /\ entry' = [e \in Rows |-> IF e \in Active THEN [entry[e] EXCEPT !.saved = TRUE]
                              ELSE entry[e]]
  /\ UNCHANGED <<booked, worked, closed>>

--------------------------------------------------------------------------------
(* QuickBooks, and what is found there.                                     *)

(* A journal entry is booked, or changed or removed again, by hand.         *)
Book(d) == booked' = booked \cup {d} /\ UNCHANGED <<entry, worked, closed>>
Unbook(d) == d \in booked /\ booked' = booked \ {d} /\ UNCHANGED <<entry, worked, closed>>

Saved == {e \in Rows : entry[e].saved}

(* Some journal entry has all its lines; several entries may find the same. *)
Found(e) == \E je \in booked : entry[e].lines \subseteq je

Detected(e) == e \in Saved /\ Found(e)

(* What a person marked as posted counts as posted.                         *)
AllPosted == \A e \in Saved : Found(e) \/ entry[e].status = "posted"

Affected == UNION {entry[e].lines : e \in Saved}

(* Defects: it runs on a closed month; it starts over at the first match.   *)
CheckPostedLate ==
  /\ Saved # {}
  /\ entry' = [e \in Rows |-> IF Detected(e) THEN [entry[e] EXCEPT !.status = "posted"]
                              ELSE entry[e]]
  /\ worked' = IF AllPosted THEN worked \ Affected ELSE worked
  /\ UNCHANGED <<booked, closed>>

CheckPostedEarly ==
  /\ ~closed
  /\ Saved # {}
  /\ entry' = [e \in Rows |-> IF Detected(e) THEN [entry[e] EXCEPT !.status = "posted"]
                              ELSE entry[e]]
  /\ worked' = IF \E e \in Saved : Found(e) THEN worked \ Affected ELSE worked
  /\ UNCHANGED <<booked, closed>>

(* Every click that finds everything posted starts the accounts over, also  *)
(* when they were redone since the last one.                                *)
CheckPosted ==
  /\ ~closed
  /\ Saved # {}
  /\ entry' = [e \in Rows |-> IF Detected(e) THEN [entry[e] EXCEPT !.status = "posted"]
                              ELSE entry[e]]
  /\ worked' = IF AllPosted THEN worked \ Affected ELSE worked
  /\ UNCHANGED <<booked, closed>>

(* The reconciliation or the flux analysis of account a is worked on.       *)
Work(a) == ~closed /\ worked' = worked \cup {a} /\ UNCHANGED <<entry, booked, closed>>

(* Nothing in the close gate reads the queue.                               *)
Lock == ~closed /\ closed' = TRUE /\ UNCHANGED <<entry, booked, worked>>
Unlock == closed /\ closed' = FALSE /\ UNCHANGED <<entry, booked, worked>>

--------------------------------------------------------------------------------
EntryInit ==
  /\ entry = [e \in Rows |-> NoEntry]
  /\ booked = {}
  /\ worked = {}
  /\ closed = FALSE

MemberStep(u) ==
  \/ SaveBatch(u)
  \/ \E e \in Rows :
       \/ Accept(u, e) \/ Dismiss(u, e) \/ MarkPosted(u, e) \/ Reopen(u, e)
       \/ \E d \in Drafts : Edit(u, e, d)

EntryStep ==
  \/ \E o \in Producers : Regenerate(o)
  \/ \E u \in Users : MemberStep(u)
  \/ \E d \in Drafts : Book(d) \/ Unbook(d)
  \/ CheckPosted
  \/ \E a \in Accounts : Work(a)
  \/ Lock
  \/ Unlock

EntryNext == EntryStep \/ \E F \in SUBSET Filers : File(F)

EntrySpec == EntryInit /\ [][EntryNext]_entryVars

--------------------------------------------------------------------------------
(* Properties.                                                              *)

(* Type correctness.                                                        *)
EntryTypeOK ==
  /\ entry \in [Rows -> Entry]
  /\ booked \subseteq Drafts
  /\ worked \subseteq Accounts
  /\ closed \in BOOLEAN

(* "whoever edits the account can't self-approve (admins bypass)": over any *)
(* sequence of edits, approvals, postings and reopenings, the approver an   *)
(* entry names is a reviewer, and its maker only if an admin.               *)
MakerIsNotApprover ==
  \A e \in Rows : entry[e].appr # None =>
    /\ IsReviewer(entry[e].appr)
    /\ entry[e].appr = entry[e].prep => IsAdmin(entry[e].appr)

(* The "never delete / saved" guarantee: an entry in the saved batch is     *)
(* reviewed, keeps its lines and maker, and leaves the batch only when a    *)
(* reviewer reopens it.  Neither editing nor regenerating looks at saved_at. *)
SavedStaysLocked ==
  [][\A e \in Rows : entry[e].saved =>
       /\ entry[e].status \in {"accepted", "posted"}
       /\ entry'[e].lines = entry[e].lines /\ entry'[e].prep = entry[e].prep
       /\ ~entry'[e].saved => entry[e].status = "accepted" /\ entry'[e].status = "open"]_entryVars

(* While the month is locked no decision moves, though bank pulls and the   *)
(* assistant go on drafting entries for it.                                 *)
ClosedDecisionsStay ==
  [][closed /\ closed' =>
       \A e \in Rows : entry[e].status \notin {"none", "open"} => entry'[e] = entry[e]]_entryVars

(* Work on an account is thrown away only for an entry of the batch that    *)
(* touches it, and only when all of the batch is posted.                    *)
StartedOverWhenPosted ==
  [][\A a \in worked \ worked' :
       /\ \A e \in Saved : entry'[e].status = "posted"
       /\ \E e \in Saved : a \in entry[e].lines]_entryVars
================================================================================
