------------------------------- MODULE CloseReview -------------------------------
(***************************************************************************)
(* The close review of one month: a run of the check battery replaces the  *)
(* open findings and keeps the decided ones, reviewers decide findings,    *)
(* and one of them signs the review off.  Requests overlap: each is a      *)
(* READ COMMITTED transaction that reads, works on the objects it loaded   *)
(* and commits, and the ORM writes back only the columns whose value       *)
(* differs from the value it loaded.                                       *)
(*                                                                         *)
(* A key is what the engine calls the stable key: the check and the        *)
(* account, or the journal entry.  What the checks raise is free and is    *)
(* chosen where the run uses it, at its commit.                            *)
(* Severities "review" and "info" are one here, since nothing counts them  *)
(* towards the sign-off.                                                   *)
(***************************************************************************)
EXTENDS Naturals, FiniteSets, NoneValue

CONSTANTS
  Workers,        (* requests that may be in progress at a time             *)
  Deciders,       (* those of them that may decide a finding                *)
  Decisions,      (* the decisions asked for, besides reopening             *)
  Reviewers,      (* members with the reviewer capability                   *)
  Keys,           (* stable keys the checks may raise                       *)
  Ids             (* finding rows; bounds how many exist at a time          *)

VARIABLES
  review,         (* the review row, or None before the first run           *)
  findings,       (* findings[i]: the committed row i, or None              *)
  job,            (* job[w]: the request worker w serves                    *)
  raced           (* two requests have overlapped                           *)

reviewVars == <<review, findings, job, raced>>

Severities == {"high", "review"}
Actions == Decisions \cup {"reopen"}
Statuses == {"open", "cleared", "actioned", "accepted"}

(* A note is known by the reviewer who wrote it.                            *)
Notes == Reviewers \cup {None}

Review == [status : {"open", "signed_off"}, high : 0..Cardinality(Ids), by : Notes]
Row == [key : Keys, sev : Severities, status : Statuses, note : Notes]

ASSUME ReviewAssumption ==
  /\ None \notin Reviewers
  /\ Deciders \subseteq Workers
  /\ Decisions \subseteq {"clear", "action", "accept"}
  /\ None \notin Review \cup Row
  /\ None \notin {"high", "review", "open", "cleared", "actioned", "accepted", "signed_off"}
  /\ IsFiniteSet(Ids)

Idle == [op |-> "idle"]
RunJob == [op : {"run"}, at : {"read", "deleting", "deleted"},
           loaded : Review \cup {None}, kept : SUBSET Keys, doomed : SUBSET Ids]
ActJob == [op : {"act"}, at : {"read", "held"}, id : Ids, loaded : Row,
           to : Statuses, note : Notes, was : Review \cup {None}, high : 0..Cardinality(Ids)]
SignJob == [op : {"sign"}, loaded : Review, by : Reviewers]

ReviewTypeOK ==
  /\ review \in Review \cup {None}
  /\ findings \in [Ids -> Row \cup {None}]
  /\ job \in [Workers -> {Idle} \cup RunJob \cup ActJob \cup SignJob]
  /\ raced \in BOOLEAN

ReviewInit ==
  /\ review = None
  /\ findings = [i \in Ids |-> None]
  /\ job = [w \in Workers |-> Idle]
  /\ raced = FALSE

--------------------------------------------------------------------------------
Present(f) == {i \in Ids : f[i] # None}
IsOpen(f, i) == f[i] # None /\ f[i].status = "open"
Decided(f, i) == f[i] # None /\ f[i].status # "open"
OpenHigh(f) == {i \in Ids : IsOpen(f, i) /\ f[i].sev = "high"}

(* The column as the flush leaves it: written only when it was changed.     *)
Written(loaded, new, stored) == IF new = loaded THEN stored ELSE new

(* The row locks of an open transaction.                                    *)
Held(w) == CASE job[w].op = "run" -> IF job[w].at = "deleted" THEN job[w].doomed ELSE {}
             [] job[w].op = "act" -> IF job[w].at = "held" THEN {job[w].id} ELSE {}
             [] OTHER -> {}

HeldByOthers(w) == UNION {Held(v) : v \in Workers \ {w}}

(* Ids for the rows a run inserts: new to the table and to every request in *)
(* progress.  The model hands out those the run deletes again.              *)
Known(v) == CASE job[v].op = "run" -> job[v].doomed
              [] job[v].op = "act" -> {job[v].id}
              [] OTHER -> {}
Free(w) == {i \in Ids : /\ findings[i] = None \/ i \in job[w].doomed
                        /\ \A v \in Workers \ {w} : i \notin Known(v)}

(* Setting a high finding aside needs a reason; reopening never does.       *)
ReasonMissing(sev, action, note) ==
  sev = "high" /\ action \in {"clear", "accept"} /\ note = None

ToStatus(action) == CASE action = "clear" -> "cleared"
                      [] action = "action" -> "actioned"
                      [] action = "accept" -> "accepted"
                      [] OTHER -> "open"

Start(w, j) ==
  /\ job[w] = Idle
  /\ job' = [job EXCEPT ![w] = j]
  /\ raced' = (raced \/ \E v \in Workers : job[v] # Idle)

--------------------------------------------------------------------------------
(* run_close_review: the checks have been run; now the review row and the   *)
(* findings are read.  A second first run waits on the unique index and     *)
(* fails without effect, so it is left out.                                 *)
RunRead(w) ==
  /\ review = None => \A v \in Workers : job[v].op # "run"
  /\ Start(w, [op |-> "run", at |-> "read", loaded |-> review,
               kept |-> {findings[i].key : i \in {j \in Ids : Decided(findings, j)}},
               doomed |-> {}])
  /\ UNCHANGED <<review, findings>>

(* The DELETE takes its snapshot of the open rows ...                       *)
RunDelete(w) ==
  /\ job[w].op = "run" /\ job[w].at = "read"
  /\ job' = [job EXCEPT ![w].at = "deleting",
                        ![w].doomed = {i \in Ids : IsOpen(findings, i)}]
  /\ UNCHANGED <<review, findings, raced>>

(* Defect: the waiting DELETE does not look again.                          *)
RunDeletedBlind(w) ==
  /\ job[w].op = "run" /\ job[w].at = "deleting"
  /\ job[w].doomed \cap HeldByOthers(w) = {}
  /\ job' = [job EXCEPT ![w].at = "deleted"]
  /\ UNCHANGED <<review, findings, raced>>

(* ... waits for the rows others hold, and looks at each one again.         *)
RunDeleted(w) ==
  /\ job[w].op = "run" /\ job[w].at = "deleting"
  /\ job[w].doomed \cap HeldByOthers(w) = {}
  /\ job' = [job EXCEPT ![w].at = "deleted",
                        ![w].doomed = {i \in @ : IsOpen(findings, i)}]
  /\ UNCHANGED <<review, findings, raced>>

(* The rows of a run: what its checks raised, one severity per key, less    *)
(* what was decided when it read the findings.                              *)
Inserted(j, raised) == {k \in DOMAIN raised : k \notin j.kept}

Finding(k, sev) == [key |-> k, sev |-> sev, status |-> "open", note |-> None]

Replaced(j, raised, place) ==
  [i \in Ids |-> IF \E k \in Inserted(j, raised) : place[k] = i
                 THEN LET k == CHOOSE k \in Inserted(j, raised) : place[k] = i
                      IN  Finding(k, raised[k])
                 ELSE IF i \in j.doomed THEN None ELSE findings[i]]

(* Defect: the count covers what was decided already.                       *)
HighRaised(j, raised) == {k \in DOMAIN raised : raised[k] = "high"}

HighInserted(j, raised) == {k \in Inserted(j, raised) : raised[k] = "high"}

Reviewed(j, n) ==
  IF j.loaded = None THEN [status |-> "open", high |-> n, by |-> None]
  ELSE [status |-> Written(j.loaded.status, "open", review.status),
        high |-> Written(j.loaded.high, n, review.high),
        by |-> Written(j.loaded.by, None, review.by)]

RunCommit(w) ==
  LET j == job[w] IN
  /\ j.op = "run" /\ j.at = "deleted"
  /\ \E K \in SUBSET Keys : \E raised \in [K -> Severities] :
       /\ \E place \in [Inserted(j, raised) -> Free(w)] :
            /\ \A k, l \in Inserted(j, raised) : place[k] = place[l] => k = l
            /\ findings' = Replaced(j, raised, place)
       /\ review' = Reviewed(j, Cardinality(HighInserted(j, raised)))
  /\ job' = [job EXCEPT ![w] = Idle]
  /\ UNCHANGED raced

--------------------------------------------------------------------------------
(* act_on_finding loads the row ...                                         *)
ActRead(w, u, i, action, noted) ==
  LET note == IF noted THEN u ELSE None IN
  /\ w \in Deciders
  /\ findings[i] # None
  /\ ~ReasonMissing(findings[i].sev, action, note)
  /\ Start(w, [op |-> "act", at |-> "read", id |-> i, loaded |-> findings[i],
               to |-> ToStatus(action),
               note |-> IF action = "reopen" THEN None
                        ELSE IF noted THEN u ELSE findings[i].note,
               was |-> None, high |-> 0])
  /\ UNCHANGED <<review, findings>>

(* ... updates it, which keeps its lock, and counts the rows it can see,    *)
(* its own as it holds it in memory.                                        *)
ActUpdate(w) ==
  LET j == job[w] IN
  /\ j.op = "act" /\ j.at = "read"
  /\ j.id \notin HeldByOthers(w)
  /\ findings[j.id] # None
  /\ job' = [job EXCEPT ![w].at = "held", ![w].was = review,
               ![w].high = Cardinality(OpenHigh([findings EXCEPT
                             ![j.id] = [j.loaded EXCEPT !.status = j.to]]))]
  /\ UNCHANGED <<review, findings, raced>>

(* The row is gone: the update matches nothing and the request fails.       *)
ActGone(w) ==
  /\ job[w].op = "act" /\ job[w].at = "read"
  /\ job[w].id \notin HeldByOthers(w)
  /\ findings[job[w].id] = None
  /\ job' = [job EXCEPT ![w] = Idle]
  /\ UNCHANGED <<review, findings, raced>>

ActCommit(w) ==
  LET j == job[w] IN
  /\ j.op = "act" /\ j.at = "held"
  /\ findings' = [findings EXCEPT
       ![j.id].status = Written(j.loaded.status, j.to, @),
       ![j.id].note = Written(j.loaded.note, j.note, @)]
  /\ review' = [review EXCEPT !.high = Written(j.was.high, j.high, @)]
  /\ job' = [job EXCEPT ![w] = Idle]
  /\ UNCHANGED raced

--------------------------------------------------------------------------------
SignRead(w, u) ==
  /\ review # None
  /\ review.high = 0
  /\ Start(w, [op |-> "sign", loaded |-> review, by |-> u])
  /\ UNCHANGED <<review, findings>>

SignCommit(w) ==
  LET j == job[w] IN
  /\ j.op = "sign"
  /\ review' = [review EXCEPT !.status = Written(j.loaded.status, "signed_off", @),
                              !.by = Written(j.loaded.by, j.by, @)]
  /\ job' = [job EXCEPT ![w] = Idle]
  /\ UNCHANGED <<findings, raced>>

ReviewNext ==
  \E w \in Workers :
    \/ RunRead(w) \/ RunDelete(w) \/ RunDeleted(w) \/ RunCommit(w)
    \/ \E u \in Reviewers :
         \/ \E i \in Ids, a \in Actions, noted \in BOOLEAN : ActRead(w, u, i, a, noted)
         \/ SignRead(w, u)
    \/ ActUpdate(w) \/ ActGone(w) \/ ActCommit(w)
    \/ SignCommit(w)

ReviewSpec == ReviewInit /\ [][ReviewNext]_reviewVars

--------------------------------------------------------------------------------
Quiet == \A w \in Workers : job[w] = Idle

(* Only the reviewer's own request changes a decision: whatever a run       *)
(* deletes, inserts or waits for, and whoever overlaps it, no decided       *)
(* finding is lost or rewritten by it (engine.py: "keeps the reviewer's     *)
(* cleared / actioned / accepted decisions").                               *)
DecisionsKept ==
  [][\A i \in Ids : Decided(findings, i) /\ findings'[i] # findings[i] =>
       \E w \in Workers : job[w].op = "act" /\ job[w].id = i]_reviewVars

(* The count the sign-off trusts is the count of open high findings, as     *)
(* long as no two requests overlapped: runs and decisions keep it by        *)
(* different sums.                                                          *)
CountsHonest ==
  review # None /\ Quiet /\ ~raced => review.high = Cardinality(OpenHigh(findings))

================================================================================
