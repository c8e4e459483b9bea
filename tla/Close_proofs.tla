----------------------------- MODULE Close_proofs ------------------------------
(***************************************************************************)
(* Theorems of CloseReview and CloseChecklist, the two parts of the close  *)
(* that other members work on at the same time, for any number of          *)
(* requests, rows, keys, reviewers, steps and members.                     *)
(*                                                                         *)
(* The review: a run decides what to delete from the rows as they are when *)
(* it reaches them. That this is still right when it commits rests on the  *)
(* row locks: no two requests hold one row, and what a run holds stays     *)
(* open. The count of the review is right when requests do not overlap     *)
(* because the ids given to the inserted rows are a bijection from the     *)
(* high keys to the open high rows.                                        *)
(*                                                                         *)
(* The checklist: of an edit of a prerequisite in progress the invariant   *)
(* says that the template would be acyclic with it, which the walk found   *)
(* out when the edit was read, and that nothing leads to a key that is not *)
(* in use yet, so that the steps added meanwhile cannot close a circle.    *)
(***************************************************************************)
EXTENDS CloseReview, CloseChecklist, FiniteSetTheorems, TLAPS

(* The close review.                                                       *)

(* No row, no decision and no sign-off without a review.                    *)
RowsOfReview ==
  /\ \A i \in Ids : findings[i] # None => review \in Review
  /\ \A w \in Workers :
       /\ job[w].op \in {"act", "sign"} => review \in Review
       /\ job[w].op = "run" /\ job[w].loaded # None => review \in Review
       /\ job[w].op = "act" /\ job[w].at = "held" =>
            job[w].was \in Review /\ findings[job[w].id] \in Row

(* No two requests hold a row.                                              *)
LocksExclusive == \A v, w \in Workers : v # w => Held(v) \cap Held(w) = {}

(* What a run has looked at again and holds is open.                        *)
DoomedOpen ==
  \A w \in Workers : job[w].op = "run" /\ job[w].at = "deleted" =>
    \A i \in job[w].doomed : IsOpen(findings, i)

ReviewInv == ReviewTypeOK /\ RowsOfReview /\ LocksExclusive /\ DoomedOpen

Finite == IsFiniteSet(Ids) /\ Cardinality(Ids) \in Nat

--------------------------------------------------------------------------------
LEMMA IdsFinite == Finite
BY ReviewAssumption, FS_CardinalityType DEF Finite

(* A count of rows is a count the review row can hold.                      *)
LEMMA CountOfRows ==
  ASSUME NEW S \in SUBSET Ids
  PROVE  IsFiniteSet(S) /\ Cardinality(S) \in 0..Cardinality(Ids)
<1>1. IsFiniteSet(S) /\ Cardinality(S) <= Cardinality(Ids)
  BY IdsFinite, FS_Subset DEF Finite
<1>2. Cardinality(S) \in Nat
  BY <1>1, FS_CardinalityType
<1> QED BY <1>1, <1>2, IdsFinite DEF Finite

LEMMA HeldType == ReviewTypeOK => \A w \in Workers : Held(w) \in SUBSET Ids
<1> SUFFICES ASSUME ReviewTypeOK, NEW w \in Workers PROVE Held(w) \in SUBSET Ids
  OBVIOUS
<1>1. job[w] \in {Idle} \cup RunJob \cup ActJob \cup SignJob
  BY DEF ReviewTypeOK
<1>2. CASE job[w].op = "run"
  BY <1>1, <1>2 DEF Held, Idle, RunJob, ActJob, SignJob
<1>3. CASE job[w].op = "act"
  BY <1>1, <1>3 DEF Held, Idle, RunJob, ActJob, SignJob
<1>4. CASE job[w].op \notin {"run", "act"}
  BY <1>4 DEF Held
<1> QED BY <1>2, <1>3, <1>4

LEMMA JobKinds ==
  ASSUME ReviewTypeOK, NEW w \in Workers
  PROVE  /\ job[w].op = "run" => job[w] \in RunJob
         /\ job[w].op = "act" => job[w] \in ActJob
         /\ job[w].op = "sign" => job[w] \in SignJob
BY DEF ReviewTypeOK, Idle, RunJob, ActJob, SignJob

(* The rows a run inserts have each an id of its own, so they are no more   *)
(* than there are.                                                          *)
LEMMA InsertedCount ==
  ASSUME ReviewTypeOK, NEW w \in Workers, NEW I, NEW H \in SUBSET I,
         NEW place \in [I -> Free(w)], \A k, l \in I : place[k] = place[l] => k = l
  PROVE  Cardinality(H) \in 0..Cardinality(Ids)
<1>1. place \in Injection(I, Ids)
  BY DEF Injection, IsInjective, Free
<1>2. IsFiniteSet(I) /\ Cardinality(I) <= Cardinality(Ids)
  BY <1>1, IdsFinite, FS_Injection DEF Finite
<1>3. IsFiniteSet(H) /\ Cardinality(H) <= Cardinality(I)
  BY <1>2, FS_Subset
<1>4. Cardinality(H) \in Nat /\ Cardinality(I) \in Nat
  BY <1>2, <1>3, FS_CardinalityType
<1> QED BY <1>2, <1>3, <1>4, IdsFinite DEF Finite

(* What a run leaves in row i: a new open finding in a free row, nothing in *)
(* a row it deletes, and every other row as it was.                         *)
LEMMA ReplacedRow ==
  ASSUME ReviewTypeOK, NEW w \in Workers, NEW K \in SUBSET Keys, NEW raised \in [K -> Severities],
         NEW place \in [Inserted(job[w], raised) -> Free(w)],
         NEW i \in Ids
  PROVE  LET r == Replaced(job[w], raised, place)[i] IN
         \/ /\ i \in Free(w)
            /\ r \in Row /\ r.status = "open"
         \/ i \in job[w].doomed /\ r = None
         \/ i \notin job[w].doomed /\ r = findings[i]
<1> DEFINE I == Inserted(job[w], raised)
           r == Replaced(job[w], raised, place)[i]
<1>1. CASE \E k \in I : place[k] = i
  <2> DEFINE k == CHOOSE k \in I : place[k] = i
  <2>1. k \in I /\ place[k] = i
    BY <1>1
  <2>2. r = Finding(k, raised[k])
    BY <1>1 DEF Replaced
  <2>3. k \in K /\ i \in Free(w)
    BY <2>1 DEF Inserted
  <2>4. Finding(k, raised[k]) \in Row /\ Finding(k, raised[k]).status = "open"
    BY <2>3 DEF Finding, Row, Severities, Statuses, Notes
  <2> QED BY <2>2, <2>3, <2>4
<1>2. CASE ~\E k \in I : place[k] = i
  BY <1>2 DEF Replaced
<1> QED BY <1>1, <1>2

--------------------------------------------------------------------------------
LEMMA InitReviewInv == ReviewInit => ReviewInv
<1> SUFFICES ASSUME ReviewInit PROVE ReviewInv
  OBVIOUS
<1>1. \A w \in Workers : job[w] = Idle /\ job[w].op = "idle"
  BY DEF ReviewInit, Idle
<1>2. ReviewTypeOK
  BY DEF ReviewInit, ReviewTypeOK
<1>3. RowsOfReview
  BY <1>1 DEF ReviewInit, RowsOfReview
<1>4. LocksExclusive
  BY <1>1 DEF LocksExclusive, Held
<1>5. DoomedOpen
  BY <1>1 DEF DoomedOpen
<1> QED BY <1>2, <1>3, <1>4, <1>5 DEF ReviewInv

(* Requests that leave the rows and the review as they are keep the         *)
(* invariant when they take no lock.                                        *)
LEMMA QuietStep ==
  ASSUME ReviewInv, UNCHANGED <<review, findings>>, raced' \in BOOLEAN,
         NEW w \in Workers, NEW j \in {Idle} \cup RunJob \cup ActJob \cup SignJob,
         job' = [job EXCEPT ![w] = j],
         j.op \in {"act", "sign"} => review \in Review,
         j.op = "run" /\ j.loaded # None => review \in Review,
         j.op = "act" => j.at # "held",
         j.op = "run" => j.at # "deleted"
  PROVE  ReviewInv'
<1>1. /\ job'[w] = j /\ \A v \in Workers \ {w} : job'[v] = job[v]
      /\ job' \in [Workers -> {Idle} \cup RunJob \cup ActJob \cup SignJob]
  BY DEF ReviewInv, ReviewTypeOK
<1>2. ReviewTypeOK'
  BY <1>1 DEF ReviewInv, ReviewTypeOK
<1>3. RowsOfReview'
  <2>1. ASSUME NEW v \in Workers
        PROVE  /\ job'[v].op \in {"act", "sign"} => review \in Review
               /\ job'[v].op = "run" /\ job'[v].loaded # None => review \in Review
               /\ job'[v].op = "act" /\ job'[v].at = "held" =>
                    job'[v].was \in Review /\ findings[job'[v].id] \in Row
    <3>1. CASE v = w
      BY <1>1, <3>1
    <3>2. CASE v # w
      BY <1>1, <3>2 DEF ReviewInv, RowsOfReview
    <3> QED BY <3>1, <3>2
  <2> QED BY <2>1 DEF ReviewInv, RowsOfReview, Review, Row, Notes, Severities, Statuses
<1>4. Held(w)' = {} /\ \A v \in Workers \ {w} : Held(v)' = Held(v)
  BY <1>1 DEF Held
<1>5. LocksExclusive'
  BY <1>4 DEF ReviewInv, LocksExclusive
<1>6. DoomedOpen'
  <2> SUFFICES ASSUME NEW v \in Workers, job'[v].op = "run", job'[v].at = "deleted",
                      NEW i \in job'[v].doomed
               PROVE  IsOpen(findings, i)
    BY DEF DoomedOpen, IsOpen
  <2>1. v # w
    BY <1>1
  <2> QED BY <1>1, <2>1 DEF ReviewInv, DoomedOpen
<1> QED BY <1>2, <1>3, <1>5, <1>6 DEF ReviewInv

LEMMA RunReadKeeps ==
  ASSUME ReviewInv, NEW w \in Workers, RunRead(w)
  PROVE  ReviewInv'
<1> DEFINE j == [op |-> "run", at |-> "read", loaded |-> review,
                 kept |-> {findings[i].key : i \in {k \in Ids : Decided(findings, k)}},
                 doomed |-> {}]
<1>1. j.kept \in SUBSET Keys
  BY DEF ReviewInv, ReviewTypeOK, Decided, Row
<1>2. j \in RunJob
  BY <1>1 DEF RunJob, ReviewInv, ReviewTypeOK
<1>3. job' = [job EXCEPT ![w] = j] /\ raced' \in BOOLEAN /\ UNCHANGED <<review, findings>>
  BY DEF RunRead, Start, ReviewInv, ReviewTypeOK
<1> HIDE DEF j
<1>4. j.op = "run" /\ j.at = "read" /\ (j.loaded # None => review \in Review)
  BY DEF j, ReviewInv, ReviewTypeOK
<1> QED BY <1>2, <1>3, <1>4, QuietStep

LEMMA RunDeleteKeeps ==
  ASSUME ReviewInv, NEW w \in Workers, RunDelete(w)
  PROVE  ReviewInv'
<1> DEFINE j == [job[w] EXCEPT !.at = "deleting", !.doomed = {i \in Ids : IsOpen(findings, i)}]
<1>1. job[w] \in RunJob /\ job[w].op = "run"
  BY JobKinds DEF RunDelete, ReviewInv
<1>2. j \in RunJob /\ j.op = "run" /\ j.at = "deleting" /\ j.loaded = job[w].loaded
  BY <1>1 DEF RunJob
<1>3. job' = [job EXCEPT ![w] = j] /\ raced' \in BOOLEAN /\ UNCHANGED <<review, findings>>
  BY DEF RunDelete, ReviewInv, ReviewTypeOK
<1>4. j.loaded # None => review \in Review
  BY <1>1, <1>2 DEF ReviewInv, RowsOfReview
<1> HIDE DEF j
<1> QED BY <1>2, <1>3, <1>4, QuietStep

LEMMA ActReadKeeps ==
  ASSUME ReviewInv, NEW w \in Workers, NEW u \in Reviewers, NEW i \in Ids, NEW a \in Actions,
         NEW noted \in BOOLEAN, ActRead(w, u, i, a, noted)
  PROVE  ReviewInv'
<1> DEFINE j == [op |-> "act", at |-> "read", id |-> i, loaded |-> findings[i],
                 to |-> ToStatus(a),
                 note |-> IF a = "reopen" THEN None
                          ELSE IF noted THEN u ELSE findings[i].note,
                 was |-> None, high |-> 0]
<1>1. findings[i] \in Row /\ findings[i] # None
  BY DEF ActRead, ReviewInv, ReviewTypeOK
<1>2. ToStatus(a) \in Statuses
  BY DEF ToStatus, Statuses
<1>3. j \in ActJob
  BY <1>1, <1>2, IdsFinite DEF ActJob, Row, Notes, Finite
<1>4. job' = [job EXCEPT ![w] = j] /\ raced' \in BOOLEAN /\ UNCHANGED <<review, findings>>
  BY DEF ActRead, Start, ReviewInv, ReviewTypeOK
<1>5. review \in Review
  BY <1>1 DEF ReviewInv, RowsOfReview
<1>6. j.op = "act" /\ j.at = "read"
  OBVIOUS
<1> HIDE DEF j
<1> QED BY <1>3, <1>4, <1>5, <1>6, QuietStep

LEMMA GoIdle ==
  ASSUME ReviewInv, NEW w \in Workers, job' = [job EXCEPT ![w] = Idle], UNCHANGED <<review, findings, raced>>
  PROVE  ReviewInv'
<1>1. Idle.op = "idle"
  BY DEF Idle
<1>2. raced' \in BOOLEAN
  BY DEF ReviewInv, ReviewTypeOK
<1> QED BY <1>1, <1>2, QuietStep

LEMMA SignReadKeeps ==
  ASSUME ReviewInv, NEW w \in Workers, NEW u \in Reviewers, SignRead(w, u)
  PROVE  ReviewInv'
<1> DEFINE j == [op |-> "sign", loaded |-> review, by |-> u]
<1>1. review \in Review /\ review # None
  BY DEF SignRead, ReviewInv, ReviewTypeOK
<1>2. j \in SignJob /\ j.op = "sign"
  BY <1>1 DEF SignJob
<1>3. job' = [job EXCEPT ![w] = j] /\ raced' \in BOOLEAN /\ UNCHANGED <<review, findings>>
  BY DEF SignRead, Start, ReviewInv, ReviewTypeOK
<1> HIDE DEF j
<1> QED BY <1>1, <1>2, <1>3, QuietStep

(* The waiting DELETE takes rows nobody holds and that it finds open.       *)
LEMMA RunDeletedKeeps ==
  ASSUME ReviewInv, NEW w \in Workers, RunDeleted(w)
  PROVE  ReviewInv'
<1> DEFINE D == {i \in job[w].doomed : IsOpen(findings, i)}
           j == [job[w] EXCEPT !.at = "deleted", !.doomed = D]
<1>1. job[w] \in RunJob /\ job[w].op = "run"
  BY JobKinds DEF RunDeleted, ReviewInv
<1>2. j \in RunJob /\ j.op = "run" /\ j.at = "deleted" /\ j.loaded = job[w].loaded /\ j.doomed = D
  BY <1>1 DEF RunJob
<1>3. job' = [job EXCEPT ![w] = j] /\ UNCHANGED <<review, findings, raced>>
  BY DEF RunDeleted, ReviewInv, ReviewTypeOK
<1>4. /\ job'[w] = j /\ \A v \in Workers \ {w} : job'[v] = job[v]
      /\ job' \in [Workers -> {Idle} \cup RunJob \cup ActJob \cup SignJob]
  BY <1>2, <1>3 DEF ReviewInv, ReviewTypeOK
<1>5. ReviewTypeOK'
  BY <1>3, <1>4 DEF ReviewInv, ReviewTypeOK
<1>6. RowsOfReview'
  BY <1>1, <1>2, <1>3, <1>4 DEF ReviewInv, RowsOfReview
<1>7. Held(w)' = D /\ \A v \in Workers \ {w} : Held(v)' = Held(v)
  BY <1>2, <1>4 DEF Held
<1>8. \A v \in Workers \ {w} : D \cap Held(v) = {}
  BY DEF RunDeleted, HeldByOthers
<1>9. LocksExclusive'
  BY <1>7, <1>8 DEF ReviewInv, LocksExclusive
<1>10. DoomedOpen'
  BY <1>2, <1>3, <1>4 DEF ReviewInv, DoomedOpen, IsOpen
<1> QED BY <1>5, <1>6, <1>9, <1>10 DEF ReviewInv

(* A run that commits changes no row that another request holds, and no     *)
(* decided one.                                                             *)
LEMMA RunCommitRows ==
  ASSUME ReviewInv, NEW w \in Workers, RunCommit(w)
  PROVE  /\ findings' \in [Ids -> Row \cup {None}]
         /\ review' \in Review
         /\ \A i \in Ids : findings'[i] # findings[i] => ~Decided(findings, i)
         /\ \A v \in Workers \ {w} : \A i \in Held(v) : findings'[i] = findings[i]
<1> DEFINE j == job[w]
<1>1. j \in RunJob /\ j.op = "run" /\ j.at = "deleted"
  BY JobKinds DEF RunCommit, ReviewInv
<1>0. PICK K \in SUBSET Keys : \E raised \in [K -> Severities] :
        /\ \E place \in [Inserted(j, raised) -> Free(w)] :
             /\ \A k, l \in Inserted(j, raised) : place[k] = place[l] => k = l
             /\ findings' = Replaced(j, raised, place)
        /\ review' = Reviewed(j, Cardinality(HighInserted(j, raised)))
  BY DEF RunCommit
<1>2. PICK raised \in [K -> Severities] :
        /\ \E place \in [Inserted(j, raised) -> Free(w)] :
             /\ \A k, l \in Inserted(j, raised) : place[k] = place[l] => k = l
             /\ findings' = Replaced(j, raised, place)
        /\ review' = Reviewed(j, Cardinality(HighInserted(j, raised)))
  BY <1>0
<1>3. PICK place \in [Inserted(j, raised) -> Free(w)] :
             /\ \A k, l \in Inserted(j, raised) : place[k] = place[l] => k = l
             /\ findings' = Replaced(j, raised, place)
  BY <1>2
<1>4. \A i \in Ids : \/ i \in Free(w) /\ findings'[i] \in Row
                     \/ i \in j.doomed /\ findings'[i] = None
                     \/ findings'[i] = findings[i]
  <2> SUFFICES ASSUME NEW i \in Ids
               PROVE  \/ i \in Free(w) /\ findings'[i] \in Row
                      \/ i \in j.doomed /\ findings'[i] = None
                      \/ findings'[i] = findings[i]
    OBVIOUS
  <2> DEFINE r == Replaced(job[w], raised, place)[i]
  <2>1. \/ i \in Free(w) /\ r \in Row /\ r.status = "open"
        \/ i \in job[w].doomed /\ r = None
        \/ i \notin job[w].doomed /\ r = findings[i]
    BY ReplacedRow DEF ReviewInv
  <2>2. findings'[i] = r
    BY <1>3
  <2> HIDE DEF r
  <2> QED BY <2>1, <2>2
<1>5. findings' \in [Ids -> Row \cup {None}]
  <2>1. findings' = [i \in Ids |-> findings'[i]]
    BY <1>3 DEF Replaced
  <2>2. \A i \in Ids : findings'[i] \in Row \cup {None}
    BY <1>4 DEF ReviewInv, ReviewTypeOK
  <2> QED BY <2>1, <2>2
<1>6. review' \in Review
  <2> DEFINE n == Cardinality(HighInserted(j, raised))
  <2>1. n \in 0..Cardinality(Ids)
    BY <1>3, InsertedCount DEF HighInserted, ReviewInv
  <2>0. review' = Reviewed(j, n)
    BY <1>2
  <2> HIDE DEF n
  <2>2. CASE j.loaded = None
    BY <2>0, <2>1, <2>2 DEF Reviewed, Review, Notes
  <2>3. CASE j.loaded # None
    <3>1. review \in Review
      BY <1>1, <2>3 DEF ReviewInv, ReviewTypeOK, RowsOfReview
    <3>2. \A a, b, c : Written(a, b, c) \in {b, c}
      BY DEF Written
    <3> DEFINE st == Written(j.loaded.status, "open", review.status)
               hi == Written(j.loaded.high, n, review.high)
               by == Written(j.loaded.by, None, review.by)
    <3>3. review' = [status |-> st, high |-> hi, by |-> by]
      BY <2>0, <2>3 DEF Reviewed
    <3>4. st \in {"open", "signed_off"} /\ hi \in 0..Cardinality(Ids) /\ by \in Notes
      BY <2>1, <3>1, <3>2 DEF Review, Notes
    <3> HIDE DEF st, hi, by
    <3> QED BY <3>3, <3>4 DEF Review
  <2> QED BY <2>2, <2>3
<1>7. \A i \in j.doomed : IsOpen(findings, i)
  BY <1>1 DEF ReviewInv, DoomedOpen
<1>8. \A i \in Ids : findings'[i] # findings[i] => ~Decided(findings, i)
  BY <1>4, <1>7 DEF Free, Decided, IsOpen
<1>9. ASSUME NEW v \in Workers \ {w}, NEW i \in Held(v) PROVE findings'[i] = findings[i]
  <2>1. i \in Ids
    BY HeldType DEF ReviewInv
  <2>2. Held(w) = j.doomed
    BY <1>1 DEF Held
  <2>3. i \notin j.doomed
    BY <2>2 DEF ReviewInv, LocksExclusive
  <2>4. i \in Known(v)
    BY <1>9 DEF Held, Known
  <2> QED BY <1>4, <2>1, <2>3, <2>4 DEF Free
<1> QED BY <1>5, <1>6, <1>8, <1>9

LEMMA RunCommitKeeps ==
  ASSUME ReviewInv, NEW w \in Workers, RunCommit(w)
  PROVE  ReviewInv'
<1>1. job' = [job EXCEPT ![w] = Idle] /\ UNCHANGED raced
  BY DEF RunCommit
<1>2. /\ job'[w] = Idle /\ Idle.op = "idle" /\ \A v \in Workers \ {w} : job'[v] = job[v]
      /\ job' \in [Workers -> {Idle} \cup RunJob \cup ActJob \cup SignJob]
  BY <1>1 DEF ReviewInv, ReviewTypeOK, Idle
<1>3. ReviewTypeOK'
  BY <1>1, <1>2, RunCommitRows DEF ReviewInv, ReviewTypeOK
<1>4. RowsOfReview'
  <2>1. review' \in Review
    BY RunCommitRows
  <2>2. ASSUME NEW v \in Workers, job'[v].op = "act", job'[v].at = "held"
        PROVE  job'[v].was \in Review /\ findings'[job'[v].id] \in Row
    <3>1. v # w /\ job'[v] = job[v] /\ job[v].id \in Held(v)
      BY <1>2, <2>2 DEF Held
    <3>2. findings'[job[v].id] = findings[job[v].id]
      BY <3>1, RunCommitRows
    <3> QED BY <2>2, <3>1, <3>2 DEF ReviewInv, RowsOfReview
  <2>3. Review' = Review /\ Row' = Row
    BY DEF Review, Row, Notes, Severities, Statuses
  <2> QED BY <2>1, <2>2, <2>3 DEF RowsOfReview
<1>5. Held(w)' = {} /\ \A v \in Workers \ {w} : Held(v)' = Held(v)
  BY <1>2 DEF Held
<1>6. LocksExclusive'
  BY <1>5 DEF ReviewInv, LocksExclusive
<1>7. DoomedOpen'
  <2> SUFFICES ASSUME NEW v \in Workers, job'[v].op = "run", job'[v].at = "deleted",
                      NEW i \in job'[v].doomed
               PROVE  IsOpen(findings', i)
    BY DEF DoomedOpen, IsOpen
  <2>1. v # w /\ job'[v] = job[v]
    BY <1>2
  <2>2. i \in Held(v) /\ IsOpen(findings, i)
    BY <2>1 DEF Held, ReviewInv, DoomedOpen
  <2> QED BY <2>1, <2>2, RunCommitRows DEF IsOpen
<1> QED BY <1>3, <1>4, <1>6, <1>7 DEF ReviewInv

(* An update takes its row when nobody holds it, and counts the rows.       *)
LEMMA ActUpdateKeeps ==
  ASSUME ReviewInv, NEW w \in Workers, ActUpdate(w)
  PROVE  ReviewInv'
<1> DEFINE C == OpenHigh([findings EXCEPT ![job[w].id] = [job[w].loaded EXCEPT !.status = job[w].to]])
           j == [job[w] EXCEPT !.at = "held", !.was = review, !.high = Cardinality(C)]
<1>1. job[w] \in ActJob /\ job[w].op = "act" /\ findings[job[w].id] \in Row /\ review \in Review
  BY JobKinds DEF ActUpdate, ReviewInv, ReviewTypeOK, RowsOfReview, ActJob
<1>2. C \in SUBSET Ids
  BY DEF OpenHigh
<1>3. Cardinality(C) \in 0..Cardinality(Ids)
  BY <1>2, CountOfRows
<1> HIDE DEF C
<1>4. j \in ActJob /\ j.op = "act" /\ j.at = "held" /\ j.was = review /\ j.id = job[w].id
  BY <1>1, <1>3 DEF ActJob
<1>5. job' = [job EXCEPT ![w] = j] /\ UNCHANGED <<review, findings, raced>>
  BY DEF ActUpdate, ReviewInv, ReviewTypeOK, C
<1>6. /\ job'[w] = j /\ \A v \in Workers \ {w} : job'[v] = job[v]
      /\ job' \in [Workers -> {Idle} \cup RunJob \cup ActJob \cup SignJob]
  BY <1>4, <1>5 DEF ReviewInv, ReviewTypeOK
<1> HIDE DEF j
<1>7. ReviewTypeOK'
  BY <1>5, <1>6 DEF ReviewInv, ReviewTypeOK
<1>8. RowsOfReview'
  <2>1. Review' = Review /\ Row' = Row
    BY DEF Review, Row, Notes, Severities, Statuses
  <2> QED BY <1>1, <1>4, <1>5, <1>6, <2>1 DEF ReviewInv, RowsOfReview
<1>9. Held(w)' = {job[w].id} /\ \A v \in Workers \ {w} : Held(v)' = Held(v)
  BY <1>4, <1>6 DEF Held
<1>10. \A v \in Workers \ {w} : job[w].id \notin Held(v)
  BY DEF ActUpdate, HeldByOthers
<1>11. LocksExclusive'
  BY <1>9, <1>10 DEF ReviewInv, LocksExclusive
<1>12. DoomedOpen'
  BY <1>4, <1>5, <1>6 DEF ReviewInv, DoomedOpen, IsOpen
<1> QED BY <1>7, <1>8, <1>11, <1>12 DEF ReviewInv

(* A decision changes its own row, which nobody else holds.                 *)
LEMMA ActCommitKeeps ==
  ASSUME ReviewInv, NEW w \in Workers, ActCommit(w)
  PROVE  ReviewInv'
<1> DEFINE j == job[w]
<1>1. j \in ActJob /\ j.op = "act" /\ j.at = "held"
  BY JobKinds DEF ActCommit, ReviewInv
<1>2. findings[j.id] \in Row /\ review \in Review /\ j.id \in Ids
  BY <1>1 DEF ReviewInv, RowsOfReview, ActJob
<1>3. \A a, b, c : Written(a, b, c) \in {b, c}
  BY DEF Written
<1>4. /\ findings' \in [Ids -> Row \cup {None}]
      /\ findings'[j.id] \in Row
      /\ \A i \in Ids \ {j.id} : findings'[i] = findings[i]
      /\ review' \in Review
  <2>1. PICK r \in Row : findings' = [findings EXCEPT ![j.id] = r]
    <3> DEFINE old == findings[j.id]
               st == Written(j.loaded.status, j.to, old.status)
               note == Written(j.loaded.note, j.note, old.note)
               r == [old EXCEPT !.status = st, !.note = note]
    <3>1. old \in Row /\ st \in Statuses /\ note \in Notes
      BY <1>1, <1>2, <1>3 DEF Row, ActJob
    <3>2. findings' = [findings EXCEPT ![j.id].status = st, ![j.id].note = note]
      BY <1>2 DEF ActCommit, ReviewInv, ReviewTypeOK, Row
    <3> HIDE DEF st, note
    <3>3. findings' = [findings EXCEPT ![j.id] = r]
      BY <1>2, <3>1, <3>2 DEF ReviewInv, ReviewTypeOK, Row
    <3>4. r \in Row
      BY <3>1 DEF Row
    <3> QED BY <3>3, <3>4
  <2>2. review' \in Review
    BY <1>1, <1>2, <1>3 DEF ActCommit, Review, ActJob
  <2> QED BY <1>2, <2>1, <2>2 DEF ReviewInv, ReviewTypeOK
<1>5. job' = [job EXCEPT ![w] = Idle] /\ UNCHANGED raced
  BY DEF ActCommit
<1>6. /\ job'[w] = Idle /\ Idle.op = "idle" /\ \A v \in Workers \ {w} : job'[v] = job[v]
      /\ job' \in [Workers -> {Idle} \cup RunJob \cup ActJob \cup SignJob]
  BY <1>5 DEF ReviewInv, ReviewTypeOK, Idle
<1>7. ReviewTypeOK'
  BY <1>4, <1>5, <1>6 DEF ReviewInv, ReviewTypeOK
<1>8. \A v \in Workers \ {w} : j.id \notin Held(v)
  BY <1>1 DEF Held, ReviewInv, LocksExclusive
<1>9. RowsOfReview'
  <2>1. Review' = Review /\ Row' = Row
    BY DEF Review, Row, Notes, Severities, Statuses
  <2>2. ASSUME NEW v \in Workers, job'[v].op = "act", job'[v].at = "held"
        PROVE  job'[v].was \in Review /\ findings'[job'[v].id] \in Row
    <3>1. v # w /\ job'[v] = job[v] /\ job[v].id \in Held(v)
      BY <1>6, <2>2 DEF Held
    <3>2. job[v].id \in Ids /\ findings'[job[v].id] = findings[job[v].id]
      BY <1>4, <1>8, <3>1, HeldType DEF ReviewInv
    <3> QED BY <2>2, <3>1, <3>2 DEF ReviewInv, RowsOfReview
  <2> QED BY <1>4, <2>1, <2>2 DEF RowsOfReview
<1>10. Held(w)' = {} /\ \A v \in Workers \ {w} : Held(v)' = Held(v)
  BY <1>6 DEF Held
<1>11. LocksExclusive'
  BY <1>10 DEF ReviewInv, LocksExclusive
<1>12. DoomedOpen'
  <2> SUFFICES ASSUME NEW v \in Workers, job'[v].op = "run", job'[v].at = "deleted",
                      NEW i \in job'[v].doomed
               PROVE  IsOpen(findings', i)
    BY DEF DoomedOpen, IsOpen
  <2>1. v # w /\ job'[v] = job[v]
    BY <1>6
  <2>2. i \in Held(v) /\ IsOpen(findings, i)
    BY <2>1 DEF Held, ReviewInv, DoomedOpen
  <2>3. i \in Ids /\ i # j.id
    BY <1>8, <2>1, <2>2, HeldType DEF ReviewInv
  <2> QED BY <1>4, <2>2, <2>3 DEF IsOpen
<1> QED BY <1>7, <1>9, <1>11, <1>12 DEF ReviewInv

LEMMA SignCommitKeeps ==
  ASSUME ReviewInv, NEW w \in Workers, SignCommit(w)
  PROVE  ReviewInv'
<1> DEFINE j == job[w]
<1>1. j \in SignJob /\ review \in Review
  BY JobKinds DEF SignCommit, ReviewInv, RowsOfReview
<1>2. \A a, b, c : Written(a, b, c) \in {b, c}
  BY DEF Written
<1>3. review' \in Review
  <2> DEFINE st == Written(j.loaded.status, "signed_off", review.status)
             by == Written(j.loaded.by, j.by, review.by)
  <2>1. review' = [review EXCEPT !.status = st, !.by = by]
    BY DEF SignCommit
  <2>2. st \in {"open", "signed_off"} /\ by \in Notes
    BY <1>1, <1>2 DEF Review, SignJob, Notes
  <2> HIDE DEF st, by
  <2> QED BY <1>1, <2>1, <2>2 DEF Review
<1>4. job' = [job EXCEPT ![w] = Idle] /\ UNCHANGED <<findings, raced>>
  BY DEF SignCommit
<1>5. /\ job'[w] = Idle /\ Idle.op = "idle" /\ \A v \in Workers \ {w} : job'[v] = job[v]
      /\ job' \in [Workers -> {Idle} \cup RunJob \cup ActJob \cup SignJob]
  BY <1>4 DEF ReviewInv, ReviewTypeOK, Idle
<1>6. ReviewTypeOK'
  BY <1>3, <1>4, <1>5 DEF ReviewInv, ReviewTypeOK
<1>7. RowsOfReview'
  <2>1. Review' = Review /\ Row' = Row
    BY DEF Review, Row, Notes, Severities, Statuses
  <2> QED BY <1>3, <1>4, <1>5, <2>1 DEF ReviewInv, RowsOfReview
<1>8. Held(w)' = {} /\ \A v \in Workers \ {w} : Held(v)' = Held(v)
  BY <1>5 DEF Held
<1>9. LocksExclusive'
  BY <1>8 DEF ReviewInv, LocksExclusive
<1>10. DoomedOpen'
  BY <1>4, <1>5 DEF ReviewInv, DoomedOpen, IsOpen
<1> QED BY <1>6, <1>7, <1>9, <1>10 DEF ReviewInv

--------------------------------------------------------------------------------
LEMMA NextReviewInv == ReviewInv /\ [ReviewNext]_reviewVars => ReviewInv'
<1> SUFFICES ASSUME ReviewInv, [ReviewNext]_reviewVars PROVE ReviewInv'
  OBVIOUS
<1>1. ASSUME NEW w \in Workers, RunRead(w) PROVE ReviewInv'
  BY <1>1, RunReadKeeps
<1>2. ASSUME NEW w \in Workers, RunDelete(w) PROVE ReviewInv'
  BY <1>2, RunDeleteKeeps
<1>3. ASSUME NEW w \in Workers, RunDeleted(w) PROVE ReviewInv'
  BY <1>3, RunDeletedKeeps
<1>4. ASSUME NEW w \in Workers, RunCommit(w) PROVE ReviewInv'
  BY <1>4, RunCommitKeeps
<1>5. ASSUME NEW w \in Workers, NEW u \in Reviewers, NEW i \in Ids, NEW a \in Actions,
             NEW noted \in BOOLEAN, ActRead(w, u, i, a, noted)
      PROVE  ReviewInv'
  BY <1>5, ActReadKeeps
<1>6. ASSUME NEW w \in Workers, NEW u \in Reviewers, SignRead(w, u) PROVE ReviewInv'
  BY <1>6, SignReadKeeps
<1>7. ASSUME NEW w \in Workers, ActUpdate(w) PROVE ReviewInv'
  BY <1>7, ActUpdateKeeps
<1>8. ASSUME NEW w \in Workers, ActGone(w) PROVE ReviewInv'
  BY <1>8, GoIdle DEF ActGone
<1>9. ASSUME NEW w \in Workers, ActCommit(w) PROVE ReviewInv'
  BY <1>9, ActCommitKeeps
<1>10. ASSUME NEW w \in Workers, SignCommit(w) PROVE ReviewInv'
  BY <1>10, SignCommitKeeps
<1>11. CASE UNCHANGED reviewVars
  BY <1>11 DEF reviewVars, ReviewInv, ReviewTypeOK, RowsOfReview, LocksExclusive, DoomedOpen,
     Held, IsOpen, Review, Row, Notes
<1> QED
  BY <1>1, <1>2, <1>3, <1>4, <1>5, <1>6, <1>7, <1>8, <1>9, <1>10, <1>11 DEF ReviewNext

LEMMA ReviewInvariant == ReviewSpec => []ReviewInv
BY InitReviewInv, NextReviewInv, PTL DEF ReviewSpec

--------------------------------------------------------------------------------
(* Runs, decisions and sign-offs, overlapping in any number, keep the       *)
(* review row, its findings and what each request loaded well typed.        *)
THEOREM ReviewTypeCorrect == ReviewSpec => []ReviewTypeOK
BY ReviewInvariant, PTL DEF ReviewInv

(* run_close_review "keeps the reviewer's decisions": a finding that is     *)
(* decided is changed by a decision on it only, however many runs delete    *)
(* and insert around it.                                                    *)
THEOREM DecisionsOutlastRuns == ReviewSpec => DecisionsKept
<1> DEFINE Kept == \A i \in Ids : Decided(findings, i) /\ findings'[i] # findings[i] =>
                     \E w \in Workers : job[w].op = "act" /\ job[w].id = i
<1>1. ASSUME ReviewInv, ReviewNext
      PROVE  Kept
  <2>1. ASSUME NEW w \in Workers, RunCommit(w) PROVE Kept
    BY <1>1, <2>1, RunCommitRows
  <2>2. ASSUME NEW w \in Workers, ActCommit(w) PROVE Kept
    <3>1. \A i \in Ids \ {job[w].id} : findings'[i] = findings[i]
      BY <1>1, <2>2 DEF ActCommit, ReviewInv, ReviewTypeOK
    <3> QED BY <2>2, <3>1 DEF ActCommit
  <2>3. CASE UNCHANGED findings
    BY <2>3
  <2> QED
    BY <1>1, <2>1, <2>2, <2>3
    DEF ReviewNext, RunRead, RunDelete, RunDeleted, ActRead, SignRead, ActUpdate, ActGone, SignCommit
<1>2. ReviewInv /\ [ReviewNext]_reviewVars => [Kept]_reviewVars
  BY <1>1
<1> QED BY <1>2, ReviewInvariant, PTL DEF ReviewSpec, DecisionsKept

--------------------------------------------------------------------------------
(* The count of open high findings.                                        *)

(* As long as no two requests overlapped there is at most one, what it      *)
(* loaded is what is stored, and the count on the review is right even      *)
(* while it runs.                                                           *)
Alone == \A v, w \in Workers : job[v] # Idle /\ job[w] # Idle => v = w

OpenIn(f) == {i \in Ids : IsOpen(f, i)}

DecidedAs(f, j) == [f EXCEPT ![j.id] = [j.loaded EXCEPT !.status = j.to]]

CurrentRun(j, r, f) ==
  j.op = "run" =>
    /\ j.loaded = r
    /\ j.at \in {"deleting", "deleted"} => j.doomed = OpenIn(f)

CurrentAct(j, r, f) ==
  j.op = "act" =>
    /\ j.loaded = f[j.id]
    /\ j.at = "held" => j.was = r /\ j.high = Cardinality(OpenHigh(DecidedAs(f, j)))

Current(j, r, f) == CurrentRun(j, r, f) /\ CurrentAct(j, r, f)

Counted(r, f) == r # None => r.high = Cardinality(OpenHigh(f))

AloneInv == Alone /\ Counted(review, findings) /\ \A w \in Workers : Current(job[w], review, findings)

CountInv == raced \/ AloneInv

LEMMA IdleCurrent == \A r, f : Current(Idle, r, f)
BY DEF Idle, Current, CurrentRun, CurrentAct

LEMMA RowNotNone == None \notin Row /\ None \notin Review
BY ReviewAssumption

(* A request that commits is the only one, and leaves nobody in progress.   *)
LEMMA CommitCount ==
  ASSUME ReviewInv, CountInv, NEW w \in Workers, job[w] # Idle,
         job' = [job EXCEPT ![w] = Idle], raced' = raced,
         ~raced => Counted(review', findings')
  PROVE  CountInv'
<1> SUFFICES ASSUME ~raced PROVE AloneInv'
  BY DEF CountInv
<1>1. \A v \in Workers : job'[v] = Idle
  BY DEF ReviewInv, ReviewTypeOK, CountInv, AloneInv, Alone
<1> QED BY <1>1, IdleCurrent DEF AloneInv, Alone

(* A request that only reads or takes locks.                                *)
LEMMA ReadCount ==
  ASSUME ReviewInv, CountInv, NEW w \in Workers, NEW j,
         UNCHANGED <<review, findings>>, job' = [job EXCEPT ![w] = j],
         ~raced' => ~raced /\ Current(j, review, findings)
                    /\ \A v \in Workers \ {w} : job[v] = Idle
  PROVE  CountInv'
<1> SUFFICES ASSUME ~raced' PROVE AloneInv'
  BY DEF CountInv
<1>1. job' = [v \in Workers |-> IF v = w THEN j ELSE Idle]
  BY DEF ReviewInv, ReviewTypeOK
<1>2. \A v \in Workers : Current(job'[v], review, findings)
  BY <1>1, IdleCurrent
<1>3. Alone'
  BY <1>1 DEF Alone
<1> QED BY <1>2, <1>3 DEF CountInv, AloneInv

LEMMA StartCount ==
  ASSUME ReviewInv, CountInv, NEW w \in Workers, NEW j, Start(w, j),
         UNCHANGED <<review, findings>>, Current(j, review, findings)
  PROVE  CountInv'
<1>1. job' = [job EXCEPT ![w] = j] /\ (~raced' => ~raced /\ \A v \in Workers : job[v] = Idle)
  BY DEF Start, ReviewInv, ReviewTypeOK
<1> QED BY <1>1, ReadCount

(* The only request goes on.                                                *)
LEMMA GoOnCount ==
  ASSUME ReviewInv, CountInv, NEW w \in Workers, job[w] # Idle, NEW j,
         UNCHANGED <<review, findings, raced>>, job' = [job EXCEPT ![w] = j],
         AloneInv => Current(j, review, findings)
  PROVE  CountInv'
<1>1. ~raced => AloneInv /\ \A v \in Workers \ {w} : job[v] = Idle
  BY DEF CountInv, AloneInv, Alone
<1> QED BY <1>1, ReadCount

LEMMA RunReadCount ==
  ASSUME ReviewInv, CountInv, NEW w \in Workers, RunRead(w)
  PROVE  CountInv'
<1> DEFINE j == [op |-> "run", at |-> "read", loaded |-> review,
                 kept |-> {findings[i].key : i \in {k \in Ids : Decided(findings, k)}},
                 doomed |-> {}]
<1>1. Current(j, review, findings)
  BY DEF Current, CurrentRun, CurrentAct
<1>2. Start(w, j) /\ UNCHANGED <<review, findings>>
  BY DEF RunRead
<1> HIDE DEF j
<1> QED BY <1>1, <1>2, StartCount

LEMMA RunDeleteCount ==
  ASSUME ReviewInv, CountInv, NEW w \in Workers, RunDelete(w)
  PROVE  CountInv'
<1> DEFINE j == [job[w] EXCEPT !.at = "deleting", !.doomed = OpenIn(findings)]
<1>1. job[w] \in RunJob /\ job[w].op = "run" /\ job[w] # Idle
  BY JobKinds DEF RunDelete, ReviewInv, Idle
<1>2. j.op = "run" /\ j.loaded = job[w].loaded /\ j.doomed = OpenIn(findings)
  BY <1>1 DEF RunJob
<1>3. job' = [job EXCEPT ![w] = j] /\ UNCHANGED <<review, findings, raced>>
  BY DEF RunDelete, OpenIn, ReviewInv, ReviewTypeOK
<1> HIDE DEF j
<1>4. AloneInv => Current(j, review, findings)
  BY <1>1, <1>2 DEF AloneInv, Current, CurrentRun, CurrentAct
<1> QED BY <1>1, <1>3, <1>4, GoOnCount

LEMMA RunDeletedCount ==
  ASSUME ReviewInv, CountInv, NEW w \in Workers, RunDeleted(w)
  PROVE  CountInv'
<1> DEFINE j == [job[w] EXCEPT !.at = "deleted", !.doomed = {i \in job[w].doomed : IsOpen(findings, i)}]
<1>1. job[w] \in RunJob /\ job[w].op = "run" /\ job[w].at = "deleting" /\ job[w] # Idle
  BY JobKinds DEF RunDeleted, ReviewInv, Idle
<1>2. /\ j.op = "run" /\ j.loaded = job[w].loaded
      /\ j.doomed = {i \in job[w].doomed : IsOpen(findings, i)}
  BY <1>1 DEF RunJob
<1>3. job' = [job EXCEPT ![w] = j] /\ UNCHANGED <<review, findings, raced>>
  BY DEF RunDeleted, ReviewInv, ReviewTypeOK
<1> HIDE DEF j
<1>4. ASSUME AloneInv
      PROVE  Current(j, review, findings)
  <2>1. job[w].loaded = review /\ job[w].doomed = OpenIn(findings)
    BY <1>1, <1>4 DEF AloneInv, Current, CurrentRun
  <2>2. j.doomed = OpenIn(findings)
    BY <1>2, <2>1 DEF OpenIn
  <2> QED BY <1>2, <2>1, <2>2 DEF Current, CurrentRun, CurrentAct
<1> QED BY <1>1, <1>3, <1>4, GoOnCount

(* A run that was alone replaces every open row, so that the open high rows *)
(* are the ones it inserts: as many as the keys it raised as high.          *)
LEMMA InsertedAreCounted ==
  ASSUME ReviewTypeOK, NEW w \in Workers, NEW K \in SUBSET Keys, NEW raised \in [K -> Severities],
         job[w].doomed = OpenIn(findings),
         NEW place \in [Inserted(job[w], raised) -> Free(w)],
         \A k, l \in Inserted(job[w], raised) : place[k] = place[l] => k = l
  PROVE  Cardinality(OpenHigh(Replaced(job[w], raised, place)))
           = Cardinality(HighInserted(job[w], raised))
<1> DEFINE I == Inserted(job[w], raised)
           H == HighInserted(job[w], raised)
           f == Replaced(job[w], raised, place)
           T == OpenHigh(f)
           at == [k \in H |-> place[k]]
<1>1. H \subseteq I /\ I \subseteq K /\ \A k \in H : k \in I /\ raised[k] = "high"
  BY DEF HighInserted, Inserted
<1>2. ASSUME NEW k \in I
      PROVE  place[k] \in Ids /\ f[place[k]] = Finding(k, raised[k])
  <2>1. place[k] \in Ids
    BY DEF Free
  <2>2. (CHOOSE l \in I : place[l] = place[k]) = k
    OBVIOUS
  <2> QED BY <2>1, <2>2 DEF Replaced
<1>3. ASSUME NEW i \in Ids, \A k \in I : place[k] # i
      PROVE  ~IsOpen(f, i)
  <2>1. f[i] = IF i \in job[w].doomed THEN None ELSE findings[i]
    BY <1>3 DEF Replaced
  <2> QED BY <2>1 DEF IsOpen, OpenIn
<1>4. ASSUME NEW k \in I
      PROVE  IsOpen(f, place[k]) /\ (f[place[k]].sev = "high" <=> k \in H)
  <2>1. Finding(k, raised[k]) \in Row
    BY <1>1 DEF Finding, Row, Severities, Statuses, Notes
  <2>2. Finding(k, raised[k]) # None
    BY <2>1, RowNotNone
  <2>3. Finding(k, raised[k]).status = "open" /\ Finding(k, raised[k]).sev = raised[k]
    BY DEF Finding
  <2>4. k \in H <=> raised[k] = "high"
    BY DEF HighInserted
  <2> HIDE DEF f, H, I
  <2> QED BY <1>2, <2>2, <2>3, <2>4 DEF IsOpen
<1> HIDE DEF f, H, I
<1>5. \A k \in H : at[k] \in T
  BY <1>1, <1>2, <1>4 DEF OpenHigh
<1>6. \A t \in T : \E k \in H : at[k] = t
  BY <1>3, <1>4 DEF OpenHigh
<1>7. \A k, l \in H : at[k] = at[l] => k = l
  BY <1>1 DEF I
<1>8. at \in Injection(H, T) /\ at \in Surjection(H, T)
  <2>1. at \in [H -> T]
    BY <1>5
  <2> HIDE DEF at, T
  <2> QED BY <2>1, <1>6, <1>7 DEF Injection, Surjection, IsInjective
<1>9. IsFiniteSet(T)
  BY CountOfRows DEF OpenHigh
<1> HIDE DEF at, T
<1>10. Cardinality(H) = Cardinality(T)
  BY <1>8, <1>9, FS_Injection
<1> QED BY <1>10 DEF H, T, f

LEMMA RunCommitCount ==
  ASSUME ReviewInv, CountInv, NEW w \in Workers, RunCommit(w)
  PROVE  CountInv'
<1> DEFINE j == job[w]
<1>1. j.op = "run" /\ j.at = "deleted" /\ j # Idle
  BY DEF RunCommit, Idle
<1>2. ASSUME ~raced
      PROVE  Counted(review', findings')
  <2>1. j.loaded = review /\ j.doomed = OpenIn(findings)
    BY <1>1, <1>2 DEF CountInv, AloneInv, Current, CurrentRun
  <2>2. PICK K \in SUBSET Keys : \E raised \in [K -> Severities] :
          /\ \E place \in [Inserted(j, raised) -> Free(w)] :
               /\ \A k, l \in Inserted(j, raised) : place[k] = place[l] => k = l
               /\ findings' = Replaced(j, raised, place)
          /\ review' = Reviewed(j, Cardinality(HighInserted(j, raised)))
    BY DEF RunCommit
  <2>3. PICK raised \in [K -> Severities] :
          /\ \E place \in [Inserted(j, raised) -> Free(w)] :
               /\ \A k, l \in Inserted(j, raised) : place[k] = place[l] => k = l
               /\ findings' = Replaced(j, raised, place)
          /\ review' = Reviewed(j, Cardinality(HighInserted(j, raised)))
    BY <2>2
  <2>4. PICK place \in [Inserted(j, raised) -> Free(w)] :
          /\ \A k, l \in Inserted(j, raised) : place[k] = place[l] => k = l
          /\ findings' = Replaced(j, raised, place)
    BY <2>3
  <2> DEFINE n == Cardinality(HighInserted(j, raised))
  <2>5. Cardinality(OpenHigh(findings')) = n
    BY <2>1, <2>4, InsertedAreCounted DEF ReviewInv
  <2>6. review' = Reviewed(j, n)
    BY <2>3
  <2> HIDE DEF n
  <2>7. Reviewed(j, n).high = n
    BY <2>1 DEF Reviewed, Written
  <2> QED BY <2>5, <2>6, <2>7 DEF Counted
<1>3. job' = [job EXCEPT ![w] = Idle] /\ raced' = raced
  BY DEF RunCommit
<1> QED BY <1>1, <1>2, <1>3, CommitCount

LEMMA ActReadCount ==
  ASSUME ReviewInv, CountInv, NEW w \in Workers, NEW u \in Reviewers, NEW i \in Ids,
         NEW a \in Actions, NEW noted \in BOOLEAN, ActRead(w, u, i, a, noted)
  PROVE  CountInv'
<1> DEFINE j == [op |-> "act", at |-> "read", id |-> i, loaded |-> findings[i],
                 to |-> ToStatus(a),
                 note |-> IF a = "reopen" THEN None
                          ELSE IF noted THEN u ELSE findings[i].note,
                 was |-> None, high |-> 0]
<1>1. Current(j, review, findings)
  BY DEF Current, CurrentRun, CurrentAct
<1>2. Start(w, j) /\ UNCHANGED <<review, findings>>
  BY DEF ActRead
<1> HIDE DEF j
<1> QED BY <1>1, <1>2, StartCount

LEMMA ActUpdateCount ==
  ASSUME ReviewInv, CountInv, NEW w \in Workers, ActUpdate(w)
  PROVE  CountInv'
<1> DEFINE n == Cardinality(OpenHigh(DecidedAs(findings, job[w])))
           j == [job[w] EXCEPT !.at = "held", !.was = review, !.high = n]
<1>1. job[w] \in ActJob /\ job[w].op = "act" /\ job[w] # Idle
  BY JobKinds DEF ActUpdate, ReviewInv, Idle
<1>2. job' = [job EXCEPT ![w] = j] /\ UNCHANGED <<review, findings, raced>>
  BY DEF ActUpdate, DecidedAs, ReviewInv, ReviewTypeOK
<1>3. n = Cardinality(OpenHigh(DecidedAs(findings, job[w])))
  OBVIOUS
<1> HIDE DEF n
<1>4. /\ j.op = "act" /\ j.was = review /\ j.high = n
      /\ j.id = job[w].id /\ j.loaded = job[w].loaded /\ j.to = job[w].to
  BY <1>1 DEF ActJob
<1> HIDE DEF j
<1>5. DecidedAs(findings, j) = DecidedAs(findings, job[w])
  BY <1>4 DEF DecidedAs
<1>6. AloneInv => Current(j, review, findings)
  BY <1>1, <1>3, <1>4, <1>5 DEF AloneInv, Current, CurrentRun, CurrentAct
<1> QED BY <1>1, <1>2, <1>6, GoOnCount

LEMMA ActGoneCount ==
  ASSUME ReviewInv, CountInv, NEW w \in Workers, ActGone(w)
  PROVE  CountInv'
<1>1. job[w] # Idle /\ job' = [job EXCEPT ![w] = Idle] /\ UNCHANGED <<review, findings, raced>>
  BY DEF ActGone, Idle
<1>2. ~raced => Counted(review', findings')
  BY <1>1 DEF CountInv, AloneInv
<1> QED BY <1>1, <1>2, CommitCount

(* The count was taken of the rows as the decision leaves them.             *)
LEMMA ActCommitCount ==
  ASSUME ReviewInv, CountInv, NEW w \in Workers, ActCommit(w)
  PROVE  CountInv'
<1> DEFINE j == job[w]
<1>1. j \in ActJob /\ j.op = "act" /\ j.at = "held" /\ j # Idle
  BY JobKinds DEF ActCommit, ReviewInv, Idle
<1>2. findings[j.id] \in Row /\ review \in Review /\ j.id \in Ids
  BY <1>1 DEF ReviewInv, RowsOfReview, ActJob
<1>3. ASSUME ~raced
      PROVE  Counted(review', findings')
  <2>1. /\ j.loaded = findings[j.id] /\ j.was = review
        /\ j.high = Cardinality(OpenHigh(DecidedAs(findings, j)))
    BY <1>1, <1>3 DEF CountInv, AloneInv, Current, CurrentAct
  <2> DEFINE old == findings[j.id]
             note == Written(j.loaded.note, j.note, old.note)
             st == Written(j.loaded.status, j.to, old.status)
             g == [old EXCEPT !.status = st, !.note = note]
             f == [old EXCEPT !.status = j.to]
  <2>2. st = j.to /\ note \in Notes
    BY <1>1, <1>2, <2>1 DEF Written, Row, ActJob
  <2>3. findings' = [findings EXCEPT ![j.id].status = st, ![j.id].note = note]
    BY <1>2 DEF ActCommit, ReviewInv, ReviewTypeOK, Row
  <2> HIDE DEF st, note
  <2>4. findings' = [findings EXCEPT ![j.id] = g]
    BY <1>2, <2>3 DEF ReviewInv, ReviewTypeOK, Row
  <2>5. g.status = f.status /\ g.sev = f.sev /\ g \in Row /\ f \in Row
    BY <1>1, <1>2, <2>2 DEF Row, ActJob
  <2>6. g # None /\ f # None
    BY <2>5, RowNotNone
  <2>7. DecidedAs(findings, j) = [findings EXCEPT ![j.id] = f]
    BY <2>1 DEF DecidedAs
  <2> HIDE DEF g, f
  <2>8. \A i \in Ids : (IsOpen(findings', i) /\ findings'[i].sev = "high")
                         <=> (IsOpen(DecidedAs(findings, j), i) /\ DecidedAs(findings, j)[i].sev = "high")
    BY <1>2, <2>4, <2>5, <2>6, <2>7 DEF IsOpen, ReviewInv, ReviewTypeOK
  <2>9. OpenHigh(findings') = OpenHigh(DecidedAs(findings, j))
    BY <2>8 DEF OpenHigh
  <2>10. review'.high = j.high
    BY <1>2, <2>1 DEF ActCommit, Review, Written
  <2> QED BY <2>1, <2>9, <2>10 DEF Counted
<1>4. job' = [job EXCEPT ![w] = Idle] /\ raced' = raced
  BY DEF ActCommit
<1> QED BY <1>1, <1>3, <1>4, CommitCount

LEMMA SignReadCount ==
  ASSUME ReviewInv, CountInv, NEW w \in Workers, NEW u \in Reviewers, SignRead(w, u)
  PROVE  CountInv'
<1> DEFINE j == [op |-> "sign", loaded |-> review, by |-> u]
<1>1. Current(j, review, findings)
  BY DEF Current, CurrentRun, CurrentAct
<1>2. Start(w, j) /\ UNCHANGED <<review, findings>>
  BY DEF SignRead
<1> HIDE DEF j
<1> QED BY <1>1, <1>2, StartCount

LEMMA SignCommitCount ==
  ASSUME ReviewInv, CountInv, NEW w \in Workers, SignCommit(w)
  PROVE  CountInv'
<1>1. job[w] # Idle /\ job' = [job EXCEPT ![w] = Idle] /\ UNCHANGED <<findings, raced>>
  BY DEF SignCommit, Idle
<1>2. review \in Review
  BY JobKinds DEF SignCommit, ReviewInv, RowsOfReview
<1>3. review'.high = review.high
  BY <1>2 DEF SignCommit, Review
<1>4. review # None
  BY <1>2, RowNotNone
<1>5. ~raced => Counted(review', findings')
  BY <1>1, <1>3, <1>4 DEF CountInv, AloneInv, Counted
<1> QED BY <1>1, <1>5, CommitCount

LEMMA CountStep == ReviewInv /\ CountInv /\ [ReviewNext]_reviewVars => CountInv'
<1> SUFFICES ASSUME ReviewInv, CountInv, [ReviewNext]_reviewVars PROVE CountInv'
  OBVIOUS
<1>1. CASE UNCHANGED reviewVars
  BY <1>1 DEF reviewVars, CountInv, AloneInv, Alone
<1> QED
  BY <1>1, RunReadCount, RunDeleteCount, RunDeletedCount, RunCommitCount, ActReadCount,
     ActUpdateCount, ActGoneCount, ActCommitCount, SignReadCount, SignCommitCount
     DEF ReviewNext

(* As long as no two requests overlapped, the count the sign-off trusts is *)
(* the number of open high findings: run_close_review counts the keys it   *)
(* inserts, act_on_finding the rows it sees, and both come to what is      *)
(* stored.                                                                 *)
THEOREM CountsAreHonest == ReviewSpec => []CountsHonest
<1>1. ReviewInit => CountInv
  BY IdleCurrent DEF ReviewInit, CountInv, AloneInv, Alone, Counted
<1>2. CountInv => CountsHonest
  BY DEF CountInv, AloneInv, Counted, CountsHonest
<1> QED BY <1>1, <1>2, CountStep, ReviewInvariant, PTL DEF ReviewSpec

--------------------------------------------------------------------------------
(* The close checklist.                                                    *)

(* The template with the edit e made.                                       *)
With(e) == [dep EXCEPT ![e.key] = e.to]

(* At most one edit is in progress, and it would leave no circle.           *)
EditsSafe ==
  /\ \A a, b \in Members : edit[a] # NoEdit /\ edit[b] # NoEdit => a = b
  /\ \A a \in Members : edit[a] # NoEdit => Acyclic(With(edit[a]))

(* Keys not in use yet are nobody's prerequisite, nor part of an edit or tick. *)
UnusedApart ==
  \A k \in AllSteps : shown[k] = "unused" =>
    /\ \A s \in AllSteps : dep[s] # k
    /\ \A a \in Members : edit[a] # NoEdit => edit[a].key # k /\ edit[a].to # k
    /\ \A t \in Members : tick[t] # NoTick => tick[t].key # k

ListInv == ListTypeOK /\ UnusedApart /\ (crossed \/ (Acyclic(dep) /\ EditsSafe))

--------------------------------------------------------------------------------
LEMMA StepsNotNone == None \notin AllSteps
BY ChecklistAssumption

(* Without a prerequisite, no new circle.                                   *)
LEMMA ClearKeeps ==
  ASSUME NEW f \in [AllSteps -> AllSteps \cup {None}], Acyclic(f), NEW k \in AllSteps
  PROVE  Acyclic([f EXCEPT ![k] = None])
<1> DEFINE g == [f EXCEPT ![k] = None]
<1> SUFFICES ASSUME NEW S \in SUBSET AllSteps, S # {}
             PROVE  \E s \in S : g[s] \notin S
  BY DEF Acyclic, LeavesTo
<1>1. PICK s \in S : f[s] \notin S
  BY DEF Acyclic, LeavesTo
<1>2. g[s] \notin S
  BY <1>1, StepsNotNone
<1> QED BY <1>2

(* A step nothing leads to may get any prerequisite but itself.             *)
LEMMA FreshKeeps ==
  ASSUME NEW f \in [AllSteps -> AllSteps \cup {None}], Acyclic(f),
         NEW k \in AllSteps, \A s \in AllSteps : f[s] # k,
         NEW d \in AllSteps \cup {None}, d # k
  PROVE  Acyclic([f EXCEPT ![k] = d])
<1> DEFINE g == [f EXCEPT ![k] = d]
<1> SUFFICES ASSUME NEW S \in SUBSET AllSteps, S # {}
             PROVE  \E s \in S : g[s] \notin S
  BY DEF Acyclic, LeavesTo
<1> DEFINE R == S \ {k}
<1>1. CASE R = {}
  <2>1. S = {k}
    BY <1>1
  <2> QED BY <2>1
<1>2. CASE R # {}
  <2>1. PICK s \in R : f[s] \notin R
    BY <1>2 DEF Acyclic, LeavesTo
  <2>2. g[s] = f[s] /\ f[s] # k
    BY <2>1
  <2> QED BY <2>1, <2>2
<1> QED BY <1>1, <1>2

(* What _resolve_dependency accepts closes no circle: the walk from d does  *)
(* not meet k, and a circle through the new edge would.                     *)
LEMMA RewireKeeps ==
  ASSUME ListTypeOK, Acyclic(dep), NEW k \in AllSteps, NEW d \in AllSteps, MayDependOn(k, d)
  PROVE  Acyclic([dep EXCEPT ![k] = d])
<1> DEFINE g == [dep EXCEPT ![k] = d]
<1>a. dep \in [AllSteps -> AllSteps \cup {None}]
  BY DEF ListTypeOK
<1>1. PICK T \in SUBSET AllSteps :
        d \in T /\ k \notin T /\ \A s \in T : Exists(s) /\ dep[s] # None => dep[s] \in T
  BY DEF MayDependOn, Chain
<1> SUFFICES ASSUME NEW S \in SUBSET AllSteps, S # {}, \A s \in S : g[s] \in S
             PROVE  FALSE
  BY <1>a DEF Acyclic, LeavesTo
<1>2. CASE k \notin S
  BY <1>2, <1>a DEF Acyclic, LeavesTo
<1>3. CASE k \in S
  <2>1. d \in S
    BY <1>3, <1>a
  <2>2. ASSUME NEW s \in S \cap T
        PROVE  dep[s] \in S \cap T
    <3>1. dep[s] \in S
      BY <1>1, <1>a
    <3>2. dep[s] # None
      BY <3>1, StepsNotNone
    <3>3. Exists(s)
      BY <3>2, StepsNotNone DEF ListTypeOK, Exists
    <3> QED BY <1>1, <3>1, <3>2, <3>3
  <2>3. S \cap T \in SUBSET DOMAIN dep /\ S \cap T # {}
    BY <1>1, <2>1, <1>a
  <2> QED BY <2>2, <2>3 DEF Acyclic, LeavesTo
<1> QED BY <1>2, <1>3

--------------------------------------------------------------------------------
LEMMA InitListInv == ListInit => ListInv
<1> SUFFICES ASSUME ListInit PROVE ListInv
  OBVIOUS
<1>1. SeededDep \in [DefaultSteps -> DefaultSteps \cup {None}] /\ Acyclic(SeededDep)
      /\ DefaultSteps \cap CustomSteps = {} /\ None \notin AllSteps \cup {"skipped"} /\ LinkedSteps \subseteq DefaultSteps
  BY ChecklistAssumption
<1>2. ListTypeOK
  BY <1>1 DEF ListInit, ListTypeOK, AllSteps, StepStatuses
<1>3. UnusedApart
  BY <1>1 DEF ListInit, UnusedApart, AllSteps
<1>4. Acyclic(dep)
  <2> SUFFICES ASSUME NEW S \in SUBSET AllSteps, S # {}, \A s \in S : dep[s] \in S
               PROVE  FALSE
    BY DEF Acyclic, LeavesTo, ListInit
  <2>1. S \subseteq DefaultSteps
    BY <1>1 DEF ListInit
  <2>2. PICK s \in S : SeededDep[s] \notin S
    BY <1>1, <2>1 DEF Acyclic, LeavesTo
  <2> QED BY <2>1, <2>2 DEF ListInit, AllSteps
<1>5. EditsSafe
  BY DEF ListInit, EditsSafe
<1> QED BY <1>2, <1>3, <1>4, <1>5 DEF ListInv

LEMMA PageKeeps == ASSUME ListInv, BuildChecklist PROVE ListInv'
<1>1. ListTypeOK'
  <2>1. inst' \in [AllSteps -> StepStatuses \cup {None}]
    BY DEF ListInv, ListTypeOK, BuildChecklist, Checklist, BuiltStatus, StepStatuses
  <2>2. \A k \in LinkedSteps : inst'[k] # "skipped"
    BY ChecklistAssumption DEF ListInv, ListTypeOK, BuildChecklist, Checklist, BuiltStatus, AllSteps
  <2>3. \A k \in AllSteps : shown[k] = "unused" => inst'[k] = None
    BY DEF ListInv, ListTypeOK, BuildChecklist, IsActive
  <2> QED BY <2>1, <2>2, <2>3 DEF ListInv, ListTypeOK, BuildChecklist
<1>2. UNCHANGED <<shown, dep, edit, crossed, tick>>
  BY DEF BuildChecklist
<1> QED BY <1>1, <1>2 DEF ListInv, UnusedApart, EditsSafe, With

LEMMA TickReadKeeps ==
  ASSUME ListInv, NEW t \in Members, NEW k \in AllSteps, NEW s \in StepStatuses, TickRead(t, k, s)
  PROVE  ListInv'
<1> DEFINE c == [key |-> k, insert |-> inst[k] = None, to |-> s]
<1>1. /\ UNCHANGED <<shown, dep, inst, live, edit, crossed>>
      /\ tick' = [tick EXCEPT ![t] = c]
      /\ k \notin LinkedSteps /\ (inst[k] # None \/ IsActive(k))
  BY DEF TickRead
<1>2. c \in HandTick
  <2>1. (inst[k] = None) \in BOOLEAN
    BY Zenon
  <2> QED BY <1>1, <2>1 DEF HandTick
<1>3. ListTypeOK'
  <2>1. tick' \in [Members -> {NoTick} \cup HandTick]
    BY <1>1, <1>2 DEF ListInv, ListTypeOK
  <2> QED BY <1>1, <2>1 DEF ListInv, ListTypeOK
<1>4. shown[k] # "unused"
  BY <1>1 DEF ListInv, ListTypeOK, IsActive
<1>5. UnusedApart'
  BY <1>1, <1>4 DEF ListInv, ListTypeOK, UnusedApart
<1> QED BY <1>1, <1>3, <1>5 DEF ListInv, EditsSafe, With, Acyclic, LeavesTo

LEMMA TickCommitKeeps ==
  ASSUME ListInv, NEW t \in Members, TickCommit(t)
  PROVE  ListInv'
<1> DEFINE c == tick[t]
<1>1. /\ UNCHANGED <<shown, dep, live, edit, crossed>>
      /\ c # NoTick /\ tick' = [tick EXCEPT ![t] = NoTick]
      /\ inst' = inst \/ inst' = [inst EXCEPT ![c.key] = c.to]
  BY DEF TickCommit
<1>2. c \in HandTick
  BY <1>1 DEF ListInv, ListTypeOK
<1>3. c.key \in AllSteps \ LinkedSteps /\ c.to \in StepStatuses /\ shown[c.key] # "unused"
  BY <1>1, <1>2 DEF ListInv, UnusedApart, HandTick
<1>4. ListTypeOK'
  <2>1. inst' \in [AllSteps -> StepStatuses \cup {None}]
        /\ \A j \in AllSteps : j # c.key => inst'[j] = inst[j]
    BY <1>1, <1>3 DEF ListInv, ListTypeOK
  <2>2. LinkedSteps \subseteq AllSteps
    BY ChecklistAssumption DEF AllSteps
  <2>3. tick' \in [Members -> {NoTick} \cup HandTick]
    BY <1>1 DEF ListInv, ListTypeOK
  <2> QED BY <1>1, <1>3, <2>1, <2>2, <2>3 DEF ListInv, ListTypeOK
<1>5. UnusedApart'
  BY <1>1 DEF ListInv, ListTypeOK, UnusedApart
<1> QED BY <1>1, <1>4, <1>5 DEF ListInv, EditsSafe, With, Acyclic, LeavesTo

LEMMA ModuleKeeps ==
  ASSUME ListInv, NEW k \in LinkedSteps, ModuleMoves(k)
  PROVE  ListInv'
<1>1. UNCHANGED <<shown, dep, inst, edit, crossed, tick>> /\ live' \in [LinkedSteps -> {"pending", "done"}]
  BY DEF ModuleMoves, ListInv, ListTypeOK
<1> QED BY <1>1 DEF ListInv, ListTypeOK, UnusedApart, EditsSafe, With

LEMMA ShowKeeps ==
  ASSUME ListInv, NEW k \in AllSteps, NEW active \in BOOLEAN, SetActive(k, active)
  PROVE  ListInv'
<1>1. /\ UNCHANGED <<dep, inst, live, edit, crossed, tick>>
      /\ shown' \in [AllSteps -> {"unused", "active", "hidden", "deleted"}]
      /\ shown'[k] \in {"active", "hidden"}
      /\ \A j \in AllSteps \ {k} : shown'[j] = shown[j]
  BY DEF SetActive, ListInv, ListTypeOK
<1>2. ListTypeOK'
  BY <1>1 DEF ListInv, ListTypeOK
<1>3. UnusedApart'
  BY <1>1 DEF ListInv, UnusedApart
<1> QED BY <1>1, <1>2, <1>3 DEF ListInv, EditsSafe, With

LEMMA AddKeeps ==
  ASSUME ListInv, NEW k \in AllSteps, NEW d \in AllSteps \cup {None}, AddStep(k, d)
  PROVE  ListInv'
<1>1. /\ UNCHANGED <<inst, live, edit, crossed, tick>>
      /\ shown[k] = "unused" /\ d # k
      /\ d # None => shown[d] = "active"
      /\ dep' = [dep EXCEPT ![k] = d]
      /\ shown' = [shown EXCEPT ![k] = "active"]
  BY StepsNotNone DEF AddStep, MayDependOn, IsActive
<1>2. /\ dep \in [AllSteps -> AllSteps \cup {None}]
      /\ \A s \in AllSteps : dep[s] # k
      /\ \A a \in Members : edit[a] # NoEdit => edit[a] \in DepEdit /\ edit[a].key # k /\ edit[a].to # k
  BY <1>1 DEF ListInv, ListTypeOK, UnusedApart
<1>3. ListTypeOK'
  BY <1>1 DEF ListInv, ListTypeOK
<1>4. UnusedApart'
  <2> SUFFICES ASSUME NEW j \in AllSteps, shown'[j] = "unused"
               PROVE  /\ \A s \in AllSteps : dep'[s] # j
                      /\ \A a \in Members : edit'[a] # NoEdit => edit'[a].key # j /\ edit'[a].to # j
                      /\ \A t \in Members : tick'[t] # NoTick => tick'[t].key # j
    BY DEF UnusedApart
  <2>1. j # k /\ shown[j] = "unused" /\ d # j
    BY <1>1, StepsNotNone DEF ListInv, ListTypeOK
  <2> QED BY <1>1, <1>2, <2>1 DEF ListInv, UnusedApart
<1>5. ~crossed => Acyclic(dep') /\ EditsSafe'
  <2> SUFFICES ASSUME ~crossed PROVE Acyclic(dep') /\ EditsSafe'
    OBVIOUS
  <2>1. Acyclic(dep) /\ EditsSafe
    BY DEF ListInv
  <2>2. Acyclic(dep')
    BY <1>1, <1>2, <2>1, FreshKeeps
  <2>3. ASSUME NEW a \in Members, edit'[a] # NoEdit
        PROVE  Acyclic([dep' EXCEPT ![edit'[a].key] = edit'[a].to])
    <3> DEFINE e == edit[a]
    <3>1. e \in DepEdit /\ e.key # k /\ e.to # k /\ Acyclic(With(e))
      BY <1>1, <1>2, <2>1, <2>3 DEF EditsSafe
    <3>2. With(e) \in [AllSteps -> AllSteps \cup {None}] /\ \A s \in AllSteps : With(e)[s] # k
      BY <1>2, <3>1 DEF With, DepEdit
    <3>3. Acyclic([With(e) EXCEPT ![k] = d])
      BY <1>1, <3>1, <3>2, FreshKeeps
    <3>4. [With(e) EXCEPT ![k] = d] = [dep' EXCEPT ![e.key] = e.to]
      BY <1>1, <1>2, <3>1 DEF With, DepEdit
    <3> QED BY <1>1, <3>3, <3>4
  <2> QED BY <1>1, <2>1, <2>2, <2>3 DEF EditsSafe, With
<1> QED BY <1>1, <1>3, <1>4, <1>5 DEF ListInv, Acyclic, LeavesTo

LEMMA EditReadKeeps ==
  ASSUME ListInv, NEW a \in Members, NEW k \in AllSteps, NEW d \in AllSteps, EditRead(a, k, d)
  PROVE  ListInv'
<1> DEFINE e == [key |-> k, to |-> d]
<1>1. /\ UNCHANGED <<shown, dep, inst, live, tick>>
      /\ edit[a] = NoEdit /\ edit' = [edit EXCEPT ![a] = e]
      /\ crossed' = (crossed \/ \E b \in Members : edit[b] # NoEdit)
      /\ Exists(k) /\ MayDependOn(k, d)
  BY DEF EditRead
<1>2. ListTypeOK'
  BY <1>1 DEF ListInv, ListTypeOK, DepEdit
<1>3. UnusedApart'
  <2>1. shown[k] # "unused" /\ shown[d] # "unused"
    BY <1>1 DEF Exists, MayDependOn, IsActive
  <2> QED BY <1>1, <2>1 DEF ListInv, ListTypeOK, UnusedApart
<1>4. ~crossed' => Acyclic(dep') /\ EditsSafe'
  <2> SUFFICES ASSUME ~crossed' PROVE Acyclic(dep') /\ EditsSafe'
    OBVIOUS
  <2>1. ~crossed /\ \A b \in Members : edit[b] = NoEdit
    BY <1>1
  <2>2. Acyclic(dep)
    BY <2>1 DEF ListInv
  <2>3. Acyclic([dep EXCEPT ![k] = d])
    BY <1>1, <2>2, RewireKeeps DEF ListInv
  <2>4. \A b \in Members : edit'[b] # NoEdit => b = a /\ edit'[b] = e
    BY <1>1, <2>1 DEF ListInv, ListTypeOK
  <2>5. EditsSafe'
    BY <1>1, <2>3, <2>4 DEF EditsSafe, With
  <2> QED BY <1>1, <2>2, <2>5
<1> QED BY <1>2, <1>3, <1>4 DEF ListInv, Acyclic, LeavesTo

LEMMA EditCommitKeeps ==
  ASSUME ListInv, NEW a \in Members, EditCommit(a)
  PROVE  ListInv'
<1> DEFINE e == edit[a]
<1>1. /\ UNCHANGED <<shown, inst, live, crossed, tick>>
      /\ e # NoEdit /\ e \in DepEdit /\ edit' = [edit EXCEPT ![a] = NoEdit]
      /\ dep' = IF Exists(e.key) THEN With(e) ELSE dep
  BY DEF EditCommit, With, ListInv, ListTypeOK
<1>2. dep' \in [AllSteps -> AllSteps \cup {None}]
      /\ \A s \in AllSteps : dep'[s] = dep[s] \/ (s = e.key /\ Exists(e.key) /\ dep'[s] = e.to)
  BY <1>1 DEF ListInv, ListTypeOK, With, DepEdit
<1>3. ListTypeOK'
  BY <1>1, <1>2 DEF ListInv, ListTypeOK, Exists
<1>4. UnusedApart'
  BY <1>1, <1>2 DEF ListInv, ListTypeOK, UnusedApart
<1>5. ~crossed => Acyclic(dep') /\ EditsSafe'
  <2> SUFFICES ASSUME ~crossed PROVE Acyclic(dep') /\ EditsSafe'
    OBVIOUS
  <2>1. Acyclic(dep) /\ Acyclic(With(e))
    BY <1>1 DEF ListInv, EditsSafe
  <2>2. \A b \in Members : edit'[b] = NoEdit
    BY <1>1 DEF ListInv, ListTypeOK, EditsSafe
  <2> QED BY <1>1, <2>1, <2>2 DEF EditsSafe
<1> QED BY <1>1, <1>3, <1>4, <1>5 DEF ListInv, Acyclic, LeavesTo

(* Clearing a prerequisite, alone or as a step is deleted.                  *)
LEMMA ClearingSafe ==
  ASSUME ListTypeOK, Acyclic(dep), EditsSafe, NEW k \in AllSteps,
         dep' = [dep EXCEPT ![k] = None], UNCHANGED edit
  PROVE  Acyclic(dep') /\ EditsSafe'
<1>1. dep \in [AllSteps -> AllSteps \cup {None}]
  BY DEF ListTypeOK
<1>2. Acyclic(dep')
  BY <1>1, ClearKeeps
<1>3. ASSUME NEW a \in Members, edit[a] # NoEdit
      PROVE  Acyclic([dep' EXCEPT ![edit[a].key] = edit[a].to])
  <2> DEFINE e == edit[a]
  <2>1. e \in DepEdit /\ Acyclic(With(e))
    BY <1>3 DEF ListTypeOK, EditsSafe
  <2>2. CASE e.key = k
    <3>1. [dep' EXCEPT ![e.key] = e.to] = With(e)
      BY <1>1, <2>1, <2>2 DEF With, DepEdit
    <3> QED BY <2>1, <3>1
  <2>3. CASE e.key # k
    <3>1. With(e) \in [AllSteps -> AllSteps \cup {None}]
      BY <1>1, <2>1 DEF With, DepEdit
    <3>2. Acyclic([With(e) EXCEPT ![k] = None])
      BY <2>1, <3>1, ClearKeeps
    <3>3. [With(e) EXCEPT ![k] = None] = [dep' EXCEPT ![e.key] = e.to]
      BY <1>1, <2>1, <2>3 DEF With, DepEdit
    <3> QED BY <3>2, <3>3
  <2> QED BY <2>2, <2>3
<1> QED BY <1>2, <1>3 DEF EditsSafe, With

LEMMA ClearDependencyKeeps ==
  ASSUME ListInv, NEW k \in AllSteps, ClearDependency(k)
  PROVE  ListInv'
<1>1. UNCHANGED <<shown, inst, live, edit, crossed, tick>> /\ dep' = [dep EXCEPT ![k] = None]
  BY DEF ClearDependency
<1>2. ListTypeOK'
  BY <1>1 DEF ListInv, ListTypeOK
<1>3. UnusedApart'
  BY <1>1, StepsNotNone DEF ListInv, ListTypeOK, UnusedApart
<1>4. ~crossed => Acyclic(dep') /\ EditsSafe'
  BY <1>1, ClearingSafe DEF ListInv
<1> QED BY <1>1, <1>2, <1>3, <1>4 DEF ListInv, Acyclic, LeavesTo

LEMMA DeleteKeeps ==
  ASSUME ListInv, NEW k \in AllSteps, DeleteStep(k)
  PROVE  ListInv'
<1>1. /\ UNCHANGED <<live, edit, crossed, tick>> /\ dep' = [dep EXCEPT ![k] = None]
      /\ shown' = [shown EXCEPT ![k] = "deleted"] /\ inst' = [inst EXCEPT ![k] = None]
  BY DEF DeleteStep
<1>2. ListTypeOK'
  BY <1>1, ChecklistAssumption DEF ListInv, ListTypeOK, AllSteps, StepStatuses, DeleteStep
<1>3. UnusedApart'
  BY <1>1, StepsNotNone DEF ListInv, ListTypeOK, UnusedApart
<1>4. ~crossed => Acyclic(dep') /\ EditsSafe'
  BY <1>1, ClearingSafe DEF ListInv
<1> QED BY <1>1, <1>2, <1>3, <1>4 DEF ListInv, Acyclic, LeavesTo

LEMMA NextListInv == ListInv /\ [ListNext]_listVars => ListInv'
<1> SUFFICES ASSUME ListInv, [ListNext]_listVars PROVE ListInv'
  OBVIOUS
<1>1. CASE BuildChecklist
  BY <1>1, PageKeeps
<1>2. ASSUME NEW k \in LinkedSteps, ModuleMoves(k) PROVE ListInv'
  BY <1>2, ModuleKeeps
<1>3. ASSUME NEW t \in Members, NEW k \in AllSteps, NEW s \in StepStatuses, TickRead(t, k, s)
      PROVE  ListInv'
  BY <1>3, TickReadKeeps
<1>4. ASSUME NEW k \in AllSteps, NEW d \in AllSteps \cup {None}, AddStep(k, d) PROVE ListInv'
  BY <1>4, AddKeeps
<1>5. ASSUME NEW k \in AllSteps, NEW a \in Members, NEW d \in AllSteps, EditRead(a, k, d)
      PROVE  ListInv'
  BY <1>5, EditReadKeeps
<1>6. ASSUME NEW k \in AllSteps, ClearDependency(k) PROVE ListInv'
  BY <1>6, ClearDependencyKeeps
<1>7. ASSUME NEW k \in AllSteps, DeleteStep(k) PROVE ListInv'
  BY <1>7, DeleteKeeps
<1>8. ASSUME NEW k \in AllSteps, NEW active \in BOOLEAN, SetActive(k, active) PROVE ListInv'
  BY <1>8, ShowKeeps
<1>9. ASSUME NEW a \in Members, EditCommit(a) PROVE ListInv'
  BY <1>9, EditCommitKeeps
<1>10. ASSUME NEW t \in Members, TickCommit(t) PROVE ListInv'
  BY <1>10, TickCommitKeeps
<1>11. CASE UNCHANGED listVars
  BY <1>11 DEF listVars, ListInv, ListTypeOK, UnusedApart, EditsSafe, With, Acyclic, LeavesTo
<1> QED
  BY <1>1, <1>2, <1>3, <1>4, <1>5, <1>6, <1>7, <1>8, <1>9, <1>10, <1>11 DEF ListNext

LEMMA ListInvariant == ListSpec => []ListInv
BY InitListInv, NextListInv, PTL DEF ListSpec

--------------------------------------------------------------------------------
(* Every operation on the template, the instances and the modules keeps     *)
(* them well typed: a linked step is never stored as skipped, and one that  *)
(* is not in use yet has no instance.                                       *)
THEOREM ChecklistTypeCorrect == ListSpec => []ListTypeOK
BY ListInvariant, PTL DEF ListInv

(* As long as no two edits of a prerequisite overlap, no chain of           *)
(* prerequisites is circular, for any template and any number of admins:    *)
(* what _resolve_dependency walks is enough, hidden steps and the steps     *)
(* added, cleared or deleted between its walk and its commit included.      *)
THEOREM ChainsStayAcyclic == ListSpec => []NoCycle
<1>1. ListInv => NoCycle
  BY DEF ListInv, NoCycle
<1> QED BY <1>1, ListInvariant, PTL

(* Nor does the checklist ever dead-end (build_checklist): of the steps on  *)
(* the page that are neither done nor skipped, one is not blocked.          *)
THEOREM NeverDeadEnds == ListSpec => []NeverStuck
<1>1. ListInv => NeverStuck
  <2> DEFINE U == {k \in DOMAIN Checklist : Checklist[k] \notin {"done", "skipped"}}
  <2> SUFFICES ASSUME ListInv, U # {}, ~crossed
               PROVE  \E k \in U : ~MarkedBlocked(k)
    BY DEF NeverStuck
  <2>1. Acyclic(dep) /\ DOMAIN dep = AllSteps
    BY DEF ListInv, ListTypeOK
  <2>2. U \in SUBSET AllSteps
    BY DEF Checklist
  <2>3. PICK k \in U : dep[k] \notin U
    BY <2>1, <2>2 DEF Acyclic, LeavesTo
  <2>4. ~MarkedBlocked(k)
    BY <2>3 DEF MarkedBlocked, DepSatisfied
  <2> QED BY <2>4
<1> QED BY <1>1, ListInvariant, PTL

(* What the page marks blocked is what the gate of update_step refuses, in  *)
(* any state of the template and the modules.                               *)
THEOREM PageShowsTheGate == ListSpec => []PageAgreesWithGate
<1>1. ListInv => PageAgreesWithGate
  <2> SUFFICES ASSUME ListInv, NEW k \in DOMAIN Checklist
               PROVE  MarkedBlocked(k) <=> BlockedFor(k)
    BY DEF PageAgreesWithGate
  <2>1. k \in AllSteps /\ IsActive(k)
    BY DEF Checklist
  <2>2. Exists(k)
    BY <2>1 DEF IsActive, Exists
  <2>3. dep[k] \in DOMAIN Checklist <=> IsActive(dep[k])
    BY <2>1 DEF Checklist, IsActive, ListInv, ListTypeOK
  <2>4. dep[k] \in DOMAIN Checklist => Checklist[dep[k]] = EffectiveStatusOf(dep[k])
    BY DEF Checklist, BuiltStatus, EffectiveStatusOf
  <2> QED BY <2>2, <2>3, <2>4 DEF MarkedBlocked, BlockedFor
<1> QED BY <1>1, ListInvariant, PTL
================================================================================
