-------------------------------- MODULE AuditChain -------------------------------
(***************************************************************************)
(* The audit log of one workspace as a hash chain: concurrent requests     *)
(* write their audit events inside their own transactions, each event      *)
(* linking to the newest one it can see, and verify_chain later walks the  *)
(* committed rows by created_at and reports every link that does not       *)
(* match.                                                                  *)
(*                                                                         *)
(* A request is a transaction that runs a program: it updates rows of      *)
(* other tables and writes audit events, in an order its handler fixes.    *)
(* An update keeps the row's lock to the end of the transaction, and so    *)
(* does the first audit event with the chain's advisory lock.              *)
(*                                                                         *)
(* created_at is a tick of one clock shared by all requests, so every      *)
(* event has its own, and it stands for the event's hash as well: SHA-256  *)
(* over the previous hash and the content never collides.  Reading the     *)
(* head, hashing and inserting is one step: until the commit only the      *)
(* request itself sees the row.                                            *)
(***************************************************************************)
EXTENDS Naturals, Sequences, NoneValue

CONSTANTS
  Requests,       (* concurrent requests, one transaction each              *)
  Rows,           (* rows of other tables that they update                  *)
  Audit,          (* the step that writes an audit event                    *)
  Program         (* Program[w]: the steps of request w, in order           *)

ASSUME ProgramsAssumption ==
  /\ Audit \notin Rows
  /\ Program \in [Requests -> Seq(Rows \cup {Audit})]
  /\ None \notin Requests

Genesis == 0

VARIABLES
  phase,          (* "new", "running", "stamped", "chaining" or "ended"     *)
  at,             (* at[w]: the steps request w has behind it               *)
  stamp,          (* stamp[w]: created_at of the event being written        *)
  clock,          (* the last tick handed out                               *)
  rowLock,        (* rowLock[r]: who holds the lock of row r                *)
  chainLock,      (* who holds the advisory lock of the chain               *)
  log,            (* audit rows [by, ts, prev, hashed], open ones included  *)
  committed       (* the requests that committed                            *)

auditVars == <<phase, at, stamp, clock, rowLock, chainLock, log, committed>>

Remaining(w) == at[w] < Len(Program[w])
NextStep(w) == Program[w][at[w] + 1]

--------------------------------------------------------------------------------
(* The hashed rows a query of request w sees: READ COMMITTED, plus its own. *)
Visible(w) == {r \in log : r.hashed /\ (r.by \in committed \/ r.by = w)}

Newest(S) == IF S = {} THEN Genesis
             ELSE (CHOOSE r \in S : \A q \in S : q.ts <= r.ts).ts

(* The chain as the verifier reads it, and the rows it reports: the first   *)
(* one is taken as it is, the others must link to the row before them.      *)
Chain == {r \in log : r.hashed /\ r.by \in committed}

Earlier(r) == {q \in Chain : q.ts < r.ts}

Breaks == {r \in Chain : Earlier(r) # {} /\ r.prev # Newest(Earlier(r))}

--------------------------------------------------------------------------------
(* w waits for v: for the chain or for a row that v has locked.             *)
WaitsFor(w, v) ==
  /\ v # w
  /\ \/ phase[w] = "stamped" /\ chainLock = v
     \/ /\ phase[w] = "running" /\ Remaining(w)
        /\ NextStep(w) \in Rows /\ rowLock[NextStep(w)] = v

Deadlocked(w) ==
  \E S \in SUBSET Requests : w \in S /\ \A x \in S : \E y \in S : WaitsFor(x, y)

(* Defect: the advisory lock belongs to the connection, not to its          *)
(* transaction.                                                             *)
ReleasedRows(w) ==
  /\ UNCHANGED chainLock
  /\ rowLock' = [r \in Rows |-> IF rowLock[r] = w THEN None ELSE rowLock[r]]

Released(w) ==
  /\ chainLock' = IF chainLock = w THEN None ELSE chainLock
  /\ rowLock' = [r \in Rows |-> IF rowLock[r] = w THEN None ELSE rowLock[r]]

--------------------------------------------------------------------------------
(* A request arrives.                                                       *)
BeginRequest(w) ==
  /\ phase[w] = "new"
  /\ phase' = [phase EXCEPT ![w] = "running"]
  /\ UNCHANGED <<at, stamp, clock, rowLock, chainLock, log, committed>>

UpdateRow(w) ==
  /\ phase[w] = "running"
  /\ Remaining(w)
  /\ NextStep(w) \in Rows
  /\ rowLock[NextStep(w)] \in {None, w}
  /\ rowLock' = [rowLock EXCEPT ![NextStep(w)] = w]
  /\ at' = [at EXCEPT ![w] = @ + 1]
  /\ UNCHANGED <<phase, stamp, clock, chainLock, log, committed>>

(* write_audit_event takes the time before anything else.                   *)
StampEvent(w) ==
  /\ phase[w] = "running"
  /\ Remaining(w)
  /\ NextStep(w) = Audit
  /\ clock' = clock + 1
  /\ stamp' = [stamp EXCEPT ![w] = clock + 1]
  /\ phase' = [phase EXCEPT ![w] = "stamped"]
  /\ UNCHANGED <<at, rowLock, chainLock, log, committed>>

LockChain(w) ==
  /\ phase[w] = "stamped"
  /\ chainLock \in {None, w}
  /\ chainLock' = w
  /\ phase' = [phase EXCEPT ![w] = "chaining"]
  /\ UNCHANGED <<at, stamp, clock, rowLock, log, committed>>

(* Defect: the lock is given back with the insert, before the commit.       *)
WriteEventAndUnlock(w) ==
  /\ phase[w] = "chaining"
  /\ \E hashed \in BOOLEAN :
       log' = log \cup {[by |-> w, ts |-> stamp[w], hashed |-> hashed,
                         prev |-> IF hashed THEN Newest(Visible(w)) ELSE Genesis]}
  /\ at' = [at EXCEPT ![w] = @ + 1]
  /\ phase' = [phase EXCEPT ![w] = "running"]
  /\ chainLock' = None
  /\ UNCHANGED <<stamp, clock, rowLock, committed>>

(* Link to the head, or, when hashing fails, write the row without a hash.  *)
WriteEvent(w) ==
  /\ phase[w] = "chaining"
  /\ \E hashed \in BOOLEAN :
       log' = log \cup {[by |-> w, ts |-> stamp[w], hashed |-> hashed,
                         prev |-> IF hashed THEN Newest(Visible(w)) ELSE Genesis]}
  /\ at' = [at EXCEPT ![w] = @ + 1]
  /\ phase' = [phase EXCEPT ![w] = "running"]
  /\ UNCHANGED <<stamp, clock, rowLock, chainLock, committed>>

Commit(w) ==
  /\ phase[w] = "running"
  /\ ~Remaining(w)
  /\ committed' = committed \cup {w}
  /\ Released(w)
  /\ phase' = [phase EXCEPT ![w] = "ended"]
  /\ UNCHANGED <<at, stamp, clock, log>>

(* A failing statement, a lost connection: the transaction leaves nothing.  *)
Abort(w) ==
  /\ phase[w] \notin {"new", "ended"}
  /\ log' = {r \in log : r.by # w}
  /\ Released(w)
  /\ phase' = [phase EXCEPT ![w] = "ended"]
  /\ UNCHANGED <<at, stamp, clock, committed>>

(* Postgres picks a victim among the transactions of a deadlock.            *)
BreakDeadlock(w) == Deadlocked(w) /\ Abort(w)

--------------------------------------------------------------------------------
AuditInit ==
  /\ phase = [w \in Requests |-> "new"]
  /\ at = [w \in Requests |-> 0]
  /\ stamp = [w \in Requests |-> 0]
  /\ clock = 0
  /\ rowLock = [r \in Rows |-> None]
  /\ chainLock = None
  /\ log = {}
  /\ committed = {}

Statement(w) ==
  \/ UpdateRow(w)
  \/ StampEvent(w)
  \/ LockChain(w)
  \/ WriteEvent(w)
  \/ Commit(w)

AuditNext == \E w \in Requests : BeginRequest(w) \/ Statement(w) \/ Abort(w)

(* The server runs every request it has accepted, and the database answers  *)
(* every statement that does not wait and every deadlock.                   *)
AuditFairness ==
  /\ \A w \in Requests : WF_auditVars(Statement(w))
  /\ WF_auditVars(\E w \in Requests : BreakDeadlock(w))

AuditSpec == AuditInit /\ [][AuditNext]_auditVars /\ AuditFairness

--------------------------------------------------------------------------------
(* Properties.                                                              *)

(* When no event linked to one stamped after it, the verifier finds no      *)
(* break: whatever the requests did, aborted and failed to hash, nobody has *)
(* read a tail that somebody else was extending.                            *)
InOrderChainVerifies == (\A r \in Chain : r.prev < r.ts) => Breaks = {}

(* Every request ends, the ones caught in a deadlock by being its victim:   *)
(* the chain lock is never left behind.                                     *)
EveryRequestEnds == \A w \in Requests : phase[w] = "running" ~> phase[w] = "ended"
================================================================================
