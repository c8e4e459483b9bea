------------------------------- MODULE TokenRefresh ------------------------------
(***************************************************************************)
(* refresh_access_token: one QuickBooks realm, the server processes that   *)
(* serve its workspace, and the coroutines that ask for an access token.   *)
(*                                                                         *)
(* Access and refresh tokens are numbered as Intuit issues them.  A pair   *)
(* of them is stored in the database and held in memory by the connection  *)
(* object of each session; the callers of a session share that object, as  *)
(* the concurrent evidence pulls do.  The lock is an asyncio.Lock of its   *)
(* process.                                                                *)
(*                                                                         *)
(* Intuit accepts the refresh token it issued last and, when "late" is in  *)
(* Faults, also one it has replaced: the second of two racing requests is  *)
(* then served as well.  The other Faults:  "skip"  the reload of the      *)
(* connection fails and is ignored;  "lose"  Intuit issues tokens and the  *)
(* answer never arrives;  "commit"  the commit of the new pair fails;      *)
(* "crash"  a process restarts.                                            *)
(***************************************************************************)
EXTENDS Naturals, NoneValue

CONSTANTS
  Callers,        (* coroutines that need a token                           *)
  Sessions,       (* database sessions, each with its connection object     *)
  Procs,          (* server processes                                       *)
  SessionOf,      (* SessionOf[c]: the session a caller runs in             *)
  ProcOf,         (* ProcOf[s]: the process a session belongs to            *)
  MaxGen,         (* bound: access tokens ever issued                       *)
  Faults

ASSUME RefreshAssumption ==
  /\ SessionOf \in [Callers -> Sessions]
  /\ ProcOf \in [Sessions -> Procs]
  /\ MaxGen \in Nat
  /\ Faults \subseteq {"late", "skip", "lose", "commit", "crash"}
  /\ None \notin Callers

VARIABLES
  pc,             (* where a caller is, see Labels                          *)
  lock,           (* lock[p]: the caller that holds the lock of process p   *)
  conn,           (* conn[s]: the pair in memory                            *)
  stored,         (* the pair in the database                               *)
  intuit,         (* the pair of tokens Intuit issued last                  *)
  fresh,          (* the access tokens that are not about to expire         *)
  lost,           (* history: a new refresh token was lost before its store *)
  rivals          (* history: two processes were refreshing at once         *)

vars == <<pc, lock, conn, stored, intuit, fresh, lost, rivals>>

(* "blind": about to post without having reloaded; "keeping": about to      *)
(* store an access token only, the refresh token being the one it had.      *)
Refreshing == {"blind", "posting", "keeping", "storing"}
Labels == {"idle", "waiting", "reloading"} \cup Refreshing

Pair == [access : Nat, refresh : Nat]

Home(c) == ProcOf[SessionOf[c]]
Conn(c) == conn[SessionOf[c]]
HasFreshToken(c) == Conn(c).access \in fresh

Goto(c, label) == pc' = [pc EXCEPT ![c] = label]
Leave(c) == Goto(c, "idle") /\ lock' = [lock EXCEPT ![Home(c)] = None]

(* Caller c goes on to post; a caller of another process may be at it too.  *)
Proceeds(c, label) ==
  /\ Goto(c, label)
  /\ rivals' = (rivals \/ \E d \in Callers : Home(d) # Home(c) /\ pc[d] \in Refreshing)
  /\ UNCHANGED lock

--------------------------------------------------------------------------------
(* A fresh token is returned without the lock: nothing changes.             *)
Ask(c) ==
  /\ pc[c] = "idle"
  /\ ~HasFreshToken(c)
  /\ Goto(c, "waiting")
  /\ UNCHANGED <<lock, conn, stored, intuit, fresh, lost, rivals>>

(* Defect: the lock of the realm is not taken.                              *)
AcquireUnlocked(c) ==
  /\ pc[c] = "waiting"
  /\ IF HasFreshToken(c) THEN Goto(c, "idle") ELSE Goto(c, "reloading")
  /\ UNCHANGED <<lock, conn, stored, intuit, fresh, lost, rivals>>

(* The first look under the lock is at the connection in memory.            *)
Acquire(c) ==
  /\ pc[c] = "waiting"
  /\ lock[Home(c)] = None
  /\ IF HasFreshToken(c)
     THEN Leave(c)
     ELSE Goto(c, "reloading") /\ lock' = [lock EXCEPT ![Home(c)] = c]
  /\ UNCHANGED <<conn, stored, intuit, fresh, lost, rivals>>

(* Defect: the reloaded token is not looked at.                             *)
ReloadUnchecked(c) ==
  /\ pc[c] = "reloading"
  /\ conn' = [conn EXCEPT ![SessionOf[c]] = stored]
  /\ Proceeds(c, "posting")
  /\ UNCHANGED <<stored, intuit, fresh, lost>>

(* The second is at the database, best-effort.                              *)
Reload(c) ==
  /\ pc[c] = "reloading"
  /\ \/ /\ conn' = [conn EXCEPT ![SessionOf[c]] = stored]
        /\ IF stored.access \in fresh THEN Leave(c) /\ UNCHANGED rivals
                                     ELSE Proceeds(c, "posting")
     \/ /\ "skip" \in Faults
        /\ Proceeds(c, "blind")
        /\ UNCHANGED conn
  /\ UNCHANGED <<stored, intuit, fresh, lost>>

(* What Intuit takes for caller c's refresh token.                          *)
Accepted(c) ==
  \/ Conn(c).refresh = intuit.refresh
  \/ "late" \in Faults /\ Conn(c).refresh < intuit.refresh

(* Intuit issues an access token and, or not, a new refresh token, and the  *)
(* connection in memory has them.  Without a new one the refresh token is   *)
(* kept.                                                                    *)
Rotate(c) ==
  /\ pc[c] \in {"blind", "posting"}
  /\ Accepted(c)
  /\ intuit.access < MaxGen
  /\ fresh' = fresh \cup {intuit.access + 1}
  /\ \E new \in BOOLEAN :
       LET issued == IF new THEN intuit.refresh + 1 ELSE intuit.refresh
           held == IF new THEN issued ELSE Conn(c).refresh
       IN
       /\ intuit' = [access |-> intuit.access + 1, refresh |-> issued]
       /\ \/ /\ conn' = [conn EXCEPT ![SessionOf[c]] = [access |-> intuit.access + 1,
                                                       refresh |-> held]]
             /\ Goto(c, IF new THEN "storing" ELSE "keeping")
             /\ UNCHANGED <<lock, lost>>
          \/ /\ "lose" \in Faults
             /\ lost' = (lost \/ new)
             /\ Leave(c)
             /\ UNCHANGED conn
  /\ UNCHANGED <<stored, rivals>>

(* Defect: the error path keeps the lock.                                   *)
RefuseHolding(c) ==
  /\ pc[c] \in {"blind", "posting"}
  /\ Goto(c, "idle")
  /\ UNCHANGED <<lock, conn, stored, intuit, fresh, lost, rivals>>

(* Any other answer, or none, is raised to the caller.                      *)
Refuse(c) ==
  /\ pc[c] \in {"blind", "posting"}
  /\ Leave(c)
  /\ UNCHANGED <<conn, stored, intuit, fresh, lost, rivals>>

(* The commit writes the columns that changed.                              *)
Store(c) ==
  /\ pc[c] \in {"keeping", "storing"}
  /\ \/ /\ stored' = IF pc[c] = "storing" THEN Conn(c)
                    ELSE [stored EXCEPT !.access = Conn(c).access]
        /\ UNCHANGED <<conn, lost>>
     \/ /\ "commit" \in Faults
        /\ lost' = (lost \/ pc[c] = "storing")
        /\ conn' = [conn EXCEPT ![SessionOf[c]] = stored]
        /\ UNCHANGED stored
  /\ Leave(c)
  /\ UNCHANGED <<intuit, fresh, rivals>>

--------------------------------------------------------------------------------
(* An hour passes for access token g.                                       *)
Expire(g) ==
  /\ g \in fresh
  /\ fresh' = fresh \ {g}
  /\ UNCHANGED <<pc, lock, conn, stored, intuit, lost, rivals>>

(* A request ends and the next one loads the connection.                    *)
Load(s) ==
  /\ \A c \in Callers : SessionOf[c] = s => pc[c] = "idle"
  /\ conn' = [conn EXCEPT ![s] = stored]
  /\ UNCHANGED <<pc, lock, stored, intuit, fresh, lost, rivals>>

Restart(p) ==
  /\ "crash" \in Faults
  /\ pc' = [c \in Callers |-> IF Home(c) = p THEN "idle" ELSE pc[c]]
  /\ lock' = [lock EXCEPT ![p] = None]
  /\ conn' = [s \in Sessions |-> IF ProcOf[s] = p THEN stored ELSE conn[s]]
  /\ lost' = (lost \/ \E c \in Callers : Home(c) = p /\ pc[c] = "storing")
  /\ UNCHANGED <<stored, intuit, fresh, rivals>>

--------------------------------------------------------------------------------
FirstPair == [access |-> 0, refresh |-> 0]

Init ==
  /\ pc = [c \in Callers |-> "idle"]
  /\ lock = [p \in Procs |-> None]
  /\ conn = [s \in Sessions |-> FirstPair]
  /\ stored = FirstPair
  /\ intuit = FirstPair
  /\ fresh = {0}
  /\ lost = FALSE
  /\ rivals = FALSE

Proceed(c) == Reload(c) \/ Rotate(c) \/ Refuse(c) \/ Store(c)

Next ==
  \/ \E c \in Callers : Ask(c) \/ Acquire(c) \/ Proceed(c)
  \/ \E g \in fresh : Expire(g)
  \/ \E s \in Sessions : Load(s)
  \/ \E p \in Procs : Restart(p)

Spec == Init /\ [][Next]_vars

(* The holder of the lock gets its answers (the POST times out after 20 s), *)
(* and asyncio.Lock wakes its waiters in order.                             *)
TokenFairness == \A c \in Callers : WF_vars(Proceed(c)) /\ SF_vars(Acquire(c))

FairSpec == Spec /\ TokenFairness

--------------------------------------------------------------------------------
(* Properties.                                                              *)

(* Type correctness.                                                        *)
TypeOK ==
  /\ pc \in [Callers -> Labels]
  /\ lock \in [Procs -> Callers \cup {None}]
  /\ conn \in [Sessions -> Pair]
  /\ stored \in Pair
  /\ intuit \in Pair
  /\ fresh \subseteq Nat
  /\ lost \in BOOLEAN
  /\ rivals \in BOOLEAN

(* The workspace is not locked out: whenever no new refresh token is on its *)
(* way to the database, the stored one is the one Intuit issued last.       *)
(* Intuit serving a replaced token does not break this, since the lock puts *)
(* the racing commits of a process in the order of the answers.  Excepted   *)
(* are a token that was lost, and two processes that refresh at once, which *)
(* the lock does not keep apart ("Limitation: the lock is per-process").    *)
StoredTokenAccepted ==
  ~lost /\ ~rivals /\ (\A c \in Callers : pc[c] # "storing")
    => stored.refresh = intuit.refresh

(* "N concurrent callers refresh at most ONCE and everyone else reuses the  *)
(* fresh token": Intuit never issues tokens while another caller is about   *)
(* to store some, nor while the stored access token is still fresh unless   *)
(* the reload was skipped, except when two processes refresh at once.       *)
RefreshedOnce ==
  [][\A c \in Callers :
       intuit' # intuit /\ pc'[c] # pc[c] /\ ~rivals =>
         /\ \A d \in Callers : pc[d] \notin {"keeping", "storing"}
         /\ pc[c] = "blind" \/ stored.access \notin fresh]_vars

(* Every call ends, with a token or with an error: no path leaves the lock  *)
(* behind.                                                                  *)
EveryCallReturns == \A c \in Callers : pc[c] = "waiting" ~> pc[c] = "idle"
================================================================================
