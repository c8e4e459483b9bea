---------------------------- MODULE Plumbing_proofs ----------------------------
(***************************************************************************)
(* Theorems of TokenRefresh for any number of callers, sessions and server *)
(* processes, and of AuditChain for any number of requests and programs.   *)
(*                                                                         *)
(* Tokens: the lock of a process admits one caller of it, so that, until   *)
(* two processes refresh at once, one caller at most is refreshing.  A     *)
(* caller whose reload ran posts only when the stored access token is      *)
(* stale, and one that is about to store a refresh token has the newest.   *)
(*                                                                         *)
(* Audit: only the holder of the chain lock has events that are not        *)
(* committed, so that the committed events alone, and with them the        *)
(* holder's own, each form a chain. Both are empty or have a latest event, *)
(* which is the one the next event links to.                               *)
(***************************************************************************)
EXTENDS MCPlumbing, TLAPS

(* The QuickBooks tokens.                                                  *)

PastLock == {"reloading"} \cup Refreshing

(* Whoever is past the lock of its process holds it.                        *)
LockHeld == \A c \in Callers : pc[c] \in PastLock => lock[Home(c)] = c

(* Access tokens in hand never outrun Intuit's.                             *)
Behind ==
  /\ stored.access <= intuit.access
  /\ \A s \in Sessions : conn[s].access <= intuit.access

OneRefreshing ==
  \A c, d \in Callers : pc[c] \in Refreshing /\ pc[d] \in Refreshing => c = d

PostsWhenStale == \A c \in Callers : pc[c] = "posting" => stored.access \notin fresh

StoresNewest ==
  /\ \A c \in Callers : pc[c] = "storing" => Conn(c).refresh = intuit.refresh
  /\ ~lost => StoredTokenAccepted

(* What holds until two processes refresh at once.                          *)
Sound == OneRefreshing /\ PostsWhenStale /\ StoresNewest

(* The inductive invariant: what a race of two processes breaks stays so.   *)
Inv == TypeOK /\ LockHeld /\ Behind /\ (rivals \/ Sound)

(* Two callers of one process never are past its lock together.             *)
LEMMA OneInProcess ==
  ASSUME LockHeld, NEW c \in Callers, NEW d \in Callers, Home(c) = Home(d),
         pc[c] \in PastLock, pc[d] \in PastLock
  PROVE  c = d
BY DEF LockHeld

LEMMA HomeType == ASSUME NEW c \in Callers PROVE SessionOf[c] \in Sessions /\ Home(c) \in Procs
BY RefreshAssumption DEF Home

LEMMA InvInit == Init => Inv
<1> SUFFICES ASSUME Init PROVE TypeOK /\ LockHeld /\ Behind /\ Sound
  BY DEF Inv
<1>1. TypeOK
  <2>1. lost \in BOOLEAN /\ rivals \in BOOLEAN
    BY Zenon DEF Init
  <2>2. /\ stored \in Pair /\ intuit \in Pair /\ conn \in [Sessions -> Pair]
        /\ fresh \subseteq Nat
    BY DEF Init, FirstPair, Pair
  <2>3. pc \in [Callers -> Labels] /\ lock \in [Procs -> Callers \cup {None}]
    BY DEF Init, Labels
  <2> QED BY <2>1, <2>2, <2>3, Zenon DEF TypeOK
<1>2. LockHeld /\ Behind /\ Sound
  BY HomeType DEF Init, FirstPair, PastLock, Refreshing, LockHeld, Behind, Sound, OneRefreshing,
                  PostsWhenStale, StoresNewest, StoredTokenAccepted
<1> QED BY <1>1, <1>2

LEMMA LeaveType ==
  ASSUME TypeOK, NEW c \in Callers, Leave(c)
  PROVE  pc' \in [Callers -> Labels] /\ lock' \in [Procs -> Callers \cup {None}]
BY HomeType DEF TypeOK, Leave, Goto, Labels

(* No step leaves the types.                                                *)
LEMMA TypeStep == ASSUME TypeOK, [Next]_vars PROVE TypeOK'
<1>1. ASSUME NEW c \in Callers, Ask(c) \/ Acquire(c) \/ Refuse(c)
      PROVE  TypeOK'
  <2>1. pc' \in [Callers -> Labels] /\ lock' \in [Procs -> Callers \cup {None}]
    BY <1>1, LeaveType, HomeType DEF TypeOK, Ask, Acquire, Refuse, Goto, Labels
  <2>2. UNCHANGED <<conn, stored, intuit, fresh, lost, rivals>>
    BY <1>1 DEF Ask, Acquire, Refuse
  <2> QED BY <2>1, <2>2, Zenon DEF TypeOK
<1>2. ASSUME NEW c \in Callers, Reload(c)
      PROVE  TypeOK'
  <2>1. pc' \in [Callers -> Labels] /\ lock' \in [Procs -> Callers \cup {None}]
    BY <1>2, LeaveType DEF TypeOK, Reload, Proceeds, Goto, Labels, Refreshing
  <2>2. conn' \in [Sessions -> Pair]
    BY <1>2, HomeType DEF TypeOK, Reload
  <2>3. rivals' \in BOOLEAN
    BY <1>2, Zenon DEF TypeOK, Reload, Proceeds
  <2>4. UNCHANGED <<stored, intuit, fresh, lost>>
    BY <1>2 DEF Reload
  <2> QED BY <2>1, <2>2, <2>3, <2>4, Zenon DEF TypeOK
<1>3. ASSUME NEW c \in Callers, Rotate(c)
      PROVE  TypeOK'
  <2>1. PICK new \in BOOLEAN :
          LET issued == IF new THEN intuit.refresh + 1 ELSE intuit.refresh
              held == IF new THEN issued ELSE Conn(c).refresh
          IN
          /\ intuit' = [access |-> intuit.access + 1, refresh |-> issued]
          /\ \/ /\ conn' = [conn EXCEPT ![SessionOf[c]] = [access |-> intuit.access + 1,
                                                          refresh |-> held]]
                /\ Goto(c, IF new THEN "storing" ELSE "keeping")
                /\ UNCHANGED <<lock, lost>>
             \/ /\ lost' = (lost \/ new)
                /\ Leave(c)
                /\ UNCHANGED conn
    BY <1>3, Zenon DEF Rotate
  <2>2. Conn(c) \in Pair /\ intuit \in Pair
    BY HomeType DEF TypeOK, Conn
  <2>3. intuit' \in Pair /\ conn' \in [Sessions -> Pair]
    BY <2>1, <2>2, HomeType DEF TypeOK, Pair
  <2>4. pc' \in [Callers -> Labels] /\ lock' \in [Procs -> Callers \cup {None}]
    BY <2>1, LeaveType DEF TypeOK, Goto, Labels, Refreshing
  <2>5. lost' \in BOOLEAN
    BY <2>1, Zenon DEF TypeOK
  <2>6. fresh' \subseteq Nat
    <3>1. intuit.access + 1 \in Nat
      BY <2>2 DEF Pair
    <3>2. fresh' = fresh \cup {intuit.access + 1}
      BY <1>3 DEF Rotate
    <3>3. fresh \subseteq Nat
      BY DEF TypeOK
    <3> QED BY <3>1, <3>2, <3>3, Zenon
  <2>7. UNCHANGED <<stored, rivals>>
    BY <1>3 DEF Rotate
  <2> QED BY <2>3, <2>4, <2>5, <2>6, <2>7, Zenon DEF TypeOK
<1>4. ASSUME NEW c \in Callers, Store(c)
      PROVE  TypeOK'
  <2>1. pc' \in [Callers -> Labels] /\ lock' \in [Procs -> Callers \cup {None}]
    BY <1>4, LeaveType DEF Store
  <2>2. Conn(c) \in Pair /\ stored \in Pair
    BY HomeType DEF TypeOK, Conn
  <2>3. [stored EXCEPT !.access = Conn(c).access] \in Pair
    BY <2>2 DEF Pair
  <2>4. stored' \in Pair /\ conn' \in [Sessions -> Pair]
    BY <1>4, <2>2, <2>3, HomeType DEF TypeOK, Store
  <2>5. lost' \in BOOLEAN
    BY <1>4, Zenon DEF TypeOK, Store
  <2>6. UNCHANGED <<intuit, fresh, rivals>>
    BY <1>4 DEF Store
  <2> QED BY <2>1, <2>4, <2>5, <2>6, Zenon DEF TypeOK
<1>5. ASSUME NEW g \in fresh, Expire(g)
      PROVE  TypeOK'
  BY <1>5 DEF TypeOK, Expire
<1>6. ASSUME NEW s \in Sessions, Load(s)
      PROVE  TypeOK'
  BY <1>6 DEF TypeOK, Load
<1>7. ASSUME NEW p \in Procs, Restart(p)
      PROVE  TypeOK'
  <2>1. lost' \in BOOLEAN
    BY <1>7, Zenon DEF TypeOK, Restart
  <2>2. /\ pc' \in [Callers -> Labels]
        /\ lock' \in [Procs -> Callers \cup {None}]
        /\ conn' \in [Sessions -> Pair]
    BY <1>7 DEF TypeOK, Restart, Labels
  <2>3. UNCHANGED <<stored, intuit, fresh, rivals>>
    BY <1>7 DEF Restart
  <2> QED BY <2>1, <2>2, <2>3, Zenon DEF TypeOK
<1>8. CASE UNCHANGED vars
  BY <1>8 DEF vars, TypeOK
<1> QED BY <1>1, <1>2, <1>3, <1>4, <1>5, <1>6, <1>7, <1>8 DEF Next, Proceed

(* The lock changes hands only between callers that are not past it.        *)
LEMMA LockStep == ASSUME TypeOK, LockHeld, [Next]_vars PROVE LockHeld'
<1>1. ASSUME NEW c \in Callers, Ask(c)
      PROVE  LockHeld'
  BY <1>1 DEF TypeOK, LockHeld, Ask, Goto, PastLock, Refreshing, Home
<1>2. ASSUME NEW c \in Callers, Leave(c), pc[c] \in PastLock \/ lock[Home(c)] = None
      PROVE  LockHeld'
  BY <1>2, OneInProcess, HomeType, RefreshAssumption
     DEF TypeOK, LockHeld, Leave, Goto, PastLock, Refreshing, Home
<1>3. ASSUME NEW c \in Callers, NEW label \in PastLock, pc[c] \in PastLock, Goto(c, label), UNCHANGED lock
      PROVE  LockHeld'
  BY <1>3 DEF TypeOK, LockHeld, Goto, Home
<1>4. ASSUME NEW c \in Callers, Acquire(c)
      PROVE  LockHeld'
  <2>1. CASE Leave(c)
    BY <1>2, <1>4, <2>1 DEF Acquire
  <2>2. CASE Goto(c, "reloading") /\ lock' = [lock EXCEPT ![Home(c)] = c]
    BY <1>4, <2>2, HomeType, RefreshAssumption DEF TypeOK, LockHeld, Acquire, Goto, Home
  <2> QED BY <1>4, <2>1, <2>2 DEF Acquire
<1>5. ASSUME NEW c \in Callers, Proceed(c)
      PROVE  LockHeld'
  <2>1. pc[c] \in PastLock
    BY <1>5 DEF Proceed, Reload, Rotate, Refuse, Store, PastLock, Refreshing
  <2>2. Leave(c) \/ \E label \in PastLock : Goto(c, label) /\ UNCHANGED lock
    BY <1>5 DEF Proceed, Reload, Rotate, Refuse, Store, Proceeds, PastLock, Refreshing
  <2> QED BY <1>2, <1>3, <2>1, <2>2
<1>6. ASSUME NEW p \in Procs, Restart(p)
      PROVE  LockHeld'
  BY <1>6, HomeType DEF TypeOK, LockHeld, Restart, PastLock, Refreshing, Home
<1>7. CASE UNCHANGED <<pc, lock>>
  BY <1>7 DEF LockHeld, Home
<1> QED BY <1>1, <1>4, <1>5, <1>6, <1>7 DEF Next, Expire, Load, vars

LEMMA BehindStep == ASSUME TypeOK, Behind, [Next]_vars PROVE Behind'
<1> USE HomeType DEF TypeOK, Behind, Pair, Conn
<1>1. ASSUME NEW c \in Callers, Rotate(c)
      PROVE  Behind'
  <2>1. \E n \in Nat, held \in Pair :
          /\ intuit' = [access |-> intuit.access + 1, refresh |-> n]
          /\ held.access = intuit.access + 1
          /\ conn' \in {conn, [conn EXCEPT ![SessionOf[c]] = held]}
          /\ UNCHANGED stored
    BY <1>1 DEF Rotate
  <2> QED BY <2>1
<1>2. ASSUME NEW c \in Callers, Store(c)
      PROVE  Behind'
  BY <1>2 DEF Store
<1>3. ASSUME NEW c \in Callers, Reload(c)
      PROVE  Behind'
  BY <1>3 DEF Reload
<1>4. ASSUME NEW s \in Sessions, Load(s)
      PROVE  Behind'
  BY <1>4 DEF Load
<1>5. ASSUME NEW p \in Procs, Restart(p)
      PROVE  Behind'
  BY <1>5 DEF Restart
<1>6. CASE UNCHANGED <<conn, stored, intuit>>
  BY <1>6
<1> QED
  BY <1>1, <1>2, <1>3, <1>4, <1>5, <1>6
     DEF Next, Proceed, Ask, Acquire, Refuse, Expire, vars

(* A caller that goes on to post is the only one refreshing: one of its     *)
(* process would hold the lock, one of another would make it a race.        *)
LEMMA ReloadKeeps ==
  ASSUME TypeOK, LockHeld, Sound, NEW c \in Callers, Reload(c), ~rivals'
  PROVE  Sound'
<1>1. \A d \in Callers : d # c /\ Home(d) = Home(c) => pc[d] \notin PastLock
  BY OneInProcess DEF Reload, PastLock
<1>2. /\ \A d \in Callers : d # c => pc'[d] = pc[d]
      /\ pc'[c] \in {"idle", "posting", "blind"}
      /\ pc'[c] = "posting" => stored.access \notin fresh
      /\ UNCHANGED <<stored, intuit, fresh, lost>>
  BY DEF TypeOK, Reload, Proceeds, Leave, Goto
<1>3. ASSUME NEW d \in Callers, pc'[c] # "idle", d # c
      PROVE  pc[d] \notin Refreshing
  BY <1>1, <1>2, <1>3 DEF Reload, Proceeds, Leave, Goto, TypeOK, PastLock
<1>4. \A d \in Callers : SessionOf[d] # SessionOf[c] => Conn(d)' = Conn(d)
  BY HomeType DEF TypeOK, Reload, Conn
<1>5. \A d \in Callers : pc[d] = "storing" => SessionOf[d] # SessionOf[c]
  BY <1>1 DEF Reload, Home, PastLock, Refreshing
<1>6. OneRefreshing' /\ ~rivals /\ pc[c] # "storing"
  BY <1>2, <1>3 DEF Sound, OneRefreshing, Refreshing, Reload, Proceeds
<1>7. PostsWhenStale'
  BY <1>2 DEF Sound, PostsWhenStale
<1>8. StoresNewest'
  BY <1>2, <1>4, <1>5, <1>6 DEF Sound, StoresNewest, StoredTokenAccepted
<1> QED BY <1>6, <1>7, <1>8 DEF Sound

(* Tokens are issued to the only caller that is refreshing.                 *)
LEMMA RotateKeeps ==
  ASSUME TypeOK, Behind, Sound, ~rivals, NEW c \in Callers, Rotate(c)
  PROVE  Sound'
<1>1. \A d \in Callers : d # c => pc[d] \notin Refreshing /\ pc'[d] = pc[d]
  BY DEF TypeOK, Sound, OneRefreshing, Rotate, Goto, Leave, Refreshing
<1>2. pc'[c] \in {"idle", "keeping", "storing"} /\ UNCHANGED <<stored, rivals>>
  BY DEF TypeOK, Rotate, Goto, Leave
<1>3. pc'[c] = "storing" => Conn(c)'.refresh = intuit'.refresh
  BY HomeType DEF TypeOK, Rotate, Goto, Leave, Conn
<1>4. pc'[c] # "storing" => lost' \/ intuit'.refresh = intuit.refresh
  BY DEF TypeOK, Rotate, Goto, Leave
<1>5. lost => lost'
  BY DEF Rotate
<1>6. OneRefreshing' /\ PostsWhenStale'
  BY <1>1, <1>2 DEF OneRefreshing, PostsWhenStale, Refreshing
<1>7. pc[c] # "storing"
  BY DEF Rotate
<1>8. StoresNewest'
  BY <1>1, <1>2, <1>3, <1>4, <1>5, <1>7 DEF Sound, StoresNewest, StoredTokenAccepted, Refreshing
<1> QED BY <1>6, <1>8 DEF Sound

LEMMA StoreKeeps ==
  ASSUME TypeOK, Sound, ~rivals, NEW c \in Callers, Store(c)
  PROVE  Sound'
<1>1. /\ \A d \in Callers : d # c => pc[d] \notin Refreshing /\ pc'[d] = pc[d]
      /\ pc'[c] = "idle"
      /\ UNCHANGED <<intuit, fresh, rivals>>
  BY DEF TypeOK, Sound, OneRefreshing, Store, Goto, Leave, Refreshing
<1>2. OneRefreshing' /\ PostsWhenStale'
  BY <1>1 DEF OneRefreshing, PostsWhenStale, Refreshing
<1>3. ~lost' => ~lost /\ stored'.refresh = intuit.refresh
  <2>1. CASE pc[c] = "storing"
    BY <2>1 DEF Sound, StoresNewest, Store
  <2>2. CASE pc[c] = "keeping"
    BY <1>1, <2>2 DEF TypeOK, Pair, Sound, StoresNewest, StoredTokenAccepted, Store, Refreshing
  <2> QED BY <2>1, <2>2 DEF Store
<1>4. StoresNewest'
  BY <1>1, <1>3 DEF StoresNewest, StoredTokenAccepted, Refreshing
<1> QED BY <1>2, <1>4 DEF Sound

(* A restart that catches nobody between the answer and the commit only     *)
(* brings the sessions of the process back to the stored pair.              *)
LEMMA RestartKeeps ==
  ASSUME TypeOK, Sound, ~rivals, NEW p \in Procs, Restart(p)
  PROVE  Sound'
<1>1. /\ \A c \in Callers : pc'[c] = IF Home(c) = p THEN "idle" ELSE pc[c]
      /\ \A s \in Sessions : conn'[s] = IF ProcOf[s] = p THEN stored ELSE conn[s]
      /\ UNCHANGED <<stored, intuit, fresh, rivals>>
      /\ lost => lost'
      /\ ~lost' => \A c \in Callers : Home(c) = p => pc[c] # "storing"
  BY DEF Restart
<1>2. OneRefreshing' /\ PostsWhenStale'
  BY <1>1 DEF Sound, OneRefreshing, PostsWhenStale, Refreshing
<1>3. \A c \in Callers : Home(c) # p => Conn(c)' = Conn(c)
  BY <1>1, HomeType DEF Conn, Home
<1>4. StoresNewest'
  BY <1>1, <1>3 DEF Sound, StoresNewest, StoredTokenAccepted
<1> QED BY <1>2, <1>4 DEF Sound

(* The other steps move a caller that neither posts nor stores afterwards,  *)
(* or make tokens stale.                                                    *)
LEMMA OtherStepsKeep ==
  ASSUME TypeOK, Sound,
         \/ \E c \in Callers : Ask(c) \/ Acquire(c) \/ Refuse(c)
         \/ \E g \in fresh : Expire(g)
         \/ \E s \in Sessions : Load(s)
         \/ UNCHANGED vars
  PROVE  Sound'
<1>1. ASSUME NEW c \in Callers, Ask(c) \/ Acquire(c) \/ Refuse(c)
      PROVE  Sound'
  <2>1. /\ \A d \in Callers : d # c => pc'[d] = pc[d]
        /\ pc'[c] \in {"idle", "waiting", "reloading"}
        /\ pc[c] # "storing"
        /\ UNCHANGED <<conn, stored, intuit, fresh, lost, rivals>>
    BY <1>1 DEF TypeOK, Ask, Acquire, Refuse, Goto, Leave
  <2> QED
    BY <2>1 DEF Sound, OneRefreshing, PostsWhenStale, StoresNewest, StoredTokenAccepted,
                Refreshing, Conn
<1>2. ASSUME NEW g \in fresh, Expire(g)
      PROVE  Sound'
  BY <1>2 DEF Sound, OneRefreshing, PostsWhenStale, StoresNewest, StoredTokenAccepted, Expire, Conn
<1>3. ASSUME NEW s \in Sessions, Load(s)
      PROVE  Sound'
  <2>1. \A c \in Callers : pc[c] = "storing" => Conn(c)' = Conn(c)
    BY <1>3, HomeType DEF TypeOK, Load, Conn
  <2> QED
    BY <1>3, <2>1 DEF Sound, OneRefreshing, PostsWhenStale, StoresNewest, StoredTokenAccepted, Load
<1>4. CASE UNCHANGED vars
  BY <1>4 DEF vars, Sound, OneRefreshing, PostsWhenStale, StoresNewest, StoredTokenAccepted, Conn
<1> QED BY <1>1, <1>2, <1>3, <1>4

LEMMA RacedForGood == ASSUME [Next]_vars, rivals PROVE rivals'
BY DEF Next, vars, Ask, Acquire, Proceed, Reload, Proceeds, Rotate, Refuse, Store, Expire, Load,
       Restart

LEMMA InvStep == ASSUME Inv, [Next]_vars PROVE Inv'
<1>1. TypeOK' /\ LockHeld' /\ Behind'
  BY TypeStep, LockStep, BehindStep DEF Inv
<1>2. ASSUME ~rivals'
      PROVE  Sound'
  <2>1. Sound /\ ~rivals
    BY <1>2, RacedForGood DEF Inv
  <2>2. ASSUME NEW c \in Callers, Proceed(c)
        PROVE  Sound'
    BY <1>2, <2>1, <2>2, ReloadKeeps, RotateKeeps, StoreKeeps, OtherStepsKeep DEF Inv, Proceed
  <2> QED BY <2>1, <2>2, RestartKeeps, OtherStepsKeep DEF Inv, Next
<1> QED BY <1>1, <1>2 DEF Inv

LEMMA Invariant == Spec => []Inv
<1>1. Init => Inv
  BY InvInit
<1>2. Inv /\ [Next]_vars => Inv'
  BY InvStep
<1> QED BY <1>1, <1>2, PTL DEF Spec

(* Until a refresh token is lost or two processes refresh at once, the      *)
(* database holds the refresh token Intuit issued last whenever nobody is   *)
(* about to store a new one (refresh_access_token): whatever number of      *)
(* callers, sessions and processes ask, and whether or not Intuit also      *)
(* serves the token it replaced, the lock keeps commits from racing.        *)
THEOREM NeverLockedOut == Spec => []StoredTokenAccepted
<1>1. Inv => StoredTokenAccepted
  BY DEF Inv, Sound, StoresNewest, StoredTokenAccepted
<1> QED BY <1>1, Invariant, PTL

(* Until two processes refresh at once, Intuit issues tokens to one caller  *)
(* at a time, never while another is about to store some, and only once the *)
(* stored access token is stale, or to a caller that could not reload it    *)
(* (refresh_access_token).                                                  *)
THEOREM OneRefreshAtATime == Spec => RefreshedOnce
<1>1. ASSUME Inv, [Next]_vars, NEW c \in Callers, intuit' # intuit, pc'[c] # pc[c], ~rivals
      PROVE  /\ \A d \in Callers : pc[d] \notin {"keeping", "storing"}
             /\ pc[c] = "blind" \/ stored.access \notin fresh
  <2>1. PICK d \in Callers : Rotate(d)
    BY <1>1 DEF Next, vars, Ask, Acquire, Proceed, Reload, Refuse, Store, Expire, Load, Restart
  <2>2. d = c
    BY <1>1, <2>1 DEF Inv, TypeOK, Rotate, Goto, Leave
  <2>3. pc[c] \in {"blind", "posting"} /\ Sound
    BY <1>1, <2>1, <2>2 DEF Inv, Rotate
  <2> QED BY <2>3 DEF Sound, OneRefreshing, PostsWhenStale, Refreshing
<1>2. Inv /\ [Next]_vars =>
        [\A c \in Callers : intuit' # intuit /\ pc'[c] # pc[c] /\ ~rivals =>
           /\ \A d \in Callers : pc[d] \notin {"keeping", "storing"}
           /\ pc[c] = "blind" \/ stored.access \notin fresh]_vars
  BY <1>1
<1> QED BY <1>2, Invariant, PTL DEF Spec, RefreshedOnce

--------------------------------------------------------------------------------
(* The audit chain.                                                        *)

AuditRow == [by : Requests, ts : Nat, prev : Nat, hashed : BOOLEAN]

AuditTypeOK ==
  /\ phase \in [Requests -> {"new", "running", "stamped", "chaining", "ended"}]
  /\ stamp \in [Requests -> Nat] /\ clock \in Nat
  /\ chainLock \in Requests \cup {None}
  /\ log \subseteq AuditRow
  /\ committed \subseteq Requests

(* Only the holder of the chain lock has events that are not yet committed. *)
OneWriter ==
  /\ \A w \in Requests : phase[w] = "chaining" => chainLock = w
  /\ \A w \in Requests : chainLock = w \/ w \in committed => phase[w] # "new"
  /\ \A w \in committed : phase[w] = "ended"
  /\ \A w \in Requests : chainLock = w => phase[w] # "ended"
  /\ \A r \in log : r.by \in committed \/ r.by = chainLock

Hashed == {r \in log : r.hashed}

Topped(S) == S = {} \/ \E r \in S : \A q \in S : q.ts <= r.ts

(* Events that never link forward link to the event stamped before them.    *)
Linked(S) ==
  (\A r \in S : r.prev < r.ts) => \A r \in S : r.prev = Newest({q \in S : q.ts < r.ts})

(* The events committed, and those with the holder's own.                   *)
AuditInv ==
  /\ AuditTypeOK /\ OneWriter
  /\ Topped(Chain) /\ Linked(Chain)
  /\ Topped(Hashed) /\ Linked(Hashed)

LEMMA RowFields ==
  ASSUME AuditTypeOK, NEW r \in log
  PROVE  r.by \in Requests /\ r.ts \in Nat /\ r.prev \in Nat /\ r.hashed \in BOOLEAN
BY DEF AuditTypeOK, AuditRow

LEMMA Top ==
  ASSUME NEW S \in SUBSET AuditRow, NEW m \in S, \A q \in S : q.ts <= m.ts
  PROVE  Newest(S) = m.ts
<1>1. \A r \in S : r.ts \in Nat
  BY DEF AuditRow
<1> DEFINE n == CHOOSE r \in S : \A q \in S : q.ts <= r.ts
<1>2. n \in S /\ \A q \in S : q.ts <= n.ts
  OBVIOUS
<1>3. n.ts = m.ts
  <2> HIDE DEF n
  <2> QED BY <1>1, <1>2
<1> QED BY <1>3 DEF Newest

LEMMA TopAbove ==
  ASSUME NEW S \in SUBSET AuditRow, Topped(S)
  PROVE  /\ Newest(S) \in Nat
         /\ \A q \in S : q.ts <= Newest(S)
<1>1. CASE S = {}
  BY <1>1 DEF Newest, Genesis
<1>2. CASE S # {}
  <2>1. PICK m \in S : \A q \in S : q.ts <= m.ts
    BY <1>2 DEF Topped
  <2>2. m.ts \in Nat
    BY DEF AuditRow
  <2> QED BY <2>1, <2>2, Top
<1> QED BY <1>1, <1>2

(* One more event, linked to the newest one.                                *)
LEMMA Extends ==
  ASSUME NEW S \in SUBSET AuditRow, Topped(S), Linked(S),
         NEW e \in AuditRow, e.prev = Newest(S)
  PROVE  Topped(S \cup {e}) /\ Linked(S \cup {e})
<1>1. e.ts \in Nat /\ \A r \in S : r.ts \in Nat /\ r.prev \in Nat
  BY DEF AuditRow
<1>2. Topped(S \cup {e})
  <2>1. CASE S = {}
    BY <1>1, <2>1 DEF Topped
  <2>2. CASE S # {}
    <3>1. PICK m \in S : \A q \in S : q.ts <= m.ts
      BY <2>2 DEF Topped
    <3>2. CASE m.ts <= e.ts
      <4>1. \A q \in S \cup {e} : q.ts <= e.ts
        BY <1>1, <3>1, <3>2
      <4> QED BY <4>1 DEF Topped
    <3>3. CASE e.ts < m.ts
      <4>1. \A q \in S \cup {e} : q.ts <= m.ts
        BY <1>1, <3>1, <3>3
      <4> QED BY <3>1, <4>1 DEF Topped
    <3> QED BY <1>1, <3>2, <3>3
  <2> QED BY <2>1, <2>2
<1>3. ASSUME \A r \in S \cup {e} : r.prev < r.ts, NEW r \in S \cup {e}
      PROVE  r.prev = Newest({q \in S \cup {e} : q.ts < r.ts})
  <2>1. \A q \in S : q.ts < e.ts
    BY <1>1, <1>3, TopAbove
  <2>2. CASE r = e
    <3>1. {q \in S \cup {e} : q.ts < e.ts} = S
      BY <1>1, <2>1
    <3> QED BY <2>2, <3>1
  <2>3. CASE r \in S
    <3>1. {q \in S \cup {e} : q.ts < r.ts} = {q \in S : q.ts < r.ts}
      BY <1>1, <2>1, <2>3
    <3> QED BY <1>3, <2>3, <3>1 DEF Linked
  <2> QED BY <2>2, <2>3
<1> QED BY <1>2, <1>3 DEF Linked

(* The lock, the events and who committed are as they were.                 *)
LEMMA QuietKeeps ==
  ASSUME AuditInv, AuditTypeOK', OneWriter', UNCHANGED <<log, committed>>
  PROVE  AuditInv'
<1>1. Chain' = Chain /\ Hashed' = Hashed
  BY DEF Chain, Hashed
<1> QED BY <1>1 DEF AuditInv, Topped, Linked

LEMMA AuditStep ==
  ASSUME AuditInv, [AuditNext]_auditVars
  PROVE  AuditInv'
<1> USE DEF AuditInv
<1>1. ASSUME NEW w \in Requests,
             BeginRequest(w) \/ UpdateRow(w) \/ StampEvent(w) \/ LockChain(w)
      PROVE  AuditInv'
  <2>1. /\ AuditTypeOK' /\ UNCHANGED <<log, committed>>
    <3>1. CASE BeginRequest(w)
      BY <3>1 DEF BeginRequest, AuditTypeOK
    <3>2. CASE UpdateRow(w)
      BY <3>2 DEF UpdateRow, AuditTypeOK
    <3>3. CASE StampEvent(w)
      BY <3>3 DEF StampEvent, AuditTypeOK
    <3>4. CASE LockChain(w)
      BY <3>4 DEF LockChain, AuditTypeOK
    <3> QED BY <1>1, <3>1, <3>2, <3>3, <3>4
  <2>2. OneWriter'
    <3>1. CASE BeginRequest(w)
      BY <3>1 DEF BeginRequest, AuditTypeOK, OneWriter
    <3>2. CASE UpdateRow(w)
      BY <3>2 DEF UpdateRow, AuditTypeOK, OneWriter
    <3>3. CASE StampEvent(w)
      BY <3>3 DEF StampEvent, AuditTypeOK, OneWriter
    <3>4. CASE LockChain(w)
      <4>1. /\ chainLock \in {None, w} /\ chainLock' = w /\ phase[w] = "stamped"
            /\ phase' = [phase EXCEPT ![w] = "chaining"] /\ UNCHANGED <<log, committed>>
        BY <3>4 DEF LockChain
      <4>2. \A v \in Requests : v # w => chainLock # v
        BY <4>1, ProgramsAssumption
      <4>3. \A r \in log : r.by \in Requests
        BY RowFields
      <4> QED BY <4>1, <4>2, <4>3 DEF AuditTypeOK, OneWriter
    <3> QED BY <1>1, <3>1, <3>2, <3>3, <3>4
  <2> QED BY <2>1, <2>2, QuietKeeps
<1>2. ASSUME NEW w \in Requests, WriteEvent(w)
      PROVE  AuditInv'
  <2>1. phase[w] = "chaining" /\ chainLock = w
    BY <1>2 DEF WriteEvent, OneWriter
  <2>2. Visible(w) = Hashed /\ Hashed \subseteq AuditRow
    BY <2>1 DEF Visible, Hashed, OneWriter, AuditTypeOK
  <2>3. PICK hashed \in BOOLEAN :
          log' = log \cup {[by |-> w, ts |-> stamp[w], hashed |-> hashed,
                            prev |-> IF hashed THEN Newest(Hashed) ELSE Genesis]}
    BY <1>2, <2>2 DEF WriteEvent
  <2>4. /\ phase' = [phase EXCEPT ![w] = "running"]
        /\ UNCHANGED <<stamp, clock, chainLock, committed>>
    BY <1>2 DEF WriteEvent
  <2> DEFINE e == [by |-> w, ts |-> stamp[w], hashed |-> hashed,
                   prev |-> IF hashed THEN Newest(Hashed) ELSE Genesis]
  <2>5. e \in AuditRow /\ e.by = w /\ e.hashed = hashed /\ (hashed => e.prev = Newest(Hashed))
    <3>1. Newest(Hashed) \in Nat /\ Genesis \in Nat /\ stamp[w] \in Nat
      BY <2>2, TopAbove DEF Genesis, AuditTypeOK
    <3> QED BY <3>1 DEF AuditRow
  <2>6. log' = log \cup {e}
    BY <2>3
  <2> HIDE DEF e
  <2>7. AuditTypeOK'
    BY <2>4, <2>5, <2>6 DEF AuditTypeOK
  <2>8. OneWriter'
    BY <2>1, <2>4, <2>5, <2>6 DEF OneWriter, AuditTypeOK
  <2>9. Chain' = Chain
    BY <2>1, <2>4, <2>5, <2>6 DEF Chain, OneWriter
  <2>10. Topped(Hashed') /\ Linked(Hashed')
    <3>1. CASE hashed
      <4>1. Hashed' = Hashed \cup {e}
        BY <2>5, <2>6, <3>1 DEF Hashed
      <4>2. Topped(Hashed \cup {e}) /\ Linked(Hashed \cup {e})
        BY <2>2, <2>5, <3>1, Extends
      <4> QED BY <4>1, <4>2
    <3>2. CASE ~hashed
      <4>1. Hashed' = Hashed
        BY <2>5, <2>6, <3>2 DEF Hashed
      <4> QED BY <4>1
    <3> QED BY <3>1, <3>2
  <2> QED BY <2>7, <2>8, <2>9, <2>10 DEF Topped, Linked
<1>3. ASSUME NEW w \in Requests, Released(w), phase[w] \notin {"new", "ended"},
             phase' = [phase EXCEPT ![w] = "ended"],
             \/ committed' = committed \cup {w} /\ UNCHANGED log
             \/ log' = {r \in log : r.by # w} /\ UNCHANGED committed,
             UNCHANGED <<stamp, clock>>
      PROVE  AuditInv'
  <2>1. chainLock' = IF chainLock = w THEN None ELSE chainLock
    BY <1>3 DEF Released
  <2>2. AuditTypeOK'
    BY <1>3, <2>1 DEF AuditTypeOK
  <2>3. w \notin committed /\ None \notin Requests /\ \A r \in log : r.by \in Requests
    BY <1>3, RowFields, ProgramsAssumption DEF OneWriter
  <2>4. OneWriter'
    BY <1>3, <2>1, <2>2, <2>3 DEF OneWriter, AuditTypeOK
  <2>5. CASE chainLock # w
    <3>1. \A r \in log : r.by # w
      BY <2>3, <2>5 DEF OneWriter
    <3>2. log' = log /\ Chain' = Chain /\ Hashed' = Hashed
      BY <1>3, <3>1 DEF Chain, Hashed
    <3> QED BY <2>2, <2>4, <3>2 DEF Topped, Linked
  <2>6. CASE chainLock = w
    <3>1. \A r \in log : r.by \in committed \/ r.by = w
      BY <2>6 DEF OneWriter
    <3>2. CASE committed' = committed \cup {w} /\ UNCHANGED log
      <4>1. Chain' = Hashed /\ Hashed' = Hashed
        BY <3>1, <3>2 DEF Chain, Hashed
      <4> QED BY <2>2, <2>4, <4>1 DEF Topped, Linked
    <3>3. CASE log' = {r \in log : r.by # w} /\ UNCHANGED committed
      <4>1. Chain' = Chain /\ Hashed' = Chain
        BY <2>3, <3>1, <3>3 DEF Chain, Hashed
      <4> QED BY <2>2, <2>4, <4>1 DEF Topped, Linked
    <3> QED BY <1>3, <3>2, <3>3
  <2> QED BY <2>5, <2>6
<1>4. ASSUME NEW w \in Requests, Commit(w) PROVE AuditInv'
  BY <1>3, <1>4 DEF Commit
<1>5. ASSUME NEW w \in Requests, Abort(w) PROVE AuditInv'
  BY <1>3, <1>5 DEF Abort
<1>6. CASE UNCHANGED auditVars
  <2>1. AuditTypeOK' /\ OneWriter' /\ UNCHANGED <<log, committed>>
    BY <1>6 DEF auditVars, AuditTypeOK, OneWriter
  <2> QED BY <2>1, QuietKeeps
<1> QED BY <1>1, <1>2, <1>4, <1>5, <1>6 DEF AuditNext, Statement

LEMMA AuditStart == AuditInit => AuditInv
<1> SUFFICES ASSUME AuditInit PROVE AuditInv
  OBVIOUS
<1>1. Chain = {} /\ Hashed = {} /\ AuditTypeOK
  BY DEF AuditInit, Chain, Hashed, AuditTypeOK
<1>2. OneWriter
  BY ProgramsAssumption DEF AuditInit, OneWriter
<1> QED BY <1>1, <1>2 DEF AuditInv, Topped, Linked

LEMMA AuditInvariant == AuditSpec => []AuditInv
BY AuditStart, AuditStep, PTL DEF AuditSpec

(* When no event linked to one stamped after it the verifier finds no      *)
(* break, whatever the transactions did, aborted and failed to hash: the   *)
(* advisory lock lets one transaction at a time extend the tail it read    *)
(* (_write_audit, verify_chain).                                           *)
THEOREM ChainVerifies == AuditSpec => []InOrderChainVerifies
<1>1. AuditInv => InOrderChainVerifies
  BY DEF AuditInv, InOrderChainVerifies, Linked, Breaks, Earlier
<1> QED BY <1>1, AuditInvariant, PTL

--------------------------------------------------------------------------------
(* The composition: every step of MCPlumbing is a step of one component    *)
(* and leaves the variables of the others alone.                           *)

(* The calls of the browser, the audit chain and the tokens: a behaviour of *)
(* the plumbing is one of each, its fairness included.                      *)
THEOREM PlumbingIsItsParts == PlumbingSpec => ApiSpec /\ AuditSpec /\ FairSpec
<1>1. PlumbingInit => ApiInit /\ AuditInit /\ Init
  BY DEF PlumbingInit
<1>2. [PlumbingNext]_plumbingVars => [ApiNext]_apiVars
  BY DEF PlumbingNext, plumbingVars
<1>3. [PlumbingNext]_plumbingVars => [AuditNext]_auditVars
  BY DEF PlumbingNext, plumbingVars
<1>4. [PlumbingNext]_plumbingVars => [Next]_vars
  BY DEF PlumbingNext, plumbingVars
<1> QED
  BY <1>1, <1>2, <1>3, <1>4, PTL DEF PlumbingSpec, ApiSpec, AuditSpec, FairSpec, Spec
================================================================================
