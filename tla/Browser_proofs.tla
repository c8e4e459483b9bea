---------------------------- MODULE Browser_proofs -----------------------------
(***************************************************************************)
(* Theorems of the web client for any number of calls, companies, edits,   *)
(* rows and saves: ApiClient, OptimisticLists and ReconDrawer.             *)
(*                                                                         *)
(* Calls: a write that is to be answered has had no effect, and one that   *)
(* had is not sent again; nothing of the old company is left once the menu *)
(* has cleared.                                                            *)
(*                                                                         *)
(* Lists: an edit under way will ask for the list once more, so a list     *)
(* nobody edits shows, or has fetched, what the server holds.              *)
(*                                                                         *)
(* The drawer: the items in the cache are the database's, unless a save or *)
(* a wipe is still to be told of.                                          *)
(***************************************************************************)
EXTENDS ApiClient, OptimisticLists, ReconDrawer, TLAPS

(* Calls to the API.                                                       *)

CallRec == [st : {"idle", "waiting", "sent", "pausing", "reminting", "returned"},
            for : Companies \cup {None}, token : Companies \cup {None},
            on : Calls \cup {None},
            replayed : BOOLEAN, reminted : BOOLEAN, effects : Nat]

ApiTypeOK ==
  /\ company \in Companies /\ clerk \in Companies /\ screen \in Companies
  /\ noticed \in Companies
  /\ switching \in {"no", "active", "cleared"} /\ switches \in Nat
  /\ cached \in Companies \cup {None}
  /\ inflight \in Calls \cup {None}
  /\ mint \in [Calls -> Companies \cup {None}]
  /\ call \in [Calls -> CallRec]
  /\ stray \in BOOLEAN

(* A write that is still to be answered has not been carried out, and one   *)
(* that has is never sent again.                                            *)
WriteOpen ==
  \A c \in Writes : /\ call[c].effects <= 1
                    /\ call[c].st # "returned" => call[c].effects = 0

(* Whoever waits, waits for a mint that is under way.                       *)
MintsOwned ==
  /\ \A c \in Calls : call[c].st = "waiting" =>
       LET o == call[c].on IN
       o \in Calls /\ call[o].st = "waiting" /\ call[o].on = o /\ mint[o] \in Companies
  /\ inflight # None => call[inflight].st = "waiting" /\ call[inflight].on = inflight
  /\ \A c \in Calls : call[c].st = "reminting" => mint[c] \in Companies

(* The screen is the old company's until the new one is opened, and the     *)
(* calls of it are the only ones that name it.                              *)
OneScreen ==
  /\ switching = "no" <=> screen = company
  /\ \A c \in Calls : call[c].for \in {None, screen}

(* Nothing of the old company is left once the menu has cleared.            *)
Unmixed ==
  /\ switching # "active" => /\ cached \in {None, company}
                             /\ ~Older(mint)
  /\ switching = "no" => clerk = company

ApiInv == /\ ApiTypeOK /\ WriteOpen /\ MintsOwned /\ OneScreen
          /\ stray \/ (Unmixed /\ SignedForCompany)

LEMMA RecTypes ==
  ASSUME NEW r \in CallRec, NEW t \in Companies \cup {None}
  PROVE  /\ Sent(r, t) \in CallRec
         /\ Returned(r) \in CallRec
         /\ NewCall \in CallRec
BY DEF CallRec, Sent, Returned, NewCall

LEMMA RecFields ==
  ASSUME NEW r \in CallRec, NEW t
  PROVE  /\ Sent(r, t).st = "sent" /\ Sent(r, t).token = t
         /\ Sent(r, t).for = r.for /\ Sent(r, t).effects = r.effects
         /\ Returned(r).st = "returned" /\ Returned(r).for = None
         /\ Returned(r).effects = r.effects
BY DEF CallRec, Sent, Returned, NewCall

Again(r) == [r EXCEPT !.st = "reminting", !.token = None, !.reminted = TRUE]

LEMMA ExpiredCall ==
  ASSUME ApiTypeOK, NEW c \in Calls, Expired(c), ~call[c].reminted
  PROVE  /\ call' = [call EXCEPT ![c] = Again(call[c])]
         /\ Again(call[c]).st = "reminting"
         /\ Again(call[c]).for = call[c].for
         /\ Again(call[c]).effects = call[c].effects
         /\ cached' = None /\ inflight' = None /\ mint' = [mint EXCEPT ![c] = company]
<1>1. call[c] \in CallRec
  BY DEF ApiTypeOK
<1> QED BY <1>1 DEF Expired, CallRec, Again

LEMMA ApiTypeStep == ASSUME ApiTypeOK, MintsOwned, [ApiNext]_apiVars PROVE ApiTypeOK'
<1> USE ApiAssumption
<1>1. ASSUME NEW c \in Calls, NEW r \in CallRec, NEW kept \in Companies, ObtainToken(c, r, kept)
      PROVE  /\ call' \in [Calls -> CallRec]
             /\ mint' \in [Calls -> Companies \cup {None}]
             /\ cached' \in Companies \cup {None}
             /\ inflight' \in Calls \cup {None}
  <2>1. CASE cached # None
    <3>1. Sent(r, cached) \in CallRec
      BY RecTypes DEF ApiTypeOK
    <3> QED BY <1>1, <2>1, <3>1 DEF ObtainToken, ApiTypeOK
  <2>2. CASE cached = None
    <3>1. [r EXCEPT !.st = "waiting", !.on = IF inflight = None THEN c ELSE inflight] \in CallRec
      BY DEF CallRec, ApiTypeOK
    <3> QED BY <1>1, <2>2, <3>1 DEF ObtainToken, ApiTypeOK
  <2> QED BY <2>1, <2>2
<1>2. ASSUME Straying PROVE stray' \in BOOLEAN
  BY <1>2 DEF Straying, ApiTypeOK
<1>3. ASSUME NEW c \in Calls, Request(c) PROVE ApiTypeOK'
  <2>1. [call[c] EXCEPT !.for = screen] \in CallRec
    BY DEF ApiTypeOK, CallRec
  <2> QED BY <1>1, <1>2, <1>3, <2>1 DEF Request, ApiTypeOK, switchVars
<1>4. ASSUME NEW o \in Calls, MintArrives(o) \/ MintFails(o) PROVE ApiTypeOK'
  <2>1. \A c \in Calls : Sent(call[c], mint[o]) \in CallRec /\ Returned(call[c]) \in CallRec
    BY RecTypes DEF ApiTypeOK
  <2> QED BY <1>4, <2>1 DEF MintArrives, MintFails, ApiTypeOK, switchVars
<1>5. ASSUME NEW c \in Calls, Serve(c) PROVE ApiTypeOK'
  <2>1. call[c] \in CallRec /\ Returned(call[c]) \in CallRec
    BY RecTypes DEF ApiTypeOK
  <2>2. \E r \in CallRec : call' = [call EXCEPT ![c] = r]
    <3>1. \A d \in {0, 1} : [call[c] EXCEPT !.effects = @ + d] \in CallRec
      BY <2>1 DEF CallRec
    <3>2. \A d \in {0, 1} : Returned([call[c] EXCEPT !.effects = @ + d]) \in CallRec
      BY <3>1, RecTypes DEF ApiTypeOK
    <3>3. ASSUME NEW r \in CallRec
          PROVE  /\ [r EXCEPT !.st = "pausing", !.token = None, !.replayed = TRUE] \in CallRec
                 /\ [r EXCEPT !.st = "reminting", !.token = None, !.reminted = TRUE] \in CallRec
      BY DEF CallRec
    <3>4. CASE Answered(c)
      <4>1. PICK d \in {0, 1} :
              call' = [call EXCEPT ![c] = Returned([call[c] EXCEPT !.effects = @ + d])]
        BY <3>4, Zenon DEF Answered
      <4> QED BY <3>2, <4>1, Zenon
    <3>7. CASE Gone(c)
      BY <2>1, <3>7 DEF Gone
    <3>5. CASE Dropped(c)
      <4>1. PICK d \in {0, 1} : LET r == [call[c] EXCEPT !.effects = @ + d] IN
              call' = [call EXCEPT ![c] =
                  IF MayReplay(c)
                  THEN [r EXCEPT !.st = "pausing", !.token = None, !.replayed = TRUE]
                  ELSE Returned(r)]
        BY <3>5 DEF Dropped
      <4> DEFINE r == [call[c] EXCEPT !.effects = @ + d]
      <4>2. /\ r \in CallRec /\ Returned(r) \in CallRec
            /\ [r EXCEPT !.st = "pausing", !.token = None, !.replayed = TRUE] \in CallRec
        BY <3>1, <3>2, <3>3
      <4> HIDE DEF r
      <4> QED BY <4>1, <4>2 DEF r
    <3>6. CASE Expired(c)
      BY <2>1, <3>3, <3>6 DEF Expired
    <3> QED BY <1>5, <3>4, <3>5, <3>6, <3>7 DEF Serve
  <2>3. /\ cached' \in Companies \cup {None} /\ inflight' \in Calls \cup {None}
        /\ mint' \in [Calls -> Companies \cup {None}]
    BY <1>5 DEF Serve, Answered, Gone, Dropped, Expired, ApiTypeOK
  <2>4. stray' \in BOOLEAN /\ UNCHANGED <<clerk, switchVars>>
    BY <1>2, <1>5 DEF Serve
  <2>5. call' \in [Calls -> CallRec]
    BY <2>2 DEF ApiTypeOK
  <2> QED BY <2>3, <2>4, <2>5 DEF ApiTypeOK, switchVars
<1>6. ASSUME NEW c \in Calls, Resume(c) PROVE ApiTypeOK'
  <2>1. call[c] \in CallRec /\ clerk \in Companies
    BY DEF ApiTypeOK
  <2>2. /\ call' \in [Calls -> CallRec]
        /\ mint' \in [Calls -> Companies \cup {None}]
        /\ cached' \in Companies \cup {None}
        /\ inflight' \in Calls \cup {None}
    BY <1>1, <1>6, <2>1, Zenon DEF Resume
  <2>3. stray' \in BOOLEAN /\ UNCHANGED <<clerk, switchVars>>
    BY <1>2, <1>6 DEF Resume
  <2> QED BY <2>2, <2>3 DEF ApiTypeOK, switchVars
<1>7. ASSUME NEW c \in Calls, Reminted(c) PROVE ApiTypeOK'
  <2>1. call[c] \in CallRec /\ Returned(call[c]) \in CallRec /\ mint[c] \in Companies
    BY <1>7, RecTypes DEF ApiTypeOK, Reminted, MintsOwned
  <2>2. /\ clerk' \in Companies
        /\ call' \in [Calls -> CallRec]
        /\ mint' \in [Calls -> Companies \cup {None}]
        /\ cached' \in Companies \cup {None}
        /\ inflight' \in Calls \cup {None}
    BY <1>1, <1>7, <2>1 DEF Reminted, ApiTypeOK
  <2> QED BY <1>2, <1>7, <2>2 DEF Reminted, ApiTypeOK, switchVars
<1>8. ASSUME Expires PROVE ApiTypeOK'
  BY <1>8 DEF Expires, ApiTypeOK, switchVars
<1>9. ASSUME NEW n \in Companies, SetActive(n) PROVE ApiTypeOK'
  BY <1>9 DEF SetActive, ApiTypeOK
<1>10. ASSUME ClearForSwitch \/ Notice \/ ClerkCatchesUp PROVE ApiTypeOK'
  BY <1>10 DEF ClearForSwitch, Notice, ClerkCatchesUp, Clear, ApiTypeOK, switchVars
<1>11. ASSUME OpenScreen \/ OpenUncleared PROVE ApiTypeOK'
  <2>1. \A c \in Calls : [call[c] EXCEPT !.for = None] \in CallRec
    BY DEF ApiTypeOK, CallRec
  <2>2. stray' \in BOOLEAN
    BY <1>11, Zenon DEF OpenScreen, OpenUncleared, ApiTypeOK
  <2> QED BY <1>11, <2>1, <2>2 DEF OpenScreen, OpenUncleared, Mount, ApiTypeOK
<1>12. ASSUME UNCHANGED apiVars PROVE ApiTypeOK'
  BY <1>12 DEF apiVars, ApiTypeOK
<1> QED
  BY <1>3, <1>4, <1>5, <1>6, <1>7, <1>8, <1>9, <1>10, <1>11, <1>12 DEF ApiNext, Carry

(* A POST or a PATCH whose answer is still to come is never sent again once *)
(* the server has carried it out.                                           *)
LEMMA WriteStep == ASSUME ApiTypeOK, WriteOpen, [ApiNext]_apiVars PROVE WriteOpen'
<1> USE ApiAssumption
<1>1. ASSUME NEW c \in Calls, NEW r, NEW kept, ObtainToken(c, r, kept),
             r.effects = call[c].effects, call[c].st # "returned",
             r \in CallRec
      PROVE  WriteOpen'
  <2>1. \A d \in Calls : d # c => call'[d] = call[d]
    BY <1>1 DEF ObtainToken, ApiTypeOK
  <2>2. call'[c].effects = call[c].effects
    <3>1. CASE cached # None
      BY <1>1, <3>1, RecFields DEF ObtainToken, ApiTypeOK
    <3>2. CASE cached = None
      <4>1. PICK o : call' = [call EXCEPT ![c] = [r EXCEPT !.st = "waiting", !.on = o]]
        BY <1>1, <3>2 DEF ObtainToken
      <4>2. [r EXCEPT !.st = "waiting", !.on = o].effects = r.effects
        BY <1>1 DEF CallRec
      <4> QED BY <1>1, <4>1, <4>2 DEF ApiTypeOK
    <3> QED BY <3>1, <3>2
  <2> QED BY <1>1, <2>1, <2>2 DEF WriteOpen
<1>2. ASSUME NEW c \in Calls, Request(c) PROVE WriteOpen'
  BY <1>1, <1>2 DEF Request, ApiTypeOK, CallRec
<1>3. ASSUME NEW o \in Calls, MintArrives(o) \/ MintFails(o) PROVE WriteOpen'
  <2>1. \A c \in Calls : call'[c].effects = call[c].effects
    BY <1>3, RecFields DEF MintArrives, MintFails, ApiTypeOK
  <2>2. \A c \in Calls : call[c].st = "returned" => call'[c] = call[c]
    BY <1>3 DEF MintArrives, MintFails, Waiting, ApiTypeOK
  <2> QED BY <2>1, <2>2 DEF WriteOpen
<1>4. ASSUME NEW c \in Calls, Serve(c) PROVE WriteOpen'
  <2>1. \A d \in Calls : d # c => call'[d] = call[d]
    BY <1>4 DEF Serve, Answered, Gone, Dropped, Expired, ApiTypeOK
  <2>2. c \in Writes => /\ call'[c].effects <= 1
                        /\ call'[c].st # "returned" => call'[c].effects = 0
    <3>1. CASE Answered(c)
      BY <1>4, <3>1 DEF Serve, Answered, Returned, NewCall, ApiTypeOK, CallRec, WriteOpen
    <3>2. CASE Gone(c)
      BY <1>4, <3>2 DEF Serve, Gone, Returned, NewCall, ApiTypeOK, CallRec, WriteOpen
    <3>3. CASE Dropped(c)
      <4> SUFFICES ASSUME c \in Writes
                   PROVE  call'[c].effects <= 1 /\ call'[c].st = "returned"
        OBVIOUS
      <4>1. PICK d \in {0, 1} :
              call' = [call EXCEPT ![c] = Returned([call[c] EXCEPT !.effects = @ + d])]
        BY <3>3 DEF Dropped, MayReplay
      <4>2. /\ [call[c] EXCEPT !.effects = @ + d] \in CallRec
            /\ [call[c] EXCEPT !.effects = @ + d].effects = call[c].effects + d
        BY DEF ApiTypeOK, CallRec
      <4>3. call[c].effects = 0
        BY <1>4 DEF Serve, WriteOpen
      <4>4. /\ Returned([call[c] EXCEPT !.effects = @ + d]).effects = call[c].effects + d
            /\ Returned([call[c] EXCEPT !.effects = @ + d]).st = "returned"
        BY <4>2, RecFields
      <4>5. /\ call'[c].effects = call[c].effects + d
            /\ call'[c].st = "returned"
        BY <4>1, <4>4 DEF ApiTypeOK
      <4> QED BY <4>3, <4>5
    <3>4. CASE Expired(c)
      <4>1. CASE call[c].reminted
        BY <1>4, <3>4, <4>1, RecFields DEF Serve, Expired, ApiTypeOK, WriteOpen
      <4>2. CASE ~call[c].reminted
        BY <1>4, <3>4, <4>2, ExpiredCall DEF Serve, ApiTypeOK, WriteOpen
      <4> QED BY <4>1, <4>2
    <3> QED BY <1>4, <3>1, <3>2, <3>3, <3>4 DEF Serve
  <2> QED BY <2>1, <2>2 DEF WriteOpen
<1>5. ASSUME NEW c \in Calls, Resume(c) PROVE WriteOpen'
  BY <1>1, <1>5 DEF Resume, ApiTypeOK
<1>6. ASSUME NEW c \in Calls, Reminted(c) PROVE WriteOpen'
  <2>1. CASE ObtainToken(c, call[c], mint[c])
    BY <1>1, <1>6, <2>1 DEF Reminted, ApiTypeOK
  <2>2. CASE call' = [call EXCEPT ![c] = Returned(call[c])]
    BY <1>6, <2>2 DEF Reminted, Returned, NewCall, ApiTypeOK, CallRec, WriteOpen
  <2> QED BY <1>6, <2>1, <2>2 DEF Reminted
<1>7. ASSUME OpenScreen \/ OpenUncleared PROVE WriteOpen'
  BY <1>7 DEF OpenScreen, OpenUncleared, Mount, WriteOpen, ApiTypeOK, CallRec
<1>8. ASSUME \/ Expires \/ \E n \in Companies : SetActive(n)
             \/ ClearForSwitch \/ Notice \/ ClerkCatchesUp
             \/ UNCHANGED apiVars
      PROVE  WriteOpen'
  BY <1>8 DEF Expires, SetActive, ClearForSwitch, Notice, ClerkCatchesUp, apiVars, WriteOpen
<1> QED
  BY <1>2, <1>3, <1>4, <1>5, <1>6, <1>7, <1>8 DEF ApiNext, Carry

LEMMA MintStep ==
  ASSUME ApiTypeOK, MintsOwned, [ApiNext]_apiVars
  PROVE  MintsOwned'
<1> USE ApiAssumption
<1>1. ASSUME NEW c \in Calls, NEW r \in CallRec, NEW kept \in Companies,
             ObtainToken(c, r, kept), call[c].st \notin {"waiting", "sent", "returned"},
             r.st = call[c].st
      PROVE  MintsOwned'
  <2>1. CASE cached # None
    <3>1. /\ call'[c].st = "sent"
          /\ \A d \in Calls : d # c => call'[d] = call[d] /\ mint'[d] = mint[d]
          /\ UNCHANGED inflight
      BY <1>1, <2>1, RecFields DEF ObtainToken, ApiTypeOK
    <3> QED BY <1>1, <3>1 DEF MintsOwned, ApiTypeOK
  <2>2. CASE cached = None
    <3> DEFINE owner == IF inflight = None THEN c ELSE inflight
    <3>1. /\ call'[c].st = "waiting" /\ call'[c].on = owner
          /\ \A d \in Calls : d # c => call'[d] = call[d] /\ mint'[d] = mint[d]
          /\ owner = c => mint'[c] = kept
          /\ inflight' = owner
      <4>1. /\ call' = [call EXCEPT ![c] = [r EXCEPT !.st = "waiting", !.on = owner]]
            /\ mint' = [mint EXCEPT ![c] = IF owner = c THEN kept ELSE None]
            /\ inflight' = owner
        BY <1>1, <2>2 DEF ObtainToken
      <4>2. /\ [r EXCEPT !.st = "waiting", !.on = owner].st = "waiting"
            /\ [r EXCEPT !.st = "waiting", !.on = owner].on = owner
        BY DEF CallRec
      <4> HIDE DEF owner
      <4> QED BY <4>1, <4>2 DEF ApiTypeOK
    <3> QED BY <1>1, <3>1 DEF MintsOwned, ApiTypeOK
  <2> QED BY <2>1, <2>2
<1>2. ASSUME NEW c \in Calls, Request(c) PROVE MintsOwned'
  <2>1. [call[c] EXCEPT !.for = screen] \in CallRec /\ [call[c] EXCEPT !.for = screen].st = call[c].st
    BY DEF ApiTypeOK, CallRec
  <2> QED BY <1>1, <1>2, <2>1 DEF Request, ApiTypeOK
<1>3. ASSUME NEW o \in Calls, MintArrives(o) \/ MintFails(o) PROVE MintsOwned'
  <2>1. \A c \in Calls : IF c \in Waiting(o) THEN call'[c].st \in {"sent", "returned"}
                                             ELSE call'[c] = call[c]
    BY <1>3, RecFields DEF MintArrives, MintFails, ApiTypeOK
  <2>2. inflight' = None /\ \A c \in Calls : c # o => mint'[c] = mint[c]
    BY <1>3 DEF MintArrives, MintFails, ApiTypeOK
  <2>3. o \in Waiting(o)
    BY <1>3 DEF MintArrives, MintFails, Waiting, MintsOwned
  <2> QED BY <2>1, <2>2, <2>3 DEF MintsOwned, Waiting
<1>4. ASSUME NEW c \in Calls, Serve(c) PROVE MintsOwned'
  <2>1. /\ \A d \in Calls : d # c => call'[d] = call[d] /\ mint'[d] = mint[d]
        /\ \/ call'[c].st \in {"returned", "pausing"}
           \/ call'[c].st = "reminting" /\ mint'[c] \in Companies
        /\ inflight' \in {None, inflight}
    <3>1. CASE Answered(c)
      BY <3>1 DEF Answered, Returned, NewCall, ApiTypeOK, CallRec
    <3>2. CASE Gone(c)
      BY <3>2 DEF Gone, Returned, NewCall, ApiTypeOK, CallRec
    <3>3. CASE Dropped(c)
      BY <3>3 DEF Dropped, MayReplay, Returned, NewCall, ApiTypeOK, CallRec
    <3>4. CASE Expired(c)
      <4>1. CASE call[c].reminted
        BY <3>4, <4>1, RecFields DEF Expired, ApiTypeOK
      <4>2. CASE ~call[c].reminted
        BY <3>4, <4>2, ExpiredCall DEF ApiTypeOK
      <4> QED BY <4>1, <4>2
    <3> QED BY <1>4, <3>1, <3>2, <3>3, <3>4 DEF Serve
  <2> QED BY <1>4, <2>1 DEF MintsOwned, Serve, ApiTypeOK
<1>5. ASSUME NEW c \in Calls, Resume(c) PROVE MintsOwned'
  BY <1>1, <1>5 DEF Resume, ApiTypeOK
<1>6. ASSUME NEW c \in Calls, Reminted(c) PROVE MintsOwned'
  <2>1. CASE ObtainToken(c, call[c], mint[c])
    BY <1>1, <1>6, <2>1 DEF Reminted, ApiTypeOK, MintsOwned
  <2>2. CASE /\ call' = [call EXCEPT ![c] = Returned(call[c])]
             /\ mint' = [mint EXCEPT ![c] = None]
             /\ UNCHANGED inflight
    BY <1>6, <2>2 DEF Reminted, Returned, NewCall, ApiTypeOK, CallRec, MintsOwned
  <2> QED BY <1>6, <2>1, <2>2 DEF Reminted
<1>7. ASSUME OpenScreen \/ OpenUncleared PROVE MintsOwned'
  BY <1>7 DEF OpenScreen, OpenUncleared, Mount, MintsOwned, ApiTypeOK, CallRec
<1>8. ASSUME \/ Expires \/ \E n \in Companies : SetActive(n)
             \/ ClearForSwitch \/ Notice \/ ClerkCatchesUp
             \/ UNCHANGED apiVars
      PROVE  MintsOwned'
  BY <1>8 DEF Expires, SetActive, ClearForSwitch, Notice, ClerkCatchesUp, Clear, apiVars, MintsOwned
<1> QED
  BY <1>2, <1>3, <1>4, <1>5, <1>6, <1>7, <1>8 DEF ApiNext, Carry

(* Where a call can be after a step that carries it: unmoved, sent with the *)
(* token at hand, or with the one whose mint has arrived, or not sent.      *)
Moved(c) ==
  \/ call'[c] = call[c]
  \/ call'[c].st # "sent"
  \/ call'[c].st = "sent" /\ cached # None /\ call'[c].token = cached
  \/ /\ call[c].st = "waiting" /\ call'[c].st = "sent"
     /\ call'[c].token = mint[call[c].on]

LEMMA Obtained ==
  ASSUME ApiTypeOK, NEW c \in Calls, NEW r \in CallRec, NEW kept \in Companies,
         ObtainToken(c, r, kept)
  PROVE  /\ \A d \in Calls : Moved(d)
         /\ \A d \in Calls : d # c => call'[d] = call[d] /\ mint'[d] = mint[d]
         /\ call'[c].for = r.for
         /\ UNCHANGED cached
         /\ mint'[c] \in {None, kept}
<1>1. CASE cached # None
  BY <1>1, RecFields DEF ObtainToken, ApiTypeOK, Moved
<1>2. CASE cached = None
  <2> DEFINE owner == IF inflight = None THEN c ELSE inflight
  <2>1. /\ call' = [call EXCEPT ![c] = [r EXCEPT !.st = "waiting", !.on = owner]]
        /\ mint' = [mint EXCEPT ![c] = IF owner = c THEN kept ELSE None]
        /\ UNCHANGED cached
    BY <1>2 DEF ObtainToken
  <2>2. /\ [r EXCEPT !.st = "waiting", !.on = owner].st = "waiting"
        /\ [r EXCEPT !.st = "waiting", !.on = owner].for = r.for
    BY DEF CallRec
  <2> HIDE DEF owner
  <2> QED BY <2>1, <2>2 DEF ApiTypeOK, Moved
<1> QED BY <1>1, <1>2

(* What a step of the calls can do to them, to the mints and to the token.  *)
LEMMA Carried ==
  ASSUME ApiTypeOK, MintsOwned, NEW c \in Calls, Request(c) \/ Carry(c)
  PROVE  /\ \A d \in Calls : Moved(d)
         /\ \A d \in Calls : call'[d].for \in {None, screen, call[d].for}
         /\ \A d \in Calls : mint'[d] \in {None, mint[d], clerk, company}
         /\ \/ cached' \in {None, cached}
            \/ \E o \in Calls : call[o].st = "waiting" /\ cached' = mint[call[o].on]
         /\ UNCHANGED switchVars
         /\ clerk' = clerk \/ \E o \in Calls : mint[o] # None /\ clerk' = mint[o]
         /\ (Straying \/ (UNCHANGED stray /\ \A d \in Calls : mint'[d] \in {None, mint[d]}))
<1> USE ApiAssumption
<1>1. CASE Request(c)
  <2>1. /\ [call[c] EXCEPT !.for = screen] \in CallRec
        /\ [call[c] EXCEPT !.for = screen].for = screen
    BY DEF ApiTypeOK, CallRec
  <2>2. ObtainToken(c, [call[c] EXCEPT !.for = screen], clerk) /\ clerk \in Companies
    BY <1>1 DEF Request, ApiTypeOK
  <2> QED BY <1>1, <2>1, <2>2, Obtained DEF Request
<1>2. CASE MintArrives(c)
  <2>1. PICK o \in Calls : call[o].st = "waiting" /\ call[o].on = c
    BY <1>2 DEF MintArrives, Waiting
  <2>2. \A d \in Calls : Moved(d) /\ call'[d].for = call[d].for
    BY <1>2, RecFields DEF MintArrives, Waiting, Moved, ApiTypeOK
  <2> QED BY <1>2, <2>1, <2>2 DEF MintArrives, ApiTypeOK
<1>3. CASE MintFails(c)
  <2>2. \A d \in Calls : Moved(d) /\ call'[d].for \in {None, call[d].for}
    BY <1>3, RecFields DEF MintFails, Moved, ApiTypeOK
  <2> QED BY <1>3, <2>2 DEF MintFails, ApiTypeOK
<1>4. CASE Serve(c)
  <2>1. /\ \A d \in Calls : d # c => call'[d] = call[d] /\ mint'[d] = mint[d]
        /\ call'[c].st # "sent" /\ call'[c].for \in {None, call[c].for}
        /\ mint'[c] \in {mint[c], company} /\ cached' \in {None, cached}
    <3>0. call[c] \in CallRec
      BY DEF ApiTypeOK
    <3>1. CASE Answered(c)
      BY <3>0, <3>1 DEF Answered, Returned, NewCall, ApiTypeOK, CallRec
    <3>2. CASE Gone(c)
      BY <3>2, RecFields DEF Gone, ApiTypeOK
    <3>3. CASE Dropped(c)
      BY <3>0, <3>3 DEF Dropped, MayReplay, Returned, NewCall, ApiTypeOK, CallRec
    <3>4. CASE Expired(c)
      <4>1. CASE call[c].reminted
        BY <3>4, <4>1, RecFields DEF Expired, ApiTypeOK
      <4>2. CASE ~call[c].reminted
        BY <3>4, <4>2, ExpiredCall DEF ApiTypeOK
      <4> QED BY <4>1, <4>2
    <3> QED BY <1>4, <3>1, <3>2, <3>3, <3>4 DEF Serve
  <2> QED BY <1>4, <2>1 DEF Serve, Moved
<1>5. CASE Resume(c)
  <2>1. call[c] \in CallRec /\ clerk \in Companies
    BY DEF ApiTypeOK
  <2>2. ObtainToken(c, call[c], clerk)
    BY <1>5 DEF Resume
  <2> QED BY <1>5, <2>1, <2>2, Obtained DEF Resume
<1>6. CASE Reminted(c)
  <2>1. call[c] \in CallRec /\ mint[c] \in Companies
    BY <1>6 DEF ApiTypeOK, Reminted, MintsOwned
  <2>2. CASE clerk' = mint[c] /\ ObtainToken(c, call[c], mint[c])
    BY <1>6, <2>1, <2>2, Obtained DEF Reminted
  <2>3. CASE /\ call' = [call EXCEPT ![c] = Returned(call[c])]
             /\ mint' = [mint EXCEPT ![c] = None]
             /\ UNCHANGED <<clerk, cached, inflight>>
    BY <1>6, <2>3, RecFields DEF Reminted, Moved, ApiTypeOK
  <2> QED BY <1>6, <2>2, <2>3 DEF Reminted
<1> QED BY <1>1, <1>2, <1>3, <1>4, <1>5, <1>6 DEF Carry

LEMMA ScreenStep ==
  ASSUME ApiTypeOK, MintsOwned, OneScreen, [ApiNext]_apiVars
  PROVE  OneScreen'
<1>1. ASSUME NEW c \in Calls, Request(c) \/ Carry(c) PROVE OneScreen'
  BY <1>1, Carried DEF OneScreen, switchVars
<1>2. ASSUME \E n \in Companies : SetActive(n) PROVE OneScreen'
  BY <1>2 DEF SetActive, OneScreen
<1>3. ASSUME OpenScreen \/ OpenUncleared PROVE OneScreen'
  <2>1. \A c \in Calls : [call[c] EXCEPT !.for = None].for = None
    BY DEF ApiTypeOK, CallRec
  <2> QED BY <1>3, <2>1 DEF OpenScreen, OpenUncleared, Mount, OneScreen, ApiTypeOK
<1>4. ASSUME Expires \/ ClearForSwitch \/ Notice \/ ClerkCatchesUp \/ UNCHANGED apiVars
      PROVE  OneScreen'
  BY <1>4 DEF Expires, ClearForSwitch, Notice, ClerkCatchesUp, apiVars, switchVars, OneScreen
<1> QED BY <1>1, <1>2, <1>3, <1>4 DEF ApiNext

(* What the new company's screen sends is signed for it: with the token at  *)
(* hand, which is the new company's, or by a mint, which is too.            *)
LEMMA SignedStep ==
  ASSUME ApiTypeOK, MintsOwned, OneScreen, Unmixed, SignedForCompany,
         [ApiNext]_apiVars, ~stray, ~stray'
  PROVE  Unmixed' /\ SignedForCompany'
<1> USE ApiAssumption
<1>1. ASSUME NEW c \in Calls, Request(c) \/ Carry(c) PROVE Unmixed' /\ SignedForCompany'
  <2>1. UNCHANGED <<company, screen, switching>>
    BY <1>1, Carried DEF switchVars
  <2>2. switching # "active" => cached' \in {None, company}
    BY <1>1, Carried DEF Unmixed, Older, MintsOwned
  <2>3. switching = "no" => clerk' = company
    BY <1>1, Carried DEF Unmixed, Older
  <2>4. switching # "active" => ~Older(mint)'
    BY <1>1, <2>1, Carried DEF Unmixed, Older, Straying, ApiTypeOK
  <2>5. SignedForCompany'
    <3> SUFFICES ASSUME NEW d \in Calls, call'[d].st = "sent", call'[d].for = company
                 PROVE  call'[d].token = company
      BY <2>1 DEF SignedForCompany
    <3>1. switching = "no"
      BY <1>1, Carried DEF OneScreen, ApiTypeOK
    <3> QED BY <1>1, <3>1, Carried DEF Moved, SignedForCompany, Unmixed, Older, MintsOwned
  <2> QED BY <2>1, <2>2, <2>3, <2>4, <2>5 DEF Unmixed
<1>2. ASSUME \E n \in Companies : SetActive(n) PROVE Unmixed' /\ SignedForCompany'
  BY <1>2 DEF SetActive, Unmixed, SignedForCompany, OneScreen, ApiTypeOK
<1>3. ASSUME ClearForSwitch PROVE Unmixed' /\ SignedForCompany'
  BY <1>3 DEF ClearForSwitch, Clear, Older, Unmixed, SignedForCompany
<1>4. ASSUME OpenScreen \/ OpenUncleared PROVE Unmixed' /\ SignedForCompany'
  <2>1. \A c \in Calls : [call[c] EXCEPT !.for = None].for = None
    BY DEF ApiTypeOK, CallRec
  <2> QED BY <1>4, <2>1 DEF OpenScreen, OpenUncleared, Mount, Older, Unmixed, SignedForCompany, ApiTypeOK
<1>5. ASSUME Expires \/ Notice \/ ClerkCatchesUp \/ UNCHANGED apiVars
      PROVE  Unmixed' /\ SignedForCompany'
  BY <1>5 DEF Expires, Notice, Clear, ClerkCatchesUp, apiVars, switchVars, Older, Unmixed, SignedForCompany
<1> QED BY <1>1, <1>2, <1>3, <1>4, <1>5 DEF ApiNext

LEMMA StrayStays == ASSUME ApiTypeOK, MintsOwned, stray, [ApiNext]_apiVars PROVE stray'
<1>1. ASSUME NEW c \in Calls, Request(c) \/ Carry(c) PROVE stray'
  BY <1>1, Carried DEF Straying
<1>2. CASE \/ \E n \in Companies : SetActive(n)
           \/ ClearForSwitch \/ OpenScreen \/ OpenUncleared \/ Notice \/ ClerkCatchesUp
           \/ Expires \/ UNCHANGED apiVars
  BY <1>2 DEF SetActive, ClearForSwitch, OpenScreen, OpenUncleared, Notice, ClerkCatchesUp, Expires, apiVars
<1> QED BY <1>1, <1>2 DEF ApiNext

LEMMA ApiInvariant == ApiSpec => []ApiInv
<1>1. ApiInit => ApiInv
  <2> SUFFICES ASSUME ApiInit PROVE ApiInv
    OBVIOUS
  <2>1. NewCall \in CallRec
    BY RecTypes DEF CallRec, NewCall
  <2>2. ApiTypeOK
    BY <2>1, ApiAssumption DEF ApiInit, ApiTypeOK
  <2>3. WriteOpen /\ MintsOwned /\ OneScreen
    BY ApiAssumption DEF ApiInit, WriteOpen, MintsOwned, OneScreen, NewCall
  <2>4. Unmixed /\ SignedForCompany
    BY ApiAssumption DEF ApiInit, Unmixed, SignedForCompany, Older, NewCall
  <2> QED BY <2>2, <2>3, <2>4 DEF ApiInv
<1>2. ApiInv /\ [ApiNext]_apiVars => ApiInv'
  <2> SUFFICES ASSUME ApiInv, [ApiNext]_apiVars PROVE ApiInv'
    OBVIOUS
  <2>1. ApiTypeOK' /\ WriteOpen' /\ MintsOwned' /\ OneScreen'
    BY ApiTypeStep, WriteStep, MintStep, ScreenStep DEF ApiInv
  <2>2. stray' \/ (Unmixed' /\ SignedForCompany')
    BY StrayStays, SignedStep DEF ApiInv
  <2> QED BY <2>1, <2>2 DEF ApiInv
<1> QED BY <1>1, <1>2, PTL DEF ApiSpec

(* The server carries out a POST or a PATCH at most once, whatever drops,  *)
(* expires and is replayed: a call that was cut off is replayed only when  *)
(* it cannot have written (lib/api.ts).                                    *)
THEOREM WritesHappenOnce == ApiSpec => []WrittenOnce
<1>1. ApiInv => WrittenOnce
  BY DEF ApiInv, WriteOpen, WrittenOnce
<1> QED BY <1>1, ApiInvariant, PTL

(* A request of the new screen is signed for its company, however often    *)
(* the user switches, when the menu cleared the tokens and no older mint   *)
(* was still to answer.                                                    *)
THEOREM SignedForItsCompany == ApiSpec => []SignedForCompany
<1>1. ApiInv => SignedForCompany
  BY DEF ApiInv, SignedForCompany
<1> QED BY <1>1, ApiInvariant, PTL

--------------------------------------------------------------------------------
(* Lists in the cache.                                                     *)

EditRec == [st : {"idle", "begun", "sent", "answered", "over"}, rows : SUBSET ListRows,
            on : BOOLEAN, snap : SUBSET ListRows, outcome : {"none", "done", "failed"}]

CacheTypeOK ==
  /\ truth \subseteq ListRows /\ shown \subseteq ListRows
  /\ edit \in [Edits -> EditRec]
  /\ fetch \in [st : {"none", "asked", "read"}, data : SUBSET ListRows]
  /\ late \subseteq [rows : SUBSET ListRows, on : BOOLEAN]
  /\ behind \in BOOLEAN

Active == \E e \in Edits : edit[e].st \in {"begun", "sent", "answered"}

(* An edit under way will ask for the list once more, and so a list nobody  *)
(* edits shows, or has fetched, what the server holds.                      *)
CacheInv ==
  /\ CacheTypeOK
  /\ \A e \in Edits : edit[e].st = "answered" => edit[e].outcome # "none"
  /\ Active \/ behind \/ fetch.st = "asked"
       \/ IF fetch.st = "read" THEN fetch.data = truth ELSE shown = truth

LEMMA PatchType ==
  ASSUME NEW l \in SUBSET ListRows, NEW rows \in SUBSET ListRows, NEW on \in BOOLEAN
  PROVE  Patched(l, rows, on) \in SUBSET ListRows
BY DEF Patched

LEMMA CacheStep ==
  ASSUME RefetchOn = {"done", "failed"}, CacheInv, [ListNext]_listVars
  PROVE  CacheInv'
<1> USE DEF CacheInv
<1>1. ASSUME NEW e \in Edits, BeginEdit(e) PROVE CacheInv'
  <2>1. PICK rows \in SUBSET ListRows, on \in BOOLEAN :
          edit' = [edit EXCEPT ![e] = [edit[e] EXCEPT !.st = "begun", !.rows = rows, !.on = on]]
    BY <1>1 DEF BeginEdit
  <2>2. /\ edit'[e] \in EditRec /\ edit'[e].st = "begun"
        /\ \A d \in Edits : d # e => edit'[d] = edit[d]
    BY <2>1 DEF CacheTypeOK, EditRec
  <2>3. edit' \in [Edits -> EditRec]
    BY <2>1, <2>2 DEF CacheTypeOK
  <2> QED BY <1>1, <2>2, <2>3 DEF BeginEdit, CacheTypeOK, Active, NoFetch
<1>2. ASSUME NEW e \in Edits, PatchList(e) PROVE CacheInv'
  <2>1. /\ edit'[e] \in EditRec /\ edit'[e].st = "sent"
        /\ \A d \in Edits : d # e => edit'[d] = edit[d]
    BY <1>2 DEF PatchList, CacheTypeOK, EditRec
  <2>2. edit' \in [Edits -> EditRec]
    BY <1>2, <2>1 DEF CacheTypeOK, PatchList
  <2>3. shown' \subseteq ListRows
    BY <1>2, PatchType DEF PatchList, CacheTypeOK, EditRec
  <2> QED BY <1>2, <2>1, <2>2, <2>3 DEF PatchList, CacheTypeOK, Active
<1>3. ASSUME NEW e \in Edits, ServeEdit(e) \/ DropEdit(e) PROVE CacheInv'
  <2>1. \E o \in {"done", "failed"} : edit' = [edit EXCEPT ![e].st = "answered", ![e].outcome = o]
    BY <1>3 DEF ServeEdit, DropEdit
  <2>2. /\ edit'[e] \in EditRec /\ edit'[e].st = "answered" /\ edit'[e].outcome # "none"
        /\ \A d \in Edits : d # e => edit'[d] = edit[d]
    <3>1. PICK o \in {"done", "failed"} :
            edit' = [edit EXCEPT ![e].st = "answered", ![e].outcome = o]
      BY <2>1
    <3>2. \A d \in Edits : d # e => edit'[d] = edit[d]
      BY <3>1 DEF CacheTypeOK
    <3>3. edit'[e] = [edit[e] EXCEPT !.st = "answered", !.outcome = o]
      BY <3>1 DEF CacheTypeOK, EditRec
    <3> QED BY <3>2, <3>3 DEF CacheTypeOK, EditRec
  <2>3. edit' \in [Edits -> EditRec]
    BY <2>1, <2>2 DEF CacheTypeOK
  <2>4. /\ edit[e].rows \in SUBSET ListRows /\ edit[e].on \in BOOLEAN
    BY DEF CacheTypeOK, EditRec
  <2>5. truth' \subseteq ListRows /\ late' \subseteq [rows : SUBSET ListRows, on : BOOLEAN]
    BY <1>3, <2>4, PatchType DEF ServeEdit, DropEdit, CacheTypeOK
  <2> QED BY <1>3, <2>2, <2>3, <2>5 DEF ServeEdit, DropEdit, CacheTypeOK, Active
<1>4. ASSUME NEW e \in Edits, Settle(e) PROVE CacheInv'
  <2>1. [Idle EXCEPT !.st = "over"] \in EditRec /\ edit[e].snap \in SUBSET ListRows
    BY DEF Idle, EditRec, CacheTypeOK
  <2>2. fetch' = Asked
    BY <1>4 DEF Settle, CacheTypeOK, EditRec
  <2>3. edit' \in [Edits -> EditRec] /\ shown' \subseteq ListRows
    BY <1>4, <2>1 DEF Settle, Restored, CacheTypeOK
  <2>4. \A d \in Edits : edit'[d] = IF d = e THEN [Idle EXCEPT !.st = "over"] ELSE edit[d]
    BY <1>4 DEF Settle, CacheTypeOK
  <2>5. [Idle EXCEPT !.st = "over"].st = "over"
    BY DEF Idle
  <2> QED BY <1>4, <2>2, <2>3, <2>4, <2>5 DEF Settle, Asked, CacheTypeOK
<1>5. ASSUME ServeLate PROVE CacheInv'
  <2>1. truth' \subseteq ListRows
    BY <1>5, PatchType DEF ServeLate, CacheTypeOK
  <2> QED BY <1>5, <2>1 DEF ServeLate, CacheTypeOK, Active
<1>6. ASSUME Refetch \/ ReadList \/ FetchLands \/ FetchFails \/ UNCHANGED listVars
      PROVE  CacheInv'
  <2>1. CASE Refetch
    BY <2>1 DEF Refetch, Asked, CacheTypeOK
  <2>2. CASE ReadList
    BY <2>2 DEF ReadList, CacheTypeOK
  <2>3. CASE FetchLands
    BY <2>3 DEF FetchLands, NoFetch, CacheTypeOK, Active
  <2>4. CASE FetchFails
    BY <2>4 DEF FetchFails, NoFetch, CacheTypeOK
  <2>5. CASE UNCHANGED listVars
    BY <2>5 DEF listVars, CacheTypeOK, Active
  <2> QED BY <1>6, <2>1, <2>2, <2>3, <2>4, <2>5
<1> QED BY <1>1, <1>2, <1>3, <1>4, <1>5, <1>6 DEF ListNext

(* On a page that asks for its list again after every outcome, as the code *)
(* does where it reconciles onSettled, a list at rest shows what the       *)
(* server holds.                                                           *)
THEOREM CacheSettles ==
  ASSUME RefetchOn = {"done", "failed"}
  PROVE  ListSpec => []SettledShowsServer
<1>1. ListInit => CacheInv
  <2> SUFFICES ASSUME ListInit PROVE CacheInv
    OBVIOUS
  <2>1. Idle \in EditRec /\ Idle.st = "idle"
    BY DEF Idle, EditRec
  <2>2. CacheTypeOK
    BY <2>1 DEF ListInit, CacheTypeOK, NoFetch
  <2> QED BY <2>1, <2>2 DEF ListInit, CacheInv, NoFetch
<1>2. CacheInv /\ [ListNext]_listVars => CacheInv'
  BY CacheStep
<1>3. CacheInv => SettledShowsServer
  BY DEF CacheInv, SettledShowsServer, AtRest, Active
<1> QED BY <1>1, <1>2, <1>3, PTL DEF ListSpec

--------------------------------------------------------------------------------
(* The drawer of the reconciliations.                                      *)

ItemsRec == [cleared : SUBSET Entries, open : SUBSET Entries]

RowRec == [items : ItemsRec, manual : BOOLEAN, total : SUBSET Entries,
           st : {"pending", "reviewed"}]

DrawerTypeOK ==
  /\ row \in RowRec /\ cache \in RowRec
  /\ drawerOpen \in BOOLEAN
  /\ known \subseteq {"schedule", "entries"} /\ ticks \subseteq Entries
  /\ save \in [Saves -> [st : {"none", "sent", "served"}, items : ItemsRec, keep : BOOLEAN]]
  /\ mark \in [st : {"none", "sent", "served"}, to : {"pending", "reviewed"},
               wipe : BOOLEAN, snap : RowRec]
  /\ get \in [st : {"none", "asked", "read"}, data : RowRec]
  /\ used \in [Counted -> Nat]
  /\ overtaken \in BOOLEAN

(* The items in the cache are the database's, unless a save or a wipe is    *)
(* still to be told of, or an answer was overtaken.                         *)
ItemsAgree ==
  \/ overtaken
  \/ cache.items = row.items
  \/ \E s \in Saves : save[s].st = "served"
  \/ mark.st # "none" /\ mark.wipe

(* The posts are numbered as they are made.                                 *)
SlotsFree == \A s \in Saves : s > used.save => save[s].st = "none"

DrawerInv == DrawerTypeOK /\ SlotsFree /\ ItemsAgree

LEMMA Items == NoItems \in ItemsRec /\ NewRow \in RowRec /\ NewRow.items = NoItems
BY DEF NoItems, NewRow, ItemsRec, RowRec

LEMMA SavedRow ==
  ASSUME NEW c \in RowRec, NEW i \in ItemsRec
  PROVE  SavedWith(c, i) \in RowRec /\ SavedWith(c, i).items = i
BY DEF RowRec, ItemsRec, SavedWith

LEMMA MarkedRow ==
  ASSUME NEW c \in RowRec, NEW to \in {"pending", "reviewed"}, NEW wipe \in BOOLEAN
  PROVE  /\ MarkedAs(c, to, wipe) \in RowRec
         /\ ~wipe => MarkedAs(c, to, wipe).items = c.items
         /\ [c EXCEPT !.st = to] \in RowRec
         /\ [c EXCEPT !.st = to].items = c.items
BY Items DEF RowRec, MarkedAs

LEMMA PreviewedRow ==
  ASSUME NEW c \in RowRec, NEW t \in SUBSET Entries, NEW k
  PROVE  Previewed(c, t, k) \in RowRec /\ Previewed(c, t, k).items = c.items
BY DEF RowRec, Previewed

LEMMA PaintedRow ==
  ASSUME DrawerTypeOK, NEW c \in RowRec, Painted(c)
  PROVE  cache' \in RowRec /\ cache'.items = c.items /\ ticks' \subseteq Entries
<1> DEFINE t == IF drawerOpen /\ c.st # cache.st THEN c.items.cleared ELSE ticks
<1>1. t \in SUBSET Entries
  BY DEF DrawerTypeOK, RowRec, ItemsRec
<1>2. ticks' = t /\ cache' = IF drawerOpen THEN Previewed(c, t, known) ELSE c
  BY DEF Painted
<1> HIDE DEF t
<1>3. Previewed(c, t, known) \in RowRec /\ Previewed(c, t, known).items = c.items
  BY <1>1, PreviewedRow
<1> QED BY <1>1, <1>2, <1>3

LEMMA CountsType ==
  ASSUME DrawerTypeOK, NEW kinds, Counts(kinds) PROVE used' \in [Counted -> Nat]
BY DEF DrawerTypeOK, Counts

LEMMA PayloadType ==
  ASSUME NEW t \in SUBSET Entries, NEW k
  PROVE  Payload(t, k) \in ItemsRec /\ [cleared |-> t, open |-> {}] \in ItemsRec
BY DEF Payload, ItemsRec

LEMMA PostType ==
  ASSUME DrawerTypeOK, NEW i \in ItemsRec, NEW keep \in BOOLEAN, Post(i, keep)
  PROVE  /\ save' \in [Saves -> [st : {"none", "sent", "served"}, items : ItemsRec, keep : BOOLEAN]]
BY DEF DrawerTypeOK, Post

SaveRec == [st : {"none", "sent", "served"}, items : ItemsRec, keep : BOOLEAN]
MarkRec == [st : {"none", "sent", "served"}, to : {"pending", "reviewed"},
            wipe : BOOLEAN, snap : RowRec]
GetRec == [st : {"none", "asked", "read"}, data : RowRec]

LEMMA Nothing == NoSave \in SaveRec /\ NoMark \in MarkRec /\ NoGet \in GetRec
BY Items DEF SaveRec, MarkRec, GetRec, NoSave, NoMark, NoGet

LEMMA DrawerTypeStep == ASSUME DrawerTypeOK, [DrawerNext]_drawerVars PROVE DrawerTypeOK'
<1> USE Items, Nothing DEF SaveRec, MarkRec, GetRec
<1>1. ASSUME OpenDrawer PROVE DrawerTypeOK'
  <2>1. cache.items.cleared \in SUBSET Entries
    BY DEF DrawerTypeOK, RowRec, ItemsRec
  <2>2. \A k : Previewed(cache, cache.items.cleared, k) \in RowRec
    BY <2>1, PreviewedRow DEF DrawerTypeOK
  <2> QED BY <1>1, <2>1, <2>2 DEF OpenDrawer, DrawerTypeOK
<1>2. ASSUME CloseDrawer \/ EntriesKnown PROVE DrawerTypeOK'
  BY <1>2 DEF CloseDrawer, EntriesKnown, DrawerTypeOK
<1>3. ASSUME ScheduleKnown PROVE DrawerTypeOK'
  <2>1. Previewed(cache, ticks, known') \in RowRec
    BY PreviewedRow DEF DrawerTypeOK
  <2> QED BY <1>3, <2>1 DEF ScheduleKnown, DrawerTypeOK
<1>4. ASSUME NEW e \in Entries, Toggle(e) PROVE DrawerTypeOK'
  <2>1. ticks' \in SUBSET Entries
    BY <1>4 DEF Toggle, DrawerTypeOK
  <2>2. Previewed(cache, ticks', known) \in RowRec
    BY <2>1, PreviewedRow DEF DrawerTypeOK
  <2>3. used' \in [Counted -> Nat]
    BY <1>4, CountsType DEF Toggle
  <2> QED BY <1>4, <2>1, <2>2, <2>3 DEF Toggle, DrawerTypeOK
<1>5. ASSUME AutoSave PROVE DrawerTypeOK'
  <2>1. Payload(ticks, known) \in ItemsRec
    BY PayloadType DEF DrawerTypeOK
  <2>2. save' \in [Saves -> SaveRec] /\ used' \in [Counted -> Nat]
    BY <1>5, <2>1, PostType, CountsType DEF AutoSave
  <2> QED BY <1>5, <2>2 DEF AutoSave, DrawerTypeOK
<1>6. ASSUME SaveAndMark PROVE DrawerTypeOK'
  <2>1. [cleared |-> ticks, open |-> {}] \in ItemsRec /\ [cache EXCEPT !.st = "reviewed"] \in RowRec
    BY PayloadType, MarkedRow DEF DrawerTypeOK
  <2>2. save' \in [Saves -> SaveRec] /\ used' \in [Counted -> Nat]
    BY <1>6, <2>1, PostType, CountsType DEF SaveAndMark
  <2>3. cache' \in RowRec /\ ticks' \subseteq Entries
    BY <1>6, <2>1, PaintedRow DEF SaveAndMark
  <2> QED BY <1>6, <2>2, <2>3 DEF SaveAndMark, DrawerTypeOK
<1>7. ASSUME NEW s \in Saves, ServeSave(s) PROVE DrawerTypeOK'
  <2>1. save[s] \in SaveRec /\ [save[s] EXCEPT !.st = "served"] \in SaveRec
    BY DEF DrawerTypeOK
  <2>2. SavedWith(row, save[s].items) \in RowRec
    BY <2>1, SavedRow DEF DrawerTypeOK
  <2> QED BY <1>7, <2>1, <2>2 DEF ServeSave, DrawerTypeOK
<1>8. ASSUME NEW s \in Saves, SaveLands(s) PROVE DrawerTypeOK'
  <2>1. SavedWith(cache, save[s].items) \in RowRec
    BY SavedRow DEF DrawerTypeOK, SaveRec
  <2>2. /\ cache' \in RowRec /\ ticks' \subseteq Entries
        /\ drawerOpen' \in BOOLEAN /\ known' \subseteq {"schedule", "entries"}
    BY <1>8, <2>1, PaintedRow DEF SaveLands, DrawerTypeOK
  <2>3. overtaken' \in BOOLEAN
    BY <1>8, Zenon DEF SaveLands, Overtaken
  <2> QED BY <1>8, <2>2, <2>3 DEF SaveLands, DrawerTypeOK
<1>9. ASSUME NEW s \in Saves, SaveFails(s) PROVE DrawerTypeOK'
  <2>1. overtaken' \in BOOLEAN
    BY <1>9, Zenon DEF SaveFails
  <2> QED BY <1>9, <2>1 DEF SaveFails, DrawerTypeOK
<1>10. ASSUME NEW to \in {"pending", "reviewed"}, NEW wipe \in BOOLEAN, Mark(to, wipe)
       PROVE  DrawerTypeOK'
  <2>1. MarkedAs(cache, to, wipe) \in RowRec
    BY MarkedRow DEF DrawerTypeOK
  <2>2. cache' \in RowRec /\ ticks' \subseteq Entries /\ used' \in [Counted -> Nat]
    BY <1>10, <2>1, PaintedRow, CountsType DEF Mark
  <2> QED BY <1>10, <2>2 DEF Mark, DrawerTypeOK
<1>11. ASSUME ServeMark PROVE DrawerTypeOK'
  <2>1. MarkedAs(row, mark.to, mark.wipe) \in RowRec
    BY MarkedRow DEF DrawerTypeOK
  <2>2. [mark EXCEPT !.st = "served"] \in MarkRec
    BY DEF DrawerTypeOK
  <2> QED BY <1>11, <2>1, <2>2 DEF ServeMark, DrawerTypeOK
<1>12. ASSUME MarkLands PROVE DrawerTypeOK'
  <2>1. overtaken' \in BOOLEAN
    BY <1>12, Zenon DEF MarkLands
  <2> QED BY <1>12, <2>1 DEF MarkLands, DrawerTypeOK
<1>13. ASSUME MarkFails PROVE DrawerTypeOK'
  <2>1. cache' \in RowRec /\ ticks' \subseteq Entries
    BY <1>13, PaintedRow DEF MarkFails, DrawerTypeOK
  <2>2. overtaken' \in BOOLEAN
    BY <1>13, Zenon DEF MarkFails, Overtaken
  <2> QED BY <1>13, <2>1, <2>2 DEF MarkFails, DrawerTypeOK
<1>14. ASSUME GetOverview \/ ReadOverview PROVE DrawerTypeOK'
  <2>1. used' \in [Counted -> Nat]
    BY <1>14, CountsType DEF GetOverview, ReadOverview, DrawerTypeOK
  <2>2. get' \in GetRec
    BY <1>14 DEF GetOverview, ReadOverview, DrawerTypeOK
  <2> QED BY <1>14, <2>1, <2>2 DEF GetOverview, ReadOverview, DrawerTypeOK
<1>15. ASSUME OverviewLands PROVE DrawerTypeOK'
  <2>1. cache' \in RowRec /\ ticks' \subseteq Entries
    BY <1>15, PaintedRow DEF OverviewLands, DrawerTypeOK
  <2>2. overtaken' \in BOOLEAN
    BY <1>15, Zenon DEF OverviewLands, Overtaken
  <2> QED BY <1>15, <2>1, <2>2 DEF OverviewLands, DrawerTypeOK
<1>16. CASE UNCHANGED drawerVars
  BY <1>16 DEF drawerVars, DrawerTypeOK
<1> QED
  BY <1>1, <1>2, <1>3, <1>4, <1>5, <1>6, <1>7, <1>8, <1>9, <1>10, <1>11, <1>12, <1>13, <1>14,
     <1>15, <1>16 DEF DrawerNext

LEMMA ItemsStep ==
  ASSUME DrawerTypeOK, SlotsFree, ItemsAgree, [DrawerNext]_drawerVars
  PROVE  SlotsFree' /\ ItemsAgree'
<1>1. ASSUME UNCHANGED <<row, save, mark, overtaken>>, cache'.items = cache.items
      PROVE  ItemsAgree'
  BY <1>1 DEF ItemsAgree
<1>2. CASE OpenDrawer \/ ScheduleKnown \/ \E e \in Entries : Toggle(e)
  <2>1. \E t \in SUBSET Entries : \E k : cache' = Previewed(cache, t, k)
    <3>1. cache.items.cleared \in SUBSET Entries
      BY DEF DrawerTypeOK, RowRec, ItemsRec
    <3>2. CASE OpenDrawer
      BY <3>1, <3>2 DEF OpenDrawer
    <3>3. CASE ScheduleKnown
      BY <3>3 DEF ScheduleKnown, DrawerTypeOK
    <3>4. ASSUME NEW e \in Entries, Toggle(e)
          PROVE  \E t \in SUBSET Entries : \E k : cache' = Previewed(cache, t, k)
      <4>1. ticks' \in SUBSET Entries
        BY <3>4 DEF Toggle, DrawerTypeOK
      <4> QED BY <3>4, <4>1 DEF Toggle
    <3> QED BY <1>2, <3>2, <3>3, <3>4
  <2>2. cache'.items = cache.items
    BY <2>1, PreviewedRow DEF DrawerTypeOK
  <2>3. SlotsFree'
    BY <1>2 DEF OpenDrawer, ScheduleKnown, Toggle, Counts, SlotsFree, Counted, Limit
  <2> QED BY <1>1, <1>2, <2>2, <2>3 DEF OpenDrawer, ScheduleKnown, Toggle
<1>3. CASE CloseDrawer \/ EntriesKnown \/ GetOverview \/ ReadOverview \/ UNCHANGED drawerVars
  <2>1. SlotsFree'
    BY <1>3 DEF CloseDrawer, EntriesKnown, GetOverview, ReadOverview, drawerVars, Counts,
                SlotsFree, Counted, Limit
  <2> QED BY <1>1, <1>3, <2>1 DEF CloseDrawer, EntriesKnown, GetOverview, ReadOverview, drawerVars
<1>4. ASSUME NEW kinds, "save" \in kinds, Counts(kinds), NEW i, NEW keep, Post(i, keep),
             UNCHANGED <<row, overtaken>>, cache'.items = cache.items,
             mark' = mark \/ mark.st = "none"
      PROVE  SlotsFree' /\ ItemsAgree'
  <2>1. used.save \in Nat /\ used'.save = used.save + 1
    BY <1>4 DEF Counts, DrawerTypeOK, Counted, Limit
  <2>2. \A s \in Saves : s # used.save + 1 => save'[s] = save[s]
    BY <1>4 DEF Post, DrawerTypeOK
  <2>3. SlotsFree'
    BY <2>1, <2>2 DEF SlotsFree, Saves
  <2>4. \A s \in Saves : save[s].st = "served" => save'[s] = save[s]
    BY <2>1, <2>2 DEF SlotsFree, Saves
  <2> QED BY <1>4, <2>3, <2>4 DEF ItemsAgree
<1>5. CASE AutoSave
  BY <1>4, <1>5 DEF AutoSave
<1>6. CASE SaveAndMark
  <2>1. cache'.items = cache.items
    BY <1>6, MarkedRow, PaintedRow DEF SaveAndMark, DrawerTypeOK
  <2> QED BY <1>4, <1>6, <2>1 DEF SaveAndMark
<1>7. ASSUME NEW s \in Saves, ServeSave(s) PROVE SlotsFree' /\ ItemsAgree'
  <2>1. save'[s].st = "served" /\ \A q \in Saves : q # s => save'[q] = save[q]
    BY <1>7 DEF ServeSave, DrawerTypeOK
  <2> QED BY <1>7, <2>1 DEF ServeSave, SlotsFree, ItemsAgree
<1>8. ASSUME NEW s \in Saves, SaveLands(s) \/ SaveFails(s) PROVE SlotsFree' /\ ItemsAgree'
  <2>1. save'[s].st = "none" /\ \A q \in Saves : q # s => save'[q] = save[q]
    BY <1>8 DEF SaveLands, SaveFails, NoSave, DrawerTypeOK
  <2>2. SlotsFree'
    BY <1>8, <2>1 DEF SaveLands, SaveFails, SlotsFree
  <2>3. CASE SaveLands(s)
    <3>1. /\ SavedWith(cache, save[s].items) \in RowRec
          /\ SavedWith(cache, save[s].items).items = save[s].items
      BY SavedRow DEF DrawerTypeOK
    <3>2. cache'.items = save[s].items
      BY <2>3, <3>1, PaintedRow DEF SaveLands
    <3> QED BY <2>2, <2>3, <3>2 DEF SaveLands, Overtaken, ItemsAgree
  <2>4. CASE SaveFails(s)
    BY <2>1, <2>2, <2>4 DEF SaveFails, ItemsAgree
  <2> QED BY <1>8, <2>3, <2>4
<1>9. ASSUME NEW to \in {"pending", "reviewed"}, NEW wipe \in BOOLEAN, Mark(to, wipe)
      PROVE  SlotsFree' /\ ItemsAgree'
  <2>1. SlotsFree'
    BY <1>9 DEF Mark, Counts, SlotsFree, Counted, Limit
  <2>2. CASE wipe
    BY <1>9, <2>1, <2>2 DEF Mark, ItemsAgree
  <2>3. CASE ~wipe
    <3>1. cache'.items = cache.items
      BY <1>9, <2>3, MarkedRow, PaintedRow DEF Mark, DrawerTypeOK
    <3> QED BY <1>9, <2>1, <3>1 DEF Mark, ItemsAgree
  <2> QED BY <2>2, <2>3
<1>10. CASE ServeMark
  <2>1. mark'.st = "served" /\ mark'.wipe = mark.wipe
    BY <1>10 DEF ServeMark, DrawerTypeOK
  <2>2. ~mark.wipe => row'.items = row.items
    BY <1>10, MarkedRow DEF ServeMark, DrawerTypeOK
  <2> QED BY <1>10, <2>1, <2>2 DEF ServeMark, SlotsFree, ItemsAgree
<1>11. CASE MarkLands
  BY <1>11 DEF MarkLands, SlotsFree, ItemsAgree
<1>12. CASE MarkFails
  <2>1. cache'.items = mark.snap.items
    BY <1>12, PaintedRow DEF MarkFails, DrawerTypeOK
  <2> QED BY <1>12, <2>1 DEF MarkFails, Overtaken, SlotsFree, ItemsAgree
<1>13. CASE OverviewLands
  <2>1. cache'.items = get.data.items
    BY <1>13, PaintedRow DEF OverviewLands, DrawerTypeOK
  <2> QED BY <1>13, <2>1 DEF OverviewLands, Overtaken, SlotsFree, ItemsAgree
<1> QED
  BY <1>2, <1>3, <1>5, <1>6, <1>7, <1>8, <1>9, <1>10, <1>11, <1>12, <1>13 DEF DrawerNext

(* In an open and editable drawer with no save armed or under way every    *)
(* tick is in the database, unless an answer was overtaken or lost.        *)
THEOREM DrawerSavesTicks == DrawerSpec => []NothingLeftUnsaved
<1>1. DrawerInit => DrawerInv
  <2> SUFFICES ASSUME DrawerInit PROVE DrawerInv
    OBVIOUS
  <2>1. row \in RowRec
    <3>1. CASE row = NewRow
      BY <3>1, Items
    <3>2. ASSUME NEW t \in SUBSET Entries,
                 row = MarkedAs(SavedWith(NewRow, [cleared |-> t, open |-> Entries \ t]),
                                "reviewed", FALSE)
          PROVE  row \in RowRec
      <4>1. [cleared |-> t, open |-> Entries \ t] \in ItemsRec
        BY DEF ItemsRec
      <4> QED BY <3>2, <4>1, Items, SavedRow, MarkedRow
    <3> QED BY <3>1, <3>2 DEF DrawerInit
  <2>2. DrawerTypeOK
    BY <2>1, Items, Nothing DEF DrawerInit, DrawerTypeOK, SaveRec, MarkRec, GetRec
  <2> QED BY <2>2 DEF DrawerInit, DrawerInv, SlotsFree, ItemsAgree, NoSave
<1>2. DrawerInv /\ [DrawerNext]_drawerVars => DrawerInv'
  BY DrawerTypeStep, ItemsStep DEF DrawerInv
<1>3. DrawerInv => NothingLeftUnsaved
  <2> SUFFICES ASSUME DrawerInv, ~Differs, ~Saving, mark.st = "none", ~overtaken
               PROVE  row.items.cleared = ticks
    BY DEF NothingLeftUnsaved
  <2>1. cache.items = row.items
    BY DEF DrawerInv, ItemsAgree, Saving
  <2> QED BY <2>1 DEF Differs, Payload
<1> QED BY <1>1, <1>2, <1>3, PTL DEF DrawerSpec
================================================================================
