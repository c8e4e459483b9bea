-------------------------------- MODULE ApiClient --------------------------------
(***************************************************************************)
(* The browser's side of every request: the session token that apiClient   *)
(* keeps for four seconds, the mint that a burst of requests shares, the   *)
(* replay of a request whose connection dropped or whose token was         *)
(* refused, and what happens to all of it when the user changes company.   *)
(*                                                                         *)
(* A token is the company it was minted for.  Clerk keeps one of its own,  *)
(* which may lag behind the active company until it is minted past the     *)
(* cache.  A deleted workspace answers 410; the redirect that follows      *)
(* reloads the page and ends the story here.                               *)
(***************************************************************************)
EXTENDS Naturals, NoneValue

CONSTANTS
  Calls,          (* requests, each made once by the screen of its moment   *)
  Writes,         (* those that must not be replayed: POST and PATCH        *)
  Companies,      (* the workspaces the user belongs to                     *)
  MaxSwitches     (* bound: changes of company                              *)

ASSUME ApiAssumption ==
  /\ Writes \subseteq Calls
  /\ MaxSwitches \in Nat
  /\ None \notin Calls \cup Companies

VARIABLES
  company,        (* the active company                                     *)
  clerk,          (* the company of the token Clerk keeps                   *)
  screen,         (* the company whose screen is mounted                    *)
  noticed,        (* the company ClerkApiWirer saw last                     *)
  switching,      (* "no", or what selectCompany has behind it              *)
  switches,       (* changes of company so far                              *)
  cached,         (* the token apiClient keeps, or None                     *)
  inflight,       (* the call whose mint the others share, or None          *)
  mint,           (* mint[c]: the company call c's mint will answer for     *)
  call,           (* call[c]: where call c stands                           *)
  stray           (* an older token may reach the new company's screen      *)

switchVars == <<company, screen, noticed, switching, switches>>
apiVars == <<company, clerk, screen, noticed, switching, switches, cached,
             inflight, mint, call, stray>>

NewCall == [st |-> "idle", for |-> None, token |-> None, on |-> None,
            replayed |-> FALSE, reminted |-> FALSE, effects |-> 0]

Sent(r, t) == [r EXCEPT !.st = "sent", !.token = t, !.on = None]
Returned(r) == [NewCall EXCEPT !.st = "returned", !.effects = r.effects]

Older(m) == \E c \in Calls : m[c] \notin {None, company}

(* A mint for the company left behind is asked for while the menu switches. *)
Straying == stray' = (stray \/ (switching = "cleared" /\ Older(mint')))

--------------------------------------------------------------------------------
(* The token.                                                               *)

(* obtainToken for call c, from the cache, from the shared mint, or by a    *)
(* mint of its own, which Clerk answers from the token it keeps.            *)
ObtainToken(c, r, kept) ==
  \/ /\ cached # None
     /\ call' = [call EXCEPT ![c] = Sent(r, cached)]
     /\ mint' = [mint EXCEPT ![c] = None]
     /\ UNCHANGED <<cached, inflight>>
  \/ /\ cached = None
     /\ LET owner == IF inflight = None THEN c ELSE inflight
        IN  /\ call' = [call EXCEPT ![c] = [r EXCEPT !.st = "waiting", !.on = owner]]
            /\ mint' = [mint EXCEPT ![c] = IF owner = c THEN kept ELSE None]
            /\ inflight' = owner
     /\ UNCHANGED cached

Waiting(o) == {c \in Calls : call[c].st = "waiting" /\ call[c].on = o}

(* The promise of a mint settles: the token is kept, whatever was cleared   *)
(* meanwhile, the shared mint is forgotten, and its callers are sent.       *)
MintArrives(o) ==
  /\ Waiting(o) # {}
  /\ cached' = mint[o]
  /\ inflight' = None
  /\ call' = [c \in Calls |-> IF c \in Waiting(o)
                              THEN Sent(call[c], mint[o]) ELSE call[c]]
  /\ mint' = [mint EXCEPT ![o] = None]
  /\ UNCHANGED <<clerk, stray, switchVars>>

MintFails(o) ==
  /\ Waiting(o) # {}
  /\ inflight' = None
  /\ call' = [c \in Calls |-> IF c \in Waiting(o) THEN Returned(call[c]) ELSE call[c]]
  /\ mint' = [mint EXCEPT ![o] = None]
  /\ UNCHANGED <<clerk, cached, stray, switchVars>>

Expires ==
  /\ cached # None
  /\ cached' = None
  /\ UNCHANGED <<clerk, inflight, mint, call, stray, switchVars>>

--------------------------------------------------------------------------------
(* A request.                                                               *)

Request(c) ==
  /\ call[c].st = "idle"
  /\ ObtainToken(c, [call[c] EXCEPT !.for = screen], clerk)
  /\ Straying
  /\ UNCHANGED <<clerk, switchVars>>

(* Defect: every method counts as idempotent.                               *)
MayReplayAny(c) == ~call[c].replayed

MayReplay(c) == ~call[c].replayed /\ c \notin Writes

(* The answer comes: the server carried the request out, or refused it for  *)
(* a reason of its own.                                                     *)
Answered(c) ==
  /\ \E done \in {0, 1} : LET r == [call[c] EXCEPT !.effects = @ + done] IN
       call' = [call EXCEPT ![c] = Returned(r)]
  /\ UNCHANGED <<cached, inflight, mint>>

(* The workspace has been deleted.                                          *)
Gone(c) ==
  /\ call' = [call EXCEPT ![c] = Returned(@)]
  /\ cached' = None /\ inflight' = None
  /\ UNCHANGED mint

(* Defect: the marker that a request was replayed is not set.               *)
DroppedUnmarked(c) ==
  /\ \E done \in {0, 1} : LET r == [call[c] EXCEPT !.effects = @ + done] IN
       call' = [call EXCEPT ![c] =
                  IF MayReplay(c) THEN [r EXCEPT !.st = "pausing", !.token = None]
                                  ELSE Returned(r)]
  /\ UNCHANGED <<cached, inflight, mint>>

(* The connection drops, before the server carried it out or after: once    *)
(* more after a beat, if it may be replayed.                                *)
Dropped(c) ==
  /\ \E done \in {0, 1} : LET r == [call[c] EXCEPT !.effects = @ + done] IN
       call' = [call EXCEPT ![c] =
                  IF MayReplay(c)
                  THEN [r EXCEPT !.st = "pausing", !.token = None, !.replayed = TRUE]
                  ELSE Returned(r)]
  /\ UNCHANGED <<cached, inflight, mint>>

(* The token is refused: once more with one minted past both caches.        *)
Expired(c) ==
  \/ /\ ~call[c].reminted
     /\ call' = [call EXCEPT ![c] =
                   [@ EXCEPT !.st = "reminting", !.token = None, !.reminted = TRUE]]
     /\ cached' = None /\ inflight' = None
     /\ mint' = [mint EXCEPT ![c] = company]
  \/ /\ call[c].reminted
     /\ call' = [call EXCEPT ![c] = Returned(@)]
     /\ UNCHANGED <<cached, inflight, mint>>

Serve(c) ==
  /\ call[c].st = "sent"
  /\ Answered(c) \/ Gone(c) \/ Dropped(c) \/ Expired(c)
  /\ Straying
  /\ UNCHANGED <<clerk, switchVars>>

Resume(c) ==
  /\ call[c].st = "pausing"
  /\ ObtainToken(c, call[c], clerk)
  /\ Straying
  /\ UNCHANGED <<clerk, switchVars>>

(* The replay passes the request interceptor, which obtains a token again.  *)
Reminted(c) ==
  /\ call[c].st = "reminting"
  /\ \/ clerk' = mint[c] /\ ObtainToken(c, call[c], mint[c])
     \/ /\ call' = [call EXCEPT ![c] = Returned(@)]
        /\ mint' = [mint EXCEPT ![c] = None]
        /\ UNCHANGED <<clerk, cached, inflight>>
  /\ Straying
  /\ UNCHANGED switchVars

--------------------------------------------------------------------------------
(* Changing company.                                                        *)

SetActive(n) ==
  /\ switching = "no" /\ n # company
  /\ switches < MaxSwitches
  /\ company' = n /\ switches' = switches + 1
  /\ switching' = "active"
  /\ UNCHANGED <<clerk, screen, noticed, cached, inflight, mint, call, stray>>

(* Defect: only the shared mint is forgotten, the token is kept.            *)
ClearMintOnly == inflight' = None /\ UNCHANGED cached

Clear == cached' = None /\ inflight' = None

(* The switcher's menu clears before anything else; a mint already asked    *)
(* for still answers, for the company it was asked for.                     *)
ClearForSwitch ==
  /\ switching = "active"
  /\ Clear
  /\ stray' = (stray \/ Older(mint))
  /\ switching' = "cleared"
  /\ UNCHANGED <<company, clerk, screen, noticed, switches, mint, call>>

(* The new company's screen is mounted; who asked from the old one is gone. *)
Mount ==
  /\ screen' = company /\ switching' = "no"
  /\ call' = [c \in Calls |-> [call[c] EXCEPT !.for = None]]

(* ... then has Clerk mint past its cache, failing which it goes on, and    *)
(* opens the new company's screen.                                          *)
OpenScreen ==
  /\ switching = "cleared"
  /\ \/ clerk' = company /\ UNCHANGED stray
     \/ UNCHANGED clerk /\ stray' = (stray \/ clerk # company)
  /\ Mount
  /\ UNCHANGED <<company, noticed, switches, cached, inflight, mint>>

(* The command center, the settings, the company picker and the creation of *)
(* a company leave the token of apiClient to ClerkApiWirer.                 *)
OpenUncleared ==
  /\ switching = "active"
  /\ clerk' \in {clerk, company}
  /\ Mount /\ stray' = TRUE
  /\ UNCHANGED <<company, noticed, switches, cached, inflight, mint>>

(* The effect of ClerkApiWirer, some render after the company changed.      *)
Notice ==
  /\ noticed # company
  /\ noticed' = company
  /\ Clear
  /\ clerk' \in {clerk, company}
  /\ UNCHANGED <<company, screen, switching, switches, mint, call, stray>>

ClerkCatchesUp ==
  /\ clerk # company /\ clerk' = company
  /\ UNCHANGED <<cached, inflight, mint, call, stray, switchVars>>

--------------------------------------------------------------------------------
ApiInit ==
  /\ company \in Companies
  /\ clerk = company /\ screen = company /\ noticed = company
  /\ switching = "no" /\ switches = 0
  /\ cached = None /\ inflight = None
  /\ mint = [c \in Calls |-> None]
  /\ call = [c \in Calls |-> NewCall]
  /\ stray = FALSE

Carry(c) == MintArrives(c) \/ MintFails(c) \/ Serve(c) \/ Resume(c) \/ Reminted(c)

ApiNext ==
  \/ \E c \in Calls : Request(c) \/ Carry(c)
  \/ Expires
  \/ \E n \in Companies : SetActive(n)
  \/ ClearForSwitch \/ OpenScreen \/ OpenUncleared \/ Notice \/ ClerkCatchesUp

(* Promises settle, and a connection ends in an answer or drops.            *)
ApiFairness == \A c \in Calls : WF_apiVars(Carry(c))

ApiSpec == ApiInit /\ [][ApiNext]_apiVars /\ ApiFairness

--------------------------------------------------------------------------------
(* Properties.                                                              *)

(* "A retry can't double-charge anything": whatever drops, expires and is   *)
(* replayed, the server carries a POST or a PATCH out at most once.         *)
WrittenOnce == \A c \in Writes : call[c].effects <= 1

(* A request of the new company's screen is signed for that company, when   *)
(* the menu cleared the tokens and no older mint was still to answer.       *)
SignedForCompany ==
  \A c \in Calls :
    call[c].st = "sent" /\ call[c].for = company /\ ~stray => call[c].token = company

(* "so the next screen renders from the new company's data only": the       *)
(* requests of its screen are signed for it, whichever way it was opened.   *)
NextScreenSigned ==
  \A c \in Calls : call[c].st = "sent" /\ call[c].for = company => call[c].token = company

(* Every request is answered or given up: the replays end.                  *)
EveryRequestReturns == \A c \in Calls : call[c].st # "idle" ~> call[c].st = "returned"
================================================================================
