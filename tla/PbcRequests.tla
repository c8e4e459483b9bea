------------------------------- MODULE PbcRequests -------------------------------
(***************************************************************************)
(* Document requests of one month: a preparer or the autopilot mails a     *)
(* client a link, reminds (which mints a new link and kills the old one),  *)
(* cancels, and the client uploads through the link without an account.    *)
(* Each request reads the row, works (an upload stores the file first) and *)
(* commits only the columns it changed; two of them may overlap.           *)
(*                                                                         *)
(* A row has one link that works, the last one minted, in one of three     *)
(* phases: within the cooldown between mails, after it, or expired.        *)
(* Accounts are the bank and card accounts with a balance.  Members may    *)
(* remove a file on the reconciliation page; the request keeps naming it.  *)
(***************************************************************************)
EXTENDS Naturals, FiniteSets, NoneValue

CONSTANTS
  MaxRequests,    (* bound: request rows ever created                       *)
  BankAccounts,   (* accounts a statement is wanted for                     *)
  MaxUploads,     (* bound: files ever uploaded                             *)
  Handlers,       (* requests in progress at a time                         *)
  MaxFiles,       (* _MAX_FILES_PER_REQUEST                                 *)
  MaxSends        (* _MAX_SENDS                                             *)

VARIABLES
  request,        (* request[r]: the committed row r, or None               *)
  evidence,       (* evidence[f]: the request file f was filed for, or None *)
  removed,        (* files whose evidence has been deleted since            *)
  handler,        (* handler[h]: the request handler h serves               *)
  collided        (* rows with two uploads, or two reminders, at once       *)

pbcVars == <<request, evidence, removed, handler, collided>>

(* Rows and files, numbered as they come.                                   *)
Requests == 1..MaxRequests
Uploads == 1..MaxUploads

Ages == {"fresh", "cooled", "expired"}

PbcRow == [account : BankAccounts, status : {"pending", "fulfilled", "cancelled"},
           age : Ages, sends : 1..MaxSends, files : SUBSET Uploads]

ASSUME PbcAssumption ==
  /\ MaxFiles \in Nat \ {0} /\ MaxSends \in Nat \ {0}
  /\ MaxRequests \in Nat /\ MaxUploads \in Nat
  /\ None \notin BankAccounts \cup Nat \cup PbcRow

Resting == [op |-> "rest"]
RemindJob == [op : {"remind"}, row : Requests, loaded : PbcRow]
UploadJob == [op : {"upload"}, row : Requests, loaded : PbcRow, file : Uploads]
AutoJob == [op : {"auto"}, wanted : SUBSET BankAccounts]

PbcTypeOK ==
  /\ request \in [Requests -> PbcRow \cup {None}]
  /\ evidence \in [Uploads -> Requests \cup {None}]
  /\ removed \subseteq {f \in Uploads : evidence[f] # None}
  /\ handler \in [Handlers -> {Resting} \cup RemindJob \cup UploadJob \cup AutoJob]
  /\ collided \subseteq Requests

PbcInit ==
  /\ request = [r \in Requests |-> None]
  /\ evidence = [f \in Uploads |-> None]
  /\ removed = {}
  /\ handler = [h \in Handlers |-> Resting]
  /\ collided = {}

Asked == {r \in Requests : request[r] # None}

NewRequest(account) ==
  [account |-> account, status |-> "pending", age |-> "fresh", sends |-> 1,
   files |-> {}]

NextRequest(r) == request[r] = None /\ \A q \in Requests : q < r => q \in Asked

(* Handler h starts to work on row r.                                       *)
Takes(h, r, j) ==
  /\ handler[h] = Resting
  /\ handler' = [handler EXCEPT ![h] = j]
  /\ collided' = IF \E g \in Handlers \ {h} :
                      handler[g].op = j.op /\ handler[g].row = r
                 THEN collided \cup {r} ELSE collided

Ends(h) == handler' = [handler EXCEPT ![h] = Resting]

--------------------------------------------------------------------------------
(* The row is committed, then the mail is tried.  It may fail, and the link *)
(* with it, since only its hash is kept: the row does not say so, so what   *)
(* follows is the same either way.                                          *)
CreateRequest(r, account) ==
  /\ NextRequest(r)
  /\ request' = [request EXCEPT ![r] = NewRequest(account)]
  /\ UNCHANGED <<evidence, removed, handler, collided>>

MayRemind(row) ==
  /\ row.status = "pending" /\ row.age # "expired"
  /\ row.sends < MaxSends
  /\ row.age # "fresh"

RemindRead(h, r) ==
  /\ r \in Asked
  /\ MayRemind(request[r])
  /\ Takes(h, r, [op |-> "remind", row |-> r, loaded |-> request[r]])
  /\ UNCHANGED <<request, evidence, removed>>

RemindCommit(h) ==
  LET j == handler[h] IN
  /\ j.op = "remind"
  /\ request' = [request EXCEPT ![j.row].age = "fresh",
                                ![j.row].sends = j.loaded.sends + 1]
  /\ Ends(h)
  /\ UNCHANGED <<evidence, removed, collided>>

(* Whatever the row's state.  Cancelling writes one constant, so its order  *)
(* among overlapping requests is that of its commit.                        *)
CancelRequest(r) ==
  /\ r \in Asked
  /\ request' = [request EXCEPT ![r].status = "cancelled"]
  /\ UNCHANGED <<evidence, removed, handler, collided>>

--------------------------------------------------------------------------------
(* Defect: the limit lets one more file in.                                 *)
MayUploadOneMore(row) ==
  row.status # "cancelled" /\ row.age # "expired" /\ Cardinality(row.files) <= MaxFiles

MayUpload(row) ==
  /\ row.status # "cancelled"
  /\ row.age # "expired"
  /\ Cardinality(row.files) < MaxFiles

Received == {f \in Uploads : evidence[f] # None} \cup
            {handler[g].file : g \in {k \in Handlers : handler[k].op = "upload"}}

(* The client of row r follows the latest link (an earlier one finds no     *)
(* row), and the file is stored.                                            *)
UploadRead(h, r, f) ==
  /\ r \in Asked
  /\ MayUpload(request[r])
  /\ f \notin Received /\ \A g \in Uploads : g < f => g \in Received
  /\ Takes(h, r, [op |-> "upload", row |-> r, loaded |-> request[r], file |-> f])
  /\ UNCHANGED <<request, evidence, removed>>

Uploaded(row, j) ==
  [row EXCEPT !.files = j.loaded.files \cup {j.file},
              !.status = IF j.loaded.status = "pending" THEN "fulfilled" ELSE @]

UploadCommit(h) ==
  LET j == handler[h] IN
  /\ j.op = "upload"
  /\ request' = [request EXCEPT ![j.row] = Uploaded(@, j)]
  /\ evidence' = [evidence EXCEPT ![j.file] = j.row]
  /\ Ends(h)
  /\ UNCHANGED <<removed, collided>>

(* delete_account_evidence while the month is open: the evidence goes, and  *)
(* the request is not looked at.                                            *)
RemoveEvidence(f) ==
  /\ evidence[f] # None /\ f \notin removed
  /\ removed' = removed \cup {f}
  /\ UNCHANGED <<request, evidence, handler, collided>>

--------------------------------------------------------------------------------
(* The autopilot asks for every account with no file on record, whether     *)
(* uploaded here or attached by a member, and no request that is pending,   *)
(* expired ones included, or fulfilled: it reads once and commits request   *)
(* by request.                                                              *)
AutoRead(h) ==
  LET served == {request[r].account : r \in {q \in Asked : request[q].status # "cancelled"}}
      filed == {request[evidence[f]].account :
                  f \in {g \in Uploads : evidence[g] # None} \ removed}
  IN
  /\ handler[h] = Resting
  /\ \E attached \in SUBSET BankAccounts :
       LET wanted == BankAccounts \ (served \cup filed \cup attached) IN
       /\ wanted # {}
       /\ handler' = [handler EXCEPT ![h] = [op |-> "auto", wanted |-> wanted]]
  /\ UNCHANGED <<request, evidence, removed, collided>>

AutoRequest(h, r) ==
  LET j == handler[h] IN
  /\ j.op = "auto"
  /\ NextRequest(r)
  /\ \E a \in j.wanted :
       /\ request' = [request EXCEPT ![r] = NewRequest(a)]
       /\ handler' = [handler EXCEPT ![h] = IF j.wanted = {a} THEN Resting
                                            ELSE [j EXCEPT !.wanted = @ \ {a}]]
  /\ UNCHANGED <<evidence, removed, collided>>

(* An hour, then two weeks, pass since the link was minted.                 *)
LinkAges(r) ==
  /\ r \in Asked
  /\ request[r].age # "expired"
  /\ request' = [request EXCEPT ![r].age = IF @ = "fresh" THEN "cooled" ELSE "expired"]
  /\ UNCHANGED <<evidence, removed, handler, collided>>

PbcNext ==
  \/ \E r \in Requests :
       \/ \E a \in BankAccounts : CreateRequest(r, a)
       \/ LinkAges(r) \/ CancelRequest(r)
       \/ \E h \in Handlers :
            \/ RemindRead(h, r) \/ AutoRequest(h, r)
            \/ \E f \in Uploads : UploadRead(h, r, f)
  \/ \E h \in Handlers :
       RemindCommit(h) \/ UploadCommit(h) \/ AutoRead(h)
  \/ \E f \in Uploads : RemoveEvidence(f)

PbcSpec == PbcInit /\ [][PbcNext]_pbcVars

--------------------------------------------------------------------------------
(* Every file filed for row r, those removed since included.                *)
FiledFor(r) == {f \in Uploads : evidence[f] = r}

(* The list on the request is the evidence it brought in, and stays within  *)
(* its limit, unless two uploads overlap: the list is read, extended and    *)
(* written back whole.  Nothing takes a file off it again, so it names      *)
(* those removed on the reconciliation page too.  A request that still      *)
(* waits for its document has received none, whatever overlaps.             *)
FilesMatchEvidence ==
  \A r \in Asked :
    /\ \/ r \in collided
       \/ /\ request[r].files = FiledFor(r)
          /\ Cardinality(FiledFor(r)) <= MaxFiles
    /\ request[r].status = "pending" => FiledFor(r) = {}
================================================================================
