# Nordavix: a TLA+ model of the month-end close

Nordavix closes a company's books from QuickBooks: it pulls the trial balance, reconciles every
balance-sheet account against a subledger, has each reconciliation reviewed and approved, explains
variances (flux), proposes adjusting entries and, at the end, locks the month. The backend is an
async FastAPI application over PostgreSQL (`src/backend`), the web client a React application
(`src/frontend`) that shows what the backend holds and repaints it ahead of the answers. This directory
models the parts of both that decide whether a closed month can be trusted, checks them with TLC on small
instances and proves the main results with TLAPS for instances of any size.

Paths below are relative to `src/backend`, those of the web client (`.ts`, `.tsx`) to `src/frontend/src`.

## 1. Inventory

### 1.1 Components

| Component | Where | State it keeps | Operations that change it | Modelled in |
|---|---|---|---|---|
| Reconciliation sign-off | `modules/recons/router.py`, `overview.py`, `agentic.py`, `conclusion.py` | `account_review_status` (one row per account and month), `recon_conclusion` (frozen working papers), evidence files | single and batch status, manual balance, agentic preparation and its reset, attach and remove evidence | `ReconSignoff`, `ReconRace` |
| QuickBooks pulls | `modules/recons/overview.py`, `core/gl_snapshot.py`, `core/qbo_tb.py`, `modules/autopilot/engine.py` | `gl_balance_snapshots`, `period_sync` | sync of a month, of one account, the autopilot's sync | `ReconSignoff`, `ReconRace` |
| Period close | `modules/recons/router.py` 2424-2729 | `closed_periods` | close, reopen | `ReconSignoff`, `BooksLock` |
| Audit chain | `core/audit/log.py`, `core/audit/chain.py`, `modules/audit/router.py` | `audit_log` with `prev_hash`, `row_hash` | write an event, verify | `AuditChain` |
| QuickBooks tokens | `core/qbo_auth.py`, `modules/qbo/router.py` | `qbo_connections` (access and refresh token), in-process locks | refresh | `TokenRefresh` |
| Adjusting entries | `modules/adjustments/` | `proposed_entries` | propose, edit, accept, dismiss, mark as posted, reopen, save a batch, check what was posted | `AdjustingEntries`; its effect on reconciliations in `ReconSignoff` |
| GL accuracy watchdog (Risk Radar) | `modules/gl_accuracy/` | `gl_accuracy_findings`, confirmed pairings in `client_memory_facts` | scan, accept one or several, dismiss, acknowledge | `RiskRadar` |
| Schedules | `modules/schedules/` | schedule items, amortisation | edit, import | effect on reconciliations only |
| Flux analysis | `modules/flux/` | trial balances, variances, narratives | analyse, narrate, approve, reopen | one fact per month |
| Close autopilot | `modules/autopilot/`, `modules/internal/router.py` | `autopilot_runs`, one configuration per workspace | run now, the daily sweep, the steps of a run, reclaim a stale run | `AutopilotRuns`; its pull in `ReconSignoff`, its document requests in `PbcRequests` |
| PBC requests | `modules/pbc/` | `evidence_requests`, the hash of the last magic link | create, remind, cancel, the client's upload, the autopilot's requests | `PbcRequests`; what an upload adds to a month in `ReconSignoff` |
| Close review | `modules/review/` | `close_reviews` with a count of open high findings, `close_review_findings` | run, act on a finding, sign off | `CloseReview` |
| Close workflow | `modules/close_workflow/` | template steps with a prerequisite each, their instances of a month | open the page, tick a step, add, rewire, hide, show, delete a step | `CloseChecklist` |
| Tasks | `modules/tasks/` | `task_actions` with due date and recurrence | create, set due date and recurrence, complete alone or in bulk, reopen | `Tasks` |
| Cost allocation | `modules/cost_allocation/` | pools, drivers, reviewed transactions, runs | compute a run, supersede, approve | `Apportionment` (arithmetic), `AllocationRuns` (life of a run) |
| AI budget | `core/ai/budget.py`, `guard.py`, `usage.py` | `ai_usage` of the month, a buffer per request | guard, note a call, flush | `AiBudget` |
| Web client: requests | `core/api/client.ts`, `core/auth/ClerkProvider.tsx`, `core/layout/WorkspaceSwitcher.tsx` | the session token kept for four seconds, the mint under way, Clerk's own token, the active company | mint, send, replay, answer; change of company by the menu or by another page | `ApiClient` |
| Web client: lists | `modules/schedules/optimistic.ts`, `modules/adjustments/optimistic.ts`, `modules/flux/components/VarianceTable.tsx` | cached lists, snapshots of edits under way | patch, roll back, ask again | `OptimisticLists` |
| Web client: reconciliation drawer | `modules/recons/pages/ReconciliationsDashboard.tsx` | the ticks of the form, the cached overview, saves and status changes under way | open, tick, preview, autosave, change the status, fetch | `ReconDrawer` |
| Everything else | `PROJECT.json` lists it | | | no: reasons in section 8 |

### 1.2 How they interact

* One row of `account_review_status` is written by people (status, manual balance), by the agent,
  by pulls (an approval whose figures moved goes back to review), by schedule edits, by the
  posting check of the adjusting entries and by the close (backfill). This shared row is where
  the difficult behaviour is.
* The subledger balance an account *shows* is not stored: it is computed from the row, the live
  schedule, the latest earlier month with a saved balance and the ledger. Approval and close
  freeze it.
* The close gate reads rows, snapshots, `period_sync`, flux and the earlier months; afterwards
  every handler on these looks at `closed_periods` before it works. Nothing locks that row.
* Each handler writes audit events in its own transaction; the event's hash links to the newest
  one, under an advisory lock held to the commit.
* Bank matching, the agents, the assistant and accepted findings file drafts into one queue of
  adjusting entries. A person books them in QuickBooks by hand, the posting check looks for them
  there, and once all of a saved batch is found it starts the accounts of the batch over.
* Every pull asks for an access token; concurrent pulls share one connection object.
* The autopilot runs the pull, the flux, the review and the document requests of one month in a row; the
  daily sweep and the members start it. It reads `closed_periods` to find its month.
* The close checklist shows the state of the other modules (`linked_status`) and gates its own steps on
  it. Nothing else reads it.
* Review, tasks, checklist, document requests, allocation and budget share no state with each other.
* The web client talks to all of them over HTTP, with one session token per company; it patches its copy of
  a list or a row before the answer comes, and takes the server's copy when it fetches.

### 1.3 What is hard

* **Interleavings.** Handlers read, await QuickBooks or a language model for seconds or minutes,
  and commit without having locked what they read: approvals, the agent, pulls, closes (ReconRace).
* **Long legal sequences.** Five paths take an approval away and four give a row its balance; what
  the close guarantees must hold after any sequence of them (ReconSignoff).
* **Partial failure.** Recording a working paper is best-effort; a shared pull that fails is
  repeated separately by the snapshot and the overview; an audit row whose hash fails is written
  unchained; a refresh may lose its answer.
* **Lock order.** The audit lock is taken inside loops that also lock rows (AuditChain).
* **Re-runs.** A review or allocation is computed again while people decide on the earlier one; a
  decision must survive and an earlier version must not come back (CloseReview, AllocationRuns).
* **Repetition.** Tasks are completed twice, sweeps run daily, clients upload late, links are minted
  again (Tasks, AutopilotRuns, PbcRequests).
* **Rounding.** A pool is split to the cent, with credits and reviewed transactions in it (Apportionment).
* **Deadlines.** Access tokens expire while callers wait; Intuit replaces the refresh token as it is used, and whoever
  stores last decides what the workspace holds, on one machine or two.
* **Answers that cross.** In the browser, saves, rollbacks, previews and fetches write one cached row in the
  order in which answers arrive; a token minted for one company is still on its way when another is opened;
  a dropped connection leaves open whether the server acted (ApiClient, OptimisticLists, ReconDrawer).

### 1.4 What makes each component correct

* *Sign-off*: no path approves a row past the maker/checker, statement and tie-out gates; an
  approval names a reviewer; its working paper ties on its own figures; at most one paper is active.
* *Close*: a closed month is approved and tied in full, stays as it was closed, and is what the next
  month opens from.
* *Audit chain*: the verifier is silent when nobody tampers; requests end.
* *Tokens*: tokens are asked for once per expiry; the stored refresh token stays the newest; the lock is
  always given back.
* *Adjusting entries*: the maker of an entry does not approve it; a saved batch stays as it was
  reviewed; nothing decided moves in a closed month; work is thrown away only for a posted batch.
* *Risk Radar*: a finding becomes an entry once, however often the month is scanned.
* *Close review*: a decision is changed by a decision only; the count the sign-off trusts is true.
* *Close workflow*: the prerequisites have no cycle, so the list never dead-ends; the page shows what the
  gate does.
* *Tasks*: a month-end series stays on month ends; one occurrence of a series is outstanding.
* *PBC requests*: the files on a request are those it brought in, within its limit.
* *Autopilot*: one run at a time, once a month by schedule; a crash does not lock the workspace out.
* *Cost allocation*: a split sums to the cent and its entry moves that much; a month has one live run, the
  latest, approved by a second person.
* *AI budget*: counted spend passes the cap by no more than the work in progress.
* *Web client*: a write is carried out once, a request is signed for the company of its screen and returns; a
  list at rest shows what the server holds; what is ticked is saved, and looking at an account changes nothing.

`PROJECT.json` lists the hazards behind these at their lines, with the properties that cover them.

## 2. Plan

Modules in the order they are written, each with its runs and theorems:

1. `BooksLock`: what closing promises, abstractly. *(done)*
2. `ReconSignoff`: every handler of the sign-off and the close, one at a time; implements
   `BooksLock`. Theorems: types, closed months tie, roll-forward, approvers, papers, gates,
   refinement. *(done, proved)*
3. `ReconRace`: the same handlers split between reading and committing; composes with 2 by reusing
   its definitions. *(done, proved)*
4. `AuditChain`. *(done, proved except that requests end)*
5. `TokenRefresh`. *(done, proved except that calls return)*
6. `AdjustingEntries` and `RiskRadar`: the queue of proposed entries, and the findings filed into it.
   *(done, proved)*
7. `Apportionment`: the largest-remainder split as operators against its contract.
   *(done, proved)* `AllocationRuns`: the life of a run with overlapping requests. *(done, proved)*
8. `CloseReview`: findings kept and replaced by a re-run while a reviewer decides and signs.
   *(done, proved)*
9. `CloseChecklist`: template, instances, the gate and the page. *(done, proved)*
10. `AutopilotRuns`, `Tasks`, `PbcRequests`, `AiBudget`. *(done, proved except that a crash does not lock out)*
11. `ApiClient`, `OptimisticLists`, `ReconDrawer`: the web client. *(done, proved except that requests return)*
12. `MCDesk`, `MCEngines`, `MCPlumbing`: the compositions. *(done, proved to be behaviours of their parts)*

Left, in this order: `AdjustingRace`, an edit and an approval of one draft that overlap (its
composition with `ReconSignoff` would then give `ReopenAfterPosting` its own cause); the batches,
one-account syncs and schedule edits of `ReconRace`; the amortisation arithmetic of the schedules; the flux
narratives.

Components that share no state are checked side by side in one run (`MCDesk`, `MCEngines`, `MCPlumbing`): a
variable `side` says at the start whose behaviour it is, and the others rest. The states add up and do not multiply.

## 3. The modules and the code

### BooksLock

The contract of `models/closed_period.py` and of the close gate: a period has contents, anybody
works on open periods, a period closes over *settled* contents only, and then its contents do not
change until it is reopened. Nothing is said of how. `ReconSignoff!LockSpec` instantiates it with
the rows, ledger balances and active papers of each month. Supporting documents are not part of the
contents, because a client's magic link adds one to a closed month (`ClientUpload`).

### ReconSignoff

| Variable | Code |
|---|---|
| `rows[a][p]` | the `account_review_status` row: status, saved subledger, its maker, approver, whether it has AI commentary; `absent` when there is no row |
| `gl[a][p]` | the balance in `gl_balance_snapshots` |
| `ext[a][p]` | the aging total stored by the sync, or the live balance of the schedule |
| `tb[p]` | `period_sync.tb_balanced`, or no sync yet |
| `evidence`, `fluxed` | bank accounts with a document; months whose flux analyses are all signed |
| `closed`, `active[a][p]` | `closed_periods`; the conclusions with status `active` |

Each action is one whole request. `SetStatus` is `update_account_review_status` with its role
check, reopen rule, three gates, freeze, retirement and recording of the working paper; a reset to
`pending` either freezes what is shown or, when the freeze finds no ledger figure to build on,
leaves the balance alone. `BulkStatus` is the batch, which skips accounts that fail a gate and
refuses as a whole when a preparer would reopen. `AgentPrepare` is one account of a run (each
account commits by itself), `Sync` the pull and the re-flagging that follows it in one request,
`SyncRepulled` the same when the shared pull failed and the snapshot and the overview read
QuickBooks again separately, `Close` the gate with its backfill. `Shown` computes the balance the
dashboard shows, in the order of the code: live schedule, saved, rolled forward, aging, ledger.

Amounts are integers and only their distance to `RECON_TOLERANCE` matters, so three amounts (equal,
within, beyond) are all the cases there are. The gates accept a difference of at most the tolerance
(`Near`); the agent asks for strictly less (`AgentTies`).

### ReconRace

The status, manual balance, agent, sync and close handlers split in two (the sync in three): a request
reads and checks, then commits. A commit writes back the columns that differ from those loaded
(`Merge`), because that is what SQLAlchemy's unit of work emits; a second insert of the same row
fails on its unique index (`Collides`, and the test of `CommitClose`). Reading and checking is one
step. Roles, gates and row edits are those of `ReconSignoff`.

### AuditChain

Requests are transactions with a program of row updates and audit events in the order their handler
fixes. `StampEvent` takes the time, `LockChain` the advisory lock, `WriteEvent` reads the head it can
see (READ COMMITTED), links and inserts, or inserts unhashed when hashing fails. Locks last to the
end of the transaction. `Breaks` is `verify_chain`: rows by `created_at`, each linking to the one
before. One clock serves all requests and a time stands for a hash. `MCPlumbing` has the programs
of three handlers: the status update writes its row and then audits, the posting check audits, then
reopens a row and audits again, and most others audit once at the end.

### TokenRefresh

Access and refresh tokens are numbered as Intuit issues them; a pair of them is in the database and one in
memory for each session. A caller without a fresh token waits for its process's lock (`Acquire`
looks at the shared connection again), reloads it from the database (`Reload`, which is skipped
when it fails), posts (`Rotate`, `Refuse`) and stores. An answer may bring a new refresh token or none, in which
case the code keeps the one it had (`keeping`) and its commit leaves that column alone. Intuit accepts the newest
refresh token and, if `Faults` has "late", those it has replaced: two racing requests are then both served, and the
commit that comes last decides what is stored (`Accepted`). The other `Faults` are a skipped reload, a lost answer,
a failed commit and a restarted process. Two history variables name what the code cannot help: `lost`, a new
refresh token was lost before it was stored, after which the workspace has to be connected again by hand; and
`rivals`, two processes were refreshing at once, which a lock in each does not prevent. `MCDesk` has two machines,
`MCPlumbing` one.

### AdjustingEntries

`entry[e]` is a row of `proposed_entries`: status, origin (source and source_ref), lines, `prepared_by`,
`approved_by` and whether `saved_at` is set. `booked` is what a person has booked in QuickBooks,
`worked` the accounts whose reconciliation or flux analysis is past pending. `Regenerate` is
`replace_open_proposals`, which replaces the open drafts of one origin; `File` the single rows of the
assistant and of accepted findings. `Accept`, `Dismiss`, `MarkPosted` and `Reopen` are `_transition`
with the checks of their endpoints: only `Reopen` and `Edit` look at the status the entry is in.
`SaveBatch` refuses while a draft is open and `CheckPosted` is one press of the button: entries found
in QuickBooks become posted, and when every saved one is posted the accounts they touch go back to
pending. Bank matching and the assistant do not ask whether the month is locked; `BankPulls` and
`Filers` name them.

An entry's lines are the accounts it touches and a journal entry in QuickBooks matches when it has
them all, so that, as in the code, two entries may find the same journal entry.

### RiskRadar

Extends the queue by `finding[f]`, the status of the month's finding with key f, and `exceptions`, the
vendor and account pairings confirmed as correct. A `Scan` replaces the findings nobody acted on by
any others, except confirmed pairings: what the detectors compute is left open. `AcceptFindings` is
the single and the bulk request, which file a draft for each finding in the transaction that marks it.

### CloseReview

`run_close_review` is four steps: it reads the review row and the findings (`RunRead`), its DELETE takes
a snapshot of the open rows (`RunDelete`), waits for those others hold and looks at each again
(`RunDeleted`, what PostgreSQL does under READ COMMITTED), and inserts what its checks raised and nobody
had decided (`RunCommit`). Which findings the checks raise is left open. `act_on_finding` loads the row,
updates it, which locks it, recounts the open high findings it can see, and commits; the row may be gone by
then (`ActGone`). `Written` is the unit of work: a column goes to the database only when its value differs
from the one loaded. `raced` is a history variable: two requests overlapped.

### CloseChecklist

`shown[k]` is a template step (never used, active, hidden, deleted), `dep[k]` its one prerequisite,
`inst[k]` the stored instance of the month, `live[k]` what the linked module says. `BuildChecklist` opens the
page, which creates instances and stores the live statuses. The gate (`BlockedFor`) and the page
(`MarkedBlocked`) are two computations in the code and two operators here. `Chain` is the walk of
`_resolve_dependency`, as the least set closed under it. Rewiring a step is a read and a commit (`EditRead`,
`EditCommit`), and so is ticking one: `TickRead` reads or inserts the instance and looks at the gate, `TickCommit`
comes after the audit event, over whatever happened in between. Each of `Members` has one of these in progress at
a time; everything else is one request.

### Tasks

Dates are a day and a month counted from year 0; `AddMonths` clamps to the last day and `NextPeriod`
snaps month ends to month ends. Completing a task reads the row and commits later (`CompleteRead`,
`BulkRead` for each target of the bulk call, `CompletionCommit`), when the next occurrence is inserted:
always by the task's own button, only for a task that was open by the bulk call. `muddled` collects the
series that were reopened, completed again, or completed by two requests at once.

### PbcRequests

`request[r]` is an `evidence_requests` row with the age of its one working link. Reminders and uploads read,
work and commit (`RemindRead`, `RemindCommit`, `UploadRead`, `UploadCommit`); an upload writes its file and
then the whole list as it read it plus one. `RemoveEvidence` is a file taken off on the reconciliation page, which
leaves the request alone. The autopilot reads once which accounts lack a document, members' own attachments
included, and commits request by request. Whether a mail arrives changes no row, so it is not modelled.

### AutopilotRuns

`run[i]` is the row, `work[i]` the background task that executes it, `queued[w]` a start decided but not yet
on record: the check for a live run and the insert of the row are a background task apart. A crash ends all
work and leaves the rows. `RunNow` marks what is running and older than the window as failed; the sweep
does not. The steps of a run succeed or fail.

### AiBudget

`recorded` is the sum in `ai_usage`, `spent` the real cost, and a request's buffer holds what was
noted and not yet flushed. The kinds of work differ in whether their calls are noted at all (`Captured`).
A failing lookup lets the request through and a failing flush is let pass (`soft`).

### Apportionment and AllocationRuns

Amounts are cents and rates millionths, so `Exact` is an exact product and `HalfUp` and `FloorCent` are the
two roundings. `LargestRemainder` gives every line its floor and the residual to the largest remainders;
`WithOverride` allocates a line with a reviewed transaction, whose two terms are rounded once;
`ReclassEntry` swaps the pair of a credit, and `Normalized` is what the queue of adjusting entries does
to its lines. In `AllocationRuns` a computation supersedes and inserts in one transaction whose
UPDATE waits for others (`SupersedeLive`, `Superseded`, `CreateCommit`), an approval reads and writes
later, and `LiveCollision` is the partial unique index, which fails the later request.

### ApiClient

`cached` and `inflight` are the two module variables of `client.ts`, `clerk` the token Clerk keeps itself, a
token being the company it was minted for. `ObtainToken` is `obtainToken`: the cache, else the mint under way,
else a mint of one's own. `MintArrives` caches its token even if `Clear` ran since. An answer is one of four
(`Answered`, `Gone`, `Dropped`, `Expired`); `effects` counts how often the server carried the request out,
which a dropped connection leaves open, and `replayed` and `reminted` are the two markers that end the replays.
`SetActive` changes the company; then the menu clears, mints and navigates (`ClearForSwitch`, `OpenScreen`),
while the other four places that change it navigate at once (`OpenUncleared`) and leave the clearing to
the effect of `ClerkApiWirer` (`Notice`). Either way the screen of the new company replaces the old one, whose
calls nobody waits for any more (`Mount`). `stray` is a history variable: an older token may still reach the
new company's screen, by a mint already under way or past Clerk's cache.

### OptimisticLists

One list, as the set of rows with the mark that an edit sets or takes away. `BeginEdit` cancels the fetch,
`PatchList` takes the snapshot and patches, `Settle` restores the snapshot on failure and, for the outcomes
in `RefetchOn`, asks for the list again. `ServeEdit` lets the server take any of the rows, as the batches and
the parallel requests of the variance table may; `DropEdit` loses the connection before or after, or
leaves the write to run later (`ServeLate`).

### ReconDrawer

`row` is the row in the database, `cache` the one in the browser's overview, `ticks` the form. A total stands as
the set of ticked entries it adds up. `Payload` is `buildSavePayload`: the ticks, and all other entries of the
period as open items once these are known. `Previewed` and `Painted` are the two effects that write the
cache and the form whenever either changes; they are part of every action that changes what they read.
`AutoSave` is the timer, which is set again while form and cache differ and so needs no state. Saves overlap
and arrive in any order; a status change is one at a time and restores the whole row when it fails. Its `onMutate`
is one step, although it waits for the cancelled fetch before it patches, and of the statuses that lock the form
`reviewed` stands for all (flagged, approved, closed).
`overtaken` is a history variable: an answer put into the cache what the database no longer held, or a
save was carried out and told as failed.

`NoneValue` declares the value None once for the modules checked together.

## 4. What the runs check

States and depth are those of the run as configured; every pass ends in under four minutes with two
workers.

| Run | Instance | Distinct states | What it shows |
|---|---|---|---|
| `signoff_month` | full `Next`; 1 receivables account, 1 month, preparer, reviewer, admin, amounts 0-2 | 54,620 | `ApproverOnRecord`, `ConclusionTies` |
| `signoff_roll` | 1 account, 2 months, admin, amounts 0 and 2; status, manual balance, pulls, close, reopen | 325,068 | `ClosedBooksTie`, `RollForwardFromClose`, refinement of `BooksLock` |
| `signoff_batch` | schedule and bank account, 1 month, reviewer and admin; batches, documents, schedule edits and imports, pulls of one account | 206,784 | `ApprovalMeetsGates` |
| `race_overlap` | 1 account, 1 month, all requests of `ReconRace`, any two at a time | 1,468,940 | `ConclusionTies`, `OneActiveConclusion` |
| `plumbing` | requests: a GET and a POST, 2 companies, 1 change; audit chain: 3 requests, 1 contended row; tokens: 3 callers, 2 sessions, 1 process, 2 expiries, every fault | 62,776 | `WrittenOnce`, `SignedForCompany`, `EveryRequestReturns`, `InOrderChainVerifies`, `EveryRequestEnds`, `EveryCallReturns` |
| `adjusting` | 2 rows (symmetric), 2 accounts, 2 drafts, bank matching, a thread, a finding, reviewer and admin | 1,783,232 | `MakerIsNotApprover`, `OneEntryPerFinding`, `SavedStaysLocked`, `ClosedDecisionsStay`, `StartedOverWhenPosted` |
| `desk` | review: 2 requests, 2 issues; tasks: 3 rows of 1 series, 2 clerks; checklist: 3 steps, one of them linked and one custom, 2 members; documents: 1 request, 3 uploads, 2 handlers; tokens: 4 callers, 3 sessions (two callers share one), 2 machines, 2 expiries, every fault | 1,393,774 | `DeskTypeOK`, `DecisionsKept`, `CountsHonest`, `MonthEndsKept`, `OneOpenOccurrence`, `NoCycle`, `NeverStuck`, `PageAgreesWithGate`, `FilesMatchEvidence`, `StoredTokenAccepted`, `RefreshedOnce` |
| `engines` | autopilot: 3 runs, 2 months, 1 caller and the sweep; budget: 2 requests; allocation: 4 runs of 1 month, 2 requests; arithmetic: 3 lines; lists: 2 rows, 2 edits; drawer: 1 entry, 2 ticks, 2 saves, 1 status change, 1 fetch, on a new row or a reviewed one | 1,186,563 | `EnginesTypeOK`, `OneRunAtATime`, `ScheduledOnce`, `NotLockedOut`, `OvershootBounded`, `LatestRunIsLive`, `PoolSplitsFairly`, `EntryMovesTotal`, `SettledShowsServer`, `NothingLeftUnsaved` |

Every module's types are proved, as a theorem or as a conjunct of its invariant (section 6), and the runs check
only those of `desk` and `engines`; `SecondPerson` and `SupersededStays` of the allocation are
theorems only.

Each property of these runs has a mutant in `PROJECT.json`: a definition changed as a plausible bug
would change it (`ConclusionBeforeFreeze`, `CloseGateOnStatus`, `BeginFirstApproval`, ...), with which TLC
finds the property violated. The mutated forms stand before the definition they replace, marked
"Defect".

### Bounds, and why they are enough

* *One account* in the runs about status: handlers treat the accounts of a month independently,
  except batches and the close, which `signoff_batch` runs with two. *Two months* in `signoff_roll`:
  the roll-forward looks at the latest earlier saved month only.
* *Amounts* 0, 1, 2 with tolerance 1 give equal, within and beyond; 0 and 2 keep equal and beyond.
* *Two requests in flight* (`Workers`): the races need one request between the read and the commit of
  another. `Asked` (reviewed, pending) and `Entered` (one manual balance) bound what the requests
  ask for; both workers may be the same member, since no rule distinguishes them after the role
  check. `race_overlap` starts after a first sync with the flux signed (`SyncedInit`).
* *MaxGen* bounds the access tokens Intuit issues, and so the expiries; two of them leave a session behind
  another one and let a replaced refresh token be posted after the newest has been stored. Of the two machines
  of `desk` one has two sessions, so that the lock is needed within it and missing between them; in `plumbing`,
  where a call must return, one process does.
* *Two rows* of the queue are interchangeable (the run is symmetric in them), and enough for a batch of
  which one entry is posted and the other not. A preparer could only draft and edit, which a reviewer
  may do as well, so a reviewer and an admin show every case of the maker rule. One draft touches one
  account and one touches two, so that a check may clear an account for one entry or for both.
* *Audit chain*: three requests allow a deadlock of two and a bystander. *Requests*: one that may be replayed and
  one that may not share a mint, or replace each other's; one change of company leaves one older company, which
  is what a token can be behind by.
* *Lists*: two edits of two rows overlap, restore each other's snapshots and cancel each other's fetches.
  *Drawer*: two saves of one entry, ticked and unticked, cross each other, a status change and a fetch. The
  row is new, or was saved with all ticked and reviewed (`StartRows`), so that the one status change may also be a reset to pending,
  which keeps the work or wipes it; `claim_open_flips` needs one save only.
* *Review*: two requests of any kind overlap, the decisions by one of them; two keys and two rows, so that
  an issue can be decided, raised again and duplicated. *Tasks*: three rows are two steps past a task, which
  carries January 31, 2024 over the leap day to March 31 (`Periods`); one edit per behaviour (`MaxEdits`)
  separates completion from what people set. *Checklist*: one linked
  step, one that waits for it, one custom step, which is enough for a chain of three and for a cycle of two
  or three; two members may be in an edit and a tick at once, not in two edits or two ticks
  (`OneEditsOneTicks`). *Documents*: one request with room for two files and three uploads, so the limit is
  met; the three sends include a reminder that is refused.
* *Autopilot*: two months and three runs, so that a month is reclaimed and run again before the next one.
  *Budget*: two requests of two calls of cost up to two against a cap of two; `MaxSpent` is beyond all they
  can spend before the guard stops them. *Allocation*: four runs let a run be superseded twice while an
  approval is out. *Arithmetic*: three lines with amounts 0, 101, -101 and 5 cents and rates 0, a third, a
  half and two thirds give ties, credits, remainders of either sign and nothing to round.
* `desk` is symmetric in the pair that serves as its clerks, members, handlers and row ids, of which each
  component uses one; no liveness is checked in it.

The theorems of section 6 hold without these bounds, and for any values of the other constants that meet the
named assumptions.

### Fairness

`AuditChain!AuditFairness`: a request that the server runs has its statements answered when they need not
wait, and PostgreSQL's deadlock detector picks a victim: weak fairness on `Statement` and on
`BreakDeadlock`; aborts other than a deadlock's are not assumed to happen. A request
that waits is kept waiting only by one that proceeds or by a deadlock, so weak fairness is enough.
`TokenRefresh!TokenFairness`: weak fairness on the holder's steps (the POST has a 20 s timeout, so it is
answered) and strong fairness on `Acquire`, because `asyncio.Lock` wakes its waiters in order.
`ApiClient!ApiFairness`: weak fairness on the steps of a request that are not the user's, since a promise
settles and a connection ends in an answer or drops. `AutopilotRuns!AutoFairness`: weak fairness on `Ages30`,
that is, time passes; no fairness on the work of a run, which may be dead. The safety runs assume no fairness.

Deadlock checking is off only where the system stops by design: in `plumbing` and `claim_next_screen` after
every request has ended, and in `desk`, `engines` and `claim_open_flips` once a component has used up its rows,
edits, runs, tokens, spend or saves.

## 5. Where the code and its comments disagree

Each is the property of one run that TLC violates, with the shortest trace.

* `claim_signoff_matches`: the autopilot's sync moves the ledger under an approval without sending it
  back to review (`modules/autopilot/engine.py` 67-79), while "a sign-off must always match the live
  books" (`modules/recons/router.py` 4791). The close gate compares again, so a closed month still ties.
* `claim_close_race`: a handler that read the month as open commits after the close; "Guarantees
  close => every account ties" (`router.py` 2489). In the serial model this is `ClosedBooksTie`, proved.
* `claim_open_flips`: the autosave posts whenever the items of the form differ from the saved ones
  (`ReconciliationsDashboard.tsx` 2895-2908), and these include every entry of the period that is not ticked.
  Opening an untouched account with entries thus writes a manual balance, with the viewer as its maker, half
  a second after the entries have loaded, while "merely OPENING the drawer never flips a row" (2935).
* `claim_next_screen`: the command center navigates right after `setActive` (`CommandCenterPage.tsx` 191)
  and leaves the cached token to an effect that runs after the dashboard has sent its first requests, "so the
  next screen renders from the new company's data only" (180-182) notwithstanding. The workspace menu
  describes this race and closes it for itself (`WorkspaceSwitcher.tsx` 84-95); the settings page, the
  company picker and the creation of a company do not clear the token either.

Also seen while modelling, visible in the definitions but not the subject of a run.

*Reconciliations.* A sync, a schedule edit, the agentic reset and the posting check take an approval away
and leave its working paper active, although `models/recon_conclusion.py` 24 says that reopening retires the
old one; only the status handlers and the one-account sync do. A manual balance can be saved on an
approved row, so that its approver becomes its maker (`SetSubledger` looks at the lock only). Any member's
agentic reset takes approvals away (`ResetAgentic`). A single reset to pending freezes a balance where the
batch leaves none (`SetStatus`, `BulkStatus`). The close looks at accounts with a row only (`CloseGate`
quantifies over `Existing`). The agent overwrites a saved balance once an earlier month has one
(`AgentMayTouch`), and its commit can downgrade a row approved since it read it (`CommitRow`). An approval that
overlaps a reset to pending can leave an approved row without an approver: the row still named the same member,
so the approval does not write that column, and the reset clears it (`Merge`; `ApproverOnRecord` fails in
`ReconRace`). A month opens
from the latest saved balance even when its row is pending (`Opening`). A bank statement may be removed
after the approval it was required for (`RemoveEvidence`).

*Audit chain and tokens.* `created_at` is taken before the lock, so two events can be stamped in one order
and linked in the other, and the verifier reports a break nobody caused: `InOrderChainVerifies` has that as
its premise. A request that audits before it updates a row and one that updates it before it audits wait
for each other, although "it can't deadlock" (`core/audit/log.py` 66); the database ends one of them
(`BreakDeadlock`). Two machines that refresh one workspace at once may both be served, and the one that commits
last may store a refresh token that the other's answer has replaced: "the racing commits can leave the stored
refresh token out of sync with Intuit" (`core/qbo_auth.py` 5-9), which its author knows (17-21, the lock is one of a
process) and the two properties except as `rivals`. A caller whose reload was skipped posts the refresh token of its
own connection, which another session may have used already: "one extra (sequential, non-racing) refresh" (82-84)
if Intuit still takes it, an error if not (`Reload`, `Refuse`). If the answer then brings no new refresh token, none
is stored (`Store`).

*Adjusting entries.* A posted entry can be accepted and then reopened or exported again, although
`reopen_proposal` says that "posted entries ... can't be reopened" (`modules/adjustments/router.py` 327):
accepting looks at no status (`Accept`). The posting check takes an entry marked by hand as found
(`AllPosted`) and, pressed again, throws away what was redone since (`CheckPosted`). The net effect treats an
entry as missing from the ledger snapshot until a posting check confirmed it, also when it was booked and
synced before (`baseline_disposition`; not modelled).

*Close review.* Reopening a finding after the sign-off leaves the review signed off with an open high
finding (`ActCommit` does not touch the status). Two decisions that overlap can leave the count at zero
with a high finding open, since each recounts without seeing the other. A run that commits over a sign-off
it did not load as such leaves it signed off (`Written`). A decided key is not raised again, however large
the exception has become since (`Inserted`).

*Tasks.* Completing a task again with its button, reopening and completing it, or completing it twice at
once mints a copy of the next occurrence each time, although "there is one open task, not three"
(`muddled`). Clearing the due date later ends a series without a word (`SetDue`, then `Recurs`). A due date
at the end of a month drifts (March 31, April 30, May 30), since only period ends are snapped back.

*Close workflow.* Two overlapping edits can make a cycle, each walking the template without the other
(`crossed`). Deleting a step deletes its instances of every month, closed ones included (`DeleteStep`).
Ticking a step does not ask whether the month is closed, and a tick is committed over whatever happened since it
read (`TickRead`, `TickCommit`): "can't complete a step while its prerequisite is open"
(`modules/close_workflow/router.py` 162) fails when the prerequisite is reopened in between, and the instance of a
step deleted in between is inserted all the same and stays without a step.

*Document requests.* A link works after its month has been closed, and a late upload adds to it
(`ClientUpload`). An upload that read its row before a cancellation is still filed, and a cancelled request that was
read as pending becomes fulfilled (`Uploaded`). Two overlapping uploads lose one of the two list entries or
pass the limit. An expired pending request keeps the autopilot from asking again and cannot be reminded
(`AutoRead`, `MayRemind`). A file removed on the reconciliation page stays on the list of its request, and the
fulfilled request keeps the autopilot from asking for the document again (`RemoveEvidence`). When the first mail fails, the link is lost until a reminder mints another.

*Autopilot.* A run that died keeps its row "running" until somebody presses Run now: the sweep takes it for
settled (`Settled`) and its month has no scheduled run again. A run slower than the window is marked
failed and then writes its outcome over that (`Finish`). Two starts side by side both pass (`doubled`).

*AI budget.* Answers the assistant streams, work left to run after the response and the sweep record no usage
(`core/ai/usage.py` 87: no capture, or a buffer that is never flushed), so they pass the cap unseen
(`uncounted`), although the guard "blocks once the tenant's estimated Anthropic cost for the calendar month
reaches the configured cap" (`core/ai/guard.py` 7).

*Web client.* A mint asked for before the company changed puts the old token back into a cache that was cleared
since (`MintArrives`, `stray`). The bulk edits of the variance table ask for the list again after a success only
(`VarianceTable.tsx` 272-291), and the status edits of the reconciliations never
(`ReconciliationsDashboard.tsx` 765-774, 869-894): with `RefetchOn` set to `{"done"}` or to `{}`, TLC refutes
`SettledShowsServer`; in a batch that skips rows, these stay painted as approved until the next fetch. A
tick made less than half a second before the drawer closes is not posted, and its preview stays on the page
(`CloseDrawer`). There is no handler for a failed autosave (`SaveFails`). A rolled-back status change takes
with it what was saved meanwhile, as far as the cache goes (`MarkFails`).

*Cost allocation.* A re-run that is blocked, while a live run is on record, meets the unique index and fails
with an error, although "anything unsound becomes a blocked run, not a 500"
(`modules/cost_allocation/service.py` 339): only the successful path supersedes first (`CreateCommit`). An
approval of a run superseded meanwhile fails on the same index (`ApproveRunCommit`). Re-running
supersedes approved runs as well (`LiveOf`), and leaves the superseded run's entry in the queue.

## 6. What is proved

All proofs are checked by TLAPS for any accounts, months, members, steps, workers, amounts and bounds, from
the named assumptions of the modules (`ConstantsAssumption`, `RaceAssumption`, `EntriesAssumption`,
`FindingsAssumption`, `ReviewAssumption`, `ChecklistAssumption`, `TaskAssumption`, `PbcAssumption`,
`AutopilotAssumption`, `BudgetAssumption`, `AllocAssumption`, `ApportionmentAssumption`, `ProgramsAssumption`,
`RefreshAssumption`, `ApiAssumption`, `ListAssumption`, `DrawerAssumption`). They say what the constants are:
`None` is none of their values, a draft has lines, an origin is replaced at each run or files single rows and never
both, the seeded prerequisites form no cycle, a rate is between nothing and all.

The theorems stand in eight modules: `ReconSignoff_proofs`, `ReconApproval_proofs` (which also has those of
`ReconRace`), `RiskRadar_proofs`, `Close_proofs` (review and checklist), `Desk_proofs` (tasks, document requests,
the composition), `Engines_proofs` (allocation, autopilot, budget, arithmetic, the composition),
`Plumbing_proofs` (tokens, audit chain, the composition) and `Browser_proofs` (the web client).

| Theorem | Statement | Argument |
|---|---|---|
| `TypeCorrect` | `Spec => []TypeOK` | inductive; one lemma per group of handlers |
| `ClosedTies` | `Spec => []ClosedBooksTie` | `TypeOK /\ ClosedBooksTie` is inductive: a step other than Close changes no book of a closed month (`RowStepKeepsLock`, `SyncStepKeepsLock`, `OtherStepsKeepLock`); Close establishes it through the gate and `BackfillSettles` |
| `RollsForward` | `Spec => []RollForwardFromClose` | follows from the two: the closed month's rows all have saved balances, so it is the latest saved month (`RollForwardOfTies`) |
| `ApproversAreReviewers` | `Spec => []ApproverOnRecord` | every step leaves a row approved as it was, or signs it (`Outcomes`) |
| `PapersTie` | `Spec => []ConclusionTies` | the same case split: an active paper was active before or is `ConclusionOf` an account that ties |
| `ApprovalsMeetGates` | `Spec => ApprovalMeetsGates` | the same, read as an action property |
| `HandlersKeepTheLock` | `Spec => LockSpec` | refinement: Close maps to `Lock!Close`, ReopenPeriod to `Lock!Reopen`, the rest to `Lock!Work` or a stutter |
| `RaceTypeCorrect`, `OnePaperActive`, `PapersTieInRace` | `RaceSpec => []TypeOK`, `[]OneActiveConclusion`, `[]ConclusionTies` | `RaceInv` below |
| `MakersDoNotApprove` | `Spec => []MakerIsNotApprover` | `QueueInv` below |
| `SavedBatchIsLocked`, `DecisionsOutlastTheClose` | `Spec => SavedStaysLocked`, `Spec => ClosedDecisionsStay` | `QueueInv` and `RowOutcome` |
| `WorkThrownAway` | `Spec => StartedOverWhenPosted` | only the posting check takes an account out of `worked`, and only behind its own test |
| `FindingsFiledOnce` | `Spec => []OneEntryPerFinding` | inductive with `QueueInv`: only filing gives a row an origin that files, and to a free row (`OriginStays`, `FilingIsExact`) |
| `TypeCorrect` (of `RiskRadar`) | `Spec => []TypeOK` | `QueueInv` and `FiledInv` |
| `ReviewTypeCorrect`, `DecisionsOutlastRuns` | `ReviewSpec => []ReviewTypeOK`, `ReviewSpec => DecisionsKept` | `ReviewInv` below |
| `CountsAreHonest` | `ReviewSpec => []CountsHonest` | `CountInv` below |
| `ChecklistTypeCorrect`, `ChainsStayAcyclic` | `ListSpec => []ListTypeOK`, `ListSpec => []NoCycle` (`CloseChecklist`) | `ListInv` below |
| `NeverDeadEnds` | `ListSpec => []NeverStuck` | if every unfinished step were blocked, they would be closed under their prerequisites, against `Acyclic` |
| `PageShowsTheGate` | `ListSpec => []PageAgreesWithGate` | types |
| `TaskTypeCorrect`, `MonthEndsStay`, `OneOpenPerSeries` | `TaskSpec => []TaskTypeOK`, `[]MonthEndsKept`, `[]OneOpenOccurrence` | `TaskInv` below |
| `FilesAndEvidenceAgree` | `PbcSpec => []FilesMatchEvidence` | `PbcInv` below |
| `AllocTypeCorrect`, `TwoPeople` | `AllocSpec => []AllocTypeOK`, `AllocSpec => []SecondPerson` | `AllocInv` below |
| `OneLiveRun`, `SupersededForGood` | `AllocSpec => []LatestRunIsLive`, `AllocSpec => SupersededStays` | the same, with `OnlyLive` |
| `AutoTypeCorrect`, `OneRunInWorkspace`, `ScheduledMonthsRunOnce` | `AutoSpec => []AutoTypeOK`, `[]OneRunAtATime`, `[]ScheduledOnce` | `AutoInv` below |
| `OvershootIsBounded` | `BudgetSpec => []OvershootBounded` | `BudgetInv` below |
| `PoolTypeCorrect`, `PoolSplits`, `ClampIsIdle`, `EntryMoves` | `PoolSpec => []PoolTypeOK`, `[]PoolSplitsFairly`, `[]ClampIdle`, `[]EntryMovesTotal` | sums, below |
| `NeverLockedOut`, `OneRefreshAtATime` | `Spec => []StoredTokenAccepted`, `Spec => RefreshedOnce` (`TokenRefresh`) | `Inv` below |
| `ChainVerifies` | `AuditSpec => []InOrderChainVerifies` | `AuditInv` below |
| `WritesHappenOnce`, `SignedForItsCompany` | `ApiSpec => []WrittenOnce`, `ApiSpec => []SignedForCompany` | `ApiInv` below |
| `CacheSettles` | `RefetchOn = {"done", "failed"} /\ ListSpec => []SettledShowsServer` (`OptimisticLists`) | `CacheInv` below |
| `DrawerSavesTicks` | `DrawerSpec => []NothingLeftUnsaved` | `DrawerInv` below |
| `DeskIsItsParts`, `EnginesAreTheirParts`, `PlumbingIsItsParts` | a behaviour of the composition is one of each component | every step moves one component and leaves the others' variables alone |
| `DeskTypeCorrect`, `EnginesTypeCorrect` | `DeskSpec => []DeskTypeOK`, `EnginesSpec => []EnginesTypeOK` | the parts |

### Reconciliations

The three theorems on approvals rest on one idea: every step has an `Outcome`, that each row is left
unapproved, unchanged in what the property reads, or signed through the gates. They are then short.

`RaceInv` is about requests that overlap. What a request read may be stale by its commit, so the invariant asks
nothing of how it compares with the database. It asks that what the request holds is sound by itself (`Sound`): a
row request that will record a working paper holds one that ties on its own figures, and retires those it finds
when it commits. Merging two rows column by column gives a row again (`MergeType`). So at most one paper is
active and it ties, whatever happened in between, although the row beside it need not agree.

### The queue and its findings

A step keeps a row, redrafts it, or decides it, the last only while the month is open (`RowOutcome`). `QueueInv`
then says of every row that an open one has no approval and a saved one is accepted or posted. Without the
first half `MakerIsNotApprover` is not inductive, since an edit makes a new maker; without the second
`SavedStaysLocked` is not, since nothing in an edit or a regeneration looks at `saved_at`.

### Review and checklist

`ReviewInv` says that what a run is about to delete was open when it looked, and stays so: the rows between its
DELETE and its commit are locked (`LocksExclusive`, `DoomedOpen`), so no decision can slip in. Without the second
look of a waiting DELETE this fails, which is the mutant of `DecisionsKept`.

`CountInv`: until two requests have overlapped, the one in progress is alone (`Alone`), what it loaded is what is
stored (`Current`), and the stored count is the number of open high rows (`Counted`). A run stores the number of
*keys* it inserts, the property counts *rows*; the ids it hands out are a bijection between the two.

`ListInv` of the checklist is needed because `NoCycle` says nothing of the edit a member has read and not
committed. It adds that the step such an edit points to still does not lead back (`EditsSafe`), and that a key
nobody has used yet is nobody's prerequisite, edit or tick (`UnusedApart`), so that a new step closes no cycle. `Acyclic` is
stated without recursion, as the absence of a non-empty set of steps that is closed under prerequisites;
`ClearKeeps`, `FreshKeeps` and `RewireKeeps` are the three ways in which a template changes.

### Tasks and documents

`TaskInv`: rows are numbered without gaps (`Numbered`) and a follow-on comes after the row it came from, at
that row's next date (`Descends`), which carries month ends along a series of any length. Of a call in progress it
says that what it loaded still has the period and series it had, and, unless the series is marked, that it is
alone with the row and the row is as open as it was (`ReadAlone`): so inserting the next occurrence closes the
one that was open. The calendar lemmas show that a month's last day stays one under `NextPeriod`, February
included.

`PbcInv`: an upload in progress that shares its request with no other holds the list of files as it stands, with
room for one (`UploadsAlone`), and the file it has written is nobody else's (`Serving`). Its commit then stores the
old list plus one, which is the evidence plus one.

### Allocation, autopilot, budget

`AllocInv` says that runs are numbered without gaps, that what a transaction has superseded was live
(`TasksSound`), and that a live run is the last of its month (`LiveIsLast`). `OnlyLive` is the unique index:
after a commit it let pass there is at most one.

`AutoInv`: unless a run was slow or two starts were doubled, either one start is decided and no run is live, or one
run is live and executing (`OneStart`). The months are closed in order (`ClosedInOrder`), so the month for which
a sweep decided to start is the first open one until it is closed, and only its own run settles it
(`SweepWanted`).

`BudgetInv`: the spend that is not on record yet is the sum of the buffers of the requests in progress, and what they
may still add is the sum of what they owe. Each sum is stated as the number of its units, a set of pairs of slot
and unit (`Units`), so that a change of one request adds or removes a set of pairs (`TotalUpdate`).

### Sums

The arithmetic of an allocation is about real sums: `Total` is the fold of the community modules over the lines of
a pool, and its value is defined through a recursive function on subsets. The induction theorems of the library
take an operator as a parameter, which the provers cannot instantiate; the same induction is available with a
*set* in its place (`ByOneLess`): a property of subsets is the set X of those that have it, and a smallest subset
outside X contradicts the hypothesis (`LeastNumber`). With it `TableExists` shows that the recursive function
exists, filled in size by size, `SumRemove` that the order of summation does not matter, and `SumPlus`, `SumTimes`,
`SumCounts`, `SumBound` and `SumOfNonzero` what the split needs.

`PoolSplits` then runs so. An exact share is its floor plus what it drops, so the exact total is the sum of the
floors plus what is dropped, which is less than a cent for each of the lines that drop anything (`Odd`). Rounding
that total half up gives at least the floors and at most one cent more per odd line (`HalfUpBetween`), credits
and reversals included; so the clamp of the code never acts (`ClampIsIdle`). The lines are served in a strict total
order, their ranks are a bijection onto 0 to n - 1, and exactly as many have a rank below the residual as there are
cents (`RanksBelow`). Odd lines rank before the others (`OddFirst`), so a line with nothing to round gets nothing.

### Plumbing

`StoredTokenAccepted` is not inductive: it says nothing of who may post. `Inv` adds that whoever is past the lock of
its process holds it (`LockHeld`), that no access token in hand is newer than Intuit's (`Behind`), and, until two
processes refresh at once, `Sound`: one caller at most is refreshing (`OneRefreshing`), one that posts after a reload
posts because the stored access token is stale (`PostsWhenStale`), and one that is about to store a refresh token
has the newest (`StoresNewest`). The lock is what makes `OneRefreshing` hold, and nothing is assumed of which
refresh tokens Intuit takes: without the lock the second of two racing answers may be stored first, which is the
mutant `AcquireUnlocked`. Neither `~lost` nor `~rivals` can be dropped: between `Rotate` and `Store` the newest
refresh token is in memory only, and two processes have a lock each.

`AuditInv`: only the holder of the chain lock has events that are not committed (`OneWriter`). So both the committed
events and these with the holder's own are chains whose events each link to the one stamped before them, as long
as none links forward (`Linked`), and each has a latest event or is empty (`Topped`): that event is what the next one
reads as its predecessor.

### The web client

`ApiInv`: a writing call that is still to be answered has not been carried out, and one that may have been is not
sent again (`WriteOpen`); a mint belongs to the calls that wait for it (`MintsOwned`); a call names the company of its
screen (`OneScreen`). Once the menu has cleared, neither cache nor mint nor Clerk holds an older company's token
(`Unmixed`), unless one strayed. A user who goes to another company and back has two screens of the same
company; the first one's calls are gone by then (`Mount`), without which the invariant fails.

`CacheInv`: an edit in progress will ask for the list, so a list nobody edits is being fetched, has been, or shows
the server's rows. The hypothesis of `CacheSettles` is about the page: it asks for its list after either outcome,
which is TanStack's `onSettled` in the schedules and adjustments. Section 5 names the pages that do not.

`DrawerInv`: the items in the cache are those of the database, unless a save was carried out and not told, a status
change may still wipe them, or an answer was overtaken (`ItemsAgree`). Saves are numbered as they
are made (`SlotsFree`), so a new one takes a place of its own.

### Compositions

The three `...ItsParts` and `...TheirParts` theorems show that checking components side by side says of each what
a run of its own would: a step of the whole is a step of one component or a stutter of it, and the fairness of
`MCPlumbing` is that of its parts. `DeskTypeOK` and `EnginesTypeOK` follow from the parts' theorems.

### Only model-checked

The four liveness properties, `EveryRequestReturns`, `EveryRequestEnds`, `EveryCallReturns` and `NotLockedOut`, rest on
fairness and ENABLED, which are out of the prover's reach. Every other property of a passing run is a theorem. The four
violated claims of section 5 are about the code as it is and are refuted by TLC.

## 7. Modelling decisions

* Stamps no decision reads, notes, labels, dates and currencies are left out; the reconciling items
  appear as the saved total only.
* `books_start` is assumed set, and every month of an instance past it; the one-time seeding of opening
  balances is not modelled.
* An `aging` account is the only receivables or payables account, so its share of the report is all of it.
* Evidence is kept for bank accounts only: no gate asks for it elsewhere.
* QuickBooks answers with any of `Amounts`; whether the trial balance balances is independent of them.
* A working paper is recorded or not (best-effort) independently per account.
* In the queue, amounts, memos and the evidence of a posting are left out; an edit may keep the lines. The
  rows of the cost allocation live in the same table behind `close_only` and are not part of the queue.
* A `Producer` other than a bank pull writes only into an open month, because its caller checks; the lock
  of `AdjustingEntries` is the fact alone, its gate being that of `ReconSignoff`.
* Handlers are split into reading and committing where overlaps can matter (review, tasks, ticking and rewiring a
  step, reminders and uploads, starting a run, allocation); short requests that read and write one row
  at once are one step.
* A history variable marks the overlaps and repetitions for which the code gives no guarantee (`raced`,
  `rivals`, `lost`, `crossed`, `muddled`, `collided`, `slow` and `doubled`, `soft`, `stray`, `behind`,
  `overtaken`); the property beside it says what holds
  otherwise, and section 5 what happens in them.
* Where a statement waits for a row lock, PostgreSQL evaluates its condition again on the row as it then is; the
  review's DELETE and the allocation's UPDATE are modelled with that second look.
* Ids are handed out in order, and a run of the review may reuse the ids it deletes.
* In `ReconRace` the close and the row handlers read everything in one step, although the statements
  of one request can see different commits; a finer split only adds behaviours of the same kind.

## 8. What is not modelled

* *Not yet*: what section 2 lists as left.
* *Parts of modelled components*: tasks derived from other modules with their dismissals and
  assignments; the driver factors of the allocation from payroll and floor space, its setup pages and exports;
  the other steps of the autopilot and its settings; titles, owners, due dates and order of checklist steps;
  the rate limiter, which only turns requests away; what the checks of the review look for.
* *Tenancy*: every module is one workspace; isolation is a filter on each statement, with tests of its own.
* *No state, or none that matters to the books*: exports and PDFs, notifications and email, search and
  assistant, financial statements and insights, the knowledge graph, intercompany matching.
* *The pages of the web client*: layout, charts, forms and wording of what the API returns. The accounts with
  a schedule of their own in the drawer, manual entries and attachments there, the demo mode and the
  assistant's stream are not in the three modules.
* *Statistical detectors* of the GL accuracy watchdog: numbers over transactions; any set
  of findings is allowed. The nightly sweep and its digest only decide when a scan runs.
* *The share of the code*: the modules translate about 7,800 lines, of which about 650 are the web client's,
  whose 89,000 lines are mostly markup; most of the rest of the backend reports, renders or computes figures
  from stored ones without deciding anything. The state and the concurrency of the close are in the lines that
  are mapped.
