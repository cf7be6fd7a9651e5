# MergePay in TLA+

MergePay pays a developer automatically when a GitHub pull request passes. A client locks
a reward in a Soroban escrow contract, a developer accepts the task, delivers a pull
request, and the MergePay API, the only holder of the verifier key, verifies it and
releases the reward. This directory specifies that system in TLA+, model-checks it with
TLC on small instances, and proves with TLAPS, for every size, the most important
properties of the contract, of the task API, of the inspection of a pull request, of the
session tables, and, in the browser, of pending transactions, of the wallet and session
providers, of the page of a task and of its creation. Every safety property that a run
checks is also a theorem.

Contents: [inventory](#inventory), [modules](#modules-and-the-code), [runs](#runs),
[fairness](#fairness), [proofs](#proofs), [divergences](#where-documentation-and-code-disagree),
[what is not modelled](#what-is-not-modelled), [plan](#plan).

## Inventory

| Component | State | Operations | Talks to |
|---|---|---|---|
| Escrow contract `contracts/escrow/src/lib.rs` | `Bounty` per id, verifier and token address | `create_bounty`, `accept_bounty`, `release_bounty`, `cancel_open_bounty`, `refund_expired`, `get_bounty` | token contract, ledger clock |
| Task API `api/app/routers/bounties.py` with `funding_service`, `assignment_service`, `verification_service` | tables `bounties`, `submissions`, `verifications` | POST `/bounties`, `/funded`, `/assigned`, `/submission`, `/verify`; reads | contract through `stellar_client`, GitHub through `github_client` |
| Stellar client `stellar_client.py` | none (the verifier's key) | `release_bounty`, `get_bounty`, `assert_transaction_success` | Soroban RPC |
| GitHub client `github_client.py` | none | pull request, files, check runs, branch head | GitHub REST |
| Verifier `github_verifier.py` | none: a pure function | `verify_pull_request` | – |
| Authentication `auth_service.py`, `auth_dependencies.py`, `routers/auth.py` | tables `auth_challenges`, `auth_sessions` | challenge, verify, me, logout, `require_auth` | all writing endpoints |
| Evidence reads `evidence_service.py`, `OnChainEvidencePanel` | the panel's copy of the bounty on chain, beside the page's copy of the row | GET `/onchain`, try again | contract through `stellar_client`, the task page |
| Hashing `hashing.py`, wiring `main.py`, `config.py` | none | – | – |
| Web: pending transactions (`FundingPanel`, `AssignmentPanel`, `stellar/escrow.ts`, `*Storage.ts`) | transaction hash in `sessionStorage` | sign, send, remember, confirm, resume after a reload | wallet, RPC, API |
| Web: providers (`WalletProvider`, `AuthProvider`, `authStorage.ts`) | wallet snapshot, session on the screen, in `sessionStorage` and in the HTTP client | connect, refresh, disconnect, sign in, sign out, check and close a session | Freighter, API |
| Web: task page (`BountyDetailPage`, `useSubmittedWork`, `SubmissionPanel`, `VerificationPanel`) | the task and the verification shown, and under which token and session they were read | load, submit, verify, re-read, publish | API |
| Web: creation of tasks (`CreateBountyPage`, `MarketplacePage`, `utils/xlm.ts`, `schemas.py`) | the wizard's step, form and errors, the board | edit, validate, send, list | API |

### What is hard

* **Requests overlap.** Endpoints are synchronous FastAPI functions: each request has a
  thread and a database session. It loads the task's row once, decides, makes network
  calls, and writes at the end without looking again. SQLAlchemy writes only the columns
  that changed *in that session*, so a late commit mixes its columns with newer ones.
* **Two sources of truth.** The chain moves without the API: anyone can create a bounty
  under any id, clients cancel and ask for refunds, deadlines pass.
* **Lost answers.** A release can land after its poll timed out or after the process
  died, between COMMIT #1 (the verdict) and COMMIT #2 (the payout).
* **GitHub is read in pieces.** Summary, files and check runs are separate GETs.
* **Copies of different moments.** The evidence panel compares a row and a contract that it
  read at different times; a wizard's answer finds the browser on another page.
* **Boundaries.** The deadline second, a full page of files, the newest of several runs,
  the second a challenge expires.

Per component, what makes it correct:

* *Contract*: the balance equals the rewards owed; one exit per reward, decided by the
  deadline; terms never change; nobody's reward is stranded.
* *Task API*: what the row says about money is true on chain; nothing is paid that no
  stored verification passed; participants are decided once.
* *Verifier and inspection*: a PASS rests on the newest runs and on every file.
* *Authentication*: a challenge opens one session; sessions end in time; logout is final.
* *Evidence panel*: a payout is shown with its proof, an honest task never as a mismatch.
* *Web*: one signature per action; a late answer never replaces a newer one; what was
  reviewed is what is created, to the stroop, and once.

`PROJECT.json` lists each hazard at its source line with the properties that cover it.

## Modules and the code

| Module | What it is |
|---|---|
| `EscrowPromise` | abstract: a reward is deposited, maybe committed to a payee, and leaves once and whole |
| `Escrow` | the contract, its token and the ledger clock; refines `EscrowPromise` |
| `BountyService` | extends `Escrow` with the task API and the Stellar network |
| `ServiceProofs` | theorems about `Escrow`, and about `BountyService`, which extends it |
| `EvidencePanel` | extends `BountyService` with the page's copy of the row and the panel's copy of the chain |
| `EvidenceProofs` | theorems about `EvidencePanel`, and about what requests that overlap do to the row of `BountyService` |
| `GitHubVerifier` | the verdict as operators |
| `PullRequestInspection` | a pull request that changes while the API reads it, judged by `GitHubVerifier` |
| `InspectionProofs` | theorems about `PullRequestInspection` |
| `AuthSessions` | challenges and sessions |
| `AuthProofs` | theorems about `AuthSessions` |
| `PendingTransaction` | a contract call signed in the browser, until MergePay has confirmed it |
| `PendingProofs` | theorems about `PendingTransaction` |
| `WalletSession` | both providers of the browser, Freighter and the session's requests |
| `WalletSessionProofs` | theorems about `WalletSession` |
| `TaskPage` | the page of one task from its acceptance on, with its panels and the API behind it |
| `TaskPageProofs` | theorems about `TaskPage` |
| `Xlm` | rewards as they are typed, stored and shown, as operators |
| `TaskCreation` | the wizard, the POST that stores a draft and the board of funded tasks |
| `TaskCreationProofs` | theorems about `TaskCreation` |
| `MCEscrow`, `MCBountyService`, `MCEvidencePanel`, `MCPullRequestInspection`, `MCAuthSessions`, `MCTaskCreation` | instances for TLC |

Definitions called "Mutant of X" are X with a plausible bug. Each property has one that
breaks it; they show that the property depends on the code, and no specification uses
them.

### Escrow

`bounties` is `DataKey::Bounty(id)` in persistent storage (status `Missing` where there is
no entry), `balance` the token contract's table, `now` `env.ledger().timestamp()`. A
contract call is atomic, so each entry point is one action; its guards are the conditions
for `Ok`, a rejected call is no step. `Transfer` is the token's: it needs the balance, and
a trap undoes the whole call. `require_auth` is the parameter `caller`. A ledger may
close any number of seconds later, so the clock can jump over a deadline.

### BountyService

`row` holds the columns of `bounties` that decide anything; `has_submission` and `passes`
stand for the tables `submissions` and `verifications`; `releases` are the release
transactions sent and what the network made of them. `requests[w]` is a worker's local
state: the step it is at and `loaded`, the row as its session saw it.

| Action | Code |
|---|---|
| `CreateTask` | `POST /bounties` |
| `RequestFunding`, `ReadFundedBounty`, `CommitFunding` | `confirm_funding`: row guards; Stellar reads and `_matches_task`; branch head and commit |
| `RequestAssignment`, `ReadAssignedBounty`, `CommitAssignment` | `confirm_assignment` |
| `RequestSubmission`, `CommitSubmission` | `register_submission` |
| `RequestVerification`, `CommitVerdict`, `ReloadForPayout`, `SendRelease`, `CommitPayout` | `run_verification`: guards; inspection, verdict and COMMIT #1; evidence; simulate and send; poll and COMMIT #2 |
| `Abandon` | any error, timeout or crash: the session is rolled back |
| `LandRelease`, `RejectRelease`, `ExpireRelease` | the network's answer to a sent release |
| `WalletStep` | contract calls from wallets, not through the API, and time |

`Flush` is SQLAlchemy's commit: a column is written iff its value in the session differs
from the value loaded. An inspection is abstracted to whether its base and author
match the row and how the rest of it comes out (a closed pull request, a draft and a protected
file fail like a failed check); the detail is in the two GitHub modules. The evidence hash is the record it digests (SHA-256 is taken as injective).
`create_tx_hash`, `accept_tx_hash`, the pull request number and the stored issues do
not change what the properties say and are left out.

`Stale(w)` says that the row is no longer the copy that request `w` decides on. The code does
not ask, so a stale verdict may be written over PAID and a late `/funded` over a later status.
`FreshRequestsFollowLifecycle` and `PaysWhatPassedUnlessRewritten` say exactly what that can
break, and that nothing else breaks it.

### EvidencePanel

The service with a task's page open beside it. `page` is the row as the page read it,
`loaded` the panel's state of that name (an answer with the key it was asked under),
`reading` the request that was neither answered nor aborted, `token` the presses of "Try
again". Nothing is polled: the panel asks again when `readKey` (status, payout, presses) changes.

| Action | Code |
|---|---|
| `PublishTask` | the page has read the task again and renders the panel with it |
| `ServeReading` | `read_onchain_bounty` and `get_bounty` |
| `PublishReading` | `setLoaded` with the answer or an error |
| `RetryReading` | "Try again" |

`ReadEffect` is the panel's effect, part of every step that renders it. `steps`,
`SettlementHero`, `criteriaMatches`, `Anchored` and `ConsistencyChecks` are what is shown.

### GitHubVerifier and PullRequestInspection

`select_latest_check_run`, `find_protected_files`, `EvaluateCheck` and
`verify_pull_request` keep the source's names and precedence (structure, then pending,
then failed). `PullRequestInspection` runs them on what `get_pull_request`,
`list_pull_request_files` (with its second page) and `list_check_runs` read while the
developer pushes, closes and drafts the pull request, and while checks start, finish and
run again. GitHub may list the runs in any order and leave superseded ones out, but
never the newest of a name; the code looks among those of a name for the highest id, so
`select_latest_check_run` takes the listed runs as a set. `steady` is a history variable: no push since the summary.

### AuthSessions

`ReadChallenge` is `verify_challenge` up to the signature, with the clock read there;
`RedeemChallenge` is the conditional UPDATE of `_consume_challenge` and the session's
INSERT, one transaction; `ResolveSession` is `require_auth`; `Logout` reads the clock and
`RevokeSession` makes the conditional UPDATE. Only the wallet named in a challenge can
sign it. `Session.challenge` is not a column: it remembers what the session came from.

### PendingTransaction

One panel of one tab: `kind` says whether it is `FundingPanel` or `AssignmentPanel`, which
share `signAndSubmit`. `flow` is the panel's running async function (`step` is the React
state of that name; `sequence` and `hash` are locals), `known` the state `submitted` or
`pending`, `stored` the entry in `sessionStorage`. `txs` are the transactions the network
took and `effect` is the one that changed the contract's bounty. A funding needs no proof
of ownership, so its signature is `"valid"` from the start. `wallet` is the wallet that is
connected and signed in, or `None`; each has its own `sequence` on the network. `MayAct`
says for whom the panel works: a draft is shown to its client only (`can_read_bounty`), and
any other wallet may accept (`assignmentIssue`). `View` is the part of the panel that is
shown: nothing, the button that signs, the ownership proof, or the retry.

| Action | Code |
|---|---|
| `Begin`, `Prepare`, `Sign` | `secureReward` or `acceptTask`; `getAccount` and `prepareTransaction`; Freighter |
| `Send`, `SendUnanswered` | `sendTransaction` and `onSubmitted`; the same with its answer lost |
| `FailUnsent` | the catch, when nothing was sent |
| `SeeSuccess`, `SeeFailure`, `StopPolling` | the poll of `getTransaction`: SUCCESS, FAILED, and MAX_POLL_ATTEMPTS or an error |
| `RetryProof`, `Prove`, `FailProof` | `proveOwnership`, after the acceptance or from the button |
| `RetryConfirmation`, `Confirm`, `ConfirmUnanswered`, `RefuseSignature`, `FailConfirmation` | `confirmWithMergePay` and the answers of POST `/funded` and `/assigned` |
| `Reload` | the page is loaded again: `recoverSubmitted`, `readPendingAssignment` |
| `SwitchWallet`, `SwitchToSigner` | the user signs in with another wallet, or out: the page reads the task again and the panel starts from what is stored |
| `Include`, `Expire`, `TakenByOther` | the network, and wallets elsewhere |

The network takes one transaction of an account at a time, with the next sequence number.
The contract is reduced to its answer (one transaction per bounty has effect) and so is
the API (it confirms the transaction that had effect, with a valid signature, for the session of the
wallet that sent it: `Matches`). What is stored belongs to the browser and not to a wallet, so
another developer's session finds a hash it can retry but never confirm.

### WalletSession

One load of the page. `wallet` is the snapshot `WalletProvider` shows, `latestRequest` its
ref of that name, `reads` the calls to Freighter that have not answered, each with the
number it began under. `auth` is `AuthProvider`'s state; it, `stored` and `accessToken` are
the three places that hold a session (the screen, `sessionStorage`, the HTTP client).
`signIn` is the function of that name with its locals; `checks`, `logouts` and `closing` are
requests on their way and answers not yet acted on, `revoked` and `expired` what the API and
the clock made of a session.

| Action | Code |
|---|---|
| `Mount`, `WalletEffect` | the effects of the first render and of a change of wallet or session |
| `RefreshWallet`, `Connect`, `Disconnect`, `AnswerWallet` | the functions of `WalletProvider`; Freighter answers any of its outcomes, at any time, in any order |
| `SignIn`, `CreateSession`, `FinishSignIn`, `FailSignIn` | `signIn`: guards; challenge, signature and session; `adopt`; the catch |
| `SignOut`, `RetrySession` | `AuthButton`; `refresh` |
| `StartCheck`, `ServeCheck`, `ApplyOutcome` | `inspectStoredSession` and `applyOutcome` around GET `/auth/me` |
| `StartLogout`, `ServeLogout`, `FinishLogout` | `revoke` around POST `/auth/logout` |
| `FinishMinimumLoaderTime` | the timer of `AppLayout`, whose loader (`ShowLoader`) is instead of all buttons |
| `Expire` | a session reaches its expiry |

`shownRequest` (the operation the address on the screen came from), `changedAt` (the last
"Change wallet") and `broughtBack` (a check adopted a session that had been forgotten) are
history variables: no action's guard reads them. A wallet's `"error"` is folded into
`"disconnected"`, which offers the same buttons. `WalletButtons` and `AuthAction` say which buttons are there. Effects that React runs twice in development are not modelled.

### TaskPage

`history` holds the statuses of the task's row, one for each version, `verifications` the
stored verdicts; what the browser has read is an index into them, so that older and newer
can be compared. `result` and `records` are the states of `BountyDetailPage` and of
`useSubmittedWork`, `loads` and `workLoads` their requests. `panel` is the action panel on
the page, `calls` the panels' async functions: a panel that leaves the page leaves its
function running, and what that reads is still published.

| Action | Code |
|---|---|
| `ServeLoad`, `PublishLoad`, `ServeWork`, `PublishWork` | the page's own GETs: what the API reads, and the answer's arrival |
| `SwitchIdentity`, `ReloadPage`, `ReloadWork` | signing in or out; the two "Try again" |
| `SubmitPullRequest`, `RunVerification`, `RefreshStatus` | the panels' buttons (`StartCall` is `exclusive`) |
| `RegisterSubmission`, `StoreVerdict`, `Pay`, `FailUpstream`, `Refuse` | the POST: its commits, 502 or 503, any other error or no answer; the answer to a submission that was registered may be lost |
| `ReadBounty`, `ReadRecord`, `Publish` | what a panel reads again, and publishes in one render |
| `VerifyElsewhere` | the other participant, or a request whose answer was lost |

Every action that changes what is rendered ends with `LoadEffect`, `WorkEffect` and
`Rerender`: React runs the effects of a render before the next event, so an effect is part of
the step that causes it. `late` and `othersVerified` are history variables. The row's own
races (a verdict over PAID) are `BountyService`'s. The page starts once a stored session has been
restored (until then it asks for nothing), and a session does not expire on it.

### Xlm and TaskCreation

`Xlm` has `xlmToStroops` and `formatXlm` on digits: a text is the digits before its point and
those after it. `Denoted` is the reference they are compared with, the number a text stands for.
`Number` and `PowerOfTen` are functions defined by recursion inside a LET, over the positions
of the digits at hand: TLC evaluates them and TLAPS reasons about them by induction.

`TaskCreation` is one browser. `route` is the page; a page that is left loses its state
(`ResetWizard`) but not its function, so `posts` keeps the POSTs of all visits with what each
function heard. `drafts` is table `bounties` as far as a new task goes. `criteriaErrors` is a list
beside `form.criteria`, as in the code; a criterion's `refused` is a history variable (it was
blank when it was last validated). `board` is the state of `MarketplacePage`: `reloadToken`,
the `result` with the token it was asked under, and the tokens of the requests `asked` and
neither answered nor aborted; `boardState` and `shownBounties` are derived from them as in the
code. `created_at` of a draft is the column of that name.

| Action | Code |
|---|---|
| `OpenMarketplace`, `OpenWizard` | the routes |
| `LoadBoard`, `ReloadBoard` | `setResult` with the answer of GET `/bounties` (`list_bounties`) or an error; "Try again". `LoadEffect` is the effect of the page, part of the steps that render it with another token |
| `EditTask`, `updateCriterion`, `addCriterion`, `removeCriterion`, `EditReward`, `GoBack`, `Continue` | the wizard's steps |
| `RefuseForm`, `SubmitForm` | `handleSubmit`, of a form that is wrong and of one that is right |
| `StoreDraft` | `BountyCreate` and `create_bounty`; a number too wide for its column makes the INSERT fail |
| `HearCreated`, `HearError` | the answer, or an error that does not tell whether the task was stored |
| `FundDraft`, `SwitchSession`, `PassTime` | funding, sign-ins and the clock |

The columns are 32 bits wide on PostgreSQL, so a reward over 214.7483647 XLM, the form's
own placeholder "250" among them, is refused with a server error and never truncated.

## Runs

| Run | Instance | Shows |
|---|---|---|
| `escrow` | 2 ids, 3 accounts, amounts -1..2, deadlines 1 and 2, clock to 3 | solvency, records, deadline, refinement of `EscrowPromise`, and (under `FairSpec`) that no reward is stranded |
| `service` | 2 workers, 1 task, 2 base commits, 2 heads, 2 releases, clock to 2 | payouts recorded happened and rest on a stored PASS, funded tasks were escrowed, participants and payout are never replaced, only stale requests leave the lifecycle and only a rewritten row makes evidence of no delivery that passed, however requests overlap or die |
| `evidence` | 1 worker, 1 base commit, 2 heads, 1 release, 1 "Try again" | the panel proves what is paid, accuses no honest task and does not load for ever |
| `inspection` | 3 heads, 2 checks, 3 runs, 1 push, page of 2 files | a PASS rests on the newest runs; running checks are waited for; without a push in between, a PASS covers all files |
| `auth` | 2 wallets, 2 challenges, 2 workers, clock to 4 | one session per challenge, both lifetimes, final logout |
| `pending_transaction` | 3 wallets (the client and two developers), 3 transactions, 1 reload | the hash survives, nothing is signed twice, what took effect is confirmed in the end |
| `wallet_session` | 2 wallets, 3 buttons pressed, 2 sessions, the loader's timer | "Change wallet" holds, screen, storage and client agree on the session, the loader ends, another wallet's session is closed |
| `task_page` | PASS and FAIL, 3 inputs (buttons, sign-outs, sign-ins), 3 verifications | the page does not go back to older answers, a PASS beside an unpaid task is explained, nothing loads or stays busy for ever |
| `task_creation` | 3 visits and POSTs together, 2 criteria, 3 rewards, 2 decimals, columns up to 50, 1 reload of the board | finished steps are right, errors stand at their criterion, what was reviewed is created, once and to the stroop; what was stored too late is on no board; neither button nor board stays busy |

Three more runs are refutations, see [below](#where-documentation-and-code-disagree). The
type invariants that are proved for every size are not checked again by the runs.

Why these bounds are enough. Two bounties are needed for one to be paid with another's
money, and no property relates three; the amounts include a refused zero and a negative
one, the clock reaches one second past the later deadline. Every race over a row is
between a stale request and a fresh one, hence two workers; two releases are a retry while
the first is pending. Amount 2 is one that does not match the task. Three heads touch
one file, one renamed file and three files against a page of two: below and over
the limit, with the protected file on the second page; three runs give one of two
checks a rerun while the other is outstanding, and have six orders in a listing. A second push adds nothing to one between
two GETs, after which the inspection is no longer steady. Two sessions per wallet and a clock past
both lifetimes reach each expiry. In the service run the client holds two units, the
developer one and the verifier none, so both a client who can fund and one whose money is
elsewhere occur. Three transactions are a first, its retry after a failure and one more after
a send whose answer was lost. One reload may end the function at any of its awaits; a change
of wallet, of which there is no bound, starts the panel from the storage as a second reload
would, and the third wallet is a developer who finds another's hash. Three
buttons in `wallet_session` are a sign-in, a sign-out and one more while they are on their
way; the stored session belongs to one of the two wallets and which one does not matter.
In `task_page` the three inputs are a submission and two verifications, or a call, a sign-out
and the sign-in after it, which brings back a panel while the old one's function still runs;
three verdicts are an older one, a newer one and one made elsewhere. In `evidence` there
is one worker: two of them and the panel have more than two million states. Page and panel
read row and contract between any two steps of a request, which is what that run is about; what two
workers do to one row is the business of `service`, and the theorems about the panel have any
number of workers, one head or many, and any base commits. Two heads can be mixed up, and one
retry is the second key under one status. In `task_creation` three turns are two visits with a
POST, or one visit with two POSTs, the second after an answer that was lost; two decimals
and a column of 50 keep the boundaries of seven and 32 bits: a reward that lacks a decimal, is shown
without it and just fits its column, and one a stroop too wide for it, which is refused. One reload of the board is the
second token, under which the answer to the first does not count.
Workers, the commits in `service` and wallets in `auth` are
interchangeable and declared as symmetry in the runs that have no liveness property.

`CHECK_DEADLOCK FALSE` is set because every instance is bounded: at `MaxTime` with all
bounties settled, or with every id, run or release used, nothing is left to do.

## Fairness

Six specifications assume any.

`FairSpec` of `Escrow`: ledgers keep closing (a property of the Stellar network), and a
client whose refund is possible eventually asks for it (`refund_expired` is an offer the
code makes, not something it does by itself). Developers, the verifier and the API are not
fair: nothing obliges anyone to accept, deliver or verify, and the API has no background job
that would. So there is no liveness property about payouts: the code promises none.

`PendingFairness` of `PendingTransaction`: the panel's poll reads a SUCCESS that is there, or
gives up (weak fairness of `SeeSuccess`), and a confirmation is answered or fails
(`FailConfirmation`); the user comes back to the wallet that signed, as the panel asks
(`SwitchToSigner`), and presses the one button it offers there (`RetryProof`,
`RetryConfirmation`), since the code never retries by itself; and among retries without end,
the wallet signs some (`Prove("valid")`), the API answers some (`Confirm`), and some refusals
of a bad signature arrive (`RefuseSignature`): strong fairness, because each attempt may
fail, and because the user may leave the wallet again each time. Nothing is assumed about sending, inclusion or expiry.

`WalletSessionFairness` of `WalletSession`: React runs the effects that are due, the loader's timer ends, and every
request to Freighter and to the API is answered or fails, as the browser's own time limits
see to. Nobody has to press a button.

`TaskPageFairness` of `TaskPage`: the same for the page's requests and for the functions that
run in its panels, each as one weak fairness, since what is under way is finite.

`EvidenceSpec` of `EvidencePanel` and `CreationSpec` of `TaskCreation`: a request of the
panel, of the wizard or of the board is answered or fails. Nobody has to press a button.

## Proofs

`ServiceProofs`, of the contract (for any sets of accounts, ids, amounts and any funds):

* `TypeCorrect` and `RecordsConsistent` are inductive as they stand (the second with the
  first).
* `Solvent`: `EscrowSolvent` compares a balance with a sum. Sums over a set need induction,
  so the sum is stated as the cardinality of `HeldUnits`, one element per token unit
  owed. `UnitsCount`, `DisjointUnits` and `OneBountyApart` say how that set splits into
  the units of one bounty and the rest; locking adds a bounty's units, settling removes
  them (`LockingKeepsSolvency`, `SettlingKeepsSolvency`). The invariant `SolvencyInv` adds
  types, records and the finiteness of `HeldUnits`, without which its cardinality could
  not be added to; finiteness is preserved because each step changes one bounty.
* `EveryExitIsCovered` follows: the transfer of an exit cannot trap.
* `SettledBountiesAreFinal`, `DeadlineDecidesTheExit` and `TermsNeverChange` are action
  properties read off `EveryStepIsABountyStep` under the type invariant.
* `EscrowKeepsItsPromise`: under the refinement mapping `RewardOf` (stage from status,
  payee from developer) each entry point is `Deposit`, `Commit`, `Pay` or `Return`, and the
  clock stutters. It needs `RecordConsistent`: a release must find a payee, an acceptance
  must find none.

`ServiceProofs`, of the API (any number of workers, wallets, GitHub users, commits and releases): what a
commit writes is right because of what its request read before other requests and the chain moved on, so no
property of the service is inductive. `ServiceInv` adds to the types and the contract's records
* `RequestsInv`: for each request, what is still true of its reads (`Known`): the client was the
  session's or nobody's, the bounty it saw is its client's with the task's terms, the head it passed is
  in `passes`, the release it polls for was sent;
* `RowInv`: what the row says is true on chain;
* `PayoutInv`: every release sent carries a head that passed, and at most one succeeds.

The argument is `KnowledgeLasts`: a request's knowledge survives whatever the others do,
because a row only grows in the sense of `RowGrows` and a bounty in that of `ChainGrows`. `StepsAdvance` shows
that each step of a request leaves it knowing what its next step needs; `BountyGrows` takes
`ChainGrows` from the contract's own lemmas. `ServiceRunsTheContract` says
that the composition is a behaviour of `Escrow`, so the theorems above hold in it;
`FundedTasksAreEscrowed`, `DevelopersAcceptOnChain`, `RecordedPayoutsHappen`,
`PayoutsAreBackedByPasses` and `RecordsStay` are five of the run's properties; the other two are those of
`EvidenceProofs`.

`EvidenceProofs` (any wallets, GitHub users, commits, releases, retries and workers): `EvidenceInv` says
what a copy of an earlier moment still says truly: `PageTrue` of the page's task, `AnswerTrue`
of the panel's answers (one asked for under a payout is what the chain says for good). Both
last because a bounty only grows (`ServiceKeepsPanel`), and `EffectKeepsUp` keeps the key of
a reading that of the page. `EvidenceTypeCorrect`, `EvidenceRunsTheService` and
`SettlementsAreProved` follow. Nothing is assumed of the order of requests. What they do to one row
although they overlap is `OverlapInv`: each request is `Informed` (what it found in its own copy decides
what it writes, what it is about to pay for passed as its copy has it, and the task it verifies
keeps its developer) and a status that needs a developer has one (`HasDeveloper`).
`InformationLasts` says that the others' steps do not change that, `StepsGoOn` that each step of a request
leaves it so and, unless the request is stale, keeps the lifecycle.
`LifecycleIsFollowed` and `PaidEvidencePassed` follow: the guards that a handler puts to the copy it
read are enough as long as the copy is right, and only a rewrite of base commit or developer
between a verdict and its payout makes evidence of no delivery that passed. `DeveloperShownInv` carries the
developer to page and panel; `HonestTasksAreNotAccused` follows from it, and its exception
(`StatusWrittenBack`) is the one that a stale confirmation of the funding causes.

`InspectionProofs` (any files, check runs, page size and pushes): `InspectionInv` adds
`ReadOfOneCommit`, what a request that saw no push has read so far is of one commit;
`FirstPageOfFiles` says when a page is the whole list. `SteadyPassesCoverEveryFile` follows.
`PassesAreEarned` and `RunningChecksAreNotOvertaken` rest on `RunsAreNumbered` (ids grow with
the runs, so the newest run is the one with the highest id, `LastIndex`) and on
`NewestAreListed`: every listing GitHub may give, in any order, holds the newest run of each
name, and `TheNewestIsSelected` is what the code picks from it. A listing is of the moment it
was asked for; nothing starts between it and the verdict that is drawn from it in one step.

`TaskCreationProofs` (any rewards, deadlines, bounds and widths): `CreationInv` adds to the types
* `WizardInv`: the finished steps of the form on the screen hold no error but a passed deadline, and
  errors and criteria are in step;
* `PostsInv`: a wizard posts again only after an error, and while the button is disabled an awaited
  POST has the form shown.

There is one lemma for each action. `NothingWrongBehind`, `ErrorsKeepTheirCriterion`,
`ReviewIsLocked` and `OneDraftPerAnswer` follow. `LateDraftsStayOffTheBoard` rests on `PaidInTime`: a task
is paid for before its deadline, hence was stored before it, and a board shows only what was paid for,
whichever request it was asked under.

`RewardsAreExact` is about arithmetic on digits of any length and needs induction.
The library's induction theorems take an operator, which the provers cannot instantiate; but
`WFMin` speaks of a set, and `SetInduction` (a set of naturals that holds 0 and with i also
i + 1 holds all) follows from it. With it `LeftToRight` says that a function given by
recursion over positions exists, and the facts about digits are proved as sets of positions:
`NumberOfBoth` (a concatenation), `NumberOfZeros` (padding), `NumberOfDigits` (the digits of a
number denote it), `StrippedIsZeros` (what `replace(/0+$/)` takes away are zeros). `ReadAsWritten`
is `xlmToStroops`, `WrittenAsStored` is `formatXlm`; that a draft holds what its form said is
the invariant (`RewardsRead`).

`TaskPageProofs` (any number of buttons, reloads, sign-ins and verifications):
`PageInv` adds to the types
* `AnswersAreOfTheTask`: whatever was read, is due or is held by a function is a version of the
  row or a verification there is; `OneRequestEach`: an effect aborts the request before;
* `CallInOrder`, `PanelOfItsCall`: what each function has read at its step, and that the one
  which makes a panel busy is one of that panel ("este panel desaparece", `SubmissionLeaves`).

Two further invariants speak of states in which no answers have crossed (`late`).
* `NothingOlder`: what is due or held is not older than what is on the screen.
  `NewerAnswersOnly` follows, because while nothing is late an answer is published only when
  no other is due (`ScreenChanges`).
* `PassInv`, for `PassAlwaysExplained`. Seen from the page a PASS beside a task that did not
  move on has many causes; the invariant says what rules out the others. The row follows its newest
  verification (`RowFollows`); so does every copy of the row on the page or due there, unless
  an error, a busy panel or a load tells (`PageFollows`, `LoadsFollow`), because a panel
  publishes the newest or is late (`PanelReadsNewest`), and a function left behind runs only
  until the page is loaded again (`LeftWhileLoading`). A PASS that is shown is the newest
  verification or is about to be replaced by the function that stored a newer one
  (`PassesAreReplaced`), and no such function runs beside an unexplained PASS, since its
  view does not offer to verify (`NoneBesidePass`). A submission whose answer was lost leaves a page
  that goes on as if it had not been registered: `OnlySubmissions` says that nothing but
  submissions was begun before one of them was.

`AuthProofs` (any wallets, challenges, workers, lifetimes): `AuthInv` adds to the types that
each request still refers to rows that exist (`RequestsReadRows`), that used challenges
were issued, and that every session's challenge is used at the session's creation time
(`SessionsUsedChallenges`): this is what makes the conditional UPDATE refuse the second
redemption. `RedeemedOnce`, `UsedExactlyWhenOpened`, `SessionsExpireInTime` and
`LogoutIsFinal` follow.

`PendingProofs` (any wallets, any number of transactions and reloads): what the panel sees and what the
network does are different things, so `HeardIsRemembered` is not inductive. `PendingInv` adds
to the types and to the two properties
* `MemoryIsStored`: what the panel has in memory, or polls for, is what is stored;
* `MakingIsAlone`: while a transaction is being made, nothing is stored or remembered;
* `OnlyFailuresAreForgotten`: a transaction the panel heard of and that is no longer
  stored has failed, unless MergePay has confirmed;
* `EffectSucceeded`: the transaction with effect is one that succeeded.

The third is the argument: the storage is cleared only after FAILED and after a
confirmation. `PendingTypeCorrect`, `HashIsNotLost` and `NoSecondSignature` follow.

`WalletSessionProofs` (any wallets, any number of presses and sessions):
`WalletSessionInv` adds to the types and to the properties
* `ChangeIsNoRead`: no read that is on its way has the number of the last "Change wallet";
* `RequestsAreOfSessions`: checks, logouts and the sign-in refer to sessions that were made.

The first is the argument for `NoOlderAddress`: an answer is shown only if its number is the
newest, and "Change wallet" takes a number for itself. `SessionsAgree` says that the
three copies of a session change together in every function. `WalletSessionTypeCorrect` comes with them.

Assumptions are the named `ASSUME`s of the modules: the contract's address is no user
account, numbers are naturals, `None` is no value. TLC evaluates them in the runs.

Only model-checked: `RewardNeverStranded`, `EffectIsConfirmed`, `LoaderEnds`,
`OtherWalletsSessionEnds`, `PageSettles`, `EvidenceSettles` and `VisitSettles`. They are liveness
properties under fairness, which is beyond TLAPS.

## Where documentation and code disagree

Each is a run that TLC refutes, listed under "findings" with the quoted line.

* `funds_moved_in_needs_changes`: a release whose answer is lost leaves the row verifiable;
  the next verification can say NEEDS_CHANGES although the money moved.
* `unanswered_send_is_lost`: the hash of a transaction is known once it is signed, but the
  panel stores it only when `sendTransaction` answers. If Stellar took it and the answer is
  lost, the reward is locked (or the task accepted) and nobody can confirm it.
* `inexact_evidence`: README.md:191-193 of the repository calls the evidence of a payment
  "exact". Two `/funded` requests overlap, and the late one writes another `base_sha` between the
  verdict and the payout: the digest on chain is of a delivery that no verification compared.
  Its head commit is the verified one even then (`PayoutBackedByPass`), and a rewritten row is the
  only way to it (`PaysWhatPassedUnlessRewritten`).

Three more are not runs of their own. README.md:218 and 232 say that a PASS means that
the pull request does not touch the files that define the verification. A push between the GET of the
summary and that of the files makes the API look at another commit's files, so a PASS may stand for
files that nobody looked at; `SteadyPassCoversEveryFile` speaks of inspections without such
a push. README.md:238-239 says that a duplicated check does not pass: the code takes the newest of
two runs of one name. And the documented order of the statuses, with PAID as the last (the tests
refuse to verify a paid task again), holds only of requests that are not stale: a verification that
was under way before the payout writes its verdict over PAID, and a late `/funded` or `/assigned` an
earlier status. `FreshRequestsFollowLifecycle` says so in the one form in which it is true; the
payout's transaction stays recorded all the same (`RecordsAreNotReplaced`).

Of the browser: the comment at `VerificationPanel.tsx:380` says that a PASS beside a task
that is neither eligible nor paid "solo pasa si fallo el refresco posterior"; it also
happens when the other participant verifies between the page's two reads, and when a panel that left the page
publishes late. `PassIsExplained` names those cases. An answer of GET `/auth/me` that comes after signing out
adopts the session again (the API has closed it: the next request ends it), a slow logout
forgets a session that was opened meanwhile, and a session that expires between the first
render and its effects leaves the loader on the screen.

Seen while modelling, and promised nowhere: a status that was written back is also what can
leave the evidence panel with a reading from before the developer was assigned, since it reads
again only when the status changes (the exception in `NoFalseMismatch`). A task may be stored after its
deadline; nobody can pay for it and it is listed nowhere (`LateDraftsAreNotListed`). The marketplace list
never follows cancellations and refunds on the chain.

## What is not modelled

Events, storage TTL and `get_bounty` of the contract (reads or not readable back); XDR
decoding, HTTP headers and JSON validation (they only choose the error a request ends
with, which `Abandon` and `GiveUp` cover); hashing and signatures (taken as injective and
unforgeable); configuration, CORS; privacy of reads (`can_read_bounty`) and the rules of
`auth/taskAccess.ts` beyond the panels that use them (`MayAct`, `CanRead`); presentation and translations of the
web application (cards, filters, links, copy buttons, the way values are shortened). `PendingTransaction`
has one panel: it leaves out that a panel is left and opened again in the same tab while its
function runs (which is also what a change of wallet in the middle of it amounts to), a session
without a connected wallet, a blocked `sessionStorage` and the check of what is read back from it.
`WalletSession` has one load of the page, from whatever session is stored. `TaskPage` has one
task: it leaves out a step in the browser's history from one task's page to another's,
after which a function of the first still calls `replaceBounty`. `TaskCreation` has what is typed
only as right or wrong, rewards excepted, and one browser.

## Plan

1. *Done:* contract and promise, task API with its evidence reads, verifier and inspection,
   authentication; the browser's creation of tasks, pending transactions, providers, task page
   and evidence panel; proofs of every safety property that is checked.
2. `PendingTransaction` with a second panel in the same tab (which a change of wallet in the
   middle of a function brings about too), and with the time bounds of a
   transaction (a panel whose transaction expired unseen offers only to confirm it).
3. `TaskPage` with a second task.
4. Who may do what: `taskAccess.ts` against `auth_dependencies.py`, so that no button is
   offered that the API refuses for good, and the reads that a task's status allows.
5. Proofs of what items 2 to 4 add, as each is checked.
