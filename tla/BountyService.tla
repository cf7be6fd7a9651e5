---------------------------- MODULE BountyService ----------------------------
(***************************************************************************)
(* The life of one task in the MergePay API (api/app: the bounties router,  *)
(* funding_service, assignment_service, verification_service and the        *)
(* Stellar client), composed with the escrow contract of module Escrow.     *)
(*                                                                          *)
(* The endpoints are synchronous FastAPI functions, so each request runs in *)
(* a worker thread with a database session of its own.  A request reads the *)
(* task's row once, calls Stellar and GitHub, and writes at the end; nothing *)
(* locks the row in between, so what it decided on may have changed by then. *)
(* A request is therefore a sequence of actions, one per round trip that    *)
(* touches shared state.  Any request can also stop half way: an error of   *)
(* GitHub or Stellar, a timeout, a failed commit or a crash of the process. *)
(***************************************************************************)
EXTENDS Escrow, Sequences

CONSTANTS
    Workers,        \* threads of the server's pool
    Task,           \* the id of the task, and of its bounty on chain
    TaskTerms,      \* what the task asks for: [amount, criteria_hash, deadline]
    Githubs,        \* GitHub user names
    BaseShas,       \* commits the base branch has been at
    Heads,          \* commits the pull request's branch has been at
    MaxReleases     \* bound on the release transactions ever sent

ASSUME TaskAssumption ==
    /\ Task \in BountyIds
    /\ TaskTerms \in [amount: Nat \ {0}, criteria_hash: CriteriaHashes, deadline: Nat]
    /\ None \notin Githubs \cup BaseShas \cup Nat
    /\ MaxReleases \in Nat

\* What compute_evidence_hash digests: the delivery that is paid for.
Evidence == [base_sha: BaseShas, developer_github: Githubs, head_sha: Heads]

ASSUME EvidenceAssumption == EvidenceHashes = Evidence

VARIABLES
    row,            \* the task's row in table bounties
    has_submission, \* its row in table submissions exists
    passes,         \* the deliveries table verifications holds a PASS for
    requests,       \* what each worker is doing
    releases        \* the release transactions sent, and what became of them

serviceVars == <<row, has_submission, passes, requests, releases>>
vars == <<now, balance, bounties, row, has_submission, passes, requests, releases>>

-----------------------------------------------------------------------------
VERIFIABLE_STATUSES == {"SUBMITTED", "NEEDS_CHANGES", "VERIFYING", "ELIGIBLE"}
RowStatuses == {"DRAFT", "OPEN_FUNDED", "ASSIGNED", "PAID"} \cup VERIFIABLE_STATUSES

Row == [status: RowStatuses \cup {"absent"},
        client_wallet: Accounts \cup {None}, developer_wallet: Accounts \cup {None},
        developer_github: Githubs \cup {None}, base_sha: BaseShas \cup {None},
        release_tx_hash: (1..MaxReleases) \cup {None}]

NoRow == [status |-> "absent", client_wallet |-> None, developer_wallet |-> None,
          developer_github |-> None, base_sha |-> None, release_tx_hash |-> None]

\* A DRAFT written before create_bounty recorded its client.
LegacyDraft == [NoRow EXCEPT !.status = "DRAFT"]

Steps == {"idle", "funding", "funded", "assigning", "assigned", "submitting",
          "verifying", "eligible", "releasing", "polling"}

\* `loaded` is the row as the request's session has it, `wallet` the session's
\* wallet, `github` the user name in the body, `head` the pull request head that
\* passed, `evidence` what is being paid for and `tx` the release transaction.
Request == [step: Steps, loaded: Row, wallet: Accounts \cup {None},
            github: Githubs \cup {None}, head: Heads \cup {None},
            evidence: Evidence \cup {None}, tx: (1..MaxReleases) \cup {None}]

Idle == [step |-> "idle", loaded |-> NoRow, wallet |-> None, github |-> None,
         head |-> None, evidence |-> None, tx |-> None]

Outcomes == {"pending", "success", "failed", "expired"}
Release == [evidence: Evidence, outcome: Outcomes]

ServiceTypeOK ==
    /\ TypeOK
    /\ row \in Row
    /\ has_submission \in BOOLEAN
    /\ passes \in SUBSET Evidence
    /\ requests \in [Workers -> Request]
    /\ releases \in Seq(Release)
    /\ Len(releases) <= MaxReleases

ServiceInit ==
    /\ Init
    /\ row \in {NoRow, LegacyDraft}
    /\ has_submission = FALSE
    /\ passes = {}
    /\ requests = [w \in Workers |-> Idle]
    /\ releases = <<>>

-----------------------------------------------------------------------------
\* The UPDATE a commit emits: SQLAlchemy writes the columns whose value in the
\* session differs from the one loaded, and leaves the others as they are stored.
Flush(loaded, mine) ==
    LET Column(old, new, stored) == IF new # old THEN new ELSE stored
    IN  row' = [status |-> Column(loaded.status, mine.status, row.status),
                client_wallet |->
                    Column(loaded.client_wallet, mine.client_wallet, row.client_wallet),
                developer_wallet |->
                    Column(loaded.developer_wallet, mine.developer_wallet,
                           row.developer_wallet),
                developer_github |->
                    Column(loaded.developer_github, mine.developer_github,
                           row.developer_github),
                base_sha |-> Column(loaded.base_sha, mine.base_sha, row.base_sha),
                release_tx_hash |->
                    Column(loaded.release_tx_hash, mine.release_tx_hash,
                           row.release_tx_hash)]

Start(w, request) ==
    /\ requests[w].step = "idle"
    /\ requests' = [requests EXCEPT ![w] = request]

Finish(w) == requests' = [requests EXCEPT ![w] = Idle]

At(w, step) == requests[w].step = step

OnChain == bounties[Task]

\* POST /bounties: the client of a new task is the session's wallet.
CreateTask(wallet) ==
    /\ row.status = "absent"
    /\ row' = [NoRow EXCEPT !.status = "DRAFT", !.client_wallet = wallet]
    /\ UNCHANGED <<chainVars, has_submission, passes, requests, releases>>

-----------------------------------------------------------------------------
\* POST /funded: the guards that only need the row.  (The repetition of a
\* confirmation that already succeeded is answered here and changes nothing.)
RequestFunding(w, wallet) ==
    /\ row.client_wallet # None => row.client_wallet = wallet
    /\ row.status = "DRAFT"
    /\ Start(w, [Idle EXCEPT !.step = "funding", !.loaded = row, !.wallet = wallet])
    /\ UNCHANGED <<chainVars, row, has_submission, passes, releases>>

\* Mutant of MatchesTask: the amount is not compared.
MatchesTaskButAmount ==
    /\ OnChain.criteria_hash = TaskTerms.criteria_hash
    /\ OnChain.deadline = TaskTerms.deadline
    /\ OnChain.developer = None
    /\ OnChain.status = "Open"
    /\ OnChain.evidence_hash = None

MatchesTask ==
    /\ OnChain.amount = TaskTerms.amount
    /\ OnChain.criteria_hash = TaskTerms.criteria_hash
    /\ OnChain.deadline = TaskTerms.deadline
    /\ OnChain.developer = None
    /\ OnChain.status = "Open"
    /\ OnChain.evidence_hash = None

\* Mutant of ReadFundedBounty: whose escrow it is is not compared.
ReadFundedBountyOfAnyone(w) ==
    /\ At(w, "funding")
    /\ OnChain.status # "Missing"
    /\ MatchesTask
    /\ requests' = [requests EXCEPT ![w].step = "funded"]
    /\ UNCHANGED <<chainVars, row, has_submission, passes, releases>>

\* The reads of Stellar: the transaction succeeded, the bounty is the task's.
ReadFundedBounty(w) ==
    /\ At(w, "funding")
    /\ OnChain.status # "Missing"
    /\ MatchesTask
    /\ OnChain.client = requests[w].wallet
    /\ requests' = [requests EXCEPT ![w].step = "funded"]
    /\ UNCHANGED <<chainVars, row, has_submission, passes, releases>>

\* The base branch may be at any commit when GitHub is asked for its head.
\* create_tx_hash is written here too; only its presence matters below.
CommitFunding(w, sha) ==
    LET r == requests[w] IN
    /\ At(w, "funded")
    /\ Flush(r.loaded, [r.loaded EXCEPT !.client_wallet = r.wallet,
                                        !.base_sha = sha,
                                        !.status = "OPEN_FUNDED"])
    /\ Finish(w)
    /\ UNCHANGED <<chainVars, has_submission, passes, releases>>

-----------------------------------------------------------------------------
\* POST /assigned: guards on the row.  A task whose base commit is recorded has
\* its create_tx_hash as well, and criteria_hash is set when the task is created.
RequestAssignment(w, wallet, github) ==
    /\ row.status = "OPEN_FUNDED"
    /\ row.client_wallet # wallet
    /\ row.client_wallet # None
    /\ row.base_sha # None
    /\ Start(w, [Idle EXCEPT !.step = "assigning", !.loaded = row,
                             !.wallet = wallet, !.github = github])
    /\ UNCHANGED <<chainVars, row, has_submission, passes, releases>>

MatchesAssignment(loaded) ==
    /\ OnChain.client = loaded.client_wallet
    /\ OnChain.developer # None
    /\ OnChain.amount = TaskTerms.amount
    /\ OnChain.criteria_hash = TaskTerms.criteria_hash
    /\ OnChain.deadline = TaskTerms.deadline
    /\ OnChain.status = "Assigned"
    /\ OnChain.evidence_hash = None

\* Mutant of ReadAssignedBounty: the developer on chain is not compared.
ReadAssignedBountyOfAnyone(w) ==
    /\ At(w, "assigning")
    /\ MatchesAssignment(requests[w].loaded)
    /\ requests' = [requests EXCEPT ![w].step = "assigned"]
    /\ UNCHANGED <<chainVars, row, has_submission, passes, releases>>

\* The reads of Stellar.  The SEP-53 signature ties the GitHub name to the
\* wallet of the session, which may sign any name it likes.
ReadAssignedBounty(w) ==
    /\ At(w, "assigning")
    /\ MatchesAssignment(requests[w].loaded)
    /\ OnChain.developer = requests[w].wallet
    /\ requests' = [requests EXCEPT ![w].step = "assigned"]
    /\ UNCHANGED <<chainVars, row, has_submission, passes, releases>>

CommitAssignment(w) ==
    LET r == requests[w] IN
    /\ At(w, "assigned")
    /\ Flush(r.loaded, [r.loaded EXCEPT !.developer_wallet = r.wallet,
                                        !.developer_github = r.github,
                                        !.status = "ASSIGNED"])
    /\ Finish(w)
    /\ UNCHANGED <<chainVars, has_submission, passes, releases>>

-----------------------------------------------------------------------------
\* What GitHub shows of the pull request when it is inspected.  The developer
\* can push, the checks can run again and the pull request can be closed at any
\* time, so an inspection is any of these.  One that is closed, a draft or touches
\* protected files fails like one whose checks failed.
Inspection == [base_sha: BaseShas, author: Githubs, head_sha: Heads,
               checks: {"incomplete", "failed", "passed"}]

VerdictOfChecks == [incomplete |-> "PENDING", failed |-> "FAIL", passed |-> "PASS"]

\* Mutant of Verdict: the base commit is not compared.
VerdictOfAnyBase(i, loaded) ==
    IF i.author = loaded.developer_github THEN VerdictOfChecks[i.checks] ELSE "FAIL"

\* verify_pull_request (module GitHubVerifier has it in full): a structural
\* mismatch with the row fails whatever the checks say.
Verdict(i, loaded) ==
    IF i.base_sha = loaded.base_sha /\ i.author = loaded.developer_github
    THEN VerdictOfChecks[i.checks]
    ELSE "FAIL"

\* POST /submission: guards on the row and its submission.
RequestSubmission(w, wallet) ==
    /\ row.developer_wallet # None
    /\ row.developer_wallet = wallet
    /\ row.status = "ASSIGNED"
    /\ row.base_sha # None /\ row.developer_github # None
    /\ ~has_submission
    /\ Start(w, [Idle EXCEPT !.step = "submitting", !.loaded = row])
    /\ UNCHANGED <<chainVars, row, has_submission, passes, releases>>

\* The pull request is inspected without its checks; the INSERT violates
\* UNIQUE(bounty_id) when another request got there first.
CommitSubmission(w, inspection) ==
    LET r == requests[w] IN
    /\ At(w, "submitting")
    /\ inspection.checks = "incomplete"
    /\ Verdict(inspection, r.loaded) # "FAIL"
    /\ ~has_submission
    /\ has_submission' = TRUE
    /\ Flush(r.loaded, [r.loaded EXCEPT !.status = "SUBMITTED"])
    /\ Finish(w)
    /\ UNCHANGED <<chainVars, passes, releases>>

-----------------------------------------------------------------------------
\* _assert_ready_for_payout
ReadyForPayout ==
    /\ row.release_tx_hash = None
    /\ row.base_sha # None /\ row.developer_github # None

\* POST /verify up to the inspection of the pull request.
RequestVerification(w, wallet) ==
    /\ wallet \in {row.client_wallet, row.developer_wallet}
    /\ has_submission
    /\ row.status \in VERIFIABLE_STATUSES
    /\ ReadyForPayout
    /\ Start(w, [Idle EXCEPT !.step = "verifying", !.loaded = row])
    /\ UNCHANGED <<chainVars, row, has_submission, passes, releases>>

\* Mutants of BOUNTY_STATUS_BY_VERIFICATION: the verdict itself as the status;
\* a failed delivery asks for a new submission.
STATUS_IS_THE_VERDICT == [PASS |-> "PASS", FAIL |-> "FAIL", PENDING |-> "PENDING"]
FAIL_BACK_TO_ASSIGNED ==
    [PASS |-> "ELIGIBLE", FAIL |-> "ASSIGNED", PENDING |-> "VERIFYING"]

BOUNTY_STATUS_BY_VERIFICATION ==
    [PASS |-> "ELIGIBLE", FAIL |-> "NEEDS_CHANGES", PENDING |-> "VERIFYING"]

\* COMMIT #1: the verification's row and the status it means.  Only a PASS goes on.
CommitVerdict(w, inspection) ==
    LET r == requests[w]
        verdict == Verdict(inspection, r.loaded)
    IN
    /\ At(w, "verifying")
    /\ Flush(r.loaded,
             [r.loaded EXCEPT !.status = BOUNTY_STATUS_BY_VERIFICATION[verdict]])
    /\ IF verdict = "PASS"
       THEN /\ passes' = passes \cup {[base_sha |-> inspection.base_sha,
                                       developer_github |-> inspection.author,
                                       head_sha |-> inspection.head_sha]}
            /\ requests' = [requests EXCEPT ![w].step = "eligible",
                                            ![w].head = inspection.head_sha]
       ELSE Finish(w) /\ UNCHANGED passes
    /\ UNCHANGED <<chainVars, has_submission, releases>>

\* Mutant of ReloadForPayout: the head is asked again, not taken from the verdict.
ReloadForPayoutAtNewHead(w) ==
    /\ At(w, "eligible")
    /\ \E head \in Heads :
        requests' = [requests EXCEPT
            ![w].step = "releasing",
            ![w].loaded = row,
            ![w].evidence = [base_sha |-> row.base_sha,
                             developer_github |-> row.developer_github,
                             head_sha |-> head]]
    /\ UNCHANGED <<chainVars, row, has_submission, passes, releases>>

\* The commit expired the session's copy of the row: _release_payout reads it
\* again, and the evidence is made of what it finds.
ReloadForPayout(w) ==
    /\ At(w, "eligible")
    /\ requests' = [requests EXCEPT
            ![w].step = "releasing",
            ![w].loaded = row,
            ![w].evidence = [base_sha |-> row.base_sha,
                             developer_github |-> row.developer_github,
                             head_sha |-> requests[w].head]]
    /\ UNCHANGED <<chainVars, row, has_submission, passes, releases>>

\* StellarClient.release_bounty up to send_transaction.  prepare_transaction
\* simulates the call, so a bounty that cannot be released is found out here.
SendRelease(w) ==
    /\ At(w, "releasing")
    /\ Len(releases) < MaxReleases
    /\ OnChain.status = "Assigned" /\ now <= OnChain.deadline
    /\ releases' = Append(releases, [evidence |-> requests[w].evidence,
                                     outcome |-> "pending"])
    /\ requests' = [requests EXCEPT ![w].step = "polling",
                                    ![w].tx = Len(releases) + 1]
    /\ UNCHANGED <<chainVars, row, has_submission, passes>>

\* Mutant of CommitPayout: the answer is not waited for.
CommitPayoutUnconfirmed(w) ==
    LET r == requests[w] IN
    /\ At(w, "polling")
    /\ Flush(r.loaded, [r.loaded EXCEPT !.release_tx_hash = r.tx, !.status = "PAID"])
    /\ Finish(w)
    /\ UNCHANGED <<chainVars, has_submission, passes, releases>>

\* COMMIT #2, once poll_transaction has seen the transaction succeed.
CommitPayout(w) ==
    LET r == requests[w] IN
    /\ At(w, "polling")
    /\ releases[r.tx].outcome = "success"
    /\ Flush(r.loaded, [r.loaded EXCEPT !.release_tx_hash = r.tx, !.status = "PAID"])
    /\ Finish(w)
    /\ UNCHANGED <<chainVars, has_submission, passes, releases>>

\* The request ends without (further) effect: a guard on what was read fails,
\* GitHub or Stellar is unavailable, the poll times out, the commit fails or the
\* process dies.  A transaction already sent stays with the network.
Abandon(w) ==
    /\ requests[w].step # "idle"
    /\ Finish(w)
    /\ UNCHANGED <<chainVars, row, has_submission, passes, releases>>

-----------------------------------------------------------------------------
\* The network includes a release transaction in a ledger, where it succeeds or
\* fails by the contract's rules, or drops it when its time bounds expire.
LandRelease(tx) ==
    /\ releases[tx].outcome = "pending"
    /\ ReleaseBounty(Verifier, Task, releases[tx].evidence)
    /\ releases' = [releases EXCEPT ![tx].outcome = "success"]
    /\ UNCHANGED <<row, has_submission, passes, requests>>

RejectRelease(tx) ==
    /\ releases[tx].outcome = "pending"
    /\ OnChain.status # "Assigned" \/ now > OnChain.deadline
    /\ releases' = [releases EXCEPT ![tx].outcome = "failed"]
    /\ UNCHANGED <<chainVars, row, has_submission, passes, requests>>

ExpireRelease(tx) ==
    /\ releases[tx].outcome = "pending"
    /\ releases' = [releases EXCEPT ![tx].outcome = "expired"]
    /\ UNCHANGED <<chainVars, row, has_submission, passes, requests>>

\* Clients and developers call the contract from their own wallets, through the
\* web application or not; only the verifier's key stays with the API.
WalletStep ==
    /\ \/ CloseLedger
       \/ \E wallet \in Accounts :
            \/ \E amount \in Amounts, criteria \in CriteriaHashes, deadline \in Deadlines :
                    CreateBounty(Task, wallet, amount, criteria, deadline)
            \/ AcceptBounty(Task, wallet)
            \/ CancelOpenBounty(wallet, Task)
            \/ RefundExpired(wallet, Task)
    /\ UNCHANGED serviceVars

RequestStep(w) ==
    \/ \E wallet \in Accounts :
        \/ RequestFunding(w, wallet)
        \/ \E github \in Githubs : RequestAssignment(w, wallet, github)
        \/ RequestSubmission(w, wallet)
        \/ RequestVerification(w, wallet)
    \/ ReadFundedBounty(w)
    \/ \E sha \in BaseShas : CommitFunding(w, sha)
    \/ ReadAssignedBounty(w)
    \/ CommitAssignment(w)
    \/ \E inspection \in Inspection :
        CommitSubmission(w, inspection) \/ CommitVerdict(w, inspection)
    \/ ReloadForPayout(w)
    \/ SendRelease(w)
    \/ CommitPayout(w)
    \/ Abandon(w)

NetworkStep ==
    \E tx \in 1..Len(releases) :
        LandRelease(tx) \/ RejectRelease(tx) \/ ExpireRelease(tx)

ServiceNext ==
    \/ \E wallet \in Accounts : CreateTask(wallet)
    \/ \E w \in Workers : RequestStep(w)
    \/ NetworkStep
    \/ WalletStep

ServiceSpec == ServiceInit /\ [][ServiceNext]_vars

-----------------------------------------------------------------------------
\* A payout recorded in the database is one that happened: the recorded
\* transaction succeeded, the chain says Paid and anchors the evidence that
\* transaction carried.  PAID is only written together with the transaction.
RecordedPayoutHappened ==
    /\ row.status = "PAID" => row.release_tx_hash # None
    /\ row.release_tx_hash # None =>
            /\ releases[row.release_tx_hash].outcome = "success"
            /\ OnChain.status = "Paid"
            /\ OnChain.evidence_hash = releases[row.release_tx_hash].evidence

\* A task shown as funded, whatever happened since, has an escrow on chain that
\* was created by its client for exactly its terms, although any wallet may
\* create a bounty under its id with other terms before or during a request.
FundedTaskIsEscrowed ==
    row.status \notin {"absent", "DRAFT"} =>
        /\ OnChain.status # "Missing"
        /\ OnChain.client = row.client_wallet
        /\ OnChain.amount = TaskTerms.amount
        /\ OnChain.criteria_hash = TaskTerms.criteria_hash
        /\ OnChain.deadline = TaskTerms.deadline

\* The developer of a task is the one who accepted it on chain, and is never
\* its own client, who could accept on chain but not in MergePay.
DeveloperAcceptedOnChain ==
    row.developer_wallet # None =>
        /\ row.developer_wallet = OnChain.developer
        /\ row.developer_wallet # row.client_wallet

\* The contract never pays for a head commit that no stored verification
\* passed, even when the process dies between the verdict and the payout:
\* the PASS is committed before the release is sent.
PayoutBackedByPass ==
    OnChain.status = "Paid" =>
        \E p \in passes : p.head_sha = OnChain.evidence_hash.head_sha

\* Who takes part in a task and what paid for it is recorded once: neither the
\* client's nor the developer's wallet nor the payout's transaction is ever
\* replaced, by no stale confirmation and by no second release either.
RecordsAreNotReplaced ==
    [][/\ row.client_wallet # None => row'.client_wallet = row.client_wallet
       /\ row.developer_wallet # None =>
            row'.developer_wallet = row.developer_wallet
       /\ row.release_tx_hash # None =>
            row'.release_tx_hash = row.release_tx_hash]_vars

-----------------------------------------------------------------------------
(* What requests about one task can break when they overlap. *)

\* The order the code's documentation gives the statuses: DRAFT, OPEN_FUNDED,
\* ASSIGNED, SUBMITTED, then the verdicts of each verification, then PAID.
Lifecycle ==
    {<<"absent", "DRAFT">>, <<"DRAFT", "OPEN_FUNDED">>,
     <<"OPEN_FUNDED", "ASSIGNED">>, <<"ASSIGNED", "SUBMITTED">>,
     <<"ELIGIBLE", "PAID">>}
    \cup (VERIFIABLE_STATUSES \X (VERIFIABLE_STATUSES \ {"SUBMITTED"}))

\* A request whose copy of the row is not the row: another one wrote it since.
Stale(w) == requests[w].loaded # row

\* Nothing but a request that went stale takes a task off its lifecycle: a task
\* with a submission never goes back to a status that asks for one it would
\* refuse, and no verdict is written to a paid one.  Overlapping verifications
\* may disagree after one of them began to pay, so PAID may follow any status.
FreshRequestsFollowLifecycle ==
    [][row' # row =>
        \/ <<row.status, row'.status>> \in Lifecycle
        \/ row'.status = "PAID"
        \/ \E w \in Workers : requests'[w] # requests[w] /\ Stale(w)]_vars

\* What is paid for is exactly a delivery that passed, base commit, developer and
\* head commit, unless the base commit or the developer was written anew after
\* the verification had read them and before the payout read them again.
PaysWhatPassedUnlessRewritten ==
    [][\A w \in Workers :
        LET old == requests[w].loaded IN
        At(w, "eligible") /\ requests'[w].step = "releasing"
            /\ row.base_sha = old.base_sha /\ row.developer_github = old.developer_github
                => requests'[w].evidence \in passes]_vars

-----------------------------------------------------------------------------
(* What the documentation says and the code does not keep. *)

\* "FAIL leaves the task in NEEDS_CHANGES [...] and PENDING leaves it in
\* VERIFYING [...]. Neither state moves any funds."
NoFundsMovedUntilPass ==
    row.status \in {"NEEDS_CHANGES", "VERIFYING"} => OnChain.status # "Paid"

\* "**`evidence_hash`** is a 32-byte digest of the verified delivery [...] so every
\* paid bounty carries a commitment to the exact evidence that justified the
\* payment."  The evidence anchored on chain is a delivery that one verification
\* compared and passed.
EvidenceIsExact ==
    OnChain.status = "Paid" => OnChain.evidence_hash \in passes
==============================================================================
