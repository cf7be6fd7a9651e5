---------------------------- MODULE EvidencePanel ----------------------------
(***************************************************************************)
(* The "On-chain proof" of a task's page (OnChainEvidencePanel and          *)
(* GET /bounties/{id}/onchain), composed with the service and the contract  *)
(* of BountyService.                                                        *)
(*                                                                          *)
(* The page holds a copy of the task's row, the panel a copy of the bounty  *)
(* on chain.  They are read at different times, while row and contract go   *)
(* on, and then stand on one screen as the proof of what happened.  Nothing *)
(* is polled: the panel reads again when the status or the payout of the    *)
(* task it is given has changed, or on "Try again".                         *)
(***************************************************************************)
EXTENDS BountyService

CONSTANT MaxRetries     \* bound on "Try again"

ASSUME RetriesAssumption == MaxRetries \in Nat

VARIABLES
    page,       \* the task as the page has it; <<>> until it was read
    token,      \* how often "Try again" was pressed
    loaded,     \* the last answer the panel published
    reading     \* its request, if it was neither answered nor aborted

panelVars == <<page, token, loaded, reading>>
evidenceVars == <<vars, panelVars>>

-----------------------------------------------------------------------------
LOADING == [status |-> "loading"]
FAILED == [status |-> "error"]
Ready(value) == [status |-> "ready", value |-> value]

NoReading == [key |-> <<>>, onChain |-> LOADING]

\* What the panel uses of a row.  create_tx_hash is recorded by the commit that
\* records the base commit; the terms of a task never change.
TaskOf(r) == [status |-> r.status, client_wallet |-> r.client_wallet,
              developer_wallet |-> r.developer_wallet,
              funded |-> r.base_sha # None, release_tx_hash |-> r.release_tx_hash]

\* The panel is on the page once the funding is confirmed.
Mounted == page # <<>> /\ page.funded

\* Mutants of readKey: the status, or everything but "Try again", is left out.
readKeyOfPayout(task, t) == <<task.release_tx_hash, t>>
readKeyOfToken(task, t) == <<t>>

readKey(task, t) == <<task.status, task.release_tx_hash, t>>

\* The answer shown: one under another key does not count.
OnChainShown ==
    IF Mounted /\ loaded.key = readKey(page, token) THEN loaded.onChain ELSE LOADING

\* Mutant of ReadEffect: the effect runs when the panel appears, and then never again.
ReadEffectOnce ==
    reading' = IF Mounted \/ ~Mounted' THEN reading
               ELSE [key |-> readKey(page', token'), onChain |-> LOADING]

\* The effect of a render: another key aborts the request and asks again.
ReadEffect ==
    reading' = IF ~Mounted' \/ (Mounted /\ readKey(page', token') = readKey(page, token))
               THEN reading
               ELSE [key |-> readKey(page', token'), onChain |-> LOADING]

-----------------------------------------------------------------------------
EvidenceInit ==
    /\ ServiceInit
    /\ page = <<>>
    /\ token = 0
    /\ loaded = NoReading
    /\ reading = NoReading

\* The page reads the task, and reads it again after what is done there.  (Reads
\* of the page that cross: see TaskPage.)
PublishTask ==
    /\ row.status # "absent"
    /\ page' = TaskOf(row)
    /\ page' # page
    /\ UNCHANGED <<token, loaded>>
    /\ ReadEffect

\* GET /onchain: read_onchain_bounty answers what get_bounty found.
ServeReading ==
    /\ reading # NoReading /\ reading.onChain = LOADING
    /\ row.base_sha # None /\ OnChain.status # "Missing"
    /\ reading' = [reading EXCEPT !.onChain = Ready(OnChain)]
    /\ UNCHANGED <<page, token, loaded>>

\* setLoaded, with the answer or, when there is none, with an error.
PublishReading ==
    /\ reading # NoReading
    /\ \E onChain \in {reading.onChain, FAILED} \ {LOADING} :
            loaded' = [reading EXCEPT !.onChain = onChain]
    /\ reading' = NoReading
    /\ UNCHANGED <<page, token>>

\* "Try again"
RetryReading ==
    /\ OnChainShown = FAILED
    /\ token < MaxRetries
    /\ token' = token + 1
    /\ UNCHANGED <<page, loaded>>
    /\ ReadEffect

PanelStep == PublishTask \/ ServeReading \/ PublishReading \/ RetryReading

EvidenceNext ==
    \/ ServiceNext /\ UNCHANGED panelVars
    \/ PanelStep /\ UNCHANGED vars

\* A request is answered or fails.  Nothing else has to happen.
EvidenceSpec ==
    /\ EvidenceInit
    /\ [][EvidenceNext]_evidenceVars
    /\ WF_evidenceVars(PublishReading /\ UNCHANGED vars)

-----------------------------------------------------------------------------
(* What the two copies are made into. *)

\* "Criteria commitment": "Matches MergePay task", or "MISMATCH".
criteriaMatches(onChain) == onChain.criteria_hash = TaskTerms.criteria_hash

\* "Evidence commitment": what is "Anchored on Stellar", if anything is.
Anchored(onChain) == onChain.evidence_hash

released(onChain) == onChain.status = "Paid" /\ page.release_tx_hash # None

\* "Reward secured", "Terms committed", "Developer assigned", "Code verified"
\* and "Reward released".
steps(onChain) ==
    <<page.funded, onChain.criteria_hash # None, onChain.developer # None,
      Anchored(onChain) # None, released(onChain)>>

\* "Settlement independently verifiable"
SettlementHero(onChain) == page.status = "PAID" /\ released(onChain)

\* Mutant of ConsistencyChecks: the developer is compared before there is one.
ConsistencyChecksOfEveryone(onChain) ==
    [Amount |-> onChain.amount = TaskTerms.amount,
     Client |-> onChain.client = page.client_wallet,
     Developer |-> onChain.developer = page.developer_wallet,
     Criteria |-> criteriaMatches(onChain),
     Deadline |-> onChain.deadline = TaskTerms.deadline]

\* The rows of "Task <-> contract"; the developer's is there if the task has one.
ConsistencyChecks(onChain) ==
    [Amount |-> onChain.amount = TaskTerms.amount,
     Client |-> onChain.client = page.client_wallet,
     Developer |-> page.developer_wallet # None =>
                        onChain.developer = page.developer_wallet,
     Criteria |-> criteriaMatches(onChain),
     Deadline |-> onChain.deadline = TaskTerms.deadline]

-----------------------------------------------------------------------------
EvidenceTypeOK ==
    /\ ServiceTypeOK
    /\ page = <<>> \/ page \in [status: RowStatuses,
                                client_wallet: Accounts \cup {None},
                                developer_wallet: Accounts \cup {None},
                                funded: BOOLEAN,
                                release_tx_hash: (1..MaxReleases) \cup {None}]
    /\ token \in 0..MaxRetries
    /\ \A answer \in {loaded.onChain, reading.onChain} \ {LOADING, FAILED} :
            answer \in [status: {"ready"}, value: Bounty]
    /\ reading # NoReading => Mounted /\ reading.key = readKey(page, token)

\* A task shown as paid is shown with its proof: whatever the panel has read by
\* then, the settlement is declared verifiable, every step of the proof flow is
\* confirmed and the evidence on the screen is for a head commit that passed.  A
\* reading from before the payout is never shown beside PAID.
SettlementIsProved ==
    OnChainShown.status = "ready" /\ page.status = "PAID" =>
        /\ SettlementHero(OnChainShown.value)
        /\ \A i \in 1..5 : steps(OnChainShown.value)[i]
        /\ \E p \in passes : p.head_sha = Anchored(OnChainShown.value).head_sha

\* The status of a task before it has a developer.
EarlyStatuses == {"absent", "DRAFT", "OPEN_FUNDED"}

\* A stale confirmation of the funding wrote its status over an assignment.
StatusWrittenBack == page.status \in EarlyStatuses /\ page.developer_wallet # None

\* The panel never accuses an honest task: although the page's copy and the
\* contract's are of different moments, no field is shown as a mismatch.  The one
\* exception is the developer of a task whose status was written back: the panel
\* reads again when the status changes, and this one came back to what it was.
NoFalseMismatch ==
    OnChainShown.status = "ready" =>
        LET checks == ConsistencyChecks(OnChainShown.value) IN
        \A field \in DOMAIN checks :
            checks[field] \/ (field = "Developer" /\ StatusWrittenBack)

\* The panel does not load for ever: "loading" is derived from two keys that have
\* to meet again, unless the task it is given keeps changing.
EvidenceSettles ==
    []<>(Mounted => OnChainShown # LOADING) \/ []<><<TRUE>>_page
==============================================================================
