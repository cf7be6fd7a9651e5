--------------------------- MODULE EvidenceProofs ---------------------------
(***************************************************************************)
(* Proofs about the status of a task, the evidence that is paid for and the *)
(* page that shows both, for any wallets, GitHub users, commits, releases,  *)
(* retries and workers, whose requests overlap as they may: nothing is      *)
(* assumed of their order.                                                  *)
(***************************************************************************)
EXTENDS EvidencePanel, ServiceProofs

-----------------------------------------------------------------------------
(* What a request relies on although the row may be written meanwhile. *)

\* The delivery of a copy of the row, at a head commit.
Delivery(aRow, head) ==
    [base_sha |-> aRow.base_sha, developer_github |-> aRow.developer_github,
     head_sha |-> head]

\* What a request found in its own copy decides what it is going to write, and
\* a request about a delivery is about a task that keeps its developer.
Informed(r, aRow, passed) ==
    /\ r.step \in {"assigning", "assigned"} =>
            /\ r.loaded.status = "OPEN_FUNDED"
            /\ r.loaded.developer_wallet # None => aRow.developer_wallet # None
    /\ r.step = "submitting" => r.loaded.status = "ASSIGNED"
    /\ r.step = "verifying" => r.loaded.status \in VERIFIABLE_STATUSES
    /\ r.step = "eligible" => Delivery(r.loaded, r.head) \in passed
    /\ r.step \in {"submitting", "verifying", "eligible", "releasing", "polling"} =>
            aRow.developer_wallet # None

\* A status that needs a developer has one.
HasDeveloper(aRow) == aRow.status \notin EarlyStatuses => aRow.developer_wallet # None

OverlapInv ==
    /\ \A w \in Workers : Informed(requests[w], row, passes)
    /\ HasDeveloper(row)

LEMMA InformationLasts ==
  ASSUME NEW r, NEW a, NEW b, NEW P, NEW Q,
         a.developer_wallet # None => b.developer_wallet # None,
         P \subseteq Q, Informed(r, a, P)
  PROVE  Informed(r, b, Q)
BY DEF Informed

\* A flush of a session that is up to date writes what the session has.
LEMMA FlushOfCurrent ==
  ASSUME row \in Row, NEW mine \in Row, Flush(row, mine)
  PROVE  row' = mine
<1>1. mine = [status |-> mine.status, client_wallet |-> mine.client_wallet,
              developer_wallet |-> mine.developer_wallet,
              developer_github |-> mine.developer_github,
              base_sha |-> mine.base_sha, release_tx_hash |-> mine.release_tx_hash]
  BY DEF Row
<1>2. QED
  BY <1>1 DEF Flush

\* Nothing is claimed of a worker without a request.
LEMMA IdleInformed ==
  ASSUME NEW aRow, NEW passed
  PROVE  Informed(Idle, aRow, passed)
BY DEF Informed, Idle

GoesOn(w) ==
    /\ Informed(requests'[w], row', passes')
    /\ HasDeveloper(row')
    /\ row' # row /\ ~Stale(w) =>
            <<row.status, row'.status>> \in Lifecycle \/ row'.status = "PAID"

\* Each step of a request leaves it informed for its next one, and takes the task
\* off its lifecycle only if the request is stale.
LEMMA StepsGoOn ==
  ASSUME ServiceInv, OverlapInv, NEW w \in Workers, RequestStep(w)
  PROVE  GoesOn(w)
<1> DEFINE r == requests[w]
<1>t. /\ row \in Row /\ requests \in [Workers -> Request] /\ r \in Request
      /\ r.loaded \in Row /\ None \notin Accounts
  BY AddressesAssumption DEF ServiceInv, ServiceTypeOK, Request
<1>k. /\ Known(r, row, OnChain, passes, Len(releases))
      /\ Informed(r, row, passes) /\ HasDeveloper(row)
  BY DEF ServiceInv, RequestsInv, OverlapInv
<1>s. Stale(w) <=> r.loaded # row
  BY DEF Stale
<1>f. Finish(w) => requests'[w] = Idle
  BY <1>t DEF Finish
<1>n. ASSUME row' = row, Informed(requests'[w], row, passes')
      PROVE  GoesOn(w)
  BY <1>k, <1>n DEF GoesOn
<1>d. ASSUME r.step \in {"submitting", "verifying", "polling"}, NEW mine \in Row,
             Flush(r.loaded, mine), mine.developer_wallet = r.loaded.developer_wallet
      PROVE  HasDeveloper(row') /\ row'.developer_wallet # None
  <2>1. row.developer_wallet # None
    BY <1>k, <1>d DEF Informed
  <2>2. row'.developer_wallet = row.developer_wallet
    BY <1>d DEF Flush
  <2>3. QED
    BY <2>1, <2>2 DEF HasDeveloper
<1>c. ASSUME NEW mine \in Row, Flush(r.loaded, mine), ~Stale(w)
      PROVE  r.loaded = row /\ row' = mine
  BY <1>t, <1>s, <1>c, FlushOfCurrent
<1>1. ASSUME NEW wallet \in Accounts, RequestFunding(w, wallet)
      PROVE  GoesOn(w)
  <2>1. requests'[w] = [Idle EXCEPT !.step = "funding", !.loaded = row, !.wallet = wallet]
    BY <1>t, <1>1 DEF RequestFunding, Start
  <2>2. QED
    BY <1>n, <1>1, <2>1 DEF RequestFunding, Informed, Idle
<1>2. ASSUME NEW wallet \in Accounts, NEW github \in Githubs,
             RequestAssignment(w, wallet, github)
      PROVE  GoesOn(w)
  <2>1. requests'[w] = [Idle EXCEPT !.step = "assigning", !.loaded = row,
                                    !.wallet = wallet, !.github = github]
    BY <1>t, <1>2 DEF RequestAssignment, Start
  <2>2. QED
    BY <1>n, <1>2, <2>1 DEF RequestAssignment, Informed, Idle
<1>3. ASSUME NEW wallet \in Accounts, RequestSubmission(w, wallet)
      PROVE  GoesOn(w)
  <2>1. requests'[w] = [Idle EXCEPT !.step = "submitting", !.loaded = row]
    BY <1>t, <1>3 DEF RequestSubmission, Start
  <2>2. QED
    BY <1>n, <1>3, <2>1 DEF RequestSubmission, Informed, Idle
<1>4. ASSUME NEW wallet \in Accounts, RequestVerification(w, wallet)
      PROVE  GoesOn(w)
  <2>1. requests'[w] = [Idle EXCEPT !.step = "verifying", !.loaded = row]
    BY <1>t, <1>4 DEF RequestVerification, Start
  <2>2. row.status \in VERIFIABLE_STATUSES /\ row.developer_wallet # None
    BY <1>k, <1>4
       DEF RequestVerification, HasDeveloper, EarlyStatuses, VERIFIABLE_STATUSES
  <2>3. QED
    BY <1>n, <1>4, <2>1, <2>2 DEF RequestVerification, Informed, Idle
<1>5. CASE ReadFundedBounty(w)
  <2>1. requests'[w] = [r EXCEPT !.step = "funded"]
    BY <1>t, <1>5 DEF ReadFundedBounty
  <2>2. QED
    BY <1>t, <1>n, <1>5, <2>1 DEF ReadFundedBounty, Informed, Request
<1>6. CASE ReadAssignedBounty(w)
  <2>1. requests'[w] = [r EXCEPT !.step = "assigned"] /\ r.step = "assigning"
    BY <1>t, <1>6 DEF ReadAssignedBounty, At
  <2>2. QED
    BY <1>t, <1>k, <1>n, <1>6, <2>1 DEF ReadAssignedBounty, Informed, Request
<1>7. ASSUME NEW sha \in BaseShas, CommitFunding(w, sha)
      PROVE  GoesOn(w)
  <2> DEFINE mine == [r.loaded EXCEPT !.client_wallet = r.wallet, !.base_sha = sha,
                                      !.status = "OPEN_FUNDED"]
  <2>1. r.step = "funded" /\ r.loaded.status = "DRAFT" /\ r.wallet \in Accounts
    BY <1>t, <1>k, <1>7 DEF CommitFunding, At, Known, FundingKnown
  <2>2. mine \in Row /\ mine.status = "OPEN_FUNDED"
    BY <1>t, <2>1 DEF Row, RowStatuses
  <2>3. Finish(w) /\ Flush(r.loaded, mine)
    BY <1>7 DEF CommitFunding
  <2> HIDE DEF mine
  <2>4. row'.status = "OPEN_FUNDED"
    BY <2>1, <2>2, <2>3 DEF Flush
  <2>5. ~Stale(w) => <<row.status, row'.status>> \in Lifecycle
    BY <1>c, <2>1, <2>2, <2>3, <2>4 DEF Lifecycle
  <2>6. QED
    BY <1>f, <2>3, <2>4, <2>5, IdleInformed DEF GoesOn, HasDeveloper, EarlyStatuses
<1>8. CASE CommitAssignment(w)
  <2> DEFINE mine == [r.loaded EXCEPT !.developer_wallet = r.wallet,
                                      !.developer_github = r.github,
                                      !.status = "ASSIGNED"]
  <2>1. /\ r.step = "assigned" /\ r.loaded.status = "OPEN_FUNDED"
        /\ r.wallet \in Accounts /\ r.github \in Githubs
        /\ r.loaded.developer_wallet # None => row.developer_wallet # None
    BY <1>k, <1>8 DEF CommitAssignment, At, Informed, Known, AssignmentKnown
  <2>2. mine \in Row /\ mine.status = "ASSIGNED" /\ mine.developer_wallet = r.wallet
    BY <1>t, <2>1 DEF Row, RowStatuses
  <2>3. Finish(w) /\ Flush(r.loaded, mine)
    BY <1>8 DEF CommitAssignment
  <2> HIDE DEF mine
  <2>4. row'.developer_wallet # None
    BY <1>t, <2>1, <2>2, <2>3 DEF Flush
  <2>5. ~Stale(w) => <<row.status, row'.status>> \in Lifecycle
    BY <1>c, <2>1, <2>2, <2>3 DEF Lifecycle
  <2>6. QED
    BY <1>f, <2>3, <2>4, <2>5, IdleInformed DEF GoesOn, HasDeveloper
<1>9. ASSUME NEW inspection \in Inspection, CommitSubmission(w, inspection)
      PROVE  GoesOn(w)
  <2> DEFINE mine == [r.loaded EXCEPT !.status = "SUBMITTED"]
  <2>1. r.step = "submitting" /\ r.loaded.status = "ASSIGNED"
    BY <1>k, <1>9 DEF CommitSubmission, At, Informed
  <2>2. /\ mine \in Row /\ mine.status = "SUBMITTED"
        /\ mine.developer_wallet = r.loaded.developer_wallet
    BY <1>t DEF Row, RowStatuses, VERIFIABLE_STATUSES
  <2>3. Finish(w) /\ Flush(r.loaded, mine)
    BY <1>9 DEF CommitSubmission
  <2> HIDE DEF mine
  <2>4. HasDeveloper(row')
    BY <1>d, <2>1, <2>2, <2>3
  <2>5. ~Stale(w) => <<row.status, row'.status>> \in Lifecycle
    BY <1>c, <2>1, <2>2, <2>3 DEF Lifecycle
  <2>6. QED
    BY <1>f, <2>3, <2>4, <2>5, IdleInformed DEF GoesOn
<1>10. ASSUME NEW inspection \in Inspection, CommitVerdict(w, inspection)
       PROVE  GoesOn(w)
  <2> DEFINE verdict == Verdict(inspection, r.loaded)
             status == BOUNTY_STATUS_BY_VERIFICATION[verdict]
             mine == [r.loaded EXCEPT !.status = status]
             pass == [base_sha |-> inspection.base_sha,
                      developer_github |-> inspection.author,
                      head_sha |-> inspection.head_sha]
  <2>1. r.step = "verifying" /\ r.loaded.status \in VERIFIABLE_STATUSES
    BY <1>k, <1>10 DEF CommitVerdict, At, Informed
  <2>2. /\ verdict \in {"PASS", "FAIL", "PENDING"}
        /\ verdict = "PASS" => /\ inspection.base_sha = r.loaded.base_sha
                               /\ inspection.author = r.loaded.developer_github
    BY <1>10 DEF Verdict, VerdictOfChecks, Inspection
  <2>3. status \in VERIFIABLE_STATUSES \ {"SUBMITTED"}
    BY <2>2 DEF BOUNTY_STATUS_BY_VERIFICATION, VERIFIABLE_STATUSES
  <2>4. Flush(r.loaded, mine)
    BY <1>10 DEF CommitVerdict
  <2>5. verdict = "PASS" =>
            /\ passes' = passes \cup {pass}
            /\ requests'[w] = [r EXCEPT !.step = "eligible", !.head = inspection.head_sha]
    BY <1>t, <1>10 DEF CommitVerdict
  <2>6. verdict # "PASS" => requests'[w] = Idle
    BY <1>f, <1>10 DEF CommitVerdict
  <2> HIDE DEF status, verdict
  <2>7. /\ mine \in Row /\ mine.status = status
        /\ mine.developer_wallet = r.loaded.developer_wallet
    BY <1>t, <2>3 DEF Row, RowStatuses
  <2> HIDE DEF mine
  <2>8. HasDeveloper(row') /\ row'.developer_wallet # None
    BY <1>d, <2>1, <2>4, <2>7
  <2>9. ~Stale(w) => <<row.status, row'.status>> \in Lifecycle
    BY <1>c, <2>1, <2>3, <2>4, <2>7 DEF Lifecycle
  <2>10. Informed(requests'[w], row', passes')
    <3>1. CASE verdict = "PASS"
      <4>1. /\ requests'[w].step = "eligible" /\ requests'[w].head = inspection.head_sha
            /\ requests'[w].loaded = r.loaded
        BY <1>t, <2>5, <3>1 DEF Request
      <4>2. Delivery(requests'[w].loaded, requests'[w].head) = pass
        BY <2>2, <3>1, <4>1 DEF Delivery
      <4>3. QED
        BY <2>5, <2>8, <3>1, <4>1, <4>2 DEF Informed
    <3>2. CASE verdict # "PASS"
      BY <2>6, <3>2, IdleInformed
    <3>3. QED
      BY <3>1, <3>2
  <2>11. QED
    BY <2>8, <2>9, <2>10 DEF GoesOn
<1>11. CASE ReloadForPayout(w)
  <2>1. row.developer_wallet # None
    BY <1>k, <1>11 DEF ReloadForPayout, At, Informed
  <2>2. requests'[w].step = "releasing" /\ row' = row
    BY <1>t, <1>11 DEF ReloadForPayout, Request
  <2>3. QED
    BY <1>n, <2>1, <2>2 DEF Informed
<1>12. CASE SendRelease(w)
  <2>1. /\ requests'[w] = [r EXCEPT !.step = "polling", !.tx = Len(releases) + 1]
        /\ r.step = "releasing"
    BY <1>t, <1>12 DEF SendRelease, At
  <2>2. QED
    BY <1>t, <1>k, <1>n, <1>12, <2>1 DEF SendRelease, Informed, Request
<1>13. CASE CommitPayout(w)
  <2> DEFINE mine == [r.loaded EXCEPT !.release_tx_hash = r.tx, !.status = "PAID"]
  <2>1. r.step = "polling" /\ r.tx \in 1..MaxReleases
    BY <1>t, <1>k, <1>13, TaskAssumption
       DEF CommitPayout, At, Known, DeliveryKnown, ServiceInv, ServiceTypeOK
  <2>2. /\ mine \in Row /\ mine.status = "PAID"
        /\ mine.developer_wallet = r.loaded.developer_wallet
    BY <1>t, <2>1 DEF Row, RowStatuses
  <2>3. Finish(w) /\ Flush(r.loaded, mine)
    BY <1>13 DEF CommitPayout
  <2> HIDE DEF mine
  <2>4. HasDeveloper(row')
    BY <1>d, <2>1, <2>2, <2>3
  <2>5. ~Stale(w) => row'.status = "PAID"
    BY <1>c, <2>2, <2>3
  <2>6. QED
    BY <1>f, <2>3, <2>4, <2>5, IdleInformed DEF GoesOn
<1>14. CASE Abandon(w)
  BY <1>f, <1>n, <1>14, IdleInformed DEF Abandon
<1>15. QED
  BY <1>1, <1>2, <1>3, <1>4, <1>5, <1>6, <1>7, <1>8, <1>9, <1>10, <1>11, <1>12,
     <1>13, <1>14 DEF RequestStep

\* Requests stay informed and a status that needs a developer keeps one, however
\* the requests overlap.
LEMMA OverlapStaysTrue ==
  ServiceInv /\ OverlapInv /\ [ServiceNext]_vars => OverlapInv'
<1> SUFFICES ASSUME ServiceInv, OverlapInv, [ServiceNext]_vars
             PROVE  OverlapInv'
  OBVIOUS
<1>k. (\A w \in Workers : Informed(requests[w], row, passes)) /\ HasDeveloper(row)
  BY DEF OverlapInv
<1>1. ASSUME NEW w \in Workers, RequestStep(w)
      PROVE  OverlapInv'
  <2>1. GoesOn(w)
    BY <1>1, StepsGoOn
  <2>2. /\ passes \subseteq passes' /\ \A v \in Workers \ {w} : requests'[v] = requests[v]
        /\ row.developer_wallet # None => row'.developer_wallet # None
    BY <1>1, StepsAdvance DEF Advances, RowGrows
  <2>3. ASSUME NEW v \in Workers
        PROVE  Informed(requests'[v], row', passes')
    <3>1. CASE v = w
      BY <2>1, <3>1 DEF GoesOn
    <3>2. CASE v # w
      <4>1. Informed(requests[v], row', passes')
        BY <1>k, <2>2, InformationLasts
      <4>2. QED
        BY <2>2, <3>2, <4>1
    <3>3. QED
      BY <3>1, <3>2
  <2>4. QED
    BY <2>1, <2>3 DEF OverlapInv, GoesOn
<1>2. ASSUME NEW wallet \in Accounts, CreateTask(wallet)
      PROVE  OverlapInv'
  <2>1. \A w \in Workers : requests[w].step = "idle"
    BY <1>2 DEF ServiceInv, RequestsInv, Known, LoadKnown, CreateTask
  <2>2. \A w \in Workers : Informed(requests'[w], row', passes')
    BY <1>2, <2>1 DEF CreateTask, Informed
  <2>3. row'.status = "DRAFT"
    BY <1>2 DEF CreateTask, NoRow
  <2>4. QED
    BY <2>2, <2>3 DEF OverlapInv, HasDeveloper, EarlyStatuses
<1>3. CASE NetworkStep \/ WalletStep \/ UNCHANGED vars
  <2>1. row' = row /\ passes' = passes /\ requests' = requests
    BY <1>3 DEF NetworkStep, LandRelease, RejectRelease, ExpireRelease, WalletStep,
                serviceVars, vars
  <2>2. QED
    BY <1>k, <2>1 DEF OverlapInv
<1>4. QED
  BY <1>1, <1>2, <1>3 DEF ServiceNext

\* At the start no request runs and there is no developer.
LEMMA OverlapStarts == ServiceInit => OverlapInv
<1> SUFFICES ASSUME ServiceInit
             PROVE  OverlapInv
  OBVIOUS
<1>1. \A w \in Workers : Informed(requests[w], row, passes)
  BY IdleInformed DEF ServiceInit
<1>2. HasDeveloper(row)
  BY DEF ServiceInit, HasDeveloper, EarlyStatuses, LegacyDraft, NoRow
<1>3. QED
  BY <1>1, <1>2 DEF OverlapInv

\* Every run of the service keeps all of this.
LEMMA OverlapHolds == ServiceSpec => [](ServiceInv /\ OverlapInv)
BY ServiceStartsTrue, ServiceStaysTrue, OverlapStarts, OverlapStaysTrue, PTL
   DEF ServiceSpec

-----------------------------------------------------------------------------
(* What overlapping requests cannot break. *)

\* A request that is not stale writes what the lifecycle allows from the status
\* that the row has.
LEMMA FreshRequestsKeepOrder ==
  ASSUME ServiceInv, OverlapInv, ServiceNext, row' # row
  PROVE  \/ <<row.status, row'.status>> \in Lifecycle
         \/ row'.status = "PAID"
         \/ \E w \in Workers : requests'[w] # requests[w] /\ Stale(w)
<1>1. ASSUME NEW w \in Workers, RequestStep(w), Stale(w)
      PROVE  requests'[w] # requests[w]
  <2>1. requests \in [Workers -> Request]
    BY DEF ServiceInv, ServiceTypeOK
  <2>2. Finish(w) => requests'[w].step = "idle"
    BY <2>1 DEF Finish, Idle
  <2>3. ASSUME \/ CommitAssignment(w) \/ CommitPayout(w)
               \/ \E sha \in BaseShas : CommitFunding(w, sha)
               \/ \E inspection \in Inspection : CommitSubmission(w, inspection)
        PROVE  requests'[w] # requests[w]
    BY <2>2, <2>3
       DEF CommitAssignment, CommitPayout, CommitFunding, CommitSubmission, At
  <2>4. ASSUME NEW inspection \in Inspection, CommitVerdict(w, inspection)
        PROVE  requests'[w] # requests[w]
    <3>1. requests'[w].step \in {"eligible", "idle"} /\ requests[w].step = "verifying"
      BY <2>1, <2>2, <2>4 DEF CommitVerdict, At, Request
    <3>2. QED
      BY <3>1
  <2>5. QED
    BY <1>1, <2>3, <2>4
       DEF RequestStep, RequestFunding, RequestAssignment, RequestSubmission,
           RequestVerification, ReadFundedBounty, ReadAssignedBounty, ReloadForPayout,
           SendRelease, Abandon
<1>2. ASSUME NEW w \in Workers, RequestStep(w)
      PROVE  \/ <<row.status, row'.status>> \in Lifecycle
             \/ row'.status = "PAID"
             \/ \E v \in Workers : requests'[v] # requests[v] /\ Stale(v)
  <2>1. GoesOn(w)
    BY <1>2, StepsGoOn
  <2>2. QED
    BY <1>1, <1>2, <2>1 DEF GoesOn
<1>3. ASSUME NEW wallet \in Accounts, CreateTask(wallet)
      PROVE  <<row.status, row'.status>> \in Lifecycle
  <2>1. row.status = "absent" /\ row'.status = "DRAFT"
    BY <1>3 DEF CreateTask, NoRow
  <2>2. QED
    BY <2>1 DEF Lifecycle
<1>4. NetworkStep \/ WalletStep => row' = row
  BY DEF NetworkStep, LandRelease, RejectRelease, ExpireRelease, WalletStep, serviceVars
<1>5. QED
  BY <1>2, <1>3, <1>4 DEF ServiceNext

\* However requests overlap, a task leaves its lifecycle only by the hand of one
\* whose copy of the row was stale when it wrote: the guards that each handler puts
\* to the copy it reads are enough for all the others.
THEOREM LifecycleIsFollowed == ServiceSpec => FreshRequestsFollowLifecycle
<1>1. ServiceInv /\ OverlapInv /\ [ServiceNext]_vars =>
        [row' # row => \/ <<row.status, row'.status>> \in Lifecycle
                       \/ row'.status = "PAID"
                       \/ \E w \in Workers : requests'[w] # requests[w] /\ Stale(w)]_vars
  BY FreshRequestsKeepOrder
<1>2. QED
  BY <1>1, OverlapHolds, PTL DEF ServiceSpec, FreshRequestsFollowLifecycle

\* However verifications, confirmations and payouts overlap, what a payout takes
\* for its evidence is a delivery that passed as it is, unless the base commit or
\* the developer in the row is no longer the one its verification had compared.
THEOREM PaidEvidencePassed == ServiceSpec => PaysWhatPassedUnlessRewritten
<1> DEFINE Pays(w) ==
        LET old == requests[w].loaded IN
        At(w, "eligible") /\ requests'[w].step = "releasing"
            /\ row.base_sha = old.base_sha /\ row.developer_github = old.developer_github
                => requests'[w].evidence \in passes
<1>1. ASSUME ServiceInv, OverlapInv, ServiceNext, NEW w \in Workers,
             At(w, "eligible"), requests'[w].step = "releasing",
             row.base_sha = requests[w].loaded.base_sha,
             row.developer_github = requests[w].loaded.developer_github
      PROVE  requests'[w].evidence \in passes
  <2>1. requests \in [Workers -> Request] /\ Informed(requests[w], row, passes)
    BY <1>1 DEF ServiceInv, ServiceTypeOK, OverlapInv
  <2>2. ReloadForPayout(w)
    <3>1. requests'[w] # requests[w]
      BY <1>1 DEF At
    <3>2. PICK v \in Workers : RequestStep(v)
      BY <1>1, <3>1 DEF ServiceNext, CreateTask, NetworkStep, LandRelease, RejectRelease,
                        ExpireRelease, WalletStep, serviceVars
    <3>3. v = w
      BY <1>1, <3>1, <3>2, StepsAdvance DEF Advances
    <3>4. Abandon(w) => requests'[w].step = "idle"
      BY <2>1 DEF Abandon, Finish, Idle
    <3>5. QED
      BY <1>1, <3>2, <3>3, <3>4
         DEF RequestStep, RequestFunding, RequestAssignment, RequestSubmission,
             RequestVerification, Start, ReadFundedBounty, CommitFunding,
             ReadAssignedBounty, CommitAssignment, CommitSubmission, CommitVerdict,
             SendRelease, CommitPayout, At
  <2>3. requests'[w].evidence = [base_sha |-> row.base_sha,
                                 developer_github |-> row.developer_github,
                                 head_sha |-> requests[w].head]
    BY <2>1, <2>2 DEF ReloadForPayout, Request
  <2>4. Delivery(requests[w].loaded, requests[w].head) \in passes
    BY <1>1, <2>1 DEF At, Informed
  <2>5. requests'[w].evidence = Delivery(requests[w].loaded, requests[w].head)
    BY <1>1, <2>3 DEF Delivery
  <2>6. QED
    BY <2>4, <2>5
<1>2. ServiceInv /\ OverlapInv /\ [ServiceNext]_vars => [\A w \in Workers : Pays(w)]_vars
  BY <1>1
<1>3. QED
  BY <1>2, OverlapHolds, PTL DEF ServiceSpec, PaysWhatPassedUnlessRewritten

-----------------------------------------------------------------------------
(* The page's copy of the row and the panel's copy of the chain. *)

\* What a page that was read earlier still says truly of row and chain.
PageTrue(task, base_sha, onChain) ==
    task # <<>> =>
        /\ task.funded => base_sha # None /\ EscrowedBy(task.client_wallet, onChain)
        /\ task.status = "PAID" => task.release_tx_hash # None
        /\ task.release_tx_hash # None => onChain.status = "Paid"
        /\ task.developer_wallet # None =>
                onChain.status # "Missing" /\ task.developer_wallet = onChain.developer

\* What an answer that was read earlier still says truly of the chain.  One that
\* was asked for under a payout is what the chain says for good.
AnswerTrue(a, onChain) ==
    a.onChain.status = "ready" =>
        /\ a.onChain.value \in Bounty
        /\ onChain.status # "Missing"
        /\ EscrowedBy(onChain.client, a.onChain.value)
        /\ a.key[2] # None => onChain.status = "Paid" /\ a.onChain.value = onChain

\* An answer that was asked for under a status with a developer has that developer.
AnswerHasDeveloper(a, onChain) ==
    a.onChain.status = "ready" /\ a.key[1] \notin EarlyStatuses =>
        /\ onChain.developer # None
        /\ a.onChain.value.developer = onChain.developer

\* Both last whatever becomes of the bounty.
LEMMA AnswersLast ==
  ASSUME NEW a, NEW c, NEW d, ChainGrows(c, d), AnswerTrue(a, c)
  PROVE  AnswerTrue(a, d) /\ (AnswerHasDeveloper(a, c) => AnswerHasDeveloper(a, d))
BY DEF AnswerTrue, AnswerHasDeveloper, ChainGrows, Terms, EscrowedBy

PageType == [status: RowStatuses, client_wallet: Accounts \cup {None},
             developer_wallet: Accounts \cup {None}, funded: BOOLEAN,
             release_tx_hash: (1..MaxReleases) \cup {None}]

IsAnswer(a) ==
    /\ a = [key |-> a.key, onChain |-> a.onChain]
    /\ a.onChain \notin {LOADING, FAILED} => a.onChain \in [status: {"ready"}, value: Bounty]

PanelTypes ==
    /\ page = <<>> \/ page \in PageType
    /\ token \in 0..MaxRetries
    /\ IsAnswer(loaded) /\ IsAnswer(reading)
    /\ reading # NoReading => Mounted /\ reading.key = readKey(page, token)

PanelInv ==
    /\ PanelTypes
    /\ PageTrue(page, row.base_sha, OnChain)
    /\ AnswerTrue(loaded, OnChain) /\ AnswerTrue(reading, OnChain)

\* A task with a base commit is past its draft.
BaseOfFunded == row.base_sha # None => PastDraft(row)

EvidenceInv == ServiceInv /\ BaseOfFunded /\ PanelInv

DeveloperShownInv ==
    /\ page # <<>> => (page.status \notin EarlyStatuses => page.developer_wallet # None)
    /\ AnswerHasDeveloper(loaded, OnChain) /\ AnswerHasDeveloper(reading, OnChain)

\* Only the funding's commit records a base commit, and it ends the draft.
LEMMA FundingRecordsTheBase ==
  ASSUME ServiceInv, BaseOfFunded, [ServiceNext]_vars
  PROVE  BaseOfFunded' /\ (row.base_sha # None => row'.base_sha # None)
<1>1. ASSUME NEW w \in Workers, RequestStep(w)
      PROVE  BaseOfFunded' /\ (row.base_sha # None => row'.base_sha # None)
  <2>1. RowGrows(row, row', OnChain)
    BY <1>1, StepsAdvance DEF Advances
  <2>2. Known(requests[w], row, OnChain, passes, Len(releases))
    BY DEF ServiceInv, RequestsInv
  <2>3. requests[w] \in Request
    BY DEF ServiceInv, ServiceTypeOK
  <2>4. ASSUME NEW sha \in BaseShas, CommitFunding(w, sha)
        PROVE  PastDraft(row')
    <3>1. requests[w].loaded.status = "DRAFT" /\ requests[w].loaded \in Row
      BY <2>2, <2>3, <2>4 DEF CommitFunding, At, Known, FundingKnown, Request
    <3>2. QED
      BY <2>4, <3>1 DEF CommitFunding, Flush, PastDraft, Row
  <2>5. ASSUME \A sha \in BaseShas : ~CommitFunding(w, sha)
        PROVE  row'.base_sha = row.base_sha
    <3>1. row' = row
             \/ CommitAssignment(w) \/ CommitPayout(w)
             \/ \E inspection \in Inspection :
                    CommitSubmission(w, inspection) \/ CommitVerdict(w, inspection)
      BY <1>1, <2>5
         DEF RequestStep, RequestFunding, RequestAssignment, RequestSubmission,
             RequestVerification, ReadFundedBounty, ReadAssignedBounty,
             ReloadForPayout, SendRelease, Abandon
    <3>2. requests[w].loaded \in Row
      BY <2>3 DEF Request
    <3>3. ASSUME NEW inspection \in Inspection,
                 CommitSubmission(w, inspection) \/ CommitVerdict(w, inspection)
          PROVE  row'.base_sha = row.base_sha
      BY <3>2, <3>3 DEF CommitSubmission, CommitVerdict, Flush, Row
    <3>4. CommitAssignment(w) \/ CommitPayout(w) => row'.base_sha = row.base_sha
      BY <3>2 DEF CommitAssignment, CommitPayout, Flush, Row
    <3>5. QED
      BY <3>1, <3>3, <3>4
  <2>6. QED
    BY <2>1, <2>4, <2>5 DEF BaseOfFunded, RowGrows
<1>2. ASSUME NEW wallet \in Accounts, CreateTask(wallet)
      PROVE  BaseOfFunded' /\ (row.base_sha # None => row'.base_sha # None)
  <2>1. row = NoRow
    BY <1>2 DEF ServiceInv, RowInv, CreateTask
  <2>2. row.base_sha = None /\ row'.base_sha = None
    BY <1>2, <2>1 DEF CreateTask, NoRow
  <2>3. QED
    BY <2>2 DEF BaseOfFunded
<1>3. NetworkStep \/ WalletStep \/ UNCHANGED vars => row' = row
  BY DEF NetworkStep, LandRelease, RejectRelease, ExpireRelease, WalletStep, serviceVars,
         vars
<1>4. QED
  BY <1>1, <1>2, <1>3 DEF ServiceNext, BaseOfFunded, PastDraft

\* What page and panel hold outlasts the steps of service and chain.
LEMMA ServiceKeepsPanel ==
  ASSUME EvidenceInv, [ServiceNext]_vars, UNCHANGED panelVars
  PROVE  EvidenceInv' /\ (DeveloperShownInv => DeveloperShownInv')
<1>1. ServiceInv'
  BY ServiceStaysTrue DEF EvidenceInv
<1>2. BaseOfFunded' /\ (row.base_sha # None => row'.base_sha # None)
  BY FundingRecordsTheBase DEF EvidenceInv
<1>3. ChainGrows(OnChain, OnChain')
  BY ServiceCallsTheContract, BountyGrows DEF EvidenceInv, ServiceInv, ServiceTypeOK
<1>4. page' = page /\ token' = token /\ loaded' = loaded /\ reading' = reading
  BY DEF panelVars
<1>5. PageTrue(page', row'.base_sha, OnChain')
  BY <1>2, <1>3, <1>4 DEF EvidenceInv, PanelInv, PageTrue, ChainGrows, Terms, EscrowedBy
<1>6. AnswerTrue(loaded', OnChain') /\ AnswerTrue(reading', OnChain')
  BY <1>3, <1>4, AnswersLast DEF EvidenceInv, PanelInv
<1>7. PanelTypes'
  BY <1>4 DEF EvidenceInv, PanelInv, PanelTypes, Mounted
<1>8. DeveloperShownInv => DeveloperShownInv'
  BY <1>3, <1>4, AnswersLast DEF EvidenceInv, PanelInv, DeveloperShownInv
<1>9. QED
  BY <1>1, <1>2, <1>5, <1>6, <1>7, <1>8 DEF EvidenceInv, PanelInv

-----------------------------------------------------------------------------
\* What the page reads of the row is of its type, and true.
LEMMA TaskIsTrue ==
  ASSUME ServiceInv, BaseOfFunded, row.status # "absent"
  PROVE  /\ TaskOf(row) \in PageType
         /\ PageTrue(TaskOf(row), row.base_sha, OnChain)
<1>1. row \in Row /\ RowInv
  BY DEF ServiceInv, ServiceTypeOK
<1>2. TaskOf(row) \in PageType
  BY <1>1 DEF TaskOf, PageType, Row
<1>3. PageTrue(TaskOf(row), row.base_sha, OnChain)
  <2>1. /\ row.base_sha # None => EscrowedBy(row.client_wallet, OnChain)
        /\ row.status = "PAID" => row.release_tx_hash # None
        /\ row.release_tx_hash # None => OnChain.status = "Paid"
        /\ row.developer_wallet # None =>
                OnChain.status # "Missing" /\ row.developer_wallet = OnChain.developer
    BY <1>1 DEF RowInv, BaseOfFunded, PastDraft, FundedTaskIsEscrowed, EscrowedBy,
                RecordedPayoutHappened, DeveloperAcceptedOnChain
  <2>2. QED
    BY <2>1 DEF TaskOf, PageTrue
<1>4. QED
  BY <1>2, <1>3

\* A page is not the absence of one.
LEMMA TasksAreNotEmpty == <<>> \notin PageType
<1> SUFFICES ASSUME <<>> \in PageType
             PROVE  FALSE
  OBVIOUS
<1>1. DOMAIN <<>> = {"status", "client_wallet", "developer_wallet", "funded",
                     "release_tx_hash"}
  BY DEF PageType
<1>2. DOMAIN <<>> = {}
  OBVIOUS
<1>3. QED
  BY <1>1, <1>2

\* A reading under way is the one of the page as it is: a new key replaces it.
LEMMA EffectKeepsUp ==
  ASSUME PanelTypes, ReadEffect, Mounted => Mounted'
  PROVE  /\ reading' # NoReading =>
                Mounted' /\ reading'.key = readKey(page', token')
         /\ IsAnswer(reading')
         /\ reading' = reading \/ reading'.onChain = LOADING
<1>1. CASE ~Mounted'
  BY <1>1 DEF PanelTypes, ReadEffect
<1>2. CASE Mounted /\ readKey(page', token') = readKey(page, token)
  BY <1>2 DEF PanelTypes, ReadEffect
<1>3. CASE Mounted' /\ ~(Mounted /\ readKey(page', token') = readKey(page, token))
  <2> DEFINE fresh == [key |-> readKey(page', token'), onChain |-> LOADING]
  <2>1. reading' = fresh
    BY <1>3 DEF ReadEffect
  <2>2. fresh.key = readKey(page', token') /\ fresh.onChain = LOADING
    OBVIOUS
  <2>3. fresh = [key |-> fresh.key, onChain |-> fresh.onChain]
    OBVIOUS
  <2> HIDE DEF fresh
  <2>4. QED
    BY <1>3, <2>1, <2>2, <2>3 DEF IsAnswer
<1>4. QED
  BY <1>1, <1>2, <1>3

\* What has no answer yet says nothing of the chain.
LEMMA LoadingIsTrue ==
  ASSUME NEW a, NEW onChain, a.onChain \in {LOADING, FAILED}
  PROVE  AnswerTrue(a, onChain) /\ AnswerHasDeveloper(a, onChain)
BY DEF AnswerTrue, AnswerHasDeveloper, LOADING, FAILED

\* So does a panel without a reading.
LEMMA NothingRead ==
  /\ IsAnswer(NoReading)
  /\ AnswerTrue(NoReading, OnChain) /\ AnswerHasDeveloper(NoReading, OnChain)
  /\ AnswerTrue(NoReading, OnChain') /\ AnswerHasDeveloper(NoReading, OnChain')
<1>1. NoReading.onChain = LOADING
  BY DEF NoReading
<1>2. IsAnswer(NoReading)
  BY <1>1 DEF NoReading, IsAnswer
<1>3. QED
  BY <1>1, <1>2, LoadingIsTrue

\* The panel and its page stay true, whatever they do.
LEMMA PanelStaysTrue ==
  ASSUME EvidenceInv, PanelStep, UNCHANGED vars
  PROVE  PanelInv' /\ (OverlapInv /\ DeveloperShownInv => DeveloperShownInv')
<1>t. /\ ServiceInv /\ BaseOfFunded /\ PanelInv /\ PanelTypes
      /\ PageTrue(page, row.base_sha, OnChain)
      /\ AnswerTrue(loaded, OnChain) /\ AnswerTrue(reading, OnChain)
      /\ OnChain \in Bounty /\ MaxRetries \in Nat
  BY TaskAssumption, RetriesAssumption
     DEF EvidenceInv, PanelInv, ServiceInv, ServiceTypeOK, TypeOK, OnChain
<1>c. row' = row /\ OnChain' = OnChain
  BY DEF vars, chainVars, serviceVars, OnChain
<1>s. DeveloperShownInv =>
        /\ page # <<>> => (page.status \notin EarlyStatuses => page.developer_wallet # None)
        /\ AnswerHasDeveloper(loaded, OnChain) /\ AnswerHasDeveloper(reading, OnChain)
  BY DEF DeveloperShownInv
<1>1. CASE PublishTask
  <2>1. page' = TaskOf(row) /\ token' = token /\ loaded' = loaded /\ ReadEffect
    BY <1>1 DEF PublishTask
  <2>2. page' \in PageType /\ PageTrue(page', row'.base_sha, OnChain')
    BY <1>t, <1>c, <1>1, <2>1, TaskIsTrue DEF PublishTask
  <2>3. page' # <<>> /\ page'.funded = (row.base_sha # None)
    BY <2>1, <2>2, TasksAreNotEmpty DEF TaskOf
  <2>4. Mounted => Mounted'
    BY <1>t, <2>3 DEF Mounted, PageTrue
  <2>5. PanelTypes'
    BY <1>t, <2>1, <2>2, <2>4, EffectKeepsUp DEF PanelTypes
  <2>6. AnswerTrue(reading', OnChain')
    BY <1>t, <1>c, <2>1, <2>4, EffectKeepsUp, LoadingIsTrue
  <2>7. PanelInv'
    BY <1>t, <1>c, <2>1, <2>2, <2>5, <2>6 DEF PanelInv
  <2>8. ASSUME OverlapInv, DeveloperShownInv
        PROVE  DeveloperShownInv'
    <3>1. page'.status = row.status /\ page'.developer_wallet = row.developer_wallet
      BY <2>1 DEF TaskOf
    <3>2. page'.status \notin EarlyStatuses => page'.developer_wallet # None
      BY <2>8, <3>1 DEF OverlapInv, HasDeveloper
    <3>3. AnswerHasDeveloper(reading', OnChain')
      BY <1>t, <1>c, <1>s, <2>1, <2>4, <2>8, EffectKeepsUp, LoadingIsTrue
    <3>4. QED
      BY <1>c, <1>s, <2>1, <2>8, <3>2, <3>3 DEF DeveloperShownInv
  <2>9. QED
    BY <2>7, <2>8
<1>2. CASE ServeReading
  <2>1. /\ reading # NoReading /\ OnChain.status # "Missing"
        /\ reading' = [reading EXCEPT !.onChain = Ready(OnChain)]
        /\ page' = page /\ token' = token /\ loaded' = loaded
    BY <1>2 DEF ServeReading
  <2>2. /\ Mounted /\ reading.key = readKey(page, token)
        /\ reading = [key |-> reading.key, onChain |-> reading.onChain]
    BY <1>t, <2>1 DEF PanelTypes, IsAnswer
  <2> DEFINE answer == [key |-> readKey(page, token), onChain |-> Ready(OnChain)]
  <2>3. reading' = answer
    BY <2>1, <2>2
  <2>4. /\ answer.key = readKey(page, token)
        /\ answer.key[1] = page.status /\ answer.key[2] = page.release_tx_hash
        /\ answer.onChain = Ready(OnChain)
        /\ answer.onChain.value = OnChain
        /\ answer.onChain \in [status: {"ready"}, value: Bounty]
        /\ answer = [key |-> answer.key, onChain |-> answer.onChain]
    BY <1>t DEF readKey, Ready
  <2> HIDE DEF answer
  <2>5. IsAnswer(reading')
    BY <2>3, <2>4 DEF IsAnswer
  <2>6. PanelTypes'
    BY <1>t, <2>1, <2>2, <2>3, <2>4, <2>5 DEF PanelTypes, Mounted
  <2>7. EscrowedBy(OnChain.client, OnChain)
    BY <1>t, <2>2 DEF Mounted, PageTrue, EscrowedBy
  <2>8. page.release_tx_hash # None => OnChain.status = "Paid"
    BY <1>t, <2>2 DEF Mounted, PageTrue
  <2>9. AnswerTrue(reading', OnChain')
    BY <1>t, <1>c, <2>1, <2>3, <2>4, <2>7, <2>8 DEF AnswerTrue
  <2>10. PanelInv'
    BY <1>t, <1>c, <2>1, <2>6, <2>9 DEF PanelInv
  <2>11. ASSUME OverlapInv, DeveloperShownInv
         PROVE  DeveloperShownInv'
    <3>1. page.status \notin EarlyStatuses =>
            page.developer_wallet # None /\ page.developer_wallet = OnChain.developer
      BY <1>t, <1>s, <2>2, <2>11 DEF Mounted, PageTrue
    <3>2. AnswerHasDeveloper(reading', OnChain')
      BY <1>c, <2>3, <2>4, <3>1 DEF AnswerHasDeveloper
    <3>3. QED
      BY <1>c, <1>s, <2>1, <2>11, <3>2 DEF DeveloperShownInv
  <2>12. QED
    BY <2>10, <2>11
<1>3. CASE PublishReading
  <2>1. PICK onChain \in {reading.onChain, FAILED} \ {LOADING} :
            loaded' = [reading EXCEPT !.onChain = onChain]
    BY <1>3 DEF PublishReading
  <2>2. reading' = NoReading /\ page' = page /\ token' = token
    BY <1>3 DEF PublishReading
  <2> DEFINE answer == [key |-> reading.key, onChain |-> onChain]
  <2>3. loaded' = answer
    BY <1>t, <2>1 DEF PanelTypes, IsAnswer
  <2>4. /\ answer.key = reading.key /\ answer.onChain = onChain
        /\ answer = [key |-> answer.key, onChain |-> answer.onChain]
    OBVIOUS
  <2> HIDE DEF answer
  <2>5. CASE onChain = FAILED
    <3>1. IsAnswer(loaded')
      BY <2>3, <2>4, <2>5 DEF IsAnswer
    <3>2. AnswerTrue(loaded', OnChain') /\ AnswerHasDeveloper(loaded', OnChain')
      BY <2>3, <2>4, <2>5, LoadingIsTrue
    <3>3. QED
      BY <1>t, <1>c, <1>s, <2>2, <3>1, <3>2, NothingRead
         DEF PanelInv, PanelTypes, DeveloperShownInv
  <2>6. CASE onChain = reading.onChain
    <3>1. loaded' = reading
      BY <1>t, <2>3, <2>6 DEF PanelTypes, IsAnswer, answer
    <3>2. QED
      BY <1>t, <1>c, <1>s, <2>2, <3>1, NothingRead
         DEF PanelInv, PanelTypes, DeveloperShownInv
  <2>7. QED
    BY <2>1, <2>5, <2>6
<1>4. CASE RetryReading
  <2>1. /\ page' = page /\ token' = token + 1 /\ token < MaxRetries
        /\ loaded' = loaded /\ ReadEffect
    BY <1>4 DEF RetryReading
  <2>2. Mounted => Mounted'
    BY <2>1 DEF Mounted
  <2>3. PanelTypes'
    BY <1>t, <2>1, <2>2, EffectKeepsUp DEF PanelTypes
  <2>4. AnswerTrue(reading', OnChain')
    BY <1>t, <1>c, <2>2, <2>1, EffectKeepsUp, LoadingIsTrue
  <2>5. DeveloperShownInv => AnswerHasDeveloper(reading', OnChain')
    BY <1>t, <1>c, <1>s, <2>1, <2>2, EffectKeepsUp, LoadingIsTrue
  <2>6. QED
    BY <1>t, <1>c, <1>s, <2>1, <2>3, <2>4, <2>5 DEF PanelInv, DeveloperShownInv
<1>5. QED
  BY <1>1, <1>2, <1>3, <1>4 DEF PanelStep

-----------------------------------------------------------------------------
\* A step of the composition is a step of the service or leaves it alone.
LEMMA ComposedStepsAreSteps == [EvidenceNext]_evidenceVars => [ServiceNext]_vars
BY DEF EvidenceNext, evidenceVars

\* Reading does not disturb what is read: whatever is proved of the service holds
\* beside the page and its panel.
THEOREM EvidenceRunsTheService == EvidenceSpec => ServiceSpec
<1>1. EvidenceInit => ServiceInit
  BY DEF EvidenceInit
<1>2. QED
  BY <1>1, ComposedStepsAreSteps, PTL DEF EvidenceSpec, ServiceSpec

\* At the start nothing was read.
LEMMA EvidenceStarts ==
  EvidenceInit => EvidenceInv /\ DeveloperShownInv
<1> SUFFICES ASSUME EvidenceInit
             PROVE  EvidenceInv /\ DeveloperShownInv
  OBVIOUS
<1>1. ServiceInv
  BY ServiceStartsTrue DEF EvidenceInit
<1>2. BaseOfFunded
  BY DEF EvidenceInit, ServiceInit, BaseOfFunded, LegacyDraft, NoRow
<1>3. page = <<>> /\ token = 0 /\ loaded = NoReading /\ reading = NoReading
  BY DEF EvidenceInit
<1>4. PanelTypes
  BY <1>3, NothingRead, RetriesAssumption DEF PanelTypes
<1>5. PageTrue(page, row.base_sha, OnChain)
  BY <1>3 DEF PageTrue
<1>6. QED
  BY <1>1, <1>2, <1>3, <1>4, <1>5, NothingRead DEF EvidenceInv, PanelInv, DeveloperShownInv

\* The invariant of the composition is inductive.
LEMMA EvidenceStaysTrue ==
  EvidenceInv /\ [EvidenceNext]_evidenceVars => EvidenceInv'
<1> SUFFICES ASSUME EvidenceInv, [EvidenceNext]_evidenceVars
             PROVE  EvidenceInv'
  OBVIOUS
<1>1. CASE UNCHANGED panelVars
  BY <1>1, ServiceKeepsPanel, ComposedStepsAreSteps
<1>2. CASE PanelStep /\ UNCHANGED vars
  <2>1. PanelInv'
    BY <1>2, PanelStaysTrue
  <2>2. ServiceInv'
    BY <1>2, ServiceStaysTrue DEF EvidenceInv
  <2>3. row' = row
    BY <1>2 DEF vars, serviceVars
  <2>4. QED
    BY <2>1, <2>2, <2>3 DEF EvidenceInv, BaseOfFunded, PastDraft
<1>3. QED
  BY <1>1, <1>2 DEF EvidenceNext, evidenceVars

\* So is what it says of developers.
LEMMA OverlapEvidenceStaysTrue ==
  EvidenceInv /\ OverlapInv /\ DeveloperShownInv /\ [EvidenceNext]_evidenceVars =>
    OverlapInv' /\ DeveloperShownInv'
<1> SUFFICES ASSUME EvidenceInv, OverlapInv, DeveloperShownInv, [EvidenceNext]_evidenceVars
             PROVE  OverlapInv' /\ DeveloperShownInv'
  OBVIOUS
<1>1. OverlapInv'
  BY OverlapStaysTrue, ComposedStepsAreSteps DEF EvidenceInv
<1>2. CASE UNCHANGED panelVars
  BY <1>1, <1>2, ServiceKeepsPanel, ComposedStepsAreSteps
<1>3. CASE PanelStep /\ UNCHANGED vars
  BY <1>1, <1>3, PanelStaysTrue
<1>4. QED
  BY <1>2, <1>3 DEF EvidenceNext, evidenceVars

\* Every run keeps the invariant of the composition.
LEMMA EvidenceInvHolds == EvidenceSpec => []EvidenceInv
<1>1. EvidenceInit => EvidenceInv
  BY EvidenceStarts
<1>2. QED
  BY <1>1, EvidenceStaysTrue, PTL DEF EvidenceSpec

\* And the rest as well.
LEMMA OverlapEvidenceHolds ==
  EvidenceSpec => [](EvidenceInv /\ OverlapInv /\ DeveloperShownInv)
<1>1. EvidenceInit => EvidenceInv /\ OverlapInv /\ DeveloperShownInv
  BY EvidenceStarts, OverlapStarts DEF EvidenceInit
<1>2. QED
  BY <1>1, EvidenceStaysTrue, OverlapEvidenceStaysTrue, PTL DEF EvidenceSpec

\* Page, panel and answers are of their types, and a request that is under way is
\* the one of the page as it is.
THEOREM EvidenceTypeCorrect == EvidenceSpec => []EvidenceTypeOK
<1>1. EvidenceInv => EvidenceTypeOK
  <2> SUFFICES ASSUME EvidenceInv
               PROVE  EvidenceTypeOK
    OBVIOUS
  <2>1. ServiceTypeOK /\ PanelTypes
    BY DEF EvidenceInv, ServiceInv, PanelInv
  <2>2. \A answer \in {loaded.onChain, reading.onChain} \ {LOADING, FAILED} :
            answer \in [status: {"ready"}, value: Bounty]
    BY <2>1 DEF PanelTypes, IsAnswer
  <2>3. QED
    BY <2>1, <2>2 DEF EvidenceTypeOK, PanelTypes, PageType
<1>2. QED
  BY <1>1, EvidenceInvHolds, PTL

\* An answer that is shown is one that was asked for by the page as it is.
LEMMA ShownIsOfThePage ==
  ASSUME OnChainShown.status = "ready"
  PROVE  /\ Mounted /\ OnChainShown = loaded.onChain
         /\ loaded.key[1] = page.status /\ loaded.key[2] = page.release_tx_hash
BY DEF OnChainShown, LOADING, readKey

\* However requests overlap and whenever page and panel read, a task shown as paid
\* is shown with its whole proof, for a head commit that passed: no answer from
\* before the payout is shown beside it.
THEOREM SettlementsAreProved == EvidenceSpec => []SettlementIsProved
<1>1. ASSUME EvidenceInv, OnChainShown.status = "ready", page.status = "PAID"
      PROVE  /\ SettlementHero(OnChainShown.value)
             /\ \A i \in 1..5 : steps(OnChainShown.value)[i]
             /\ \E p \in passes : p.head_sha = Anchored(OnChainShown.value).head_sha
  <2>1. /\ Mounted /\ OnChainShown = loaded.onChain
        /\ loaded.key[2] = page.release_tx_hash
    BY <1>1, ShownIsOfThePage
  <2>2. page.funded /\ page.release_tx_hash # None
    BY <1>1, <2>1 DEF Mounted, EvidenceInv, PanelInv, PageTrue
  <2>3. /\ OnChain.status = "Paid" /\ OnChainShown.value = OnChain
        /\ EscrowedBy(OnChain.client, OnChain)
    BY <1>1, <2>1, <2>2 DEF EvidenceInv, PanelInv, AnswerTrue
  <2>4. OnChain.developer # None /\ OnChain.evidence_hash # None
    BY <1>1, <2>3, TaskAssumption DEF EvidenceInv, ServiceInv, RecordConsistent, OnChain
  <2>5. OnChain.criteria_hash # None
    BY <2>3, TaskAssumption, HashesAssumption DEF EscrowedBy
  <2>6. \E p \in passes : p.head_sha = OnChain.evidence_hash.head_sha
    BY <1>1, <2>3 DEF EvidenceInv, ServiceInv, PayoutInv, PayoutBackedByPass
  <2>7. released(OnChain)
    BY <2>2, <2>3 DEF released
  <2>8. \A i \in 1..5 : steps(OnChain)[i]
    <3>1. /\ steps(OnChain)[1] /\ steps(OnChain)[2] /\ steps(OnChain)[3]
          /\ steps(OnChain)[4] /\ steps(OnChain)[5]
      BY <2>2, <2>4, <2>5, <2>7 DEF steps, Anchored
    <3>2. QED
      BY <3>1
  <2>9. QED
    BY <1>1, <2>3, <2>6, <2>7, <2>8 DEF SettlementHero, Anchored
<1>2. EvidenceInv => SettlementIsProved
  BY <1>1 DEF SettlementIsProved
<1>3. QED
  BY <1>2, EvidenceInvHolds, PTL

\* However requests overlap, page and answer agree in every field the panel
\* compares, although they are of different moments; only the developer may differ,
\* and only of a task whose status was written back.
THEOREM HonestTasksAreNotAccused == EvidenceSpec => []NoFalseMismatch
<1>1. ASSUME EvidenceInv, DeveloperShownInv, OnChainShown.status = "ready"
      PROVE  LET checks == ConsistencyChecks(OnChainShown.value)
             IN  \A field \in DOMAIN checks :
                    checks[field] \/ (field = "Developer" /\ StatusWrittenBack)
  <2> DEFINE value == loaded.onChain.value
  <2>1. /\ Mounted /\ OnChainShown = loaded.onChain
        /\ loaded.onChain.status = "ready" /\ loaded.key[1] = page.status
    BY <1>1, ShownIsOfThePage
  <2>2. EscrowedBy(OnChain.client, value) /\ EscrowedBy(page.client_wallet, OnChain)
    BY <1>1, <2>1 DEF EvidenceInv, PanelInv, AnswerTrue, PageTrue, Mounted
  <2>3. page.developer_wallet # None =>
            value.developer = page.developer_wallet \/ StatusWrittenBack
    BY <1>1, <2>1
       DEF EvidenceInv, PanelInv, PageTrue, Mounted, DeveloperShownInv, AnswerHasDeveloper,
           StatusWrittenBack
  <2>4. /\ value.amount = TaskTerms.amount /\ value.client = page.client_wallet
        /\ value.criteria_hash = TaskTerms.criteria_hash
        /\ value.deadline = TaskTerms.deadline
    BY <2>2 DEF EscrowedBy
  <2> DEFINE checks == ConsistencyChecks(value)
  <2>5. DOMAIN checks = {"Amount", "Client", "Developer", "Criteria", "Deadline"}
    BY DEF ConsistencyChecks
  <2>6. checks["Amount"] /\ checks["Client"] /\ checks["Criteria"] /\ checks["Deadline"]
    BY <2>4 DEF ConsistencyChecks, criteriaMatches
  <2>7. checks["Developer"] \/ StatusWrittenBack
    BY <2>3, Zenon DEF ConsistencyChecks
  <2> HIDE DEF checks
  <2>8. \A field \in DOMAIN checks :
            checks[field] \/ (field = "Developer" /\ StatusWrittenBack)
    BY <2>5, <2>6, <2>7
  <2>9. QED
    BY <2>1, <2>8 DEF checks
<1>2. EvidenceInv /\ DeveloperShownInv => NoFalseMismatch
  BY <1>1 DEF NoFalseMismatch
<1>3. QED
  BY <1>2, OverlapEvidenceHolds, PTL
=============================================================================
