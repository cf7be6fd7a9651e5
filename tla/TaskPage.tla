------------------------------ MODULE TaskPage ------------------------------
(***************************************************************************)
(* The page of one task after it was accepted: BountyDetailPage, its hook  *)
(* useSubmittedWork, SubmissionPanel and VerificationPanel.  Every part    *)
(* reads the API on its own, and functions of a panel that is no longer on *)
(* the page still publish what they read.                                  *)
(*                                                                         *)
(* A bounty that was read is the index of the row's version in `history`,  *)
(* a verification its index in `verifications`; 0 stands for null.         *)
(***************************************************************************)
EXTENDS Integers, Sequences

CONSTANTS
    Results,            \* the verdicts that occur
    MaxInputs,          \* bound on the buttons pressed, signing in and out included
    MaxVerifications    \* bound on the verifications the API stores

ASSUME TaskPageAssumption ==
    /\ Results \subseteq {"PASS", "FAIL", "PENDING"}
    /\ MaxInputs \in Nat /\ MaxVerifications \in Nat

VARIABLES
    history,            \* the statuses of the task's row, one for each version
    verifications,      \* the stored verdicts
    othersVerified,     \* history: somebody else verified, or a panel that had left the page
    identity,           \* whose session the page reads with
    reloadToken,
    result,             \* LoadResult of BountyDetailPage
    loads,              \* its requests that were not aborted
    token, records, workLoads,  \* the same, of useSubmittedWork
    panel,              \* state of the action panel on the page
    calls,              \* the panels' async functions, by the input that began them
    late,               \* history: an answer crossed another, or its panel had left the page
    inputs

apiVars == <<history, verifications, othersVerified>>
pageVars == <<reloadToken, result, loads>>
workVars == <<token, records, workLoads>>
panelVars == <<panel, calls>>
vars == <<apiVars, identity, pageVars, workVars, panelVars, late, inputs>>

-----------------------------------------------------------------------------
Identities == {"participant", "anonymous"}
SUBMITTED_STATUSES == {"SUBMITTED", "VERIFYING", "NEEDS_CHANGES", "ELIGIBLE", "PAID"}
VERIFIABLE_STATUSES == SUBMITTED_STATUSES \ {"PAID"}

BOUNTY_STATUS_BY_VERIFICATION ==
    [PASS |-> "ELIGIBLE", FAIL |-> "NEEDS_CHANGES", PENDING |-> "VERIFYING"]

Loadable == [status: {"loading", "ready", "not-found", "error"}, value: Nat]
LOADING == [status |-> "loading", value |-> 0]
Ready(value) == [status |-> "ready", value |-> value]
Missing(status) == [status |-> status, value |-> 0]

Slots == 1..MaxInputs

\* `record` is the verification a function publishes, if its value is not 0;
\* `failed`: the POST did not succeed.
Call == [kind: {"none", "submit", "verify", "refresh"},
         step: {"idle", "posted", "refused", "paying", "reading"},
         bounty: Loadable, record: Loadable, failed: BOOLEAN]

NoCall == [kind |-> "none", step |-> "idle", bounty |-> LOADING, record |-> LOADING,
           failed |-> FALSE]

\* No function runs in the panel (`running`, and the ref `inFlight`), no error.
FreshPanel == [running |-> 0, error |-> FALSE]

Current == history[Len(history)]

\* The newest verification, or 0.
Latest == Len(verifications)

\* A task that is under way is shown to its client and its developer only.
CanRead(reader) == reader = "participant"
Running == {c \in Slots : calls[c].step # "idle"}

-----------------------------------------------------------------------------
(* What is on the screen, derived in render. *)

Settled == result.token = reloadToken /\ result.identity = identity
PageState == IF Settled THEN result.answer.status ELSE "loading"
Bounty == IF Settled THEN result.answer.value ELSE 0

\* useSubmittedWork is enabled, which does not look at the state of the page.
Enabled == Bounty # 0 /\ history[Bounty] \in SUBMITTED_STATUSES

WorkSettled == Enabled /\ records.token = token
LatestVerification == IF WorkSettled THEN records.verification ELSE LOADING

\* The panel that is mounted, if any.
Mounted ==
    CASE PageState # "ready" -> "none"
      [] PageState = "ready" /\ ~Enabled -> "submission"
      [] PageState = "ready" /\ Enabled -> "verification"

\* submissionIssue and verificationIssue: the panel works for a participant.  (The
\* one here is the developer; the client has everything but the submission.)
MayAct == identity = "participant"

\* pickView
View ==
    LET status == history[Bounty] IN
    CASE status = "PAID" -> "paid"
      [] status = "ELIGIBLE" -> "eligible"
      [] status \notin {"PAID", "ELIGIBLE"} /\ LatestVerification.value = 0 -> "ready"
      [] OTHER -> verifications[LatestVerification.value]

\* Every view but these two has a button that verifies.
VerificationOffered ==
    LatestVerification.status = "ready" /\ View \notin {"paid", "PASS"}

-----------------------------------------------------------------------------
(* What a render brings about.  React runs its effects before the next event. *)

AskBounty == [token |-> reloadToken, identity |-> identity, answer |-> LOADING]
AskWork == [token |-> token, verification |-> LOADING]

\* The effect aborts the request before it when its dependencies have changed.
LoadEffect(due) ==
    loads' = IF <<reloadToken, identity>>' = <<reloadToken, identity>> THEN due
                                                                       ELSE {AskBounty'}

\* Mutant of WorkEffect: the request before it is not aborted.
WorkEffectWithoutAbort(due) ==
    workLoads' = IF <<token, Enabled>>' = <<token, Enabled>> THEN due
                 ELSE due \cup IF Enabled' THEN {AskWork'} ELSE {}

\* Mutant of WorkEffect: "Try again" asks for nothing.
WorkEffectOfEnabled(due) ==
    workLoads' = IF Enabled' = Enabled THEN due ELSE IF Enabled' THEN {AskWork'} ELSE {}

\* The effect of useSubmittedWork.
WorkEffect(due) ==
    workLoads' = IF <<token, Enabled>>' = <<token, Enabled>> THEN due
                 ELSE IF Enabled' THEN {AskWork'} ELSE {}

\* A panel that was not on the page before starts afresh.
Rerender(next) == panel' = IF Mounted' = Mounted THEN next ELSE FreshPanel

TaskPageTypeOK ==
    /\ history \in Seq({"ASSIGNED"} \cup SUBMITTED_STATUSES) /\ history # <<>>
    /\ verifications \in Seq(Results) /\ Len(verifications) <= MaxVerifications
    /\ othersVerified \in BOOLEAN
    /\ identity \in Identities
    /\ reloadToken \in Nat /\ token \in Nat
    /\ result \in [token: Nat, identity: Identities, answer: Loadable]
    /\ result.answer.value \in {0} \cup DOMAIN history
    /\ loads \subseteq [token: Nat, identity: Identities, answer: Loadable]
    /\ records \in [token: Int, verification: Loadable]
    /\ records.verification.value \in {0} \cup DOMAIN verifications
    /\ workLoads \subseteq [token: Nat, verification: Loadable]
    /\ panel \in [running: {0} \cup Slots, error: BOOLEAN]
    /\ panel.running # 0 => panel.running \in Running
    /\ calls \in [Slots -> Call]
    /\ late \in BOOLEAN
    /\ inputs \in 0..MaxInputs

\* A participant opens the page on a task that was accepted, or submitted
\* already.  (Who opens it without a session is where a sign-out leads.)
TaskPageInit ==
    /\ history \in {<<"ASSIGNED">>, <<"SUBMITTED">>}
    /\ verifications = <<>>
    /\ othersVerified = FALSE
    /\ identity = "participant"
    /\ reloadToken = 0 /\ token = 0
    /\ result = [token |-> 0, identity |-> identity, answer |-> LOADING]
    /\ loads = {AskBounty}
    /\ records = [token |-> -1, verification |-> LOADING]
    /\ workLoads = {}
    /\ panel = FreshPanel
    /\ calls = [c \in Slots |-> NoCall]
    /\ late = FALSE
    /\ inputs = 0

-----------------------------------------------------------------------------
(* The answers of the page's own requests. *)

\* GET /bounties/{id}.  (The session does not expire here: see WalletSession.)
ServeLoad(load) ==
    /\ load.answer = LOADING
    /\ \E answer \in {Missing("error"), IF CanRead(load.identity)
                                         THEN Ready(Len(history)) ELSE Missing("not-found")} :
        loads' = (loads \ {load}) \cup {[load EXCEPT !.answer = answer]}
    /\ UNCHANGED <<apiVars, identity, reloadToken, result, workVars, panelVars, late, inputs>>

PublishLoad(load) ==
    /\ load.answer # LOADING
    /\ result' = load
    /\ late' = (late \/ Running # {})
    /\ UNCHANGED <<apiVars, identity, reloadToken, token, records, calls, inputs>>
    /\ LoadEffect(loads \ {load}) /\ WorkEffect(workLoads) /\ Rerender(panel)

\* GET /verification, with null for none yet; GET /submission beside it is not
\* kept, its answer changes nothing but what is shown.
ServeWork(load) ==
    /\ load.verification = LOADING
    /\ \E verification \in {Ready(Latest), Missing("error")} :
        workLoads' = (workLoads \ {load}) \cup {[load EXCEPT !.verification = verification]}
    /\ UNCHANGED <<apiVars, identity, pageVars, token, records, panelVars, late, inputs>>

PublishWork(load) ==
    /\ load.verification # LOADING
    /\ workLoads' = workLoads \ {load}
    /\ records' = load
    /\ late' = (late \/ Running # {})
    /\ UNCHANGED <<apiVars, identity, pageVars, token, panelVars, inputs>>

-----------------------------------------------------------------------------
(* The user. *)

Input == inputs < MaxInputs /\ inputs' = inputs + 1

\* Signs in or out in the header: the task is asked for again.
SwitchIdentity ==
    /\ Input
    /\ identity' \in Identities \ {identity}
    /\ UNCHANGED <<apiVars, reloadToken, result, token, records, calls, late>>
    /\ LoadEffect(loads) /\ WorkEffect(workLoads) /\ Rerender(panel)

\* "Try again" on the page that could not be loaded.
ReloadPage ==
    /\ Input
    /\ PageState = "error"
    /\ reloadToken' = reloadToken + 1
    /\ UNCHANGED <<apiVars, identity, result, token, records, calls, late>>
    /\ LoadEffect(loads) /\ WorkEffect(workLoads) /\ Rerender(panel)

\* "Try again" of the verification, or of the pull request's details, of which
\* the model does not know whether they were read.
ReloadWork ==
    /\ Input
    /\ Mounted = "verification" /\ WorkSettled
    /\ token' = token + 1
    /\ UNCHANGED <<apiVars, identity, pageVars, records, panelVars, late>>
    /\ WorkEffect(workLoads)

\* exclusive: one function at a time in a panel, and its error is cleared.
StartCall(call) ==
    /\ Input
    /\ panel.running = 0
    /\ panel' = [running |-> inputs', error |-> FALSE]
    /\ calls' = [calls EXCEPT ![inputs'] = call]
    /\ UNCHANGED <<apiVars, identity, pageVars, workVars, late>>

\* "Submit pull request"
SubmitPullRequest ==
    /\ Mounted = "submission" /\ MayAct
    /\ StartCall([NoCall EXCEPT !.kind = "submit", !.step = "posted"])

\* "Run verification", "Check again", "Retry settlement"
RunVerification ==
    /\ Mounted = "verification" /\ MayAct /\ VerificationOffered
    /\ StartCall([NoCall EXCEPT !.kind = "verify",
                    !.step = IF Current \in VERIFIABLE_STATUSES THEN "posted"
                                                                       ELSE "refused"])

\* "Refresh payout status"
RefreshStatus ==
    /\ Mounted = "verification"
    /\ LatestVerification.status = "ready" /\ View = "PASS"
    /\ StartCall([NoCall EXCEPT !.kind = "refresh", !.step = "reading",
                                !.record = Ready(0)])

-----------------------------------------------------------------------------
(* What the API does with a POST.  Requests that overlap: see BountyService. *)

Served == UNCHANGED <<identity, pageVars, workVars, panel, late, inputs>>

\* register_submission.  The answer may be lost: then the panel hears an error.
RegisterSubmission(c) ==
    /\ calls[c].kind = "submit" /\ calls[c].step = "posted"
    /\ Current = "ASSIGNED"
    /\ history' = Append(history, "SUBMITTED")
    /\ \E step \in {"reading", "refused"} :
        calls' = [calls EXCEPT ![c].step = step, ![c].record = Ready(0)]
    /\ UNCHANGED <<verifications, othersVerified>>
    /\ Served

\* COMMIT #1 of run_verification.
Store(verdict) ==
    /\ Len(verifications) < MaxVerifications
    /\ verifications' = Append(verifications, verdict)
    /\ history' = Append(history, BOUNTY_STATUS_BY_VERIFICATION[verdict])

StoreVerdict(c, verdict) ==
    /\ calls[c].kind = "verify" /\ calls[c].step = "posted"
    /\ Store(verdict)
    /\ calls' = [calls EXCEPT ![c].record = Ready(Len(verifications) + 1),
                              ![c].step = IF verdict = "PASS" THEN "paying" ELSE "reading"]
    /\ othersVerified' = (othersVerified \/ panel.running # c)
    /\ Served

\* COMMIT #2.
Pay(c) ==
    /\ calls[c].step = "paying"
    /\ history' = Append(history, "PAID")
    /\ calls' = [calls EXCEPT ![c].step = "reading"]
    /\ UNCHANGED <<verifications, othersVerified>>
    /\ Served

\* 502 or 503, of GitHub before COMMIT #1 or of Stellar after it.
FailUpstream(c) ==
    /\ calls[c].kind = "verify" /\ calls[c].step \in {"posted", "paying"}
    /\ calls' = [calls EXCEPT ![c].step = "reading", ![c].failed = TRUE,
                              ![c].record = LOADING]
    /\ UNCHANGED apiVars
    /\ Served

\* Mutant of Refuse: the panel stays busy.
RefuseStayingBusy(c) ==
    /\ calls[c].step \in {"posted", "refused", "paying"}
    /\ calls' = [calls EXCEPT ![c] = NoCall]
    /\ panel' = IF panel.running = c THEN [panel EXCEPT !.error = TRUE] ELSE panel
    /\ UNCHANGED <<apiVars, identity, pageVars, workVars, late, inputs>>

\* Any other error, or no answer: nothing is read again.
Refuse(c) ==
    /\ calls[c].step \in {"posted", "refused", "paying"}
    /\ calls' = [calls EXCEPT ![c] = NoCall]
    /\ panel' = IF panel.running = c THEN [running |-> 0, error |-> TRUE] ELSE panel
    /\ UNCHANGED <<apiVars, identity, pageVars, workVars, late, inputs>>

\* The other participant verifies, or a request whose answer was lost goes on
\* (bound: once, not after a panel that had left the page, and without its payout).
VerifyElsewhere(verdict) ==
    /\ ~othersVerified
    /\ Current \in VERIFIABLE_STATUSES
    /\ Store(verdict)
    /\ othersVerified' = TRUE
    /\ UNCHANGED calls
    /\ Served

-----------------------------------------------------------------------------
(* What a panel reads and publishes afterwards. *)

ReadBounty(c) ==
    /\ calls[c].step = "reading" /\ calls[c].bounty = LOADING
    /\ \E answer \in {Ready(Len(history)), Missing("error")} :
        calls' = [calls EXCEPT ![c].bounty = answer]
    /\ UNCHANGED apiVars
    /\ Served

ReadRecord(c) ==
    /\ calls[c].step = "reading" /\ calls[c].record = LOADING
    /\ \E answer \in {Ready(Latest), Missing("error")} :
        calls' = [calls EXCEPT ![c].record = answer]
    /\ UNCHANGED apiVars
    /\ Served

\* Mutant of Publish: no error is shown when the task could not be read again.
PublishQuietly(c) ==
    LET call == calls[c]
        reread == call.bounty.status = "ready"
    IN
    /\ call.step = "reading" /\ LOADING \notin {call.bounty, call.record}
    /\ calls' = [calls EXCEPT ![c] = NoCall]
    /\ result' = IF reread /\ result.answer.status # "loading"
                 THEN [result EXCEPT !.answer.value = call.bounty.value] ELSE result
    /\ records' = IF call.record.value # 0 /\ records.verification # LOADING
                  THEN [records EXCEPT !.verification = call.record] ELSE records
    /\ reloadToken' = IF call.kind = "submit" /\ ~reread THEN reloadToken + 1 ELSE reloadToken
    /\ late' = (late \/ panel.running # c \/ Running # {c} \/ loads # {} \/ workLoads # {})
    /\ UNCHANGED <<apiVars, identity, token, inputs>>
    /\ LoadEffect(loads) /\ WorkEffect(workLoads)
    /\ Rerender(IF panel.running = c /\ call.kind # "submit"
                THEN [running |-> 0, error |-> call.failed] ELSE panel)

\* replaceBounty, setVerification and the error in one render, whatever the
\* page shows by now.  A submission that cannot be followed by a read reloads
\* the page; its button stays disabled ("este panel desaparece").
Publish(c) ==
    LET call == calls[c]
        reread == call.bounty.status = "ready"
    IN
    /\ call.step = "reading" /\ LOADING \notin {call.bounty, call.record}
    /\ calls' = [calls EXCEPT ![c] = NoCall]
    /\ result' = IF reread /\ result.answer.status # "loading"
                 THEN [result EXCEPT !.answer.value = call.bounty.value] ELSE result
    /\ records' = IF call.record.value # 0 /\ records.verification # LOADING
                  THEN [records EXCEPT !.verification = call.record] ELSE records
    /\ reloadToken' = IF call.kind = "submit" /\ ~reread THEN reloadToken + 1 ELSE reloadToken
    /\ late' = (late \/ panel.running # c \/ Running # {c} \/ loads # {} \/ workLoads # {})
    /\ UNCHANGED <<apiVars, identity, token, inputs>>
    /\ LoadEffect(loads) /\ WorkEffect(workLoads)
    /\ Rerender(IF panel.running = c /\ call.kind # "submit"
                THEN [running |-> 0, error |-> call.failed \/ ~reread] ELSE panel)

-----------------------------------------------------------------------------
Answer ==
    \/ \E load \in loads : ServeLoad(load) \/ PublishLoad(load)
    \/ \E load \in workLoads : ServeWork(load) \/ PublishWork(load)

CallStep(c) ==
    \/ RegisterSubmission(c)
    \/ \E verdict \in Results : StoreVerdict(c, verdict)
    \/ Pay(c) \/ FailUpstream(c) \/ Refuse(c)
    \/ ReadBounty(c) \/ ReadRecord(c) \/ Publish(c)

TaskPageNext ==
    \/ Answer
    \/ SwitchIdentity \/ ReloadPage \/ ReloadWork
    \/ SubmitPullRequest \/ RunVerification \/ RefreshStatus
    \/ \E c \in Slots : CallStep(c)
    \/ \E verdict \in Results : VerifyElsewhere(verdict)

\* Every request is answered or fails, and the browser runs what follows.
TaskPageFairness ==
    /\ WF_vars(Answer)
    /\ WF_vars(\E c \in Slots : CallStep(c))

TaskPageSpec == TaskPageInit /\ [][TaskPageNext]_vars /\ TaskPageFairness

-----------------------------------------------------------------------------
\* The task and the verification on the page are never replaced by older ones,
\* through reloads, failed reads, sign-ins and panels that come and go, unless
\* an answer was published while another one was still due, or by a panel that
\* had left the page.
AnswersDoNotGoBack ==
    [][\/ late'
       \/ /\ result'.answer.value # 0 => result'.answer.value >= result.answer.value
          /\ {records.verification.status, records'.verification.status} = {"ready"} =>
                records'.verification.value >= records.verification.value]_vars

\* The task is being read again.
PageReading == loads # {}

\* "PASS ya guardado pero el bounty leido aun no dice ELIGIBLE ni PAID: solo pasa
\* si fallo el refresco posterior": a PASS beside a task that is neither eligible
\* nor paid comes with an error, with the refresh that follows it or with another
\* load of the page, as long as nobody verifies from elsewhere and no answers
\* cross.
PassIsExplained ==
    Mounted = "verification" /\ View = "PASS" =>
        \/ panel.error \/ panel.running # 0 \/ PageReading
        \/ othersVerified \/ late

\* Whatever is under way on the page ends: again and again the task and its
\* verification are not loading and the panel is not busy, whoever signs in or
\* out and whatever fails.
PageSettles ==
    []<>(/\ PageState # "loading"
         /\ Mounted = "verification" => LatestVerification # LOADING
         /\ panel.running = 0)
=============================================================================
