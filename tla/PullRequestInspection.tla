------------------------ MODULE PullRequestInspection ------------------------
(***************************************************************************)
(* One pull request on GitHub and the verification MergePay makes of it     *)
(* (run_verification and GitHubClient): the summary, the files and the      *)
(* check runs are separate GETs, and the pull request goes on changing      *)
(* between them.  The verdict itself is module GitHubVerifier.              *)
(***************************************************************************)
EXTENDS GitHubVerifier

CONSTANTS
    expected,           \* what the bounty asks for
    FilesOf,            \* the files each head commit touches, in GitHub's order
    MAX_FILES,          \* files in a page
    MAX_CHECK_RUNS,     \* check runs in a page
    MaxRuns,            \* bound on the check runs ever created
    MaxPushes           \* bound on the pushes

ASSUME InspectionAssumption ==
    /\ None \notin Summary
    /\ expected \in Expected
    /\ FilesOf \in [Heads -> Seq(File)]
    /\ MAX_FILES \in Nat \ {0}
    /\ MAX_CHECK_RUNS \in Nat
    /\ MaxRuns \in Nat
    /\ MaxPushes \in Nat

VARIABLES
    pr,                 \* what GitHub would answer now
    runs,               \* check runs, in order of creation
    pushed,             \* the commits the branch has been at
    pushes,             \* pushes so far
    inspection,         \* what the request has read
    verdict             \* the last verification stored

vars == <<pr, runs, pushed, pushes, inspection, verdict>>

Steps == {"idle", "summary", "page2", "files", "checks"}

\* `steady` remembers that nothing was pushed since the summary was read.
Inspection == [step: Steps, summary: Summary \cup {None},
               files: UNION {[1..n -> File] : n \in 0..MAX_FILES},
               steady: BOOLEAN]

NothingRead == [step |-> "idle", summary |-> None, files |-> <<>>, steady |-> TRUE]

NoVerdict == [status |-> "none", head_sha |-> None, steady |-> TRUE]

InspectionTypeOK ==
    /\ pr \in Summary
    /\ runs \in Seq(CheckRun) /\ Len(runs) <= MaxRuns
    /\ pushed \subseteq Heads /\ pr.head_sha \in pushed
    /\ pushes \in 0..MaxPushes
    /\ inspection \in Inspection
    /\ inspection.step = "idle" <=> inspection.summary = None
    /\ verdict \in [status: VerificationStatuses, head_sha: Heads, steady: BOOLEAN]
                     \cup {NoVerdict}

InspectionInit ==
    /\ pr \in [repository: Repositories, base_ref: Branches, base_sha: BaseShas,
               author: Authors \cup {None}, head_sha: Heads,
               open: {TRUE}, draft: BOOLEAN]
    /\ runs = <<>>
    /\ pushed = {pr.head_sha}
    /\ pushes = 0
    /\ inspection = NothingRead
    /\ verdict = NoVerdict

-----------------------------------------------------------------------------
\* The developer pushes, possibly a commit the branch was at before.
Push(head) ==
    /\ pushes < MaxPushes
    /\ pr.head_sha # head
    /\ pr' = [pr EXCEPT !.head_sha = head]
    /\ pushed' = pushed \cup {head}
    /\ pushes' = pushes + 1
    /\ inspection' = [inspection EXCEPT !.steady = @ /\ inspection.step = "idle"]
    /\ UNCHANGED <<runs, verdict>>

\* The pull request is closed, reopened, made a draft or ready again.
Switch ==
    /\ \/ pr' = [pr EXCEPT !.open = ~@]
       \/ pr' = [pr EXCEPT !.draft = ~@]
    /\ UNCHANGED <<runs, pushed, pushes, inspection, verdict>>

\* A check suite starts for a commit that was pushed, or a check is run again:
\* ids only grow.
CreateRun(name, head) ==
    /\ Len(runs) < MaxRuns
    /\ runs' = Append(runs, [id |-> Len(runs) + 1, name |-> name, head_sha |-> head,
                             status |-> "queued", conclusion |-> None])
    /\ UNCHANGED <<pr, pushed, pushes, inspection, verdict>>

CompleteRun(i, conclusion) ==
    /\ runs[i].status = "queued"
    /\ runs' = [runs EXCEPT ![i].status = "completed", ![i].conclusion = conclusion]
    /\ UNCHANGED <<pr, pushed, pushes, inspection, verdict>>

-----------------------------------------------------------------------------
\* get_pull_request
GetPullRequest ==
    /\ inspection.step = "idle"
    /\ inspection' = [NothingRead EXCEPT !.step = "summary", !.summary = pr]
    /\ UNCHANGED <<pr, runs, pushed, pushes, verdict>>

FirstPage(files) ==
    SubSeq(files, 1, IF Len(files) < MAX_FILES THEN Len(files) ELSE MAX_FILES)

\* Mutant of ListFiles: a full page is taken for the whole list.
ListFirstPage ==
    /\ inspection.step = "summary"
    /\ inspection' = [inspection EXCEPT !.files = FirstPage(FilesOf[pr.head_sha]),
                                        !.step = "files"]
    /\ UNCHANGED <<pr, runs, pushed, pushes, verdict>>

\* list_pull_request_files: the files of the pull request, whatever its head is
\* by now.  Only a full page asks for the second.
ListFiles ==
    LET page == FirstPage(FilesOf[pr.head_sha]) IN
    /\ inspection.step = "summary"
    /\ inspection' = [inspection EXCEPT
            !.files = page,
            !.step = IF Len(page) < MAX_FILES THEN "files" ELSE "page2"]
    /\ UNCHANGED <<pr, runs, pushed, pushes, verdict>>

\* The second page is empty; if it is not, PullRequestTooLargeError (GiveUp).
ListSecondPage ==
    /\ inspection.step = "page2"
    /\ Len(FilesOf[pr.head_sha]) <= MAX_FILES
    /\ inspection' = [inspection EXCEPT !.step = "files"]
    /\ UNCHANGED <<pr, runs, pushed, pushes, verdict>>

\* The runs GitHub lists for a commit: `filter=latest` hides older runs of a
\* check suite, never the newest run of a name, and no order is promised.
IsNewest(i) ==
    \A j \in DOMAIN runs :
        runs[j].name = runs[i].name /\ runs[j].head_sha = runs[i].head_sha => j <= i

Listings(head) ==
    LET of_head == {i \in DOMAIN runs : runs[i].head_sha = head}
        newest == {i \in of_head : IsNewest(i)}
        Orders(shown) == {order \in [1..Cardinality(shown) -> shown] :
                            Elements(order) = shown}
    IN  {[k \in DOMAIN order |-> runs[order[k]]] :
            order \in UNION {Orders(newest \cup older) : older \in SUBSET (of_head \ newest)}}

\* list_check_runs for the head of the summary, the verdict, and the
\* Verification stored with it.  More runs than a page is an error (GiveUp).
Evaluate(listing) ==
    LET s == inspection.summary IN
    /\ inspection.step = "files"
    /\ Len(listing) <= MAX_CHECK_RUNS
    /\ verdict' = [status |-> verify_pull_request(s, inspection.files, listing, expected),
                   head_sha |-> s.head_sha, steady |-> inspection.steady]
    /\ inspection' = NothingRead
    /\ UNCHANGED <<pr, runs, pushed, pushes>>

\* GitHub is unavailable, or answers more than the limits: nothing is stored.
GiveUp ==
    /\ inspection.step # "idle"
    /\ inspection' = NothingRead
    /\ UNCHANGED <<pr, runs, pushed, pushes, verdict>>

GitHubStep ==
    \/ \E head \in Heads : Push(head)
    \/ Switch
    \/ \E name \in REQUIRED_CHECKS, head \in pushed : CreateRun(name, head)
    \/ \E i \in DOMAIN runs, conclusion \in {"success", "failure"} :
            CompleteRun(i, conclusion)

RequestStep ==
    \/ GetPullRequest
    \/ ListFiles
    \/ ListSecondPage
    \/ inspection.step = "files" /\
       \E listing \in Listings(inspection.summary.head_sha) : Evaluate(listing)
    \/ GiveUp

InspectionNext == GitHubStep \/ RequestStep

InspectionSpec == InspectionInit /\ [][InspectionNext]_vars

-----------------------------------------------------------------------------
NewestRun(name, head) ==
    {i \in DOMAIN runs : runs[i].name = name /\ runs[i].head_sha = head /\ IsNewest(i)}

Succeeded(name, head) ==
    \E i \in NewestRun(name, head) :
        runs[i].status = "completed" /\ runs[i].conclusion = "success"

Unfinished(name, head) ==
    \A i \in NewestRun(name, head) : runs[i].status # "completed"

NewVerdict == verdict' # verdict

\* A PASS is never given on an outdated run: at that moment the newest run of
\* every required check on the verified commit has succeeded, in whatever order
\* GitHub listed the runs and whichever older ones it left out.
PassIsEarned ==
    [][NewVerdict /\ verdict'.status = "PASS" =>
            \A name \in REQUIRED_CHECKS : Succeeded(name, verdict'.head_sha)]_vars

\* As long as a required check has not finished the verdict does not settle for
\* FAIL because of another one: a PASS may still come, and the task waits.
RunningChecksAreWaitedFor ==
    [][NewVerdict /\ (\E name \in REQUIRED_CHECKS : Unfinished(name, verdict'.head_sha)) =>
            \/ verdict'.status = "PENDING"
            \/ /\ verdict'.status = "FAIL"
               /\ ~StructuralValid(inspection.summary, inspection.files, expected)]_vars

TouchesProtected(head) ==
    \E i \in DOMAIN FilesOf[head] :
        {FilesOf[head][i].filename, FilesOf[head][i].previous_filename}
            \cap PROTECTED_PATHS # {}

\* While nobody pushes, a PASS covers every file of the commit: those that do
\* not fit in a page and those that were renamed away included.
SteadyPassCoversEveryFile ==
    verdict.status = "PASS" /\ verdict.steady => ~TouchesProtected(verdict.head_sha)
==============================================================================
