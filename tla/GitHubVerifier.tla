---------------------------- MODULE GitHubVerifier ----------------------------
(***************************************************************************)
(* api/app/github_verifier.py: the deterministic verdict on a pull request. *)
(* A pure function of what GitHubClient brought: no state, no network.      *)
(*                                                                          *)
(* Owner and repository are one name, `repository`; that name and the       *)
(* author are compared with casefold in the code, so here they stand for    *)
(* the casefolded text.  A path is an element of Paths; which ones are      *)
(* protected is a constant.                                                 *)
(***************************************************************************)
EXTENDS Integers, Sequences, FiniteSets

CONSTANTS
    Repositories,       \* owner/repo
    Branches,           \* base_ref
    BaseShas,           \* commits of the base branch
    Authors,            \* GitHub logins
    Heads,              \* commits of the pull request's branch
    Paths,              \* file paths
    PROTECTED_PATHS,    \* the exact paths, and those below a protected prefix
    REQUIRED_CHECKS,    \* build, regression-tests, acceptance-tests
    None

ASSUME VerifierAssumption ==
    /\ PROTECTED_PATHS \subseteq Paths
    /\ REQUIRED_CHECKS # {}
    /\ None \notin Authors \cup Paths

\* What the bounty's row expects of the pull request.
Expected == [repository: Repositories, base_ref: Branches, base_sha: BaseShas,
             author: Authors]

\* PullRequestSummary, PullRequestFile and GitHubCheckRun.
Summary == [repository: Repositories, base_ref: Branches, base_sha: BaseShas,
            author: Authors \cup {None}, head_sha: Heads,
            open: BOOLEAN, draft: BOOLEAN]
File == [filename: Paths, previous_filename: Paths \cup {None}]
CheckRun == [id: Nat, name: REQUIRED_CHECKS, head_sha: Heads,
             status: {"queued", "completed"},
             conclusion: {"success", "failure", None}]

VerificationStatuses == {"PASS", "FAIL", "PENDING"}

Elements(s) == {s[i] : i \in DOMAIN s}

-----------------------------------------------------------------------------
\* Mutant of select_latest_check_run: a completed run is preferred to a newer one.
LatestCompletedRun(name, runs) ==
    LET named == {r \in runs : r.name = name}
        done == {r \in named : r.status = "completed"}
        matches == IF done = {} THEN named ELSE done
    IN  IF matches = {} THEN None
        ELSE CHOOSE r \in matches : \A other \in matches : other.id <= r.id

\* The run with the highest id among those with the name: no order of the list
\* comes into it, so here the runs are a set.
select_latest_check_run(name, runs) ==
    LET matches == {r \in runs : r.name = name}
    IN  IF matches = {} THEN None
        ELSE CHOOSE r \in matches : \A other \in matches : other.id <= r.id

is_protected_path(path) == path \in PROTECTED_PATHS

\* Mutant of find_protected_files: the name a file had before is not looked at.
find_protected_filenames(files) ==
    {f.filename : f \in {g \in Elements(files) : is_protected_path(g.filename)}}

\* Both names of every file; the order and the repetitions in the list do not
\* matter to the verdict.
find_protected_files(files) ==
    {path \in UNION {{f.filename, f.previous_filename} : f \in Elements(files)} :
        path # None /\ is_protected_path(path)}

\* How one required check counts: missing and still running are both incomplete.
EvaluateCheck(name, runs) ==
    LET run == select_latest_check_run(name, runs) IN
    IF run = None THEN "incomplete"
    ELSE IF run.status # "completed" THEN "incomplete"
    ELSE IF run.conclusion = "success" THEN "passed" ELSE "failed"

StructuralValid(summary, files, expected) ==
    /\ summary.repository = expected.repository
    /\ summary.base_ref = expected.base_ref
    /\ summary.base_sha = expected.base_sha
    /\ summary.author = expected.author
    /\ summary.open
    /\ ~summary.draft
    /\ find_protected_files(files) = {}

\* Mutant of verify_pull_request: a failed check decides before a pending one.
verify_failures_first(summary, files, check_runs, expected) ==
    LET runs == {r \in Elements(check_runs) : r.head_sha = summary.head_sha}
        results == {EvaluateCheck(name, runs) : name \in REQUIRED_CHECKS}
    IN  IF ~StructuralValid(summary, files, expected) THEN "FAIL"
        ELSE IF "failed" \in results THEN "FAIL"
        ELSE IF "incomplete" \in results THEN "PENDING"
        ELSE "PASS"

\* Structure before what is pending, what is pending before what failed.
verify_pull_request(summary, files, check_runs, expected) ==
    LET runs == {r \in Elements(check_runs) : r.head_sha = summary.head_sha}
        results == {EvaluateCheck(name, runs) : name \in REQUIRED_CHECKS}
    IN  IF ~StructuralValid(summary, files, expected) THEN "FAIL"
        ELSE IF "incomplete" \in results THEN "PENDING"
        ELSE IF results = {"passed"} THEN "PASS"
        ELSE "FAIL"
===============================================================================
