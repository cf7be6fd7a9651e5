-------------------------- MODULE InspectionProofs --------------------------
(***************************************************************************)
(* Proofs about the inspection of a pull request that changes while it is   *)
(* read, for any files, check runs, page sizes and pushes.                  *)
(***************************************************************************)
EXTENDS PullRequestInspection, WellFoundedInduction, TLAPS

-----------------------------------------------------------------------------
\* What the first page of a listing tells: it is the whole list unless the list
\* is longer than a page, and only then or just then is it full.
LEMMA FirstPageOfFiles ==
  ASSUME NEW files \in Seq(File)
  PROVE  /\ FirstPage(files) \in UNION {[1..n -> File] : n \in 0..MAX_FILES}
         /\ Len(files) <= MAX_FILES => FirstPage(files) = files
         /\ Len(FirstPage(files)) < MAX_FILES => Len(files) <= MAX_FILES
<1> DEFINE n == IF Len(files) < MAX_FILES THEN Len(files) ELSE MAX_FILES
<1>1. n \in 0..MAX_FILES /\ n <= Len(files) /\ n \in Nat
  BY InspectionAssumption
<1>2. FirstPage(files) = [i \in 1..n |-> files[i]]
  BY <1>1 DEF FirstPage
<1> HIDE DEF n
<1>3. FirstPage(files) \in [1..n -> File]
  BY <1>1, <1>2
<1>4. Len(FirstPage(files)) = n
  BY <1>1, <1>3
<1>5. files = [i \in 1..Len(files) |-> files[i]]
  OBVIOUS
<1>6. Len(files) <= MAX_FILES => n = Len(files)
  BY InspectionAssumption DEF n
<1>7. n < MAX_FILES => Len(files) <= MAX_FILES
  BY InspectionAssumption DEF n
<1>8. QED
  BY <1>1, <1>2, <1>3, <1>4, <1>5, <1>6, <1>7

\* A verdict is one of three, and a PASS had no protected file among its files.
LEMMA VerdictsAreStructural ==
  ASSUME NEW s, NEW files, NEW listing
  PROVE  /\ verify_pull_request(s, files, listing, expected) \in VerificationStatuses
         /\ verify_pull_request(s, files, listing, expected) = "PASS" =>
                find_protected_files(files) = {}
BY DEF verify_pull_request, VerificationStatuses, StructuralValid

\* What is looked for in the files of a commit is found.
LEMMA ProtectedFilesAreFound ==
  ASSUME NEW head \in Heads, find_protected_files(FilesOf[head]) = {}
  PROVE  ~TouchesProtected(head)
<1> SUFFICES ASSUME NEW i \in DOMAIN FilesOf[head],
                    NEW path \in {FilesOf[head][i].filename,
                                  FilesOf[head][i].previous_filename},
                    path \in PROTECTED_PATHS
             PROVE  FALSE
  BY DEF TouchesProtected
<1>1. path # None
  BY VerifierAssumption
<1>2. path \in UNION {{f.filename, f.previous_filename} : f \in Elements(FilesOf[head])}
  BY DEF Elements
<1>3. QED
  BY <1>1, <1>2 DEF find_protected_files, is_protected_path

-----------------------------------------------------------------------------
(* The check runs. *)

\* Of some indices of a list there is a last one.
LEMMA LastIndex ==
  ASSUME NEW n \in Nat, NEW S, S \subseteq 1..n, S # {}
  PROVE  \E m \in S : \A j \in S : j <= m
<1> DEFINE Left == {k \in Nat : n - k \in S}
<1>1. Left \subseteq Nat
  OBVIOUS
<1>2. Left # {}
  <2>1. PICK j \in S : TRUE
    OBVIOUS
  <2>2. n - j \in Nat /\ n - (n - j) = j
    OBVIOUS
  <2>3. n - j \in Left
    BY <2>1, <2>2
  <2>4. QED
    BY <2>3
<1> HIDE DEF Left
<1>3. \E k \in Left : \A l \in Left : ~(<<l, k>> \in OpToRel(<, Nat))
  BY <1>1, <1>2, NatLessThanWellFounded, WFMin
<1>4. PICK k \in Left : \A l \in Left : ~(<<l, k>> \in OpToRel(<, Nat))
  BY <1>3
<1>5. \A l \in Left : ~(l < k)
  BY <1>1, <1>4, Zenon DEF OpToRel
<1>6. n - k \in S
  BY DEF Left
<1>7. ASSUME NEW j \in S
      PROVE  j <= n - k
  <2>1. n - j \in Left
    BY DEF Left
  <2>2. ~(n - j < k)
    BY <1>5, <2>1
  <2>3. QED
    BY <1>1, <2>2
<1>8. QED
  BY <1>6, <1>7

\* Runs are numbered as they are created.
RunsAreNumbered == \A i \in DOMAIN runs : runs[i].id = i

\* Whatever GitHub lists of a commit, runs of that commit are listed, and the newest
\* of each name is.
LEMMA NewestAreListed ==
  ASSUME runs \in Seq(CheckRun), NEW head, NEW listing \in Listings(head)
  PROVE  /\ \A r \in Elements(listing) :
                \E i \in DOMAIN runs : r = runs[i] /\ runs[i].head_sha = head
         /\ \A i \in DOMAIN runs : runs[i].head_sha = head /\ IsNewest(i) =>
                runs[i] \in Elements(listing)
<1> DEFINE of_head == {i \in DOMAIN runs : runs[i].head_sha = head}
           newest == {i \in of_head : IsNewest(i)}
           Orders(shown) == {order \in [1..Cardinality(shown) -> shown] :
                                Elements(order) = shown}
<1>0. PICK older \in SUBSET (of_head \ newest) :
            \E order \in Orders(newest \cup older) :
                listing = [k \in DOMAIN order |-> runs[order[k]]]
  BY Zenon DEF Listings
<1>1. PICK order \in Orders(newest \cup older) :
            listing = [k \in DOMAIN order |-> runs[order[k]]]
  BY <1>0
<1>2. \A k \in DOMAIN order : order[k] \in newest \cup older
  BY <1>1
<1>3. \A i \in newest \cup older : \E k \in DOMAIN order : order[k] = i
  BY <1>1 DEF Elements
<1>4. DOMAIN listing = DOMAIN order /\ \A k \in DOMAIN order : listing[k] = runs[order[k]]
  BY <1>1
<1>5. \A r \in Elements(listing) : \E i \in DOMAIN runs : r = runs[i] /\ runs[i].head_sha = head
  BY <1>2, <1>4 DEF Elements
<1>6. \A i \in DOMAIN runs : runs[i].head_sha = head /\ IsNewest(i) =>
            runs[i] \in Elements(listing)
  BY <1>3, <1>4 DEF Elements
<1>7. QED
  BY <1>5, <1>6

\* Of the runs listed for a commit, the one with the highest id is the newest that
\* exists; none is found if the check has none.
LEMMA TheNewestIsSelected ==
  ASSUME runs \in Seq(CheckRun), RunsAreNumbered,
         NEW name, NEW head, NEW listing \in Listings(head)
  PROVE  \E run : /\ run = select_latest_check_run(name,
                                {r \in Elements(listing) : r.head_sha = head})
                  /\ run = None \/ \E i \in NewestRun(name, head) : run = runs[i]
<1> DEFINE of_head == {r \in Elements(listing) : r.head_sha = head}
           matches == {r \in of_head : r.name = name}
           named == {i \in DOMAIN runs : runs[i].name = name /\ runs[i].head_sha = head}
           run == select_latest_check_run(name, of_head)
           Latest(r) == r \in matches /\ \A other \in matches : other.id <= r.id
<1> SUFFICES ASSUME matches # {}
             PROVE  \E i \in NewestRun(name, head) : run = runs[i]
  BY DEF select_latest_check_run
<1>1. \A r \in matches : \E i \in named : r = runs[i]
  BY NewestAreListed
<1>2. named # {} /\ named \subseteq 1..Len(runs)
  BY <1>1
<1>3. PICK m \in named : \A j \in named : j <= m
  <2>1. Len(runs) \in Nat
    OBVIOUS
  <2> HIDE DEF named
  <2>2. QED
    BY <1>2, <2>1, LastIndex
<1>4. IsNewest(m) /\ runs[m] \in matches
  <2>1. IsNewest(m)
    BY <1>3 DEF IsNewest
  <2>2. QED
    BY <2>1, NewestAreListed
<1>5. \A i \in named : runs[i].id = i
  BY DEF RunsAreNumbered
<1>6. Latest(runs[m])
  BY <1>1, <1>3, <1>4, <1>5
<1>7. run = CHOOSE r \in matches : \A other \in matches : other.id <= r.id
  BY DEF select_latest_check_run
<1> HIDE DEF matches, run
<1>8. Latest(run)
  BY <1>6, <1>7
<1>9. PICK i \in named : run = runs[i]
  BY <1>1, <1>8
<1>10. m <= i
  BY <1>3, <1>4, <1>5, <1>8, <1>9
<1>11. i = m
  BY <1>2, <1>3, <1>10
<1>12. m \in NewestRun(name, head)
  BY <1>4 DEF NewestRun
<1>13. QED
  BY <1>9, <1>11, <1>12

\* What a check counts for is what its newest run says.
LEMMA ChecksCountTheirNewest ==
  ASSUME runs \in Seq(CheckRun), RunsAreNumbered,
         NEW name, NEW head, NEW listing \in Listings(head)
  PROVE  LET counts == EvaluateCheck(name, {r \in Elements(listing) : r.head_sha = head})
         IN  /\ counts = "passed" => Succeeded(name, head)
             /\ Unfinished(name, head) => counts = "incomplete"
<1> DEFINE run == select_latest_check_run(name,
                        {r \in Elements(listing) : r.head_sha = head})
<1>1. run = None \/ \E i \in NewestRun(name, head) : run = runs[i]
  BY TheNewestIsSelected
<1> HIDE DEF run
<1>2. CASE run = None
  BY <1>2 DEF run, EvaluateCheck
<1>3. ASSUME NEW i \in NewestRun(name, head), run = runs[i], run # None
      PROVE  LET counts == EvaluateCheck(name,
                                {r \in Elements(listing) : r.head_sha = head})
             IN  /\ counts = "passed" => Succeeded(name, head)
                 /\ Unfinished(name, head) => counts = "incomplete"
  BY <1>3 DEF run, EvaluateCheck, Succeeded, Unfinished
<1>4. QED
  BY <1>1, <1>2, <1>3

-----------------------------------------------------------------------------
\* What a request has read of a pull request nobody pushed to meanwhile: the
\* files are those of the commit of the summary, as far as they were listed.
ReadOfOneCommit ==
    inspection.step # "idle" /\ inspection.steady =>
        /\ pr.head_sha = inspection.summary.head_sha
        /\ inspection.step = "page2" =>
                inspection.files = FirstPage(FilesOf[inspection.summary.head_sha])
        /\ inspection.step = "files" =>
                inspection.files = FilesOf[inspection.summary.head_sha]

\* The property says nothing of a request under way and is not inductive alone.
InspectionInv ==
    /\ InspectionTypeOK
    /\ ReadOfOneCommit
    /\ SteadyPassCoversEveryFile

\* A request begins with nothing read.
LEMMA NothingReadIsTyped ==
  NothingRead \in Inspection /\ NothingRead.step = "idle" /\ NothingRead.summary = None
<1>1. <<>> \in [1..0 -> File] /\ 0 \in 0..MAX_FILES
  BY InspectionAssumption
<1>2. NothingRead.files \in UNION {[1..n -> File] : n \in 0..MAX_FILES}
  BY <1>1 DEF NothingRead
<1>3. QED
  BY <1>2 DEF NothingRead, Inspection, Steps

\* The initial states.
LEMMA InspectionStarts == InspectionInit => InspectionInv
<1> SUFFICES ASSUME InspectionInit
             PROVE  InspectionInv
  OBVIOUS
<1>1. pr \in Summary /\ runs \in Seq(CheckRun) /\ Len(runs) <= MaxRuns
  <2>1. pr \in Summary
    BY DEF InspectionInit, Summary
  <2>2. runs = <<>>
    BY DEF InspectionInit
  <2>3. QED
    BY <2>1, <2>2, InspectionAssumption
<1>2. InspectionTypeOK
  BY <1>1, NothingReadIsTyped, InspectionAssumption
     DEF InspectionInit, InspectionTypeOK, Summary, NoVerdict
<1>3. QED
  BY <1>2 DEF InspectionInit, InspectionInv, ReadOfOneCommit, NothingRead,
              SteadyPassCoversEveryFile, NoVerdict

\* The inductive step, one action at a time.
LEMMA InspectionGoesOn == InspectionInv /\ [InspectionNext]_vars => InspectionInv'
<1> SUFFICES ASSUME InspectionInv, [InspectionNext]_vars
             PROVE  InspectionInv'
  OBVIOUS
<1>t. /\ pr \in Summary /\ pr.head_sha \in Heads /\ pr.head_sha \in pushed
      /\ runs \in Seq(CheckRun) /\ Len(runs) <= MaxRuns /\ pushed \subseteq Heads
      /\ pushes \in 0..MaxPushes /\ inspection \in Inspection
      /\ (inspection.step = "idle" <=> inspection.summary = None)
      /\ verdict \in [status: VerificationStatuses, head_sha: Heads, steady: BOOLEAN]
                        \cup {NoVerdict}
      /\ ReadOfOneCommit /\ SteadyPassCoversEveryFile
  BY DEF InspectionInv, InspectionTypeOK, Summary
<1>s. None \notin Summary
  BY InspectionAssumption
<1>1. ASSUME NEW head \in Heads, Push(head)
      PROVE  InspectionInv'
  <2>1. pr' \in Summary /\ pr'.head_sha = head
    BY <1>t, <1>1 DEF Push, Summary
  <2>2. pushes' \in 0..MaxPushes /\ pushed' \subseteq Heads /\ head \in pushed'
    BY <1>t, <1>1, InspectionAssumption DEF Push
  <2>3. /\ inspection' \in Inspection /\ inspection'.step = inspection.step
        /\ inspection'.summary = inspection.summary
        /\ inspection'.steady = (inspection.steady /\ inspection.step = "idle")
    BY <1>t, <1>1 DEF Push, Inspection
  <2>4. InspectionTypeOK'
    BY <1>t, <1>1, <2>1, <2>2, <2>3 DEF Push, InspectionTypeOK
  <2>5. ReadOfOneCommit'
    BY <2>3 DEF ReadOfOneCommit
  <2>6. QED
    BY <1>t, <1>1, <2>4, <2>5 DEF Push, InspectionInv, SteadyPassCoversEveryFile
<1>2. CASE Switch
  <2>1. pr' \in Summary /\ pr'.head_sha = pr.head_sha
    BY <1>t, <1>2 DEF Switch, Summary
  <2>2. QED
    BY <1>t, <1>2, <2>1 DEF Switch, InspectionInv, InspectionTypeOK, ReadOfOneCommit,
                            SteadyPassCoversEveryFile
<1>3. ASSUME NEW name \in REQUIRED_CHECKS, NEW head \in pushed, CreateRun(name, head)
      PROVE  InspectionInv'
  <2> DEFINE run == [id |-> Len(runs) + 1, name |-> name, head_sha |-> head,
                     status |-> "queued", conclusion |-> None]
  <2>1. run \in CheckRun
    BY <1>t DEF CheckRun
  <2>2. runs' \in Seq(CheckRun) /\ Len(runs') <= MaxRuns
    BY <1>t, <1>3, <2>1, InspectionAssumption DEF CreateRun
  <2>3. QED
    BY <1>t, <1>3, <2>2 DEF CreateRun, InspectionInv, InspectionTypeOK, ReadOfOneCommit,
                            SteadyPassCoversEveryFile
<1>4. ASSUME NEW i \in DOMAIN runs, NEW conclusion \in {"success", "failure"},
             CompleteRun(i, conclusion)
      PROVE  InspectionInv'
  <2> DEFINE run == [runs[i] EXCEPT !.status = "completed", !.conclusion = conclusion]
  <2>1. runs[i] \in CheckRun
    BY <1>t
  <2>2. run \in CheckRun
    BY <2>1 DEF CheckRun
  <2>3. runs' = [runs EXCEPT ![i] = run]
    BY <1>t, <1>4, <2>1 DEF CompleteRun, CheckRun
  <2> HIDE DEF run
  <2>4. runs' \in Seq(CheckRun) /\ Len(runs') <= MaxRuns
    BY <1>t, <2>2, <2>3
  <2>5. QED
    BY <1>t, <1>4, <2>4 DEF CompleteRun, InspectionInv, InspectionTypeOK,
                            ReadOfOneCommit, SteadyPassCoversEveryFile
<1>5. CASE GetPullRequest
  <2>1. /\ inspection' \in Inspection /\ inspection'.step = "summary"
        /\ inspection'.summary = pr
    BY <1>t, <1>5, NothingReadIsTyped
       DEF GetPullRequest, NothingRead, Inspection, Steps
  <2>2. pr # None
    BY <1>t, <1>s
  <2>3. QED
    BY <1>t, <1>5, <2>1, <2>2
       DEF GetPullRequest, InspectionInv, InspectionTypeOK, ReadOfOneCommit,
           SteadyPassCoversEveryFile
<1>6. CASE ListFiles
  <2> DEFINE files == FilesOf[pr.head_sha]
             page == FirstPage(files)
             step == IF Len(page) < MAX_FILES THEN "files" ELSE "page2"
  <2>1. files \in Seq(File)
    BY <1>t, InspectionAssumption
  <2>2. /\ page \in UNION {[1..n -> File] : n \in 0..MAX_FILES}
        /\ step = "files" => page = files
    BY <2>1, FirstPageOfFiles
  <2>3. step \in {"files", "page2"}
    OBVIOUS
  <2>4. inspection' = [inspection EXCEPT !.files = page, !.step = step]
    BY <1>6 DEF ListFiles
  <2> HIDE DEF step
  <2>5. /\ inspection' \in Inspection /\ inspection'.step = step
        /\ inspection'.files = page
        /\ inspection'.summary = inspection.summary
        /\ inspection'.steady = inspection.steady
    BY <1>t, <2>2, <2>3, <2>4 DEF Inspection, Steps
  <2>6. InspectionTypeOK'
    BY <1>t, <1>6, <2>3, <2>5 DEF ListFiles, InspectionTypeOK
  <2>7. ReadOfOneCommit'
    BY <1>t, <1>6, <2>2, <2>3, <2>5 DEF ListFiles, ReadOfOneCommit
  <2>8. QED
    BY <1>t, <1>6, <2>6, <2>7 DEF ListFiles, InspectionInv, SteadyPassCoversEveryFile
<1>7. CASE ListSecondPage
  <2>1. /\ inspection' \in Inspection /\ inspection'.step = "files"
        /\ inspection'.files = inspection.files
        /\ inspection'.summary = inspection.summary
        /\ inspection'.steady = inspection.steady
    BY <1>t, <1>7 DEF ListSecondPage, Inspection, Steps
  <2>2. FirstPage(FilesOf[pr.head_sha]) = FilesOf[pr.head_sha]
    BY <1>t, <1>7, FirstPageOfFiles, InspectionAssumption DEF ListSecondPage
  <2>3. ReadOfOneCommit'
    BY <1>t, <1>7, <2>1, <2>2 DEF ListSecondPage, ReadOfOneCommit
  <2>4. QED
    BY <1>t, <1>7, <2>1, <2>3 DEF ListSecondPage, InspectionInv, InspectionTypeOK,
                                  SteadyPassCoversEveryFile
<1>8. ASSUME NEW listing, Evaluate(listing)
      PROVE  InspectionInv'
  <2> DEFINE status == verify_pull_request(inspection.summary, inspection.files,
                                           listing, expected)
  <2>1. /\ inspection.step = "files" /\ inspection.summary \in Summary
        /\ inspection.summary.head_sha \in Heads
    BY <1>t, <1>8 DEF Evaluate, Inspection, Summary
  <2>2. status \in VerificationStatuses
    BY VerdictsAreStructural
  <2>3. verdict' = [status |-> status, head_sha |-> inspection.summary.head_sha,
                    steady |-> inspection.steady]
    BY <1>8 DEF Evaluate
  <2>4. status = "PASS" /\ inspection.steady =>
            ~TouchesProtected(inspection.summary.head_sha)
    BY <1>t, <2>1, VerdictsAreStructural, ProtectedFilesAreFound DEF ReadOfOneCommit
  <2> HIDE DEF status
  <2>5. /\ verdict' \in [status: VerificationStatuses, head_sha: Heads, steady: BOOLEAN]
        /\ SteadyPassCoversEveryFile'
    BY <1>t, <2>1, <2>2, <2>3, <2>4
       DEF SteadyPassCoversEveryFile, TouchesProtected, Inspection
  <2>6. QED
    BY <1>t, <1>8, <2>5, NothingReadIsTyped
       DEF Evaluate, InspectionInv, InspectionTypeOK, ReadOfOneCommit
<1>9. CASE GiveUp
  BY <1>t, <1>9, NothingReadIsTyped
     DEF GiveUp, InspectionInv, InspectionTypeOK, ReadOfOneCommit,
         SteadyPassCoversEveryFile
<1>10. CASE UNCHANGED vars
  BY <1>t, <1>10 DEF vars, InspectionInv, InspectionTypeOK, ReadOfOneCommit,
                     SteadyPassCoversEveryFile
<1>11. QED
  BY <1>1, <1>2, <1>3, <1>4, <1>5, <1>6, <1>7, <1>8, <1>9, <1>10
     DEF InspectionNext, GitHubStep, RequestStep

\* Check runs are never renumbered.
LEMMA RunsStayNumbered ==
  InspectionInv /\ RunsAreNumbered /\ [InspectionNext]_vars => RunsAreNumbered'
<1> SUFFICES ASSUME InspectionInv, RunsAreNumbered, [InspectionNext]_vars
             PROVE  RunsAreNumbered'
  OBVIOUS
<1>t. runs \in Seq(CheckRun)
  BY DEF InspectionInv, InspectionTypeOK
<1>1. ASSUME NEW name, NEW head, CreateRun(name, head)
      PROVE  RunsAreNumbered'
  <2> DEFINE run == [id |-> Len(runs) + 1, name |-> name, head_sha |-> head,
                     status |-> "queued", conclusion |-> None]
  <2>1. runs' = Append(runs, run) /\ run.id = Len(runs) + 1
    BY <1>1 DEF CreateRun
  <2> HIDE DEF run
  <2>2. QED
    BY <1>t, <2>1 DEF RunsAreNumbered
<1>2. ASSUME NEW i, NEW conclusion, CompleteRun(i, conclusion)
      PROVE  RunsAreNumbered'
  <2>1. DOMAIN runs' = DOMAIN runs
    BY <1>2 DEF CompleteRun
  <2>2. \A j \in DOMAIN runs : runs'[j].id = runs[j].id
    BY <1>t, <1>2 DEF CompleteRun, CheckRun
  <2>3. QED
    BY <2>1, <2>2 DEF RunsAreNumbered
<1>3. runs' = runs => RunsAreNumbered'
  BY DEF RunsAreNumbered
<1>4. QED
  BY <1>1, <1>2, <1>3
     DEF InspectionNext, GitHubStep, RequestStep, Push, Switch, GetPullRequest, ListFiles,
         ListSecondPage, Evaluate, GiveUp, vars

\* A new verdict was computed from a listing of the commit it is about.
LEMMA VerdictsAreOfAListing ==
  ASSUME InspectionInv, [InspectionNext]_vars, NewVerdict
  PROVE  \E listing \in Listings(verdict'.head_sha) :
            /\ verdict'.head_sha = inspection.summary.head_sha
            /\ verdict'.status = verify_pull_request(inspection.summary, inspection.files,
                                                     listing, expected)
<1>1. PICK listing \in Listings(inspection.summary.head_sha) : Evaluate(listing)
  BY DEF NewVerdict, InspectionNext, GitHubStep, RequestStep, Push, Switch, CreateRun,
         CompleteRun, GetPullRequest, ListFiles, ListSecondPage, GiveUp, vars
<1>2. /\ verdict'.head_sha = inspection.summary.head_sha
      /\ verdict'.status = verify_pull_request(inspection.summary, inspection.files,
                                               listing, expected)
  BY <1>1 DEF Evaluate
<1>3. QED
  BY <1>1, <1>2

\* Every run numbers its check runs.
LEMMA RunsHoldNumbers == InspectionSpec => [](InspectionInv /\ RunsAreNumbered)
<1>1. InspectionInit => RunsAreNumbered
  BY DEF InspectionInit, RunsAreNumbered
<1>2. QED
  BY <1>1, InspectionStarts, InspectionGoesOn, RunsStayNumbered, PTL DEF InspectionSpec

\* A PASS is earned: when it is given, the newest run of each required check on
\* the verified commit has succeeded, whatever GitHub leaves out of its listing.
THEOREM PassesAreEarned == InspectionSpec => PassIsEarned
<1>1. ASSUME InspectionInv, RunsAreNumbered, [InspectionNext]_vars, NewVerdict,
             verdict'.status = "PASS", NEW name \in REQUIRED_CHECKS
      PROVE  Succeeded(name, verdict'.head_sha)
  <2> DEFINE head == verdict'.head_sha
  <2>1. PICK listing \in Listings(head) :
            /\ head = inspection.summary.head_sha
            /\ "PASS" = verify_pull_request(inspection.summary, inspection.files,
                                            listing, expected)
    BY <1>1, VerdictsAreOfAListing
  <2> DEFINE of_head == {r \in Elements(listing) : r.head_sha = head}
  <2>2. {EvaluateCheck(n, of_head) : n \in REQUIRED_CHECKS} = {"passed"}
    BY <2>1 DEF verify_pull_request
  <2>3. EvaluateCheck(name, of_head) = "passed"
    BY <1>1, <2>2
  <2>4. runs \in Seq(CheckRun)
    BY <1>1 DEF InspectionInv, InspectionTypeOK
  <2> HIDE DEF head
  <2>5. Succeeded(name, head)
    BY <1>1, <2>3, <2>4, ChecksCountTheirNewest, Zenon
  <2>6. QED
    BY <2>5 DEF head
<1>2. InspectionInv /\ RunsAreNumbered /\ [InspectionNext]_vars =>
        [NewVerdict /\ verdict'.status = "PASS" =>
            \A name \in REQUIRED_CHECKS : Succeeded(name, verdict'.head_sha)]_vars
  BY <1>1
<1>3. QED
  BY <1>2, RunsHoldNumbers, PTL DEF InspectionSpec, PassIsEarned

\* A required check that has not finished is waited for: no other check's failure
\* makes the verdict FAIL before, only a rule about the pull request does.
THEOREM RunningChecksAreNotOvertaken == InspectionSpec => RunningChecksAreWaitedFor
<1>1. ASSUME InspectionInv, RunsAreNumbered, [InspectionNext]_vars, NewVerdict,
             NEW name \in REQUIRED_CHECKS, Unfinished(name, verdict'.head_sha)
      PROVE  \/ verdict'.status = "PENDING"
             \/ /\ verdict'.status = "FAIL"
                /\ ~StructuralValid(inspection.summary, inspection.files, expected)
  <2> DEFINE head == verdict'.head_sha
  <2>1. PICK listing \in Listings(head) :
            /\ head = inspection.summary.head_sha
            /\ verdict'.status = verify_pull_request(inspection.summary,
                                        inspection.files, listing, expected)
    BY <1>1, VerdictsAreOfAListing
  <2> DEFINE of_head == {r \in Elements(listing) : r.head_sha = head}
  <2>2. runs \in Seq(CheckRun)
    BY <1>1 DEF InspectionInv, InspectionTypeOK
  <2>3. EvaluateCheck(name, of_head) = "incomplete"
    <3> HIDE DEF head
    <3>1. QED
      BY <1>1, <2>2, ChecksCountTheirNewest, Zenon DEF head
  <2>4. "incomplete" \in {EvaluateCheck(n, of_head) : n \in REQUIRED_CHECKS}
    BY <1>1, <2>3
  <2>5. QED
    BY <2>1, <2>4 DEF verify_pull_request
<1>2. InspectionInv /\ RunsAreNumbered /\ [InspectionNext]_vars =>
        [NewVerdict /\ (\E name \in REQUIRED_CHECKS :
                            Unfinished(name, verdict'.head_sha)) =>
            \/ verdict'.status = "PENDING"
            \/ /\ verdict'.status = "FAIL"
               /\ ~StructuralValid(inspection.summary, inspection.files, expected)]_vars
  BY <1>1
<1>3. QED
  BY <1>2, RunsHoldNumbers, PTL DEF InspectionSpec, RunningChecksAreWaitedFor

\* Pull request, check runs, request and verdict keep their types.
THEOREM InspectionTypeCorrect == InspectionSpec => []InspectionTypeOK
<1>1. InspectionInv => InspectionTypeOK
  BY DEF InspectionInv
<1>2. QED
  BY <1>1, InspectionStarts, InspectionGoesOn, PTL DEF InspectionSpec

\* A PASS covers every file of its commit unless somebody pushed while the
\* pull request was being read.
THEOREM SteadyPassesCoverEveryFile == InspectionSpec => []SteadyPassCoversEveryFile
<1>1. InspectionInv => SteadyPassCoversEveryFile
  BY DEF InspectionInv
<1>2. QED
  BY <1>1, InspectionStarts, InspectionGoesOn, PTL DEF InspectionSpec
=============================================================================
