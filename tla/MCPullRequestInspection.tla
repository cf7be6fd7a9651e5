----------------------- MODULE MCPullRequestInspection -----------------------
(***************************************************************************)
(* Instances of PullRequestInspection for TLC.                              *)
(***************************************************************************)
EXTENDS PullRequestInspection, TLC

Plain(path) == [filename |-> path, previous_filename |-> None]

\* h1 is clean; h2 moves a protected file away; h3 fills a page and hides a
\* protected file behind it.
MCFilesOf == [h \in Heads |->
    CASE h = "h1" -> <<Plain("src")>>
      [] h = "h2" -> <<[filename |-> "src", previous_filename |-> "ci"]>>
      [] h = "h3" -> <<Plain("src"), Plain("doc"), Plain("ci")>>]

MCExpected == [repository |-> "mergepay", base_ref |-> "main",
               base_sha |-> "b1", author |-> "ana"]

CheckSymmetry == Permutations(REQUIRED_CHECKS)
==============================================================================
