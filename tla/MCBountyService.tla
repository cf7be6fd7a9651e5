--------------------------- MODULE MCBountyService ---------------------------
(***************************************************************************)
(* Instances of BountyService for TLC: requests of two workers about one    *)
(* task, on two base commits.  Only the client can pay for a bounty, with   *)
(* the task's reward or another; anybody may accept it.                     *)
(***************************************************************************)
EXTENDS BountyService, TLC

CONSTANTS client, developer, verifier

MCAccounts == {client, developer, verifier}
MCFunds == [a \in MCAccounts |->
                IF a = client THEN 2 ELSE 0]
MCTaskTerms == [amount |-> 1, criteria_hash |-> "c1", deadline |-> 1]

\* No definition tells two workers or two commits of one branch apart.
MCSymmetry == Permutations(Workers) \cup Permutations(BaseShas) \cup Permutations(Heads)
==============================================================================
