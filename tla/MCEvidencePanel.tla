--------------------------- MODULE MCEvidencePanel ---------------------------
(***************************************************************************)
(* An instance of EvidencePanel for TLC: one worker, so requests about the  *)
(* task do not overlap.  Only the client can pay for a bounty, anybody may  *)
(* accept it.                                                               *)
(***************************************************************************)
EXTENDS EvidencePanel

CONSTANTS client, developer, verifier

MCAccounts == {client, developer, verifier}
MCFunds == [a \in MCAccounts |-> IF a = client THEN 2 ELSE 0]
MCTaskTerms == [amount |-> 1, criteria_hash |-> "c1", deadline |-> 1]
==============================================================================
