------------------------------- MODULE MCEscrow -------------------------------
(***************************************************************************)
(* Instances of Escrow for TLC.                                             *)
(***************************************************************************)
EXTENDS Escrow

CONSTANTS client, developer, verifier

MCAccounts == {client, developer, verifier}
MCFunds == [a \in MCAccounts |-> IF a = client THEN 3 ELSE 1]
MCAmounts == -1..2
===============================================================================
