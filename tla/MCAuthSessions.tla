---------------------------- MODULE MCAuthSessions ----------------------------
(***************************************************************************)
(* An instance of AuthSessions for TLC.                                     *)
(***************************************************************************)
EXTENDS AuthSessions, TLC

AuthSymmetry == Permutations(Workers) \cup Permutations(Wallets)
===============================================================================
