--------------------------- MODULE MCTaskCreation ---------------------------
(***************************************************************************)
(* An instance of TaskCreation for TLC, with two decimals instead of seven  *)
(* and columns that hold no more than 50: "0.5", which lacks a decimal,     *)
(* just fits, and "0.51" does not.                                          *)
(***************************************************************************)
EXTENDS TaskCreation

MCRewards == {Blank,
    [whole |-> <<0>>, fraction |-> <<5>>],
    [whole |-> <<0>>, fraction |-> <<5, 1>>]}
=============================================================================
