----------------------------- MODULE MCPreKeys ------------------------------
(***************************************************************************)
(* Constants of the TLC runs of module PreKeys.                            *)
(***************************************************************************)
EXTENDS PreKeys

CONSTANTS c1, c2, f1, f2
=============================================================================
