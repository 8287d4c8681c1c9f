------------------------------ MODULE MCRouter ------------------------------
(***************************************************************************)
(* Constants of the TLC runs of modules Router and RouterMailbox.  Alice   *)
(* and Bob are two users with one device each.                             *)
(***************************************************************************)
EXTENDS RouterMailbox

CONSTANTS s1, s2, alice, bob, kAlice, kBob, m1, m2

TwoUsers == [k \in Clients |-> IF k = kAlice THEN alice ELSE bob]

(* Alice sends m1 and m2 to Bob.                                           *)
FromAlice == [m \in Messages |-> kAlice]
ToBob == [m \in Messages |-> bob]

(* Bob's device sends both to its own user: what sendMessage's sync does.  *)
FromBob == [m \in Messages |-> kBob]
=============================================================================
