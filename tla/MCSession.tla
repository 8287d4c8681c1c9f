----------------------------- MODULE MCSession ------------------------------
(***************************************************************************)
(* Constants of the TLC runs of module Session: Alice and Bob, each with   *)
(* one device (a, b), or Alice with a second one (a2).                     *)
(***************************************************************************)
EXTENDS Session

CONSTANTS alice, bob, a, a2, b

OwnerOf == [d \in Devices |-> IF d = b THEN bob ELSE alice]

OneEach == [u \in Users |-> IF u = bob THEN <<b>> ELSE <<a>>]

(* The bundles come with the newest device first.                          *)
TwoAndOne == [u \in Users |-> IF u = bob THEN <<b>> ELSE <<a2, a>>]

(* How many texts each device sends.                                       *)
TwoAndNone == [d \in Devices |-> IF d = a THEN 2 ELSE 0]
TwoAndOneBack == [d \in Devices |-> IF d = a THEN 2 ELSE IF d = b THEN 1 ELSE 0]
ThreeAndNone == [d \in Devices |-> IF d = a THEN 3 ELSE 0]
=============================================================================
