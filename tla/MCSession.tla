------------------------------ MODULE MCSession ------------------------------
(***************************************************************************)
(* Instances of Session for TLC: request q is the q-th slot; TwoBrowsers   *)
(* has one tab in each, TwoTabs two tabs in one.                           *)
(***************************************************************************)
EXTENDS Session, TLC

CONSTANTS b1, b2, w1, w2, alice

OneUser == [b \in Browsers |-> alice]
TwoBrowsers == w1 :> b1 @@ w2 :> b2
TwoTabs == w1 :> b1 @@ w2 :> b1
ThreeCalls == 1 :> w1 @@ 2 :> w1 @@ 3 :> w2
CallEach == 1 :> w1 @@ 2 :> w2
=============================================================================
