--------------------------- MODULE MCOperationLog ---------------------------
(***************************************************************************)
(* Instances of OperationLog for TLC.  A resource has one field; v0 is     *)
(* what it holds at the start.  Every router starts with two resources, 1  *)
(* and 2, and gives 3, 4, ... to the ones it creates.                      *)
(***************************************************************************)
EXTENDS OperationLog, TLC

CONSTANTS e1, e2, e3, u1, u2, v0, v1, v2, v3

OneField == {"comment"}
ThreeVals == {v0, v1, v2}
FourVals == {v0, v1, v2, v3}
Has(v) == [f \in OneField |-> v]

MCIds == 1..8
MCFirstId == [r \in Routers |-> 3]
MCExisting == [r \in Routers |-> [id \in MCIds |-> IF id <= 2 THEN Has(v0) ELSE Absent]]
AddTo(r, v) == [router |-> r, type |-> "add", id |-> 1, body |-> Has(v)]
Modify(r, id, v) == [router |-> r, type |-> "modify", id |-> id, body |-> Has(v)]
Delete(r, id) == [router |-> r, type |-> "delete", id |-> id, body |-> Has(Unset)]

\* Two requests that name the routers in opposite orders and meet on a
\* resource of router 2.
CrossedOps == (e1 :> <<Modify(1, 1, v1), Modify(2, 1, v1)>>) @@
              (e2 :> <<Modify(2, 1, v2), AddTo(1, v2)>>)

\* The same and a request without operations.
CrossedOpsAndNone == CrossedOps @@ (e3 :> <<>>)

\* One request that changes a resource twice, removes another and adds one;
\* and one with an operation of each kind on distinct resources, two of them
\* resources of the first request.
OverlappingOps ==
    (e1 :> <<Modify(1, 1, v1), Modify(1, 1, v2), Delete(2, 1), AddTo(1, v1)>>) @@
    (e2 :> <<Modify(1, 1, v3), Delete(2, 1), AddTo(1, v2)>>)

\* One operation of each kind on distinct resources, and a request without
\* operations.
MixedOps == (e1 :> <<Modify(1, 1, v1), Delete(2, 1), AddTo(1, v2)>>) @@ (e2 :> <<>>)

=============================================================================
