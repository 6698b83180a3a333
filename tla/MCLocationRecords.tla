-------------------------- MODULE MCLocationRecords --------------------------
(* Two owners, one of them an administrator, with two locations each of       *)
(* different kinds.                                                           *)
EXTENDS LocationRecords

CONSTANTS p1, p2, d1, d2, far1, far2

MCKinds == [d \in {d1, d2} |-> IF d = d1 THEN "asset" ELSE "editor"]
MCCriteria == {{d1, d2}, {d2}}
MCMarked == {[owner |-> p2, descriptor |-> d1]}
=============================================================================
