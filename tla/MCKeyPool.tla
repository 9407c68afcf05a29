------------------------------ MODULE MCKeyPool ------------------------------
(***************************************************************************)
(* Constants of the KeyPool runs: e1 and e2 are configured, e3 is a second *)
(* entry with the value of e1.                                              *)
(***************************************************************************)
EXTENDS KeyPoolProps

CONSTANTS e1, e2, e3, c1, c2

TwoKeys == <<e1, e2>>
OneKey == <<e1>>
Values(e) == IF e = e2 THEN "v2" ELSE "v1"
CallerSymmetry == Permutations(Caller)
EntryValue == [e \in Entry |-> Values(e)]
=============================================================================
