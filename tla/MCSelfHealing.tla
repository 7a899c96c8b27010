----------------------------- MODULE MCSelfHealing ----------------------------
(***************************************************************************)
(* Model checking of SelfHealing: two runs of the remediation at once, the *)
(* one the validator starts and one an operator asks for. The runs are     *)
(* interchangeable and every property is about states or single steps.     *)
(***************************************************************************)
EXTENDS SelfHealing, TLC

Symmetry == Permutations(Workers)
===============================================================================
