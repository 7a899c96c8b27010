--------------------------- MODULE MCLakehouseTable ---------------------------
(***************************************************************************)
(* Model checking of LakehouseTable: one healed batch beside the stream    *)
(* and two maintenance runs, which may overlap.                            *)
(***************************************************************************)
EXTENDS LakehouseTable, TLC

Symmetry == Permutations(Maintainers)
===============================================================================
