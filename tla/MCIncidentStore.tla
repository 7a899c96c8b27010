---------------------------- MODULE MCIncidentStore ---------------------------
(***************************************************************************)
(* Model checking of IncidentStore: two threads of the API, which are      *)
(* asked for everything, and the stream worker, which reports and          *)
(* remediates. No symmetry: the two threads of the API are told apart by   *)
(* nothing, but a set of two is not worth it.                              *)
(***************************************************************************)
EXTENDS IncidentStore

CONSTANTS api1, api2, worker

HomeOf == [t \in Threads |-> IF t = worker THEN "worker" ELSE "api"]
Asked == [t \in Threads |-> IF t = worker THEN {"report", "remediate"} ELSE Ops]
===============================================================================
